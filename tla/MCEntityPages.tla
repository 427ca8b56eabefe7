---------------------------- MODULE MCEntityPages ----------------------------
(* What an entity page shows of AWS for TLC, on small sets: the cards and the   *)
(* assistant in the browser, and the reads of the backends behind them.  A card *)
(* takes any answer or failure for its request, so a behaviour is that of one   *)
(* of the two sides.                                                            *)
EXTENDS FindingAssistant, MCEntityReads

CONSTANTS f1, f2

\* Two pages that keep their cards when one links to the other, and one without
\* the tabs, whose two annotations together count as none.
MCEntities ==
  {[name |-> "shop", type |-> "service", annotations |-> {"tags"}],
   [name |-> "site", type |-> "website", annotations |-> {"tags", "legacy"}],
   [name |-> "tool", type |-> "other", annotations |-> {"arn"}]}
MCPeriods == {"P30D", "P90D"}
MCFindings ==
  {[id |-> f1, severity |-> {"HIGH"}, account |-> {}, types |-> {}],
   [id |-> f2, severity |-> {}, account |-> {}, types |-> {}]}

VARIABLE side  \* the side of this behaviour
entityVars == <<side, pagesVars, readsVars>>

OfPage(step) == side = "page" /\ step /\ UNCHANGED <<side, readsVars>>
OfReads(step) == side = "reads" /\ step /\ UNCHANGED <<side, pagesVars>>

\* The side that plays no role is at one of its starts.  An entity without tags in
\* its annotations starts with all or no resource tagged, to bound the instance.
EntityInit ==
  /\ PagesInit /\ ReadsInit
  /\ \/ side = "page" /\ request.op = "findings" /\ locator = "awsConfig"
        /\ annotated.names = {} /\ tagged = {}
     \/ side = "reads" /\ card = "costPage" /\ entity.name = "shop"
        /\ ("tags" \notin annotated.names => tagged \in {{}, alive})

EntityNext == OfPage(PagesNext) \/ OfReads(ReadsNext)

\* The fairness of PagesSpec.
EntityFairness ==
  /\ \A i \in 1..MaxRuns : WF_entityVars(OfPage(i \in 1..Len(runs) /\ Settle(i) /\ Follow))
  /\ \A i \in 1..MaxRequests :
       WF_entityVars(OfPage(i \in 1..Len(requests) /\ card = "securityHub"
                              /\ (Lookup(i) \/ Analyse(i) \/ Arrive(i))))

EntitySpec == EntityInit /\ [][EntityNext]_entityVars /\ EntityFairness
==============================================================================
