--------------------------- MODULE FindingAssistant ---------------------------
(***************************************************************************)
(* What the Security Hub card of EntityCards leads to: its filters, the    *)
(* drawer and the modal of a finding, the request the modal makes, and the *)
(* assistant route of the backend with its cache and the agent it asks.    *)
(*                                                                         *)
(* A viewer filters, opens a modal, asks, closes it and opens another one; *)
(* requests stay in flight meanwhile, and their answers and the writes of  *)
(* the cache land in any order.  The composition with the card is in the   *)
(* page's steps: the modal lives only while the card shows findings, is    *)
(* given the entity now on the page, and goes when the card goes.          *)
(***************************************************************************)
EXTENDS EntityCards, FiniteSets

CONSTANTS
  Findings,      \* records [id, severity, account, types], three sets of values
  MaxRequests,   \* bound on the requests to the assistant
  AgentEnabled,  \* aws.securityHub.agent.enabled
  None           \* no finding, no answer, no entry

ASSUME MaxRequestsAssumption == MaxRequests \in Nat
ASSUME AgentEnabledAssumption == AgentEnabled \in BOOLEAN

VARIABLES
  filters,   \* severityFilter, accountFilter and resourceTypeFilter
  selected,  \* selectedFinding: the finding in the drawer
  modal,     \* the finding whose AssistantModal is open
  reply,     \* loading, error and response of the modal's hook
  requests,  \* the POSTs made: [entity, finding, at, waits, writes, result]
  cache      \* the CacheService of the plugin, by key

assistantVars == <<filters, selected, modal, reply, requests, cache>>

Ids == {f.id : f \in Findings}
Facets == {"severity", "account", "types"}
NoFilters == [x \in Facets |-> {}]
EntityNames == {e.name : e \in Entities}

\* The entity's namespace, kind and name and the finding's Id.
\* Mutant: the key is the entity's alone.
KeyOfEntity(e, f) == <<e>>
CacheKey(e, f) == <<e, f>>

\* An empty output makes "Analysis not available", which is kept like any other.
Analyses == [entity : EntityNames, finding : Ids]
Closed == [at |-> "closed", answer |-> None]
Idle == [at |-> "idle", answer |-> None]

-----------------------------------------------------------------------------
(* The findings card. *)

HubShown == card = "securityHub" /\ View = "findings"

\* uniqueSeverities, uniqueAccounts and uniqueResourceTypes: the chips shown,
\* none for what a finding does not say.
Chips(x) == UNION {f[x] : f \in Findings}

Matches(f) == \A x \in Facets : filters[x] = {} \/ f[x] \cap filters[x] # {}
FilteredData == {f \in Findings : Matches(f)}

\* The charts count the filtered findings by severity, account and region.
ChartData(x) ==
  [k \in {f[x] : f \in FilteredData} |-> Cardinality({f \in FilteredData : f[x] = k})]
SeverityChart == ChartData("severity")
AccountChart == ChartData("account")

\* The table: its rows, and the count in the title when rows are hidden.
Rows == {f.id : f \in FilteredData}
RowsHidden == FilteredData # Findings

HubContent ==
  [severity |-> SeverityChart, account |-> AccountChart, rows |-> Rows, hidden |-> RowsHidden]

ToggleFilter ==
  /\ HubShown /\ modal = None
  /\ \E x \in Facets, v \in UNION {Chips(y) : y \in Facets} :
       /\ v \in Chips(x)
       /\ filters' = [filters EXCEPT ![x] = IF v \in @ THEN @ \ {v} ELSE @ \cup {v}]
  /\ UNCHANGED <<cardVars, selected, modal, reply, requests, cache>>

ClearAllFilters ==
  /\ HubShown /\ modal = None /\ filters # NoFilters
  /\ filters' = NoFilters
  /\ UNCHANGED <<cardVars, selected, modal, reply, requests, cache>>

\* The drawer is open as long as a finding is selected; it and the modal lie
\* over the page, so the page itself takes no clicks meanwhile.
SelectRow ==
  /\ HubShown /\ selected = None /\ modal = None
  /\ selected' \in Rows
  /\ UNCHANGED <<cardVars, filters, modal, reply, requests, cache>>

CloseDrawer ==
  /\ selected # None /\ selected' = None
  /\ UNCHANGED <<cardVars, filters, modal, reply, requests, cache>>

OpenModal ==
  /\ HubShown /\ selected = None /\ modal = None
  /\ modal' \in Rows /\ reply' = Idle
  /\ UNCHANGED <<cardVars, filters, selected, requests, cache>>

\* Modal unmounts its content: the answer of its request finds nobody.
CloseModal ==
  /\ modal # None /\ modal' = None /\ reply' = Closed
  /\ UNCHANGED <<cardVars, filters, selected, requests, cache>>

\* "Ask AI" enables the hook, once in the life of the content.
Ask ==
  /\ modal # None /\ reply = Idle /\ Len(requests) < MaxRequests
  /\ reply' = [at |-> "loading", answer |-> None]
  /\ requests' = Append(requests,
       [entity |-> entity.name, finding |-> modal,
        at |-> "sent", waits |-> TRUE, writes |-> FALSE, result |-> None])
  /\ UNCHANGED <<cardVars, filters, selected, modal, cache>>

-----------------------------------------------------------------------------
(* The route. *)

ToServer == UNCHANGED <<cardVars, filters, selected, modal, reply>>

Result(q) == [entity |-> q.entity, finding |-> q.finding]

\* 501 when the agent is disabled, 500 when the lookup fails, else what is cached.
Lookup(i) ==
  LET q == requests[i]
      hit == cache[CacheKey(q.entity, q.finding)] IN
  /\ q.at = "sent"
  /\ \/ requests' = [requests EXCEPT ![i].at = "refused"]
     \/ /\ AgentEnabled
        /\ requests' = [requests EXCEPT ![i].at = IF hit = None THEN "missed" ELSE "answered",
                                        ![i].result = hit]
  /\ cache' = cache /\ ToServer

\* Mutant: what the agent answers is stored before it is looked at.
AnalyseAnyhow(i) ==
  /\ requests[i].at = "missed"
  /\ \E told \in {"answered", "refused"} :
       requests' = [requests EXCEPT ![i].at = told, ![i].writes = TRUE,
                                    ![i].result = Result(requests[i])]
  /\ cache' = cache /\ ToServer

\* The agent answers, be the output empty, or credentials, token,
\* request or agent fail.  The write of the cache is not awaited.
Analyse(i) ==
  /\ requests[i].at = "missed"
  /\ \/ requests' = [requests EXCEPT ![i].at = "answered", ![i].writes = TRUE,
                                       ![i].result = Result(requests[i])]
     \/ requests' = [requests EXCEPT ![i].at = "refused"]
  /\ cache' = cache /\ ToServer

\* The write lands or fails unseen, before the answer arrives or long after.
Write(i) ==
  LET q == requests[i] IN
  /\ q.writes /\ requests' = [requests EXCEPT ![i].writes = FALSE]
  /\ \/ cache' = [cache EXCEPT ![CacheKey(q.entity, q.finding)] = q.result]
     \/ cache' = cache
  /\ ToServer

\* Entries expire, and a restart empties a cache in memory.
Expire ==
  /\ \E k \in DOMAIN cache : cache[k] # None /\ cache' = [cache EXCEPT ![k] = None]
  /\ requests' = requests /\ ToServer

-----------------------------------------------------------------------------
(* Back in the browser. *)

\* Only the request of the content now mounted changes what it shows.
OfThisModal(i) == modal # None /\ reply.at = "loading" /\ i = Len(requests)

\* Mutant: an answer is shown by whatever modal waits for one.
ArriveAnywhere(i) ==
  LET q == requests[i] IN
  /\ q.waits /\ q.at \in {"answered", "refused"}
  /\ requests' = [requests EXCEPT ![i].waits = FALSE]
  /\ reply' = IF ~(modal # None /\ reply.at = "loading") THEN reply
              ELSE IF q.at = "answered" THEN [at |-> "response", answer |-> q.result]
              ELSE [at |-> "error", answer |-> None]
  /\ UNCHANGED <<cardVars, filters, selected, modal, cache>>

\* The client turns what is not ok into an Error with the body's message.
Arrive(i) ==
  LET q == requests[i] IN
  /\ q.waits /\ q.at \in {"answered", "refused"}
  /\ requests' = [requests EXCEPT ![i].waits = FALSE]
  /\ reply' = IF ~OfThisModal(i) THEN reply
              ELSE IF q.at = "answered" THEN [at |-> "response", answer |-> q.result]
              ELSE [at |-> "error", answer |-> None]
  /\ UNCHANGED <<cardVars, filters, selected, modal, cache>>

Serve(i) == Lookup(i) \/ Analyse(i) \/ Write(i) \/ Arrive(i)

\* What the modal shows below its button.
ModalView ==
  CASE reply.at = "closed" -> "nothing"
    [] reply.at = "idle" -> "ask"
    [] reply.at = "loading" -> "progress"
    [] reply.at = "error" -> "error"
    [] reply.at = "response" -> "markdown"

-----------------------------------------------------------------------------
(* The page: the card's steps take the content of the findings card along. *)

\* The content is rendered anew with each value of the card and goes with the
\* card: filters, drawer and modal with it.
Follow ==
  /\ UNCHANGED <<requests, cache>>
  /\ IF mounted' /\ value' = value
     THEN UNCHANGED <<filters, selected, modal, reply>>
     ELSE filters' = NoFilters /\ selected' = None /\ modal' = None /\ reply' = Closed

\* A modal or a drawer covers the links of the page but not the back button.
CardStep == CardsNext /\ Follow

AssistantStep ==
  \/ ToggleFilter \/ ClearAllFilters \/ SelectRow \/ CloseDrawer
  \/ OpenModal \/ CloseModal \/ Ask
  \/ Expire
  \/ \E i \in 1..Len(requests) : Serve(i)

PagesInit ==
  /\ CardsInit
  /\ filters = NoFilters /\ selected = None /\ modal = None /\ reply = Closed
  /\ requests = <<>>
  /\ cache = [k \in {CacheKey(e, f) : e \in EntityNames, f \in Ids} |-> None]

PagesNext == CardStep \/ (card = "securityHub" /\ AssistantStep)

pagesVars == <<cardVars, assistantVars>>

\* Requests and runs are answered; nobody has to click.
PagesFairness ==
  /\ \A i \in 1..MaxRuns : WF_pagesVars(i \in 1..Len(runs) /\ Settle(i) /\ Follow)
  /\ \A i \in 1..MaxRequests :
       WF_pagesVars(i \in 1..Len(requests) /\ card = "securityHub"
                      /\ (Lookup(i) \/ Analyse(i) \/ Arrive(i)))

PagesSpec == PagesInit /\ [][PagesNext]_pagesVars /\ PagesFairness

-----------------------------------------------------------------------------
(* Properties. *)

Requests ==
  [entity : EntityNames, finding : Ids,
   at : {"sent", "missed", "answered", "refused"}, waits : BOOLEAN, writes : BOOLEAN,
   result : Analyses \cup {None}]

\* Types of all variables, and the modal is there only over the findings.
PagesTypeOK ==
  /\ CardsTypeOK
  /\ filters \in [Facets -> SUBSET UNION {Chips(x) : x \in Facets}]
  /\ selected \in Ids \cup {None} /\ modal \in Ids \cup {None}
  /\ reply \in [at : {"closed", "idle", "loading", "error", "response"},
                answer : Analyses \cup {None}]
  /\ requests \in Seq(Requests) /\ Len(requests) <= MaxRequests
  /\ cache \in [{CacheKey(e, f) : e \in EntityNames, f \in Ids} -> Analyses \cup {None}]

\* The analysis in a modal is of the modal's finding, through a cache that
\* requests of other findings and of other pages fill meanwhile, and late
\* answers of modals that were closed.
AnalysisIsOfFinding ==
  reply.at = "response" => reply.answer.finding = modal

\* What the cache answers with is what some request was answered with: an error
\* is never stored, and an entry is of the entity and finding of its key.
CachedWasAnswered ==
  \A e \in EntityNames, f \in Ids :
    LET hit == cache[CacheKey(e, f)] IN
    hit # None =>
      \E i \in 1..Len(requests) :
        /\ requests[i].at = "answered" /\ requests[i].result = hit
        /\ hit.entity = e /\ hit.finding = f
=============================================================================
