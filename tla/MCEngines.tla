------------------------------ MODULE MCEngines ------------------------------
(* What the engines of Backstage drive for TLC, on small sets: the rounds of    *)
(* the AWS Config provider, by the engine of incremental ingestion, and the     *)
(* actions of the templates, by the task workers.  Either may fail, be lost and *)
(* be done again, and they share nothing: a behaviour is that of one of them.   *)
EXTENDS ConfigIngestion, MCScaffolderSteps

CONSTANTS web, db

TwoNames == {web, db}

\* A resource with a name, one of the same name that does not become a valid
\* entity, one without a name, and one a transform renames.
Broken == [name |-> web, renamed |-> Unnamed, valid |-> FALSE]
FourRecords ==
  {[name |-> web, renamed |-> Unnamed, valid |-> TRUE],
   Broken,
   [name |-> Unnamed, renamed |-> Unnamed, valid |-> TRUE],
   [name |-> web, renamed |-> db, valid |-> TRUE]}

VARIABLE driver  \* the one of this behaviour
enginesVars == <<driver, vars, stepVars>>

OfCatalog(step) == driver = "catalog" /\ step /\ UNCHANGED <<driver, stepVars>>
OfScaffolder(step) == driver = "scaffolder" /\ step /\ UNCHANGED <<driver, vars>>

\* The one that plays no role is at one of its starts.
EnginesInit ==
  /\ Init /\ StepInit
  /\ \/ driver = "catalog" /\ repo = None /\ input.action = "event"
        /\ ~input.detail /\ ~input.token /\ ~input.wait /\ ~input.source
     \/ driver = "scaffolder" /\ account = [r \in Resources |-> Broken]

EnginesNext == OfCatalog(Next) \/ OfScaffolder(StepNext)

\* The fairness of FairSpec.
EnginesFairness ==
  /\ SF_enginesVars(OfCatalog(Query)) /\ SF_enginesVars(OfCatalog(Deliver))
  /\ WF_enginesVars(OfCatalog(RoundFails)) /\ WF_enginesVars(OfCatalog(Retry))
  /\ WF_enginesVars(OfCatalog(NextRound))

EnginesSpec == EnginesInit /\ [][EnginesNext]_enginesVars /\ EnginesFairness
==============================================================================
