----------------------------- MODULE EntityCards -----------------------------
(***************************************************************************)
(* The cards the plugins have for an entity page and the two cost pages: a *)
(* component, the effect that fetches what it shows, and the state React   *)
(* keeps for it between renders.                                           *)
(*                                                                         *)
(* All cards are one machine that differs in a few ways, each a definition *)
(* below: the annotations a card asks for, what its effect watches, what a *)
(* start, an answer and a failure of a run do to its state, and what a     *)
(* render makes of that state.  A behaviour is the life of one card, since *)
(* cards share nothing.  An effect that re-runs leaves the earlier request *)
(* in flight; its answer comes in any order.                               *)
(*                                                                         *)
(* A value names the entity and the period it was computed for and the     *)
(* number of resources in it; layout and wording are left out.             *)
(***************************************************************************)
EXTENDS Naturals, Sequences

CONSTANTS
  Entities,  \* the entities navigated between: [name, type, annotations], the type
             \* deciding on the page
  Periods,   \* the periods RichPeriodSelect offers
  FirstPeriod,  \* the one it starts with
  MaxRuns,   \* bound on the runs of the card's effect
  NoValue    \* undefined or null: nothing was fetched

HookCards ==
  {"ecsServices", "ecrImages", "ecrScan", "pipelineExecutions", "securityHub",
   "pipelineState", "codebuildProjects"}
CostCards == {"entityCost", "costPage"}
ClusterCards == {"entityCluster", "globalCluster", "k8sShare"}
Cards == HookCards \cup CostCards \cup ClusterCards

Annotations == {"arn", "legacy", "tags"}

ASSUME EntitiesAssumption ==
  /\ Entities # {} /\ FirstPeriod \in Periods
  /\ \A e \in Entities :
       e.annotations \subseteq Annotations /\ e.type \in {"service", "website", "organization", "other"}
ASSUME MaxRunsAssumption == MaxRuns \in Nat \ {0}

VARIABLES
  card,     \* the card of this behaviour
  offered,  \* the CostInsightsApi of this app has getCatalogEntityDailyCost
  entity,   \* the entity the page is about
  period,   \* the period chosen on the card, its label too
  mounted,  \* the card's component is mounted
  since,    \* history: the entity it was mounted with
  loading,  \* loading of the hook or of useState
  failed,   \* error is set
  value,    \* the value of the hook or of useState
  chosen,   \* which of several resources the select or the tabs show, or whose
            \* task is in the drawer, 0 for none
  runs      \* the runs of the effect, each [entity, period, at]

cardVars == <<card, offered, entity, period, mounted, since, loading, failed, value, chosen, runs>>

Values == {NoValue} \cup
  [of : {e.name : e \in Entities}, period : Periods, n : 0..2]

-----------------------------------------------------------------------------
(* What the entity page mounts. *)

\* getOneOfEntityAnnotations finds an annotation only when exactly one of the
\* targets is there.
OneAnnotation(e, targets) == \E a \in targets : e.annotations \cap targets = {a}

EcsAvailable(e) == OneAnnotation(e, {"arn", "tags"})
EcrAvailable(e) == OneAnnotation(e, {"arn", "tags"})
CodePipelineAvailable(e) == OneAnnotation(e, {"arn", "tags", "legacy"})
CodeBuildAvailable(e) == OneAnnotation(e, {"arn", "tags", "legacy"})
SecurityHubAvailable(e) == OneAnnotation(e, {"tags"})

\* The overview is on every page; the other tabs are on a service's or a website's.
OverviewCards == {"pipelineState", "codebuildProjects"}
CicdCard(e) == IF CodePipelineAvailable(e) THEN {"pipelineExecutions"} ELSE {}
ServiceCards(e) ==
  OverviewCards \cup CicdCard(e) \cup {"ecsServices", "securityHub"}
WebsiteCards(e) == ServiceCards(e) \cup {"ecrImages", "ecrScan"}

\* The pages of APIs, groups, users, systems and domains have no such card.
OrganizationCards == {}

PageCards(e) ==
  CASE e.type = "service" -> ServiceCards(e)
    [] e.type = "website" -> WebsiteCards(e)
    [] e.type = "organization" -> OrganizationCards
    [] OTHER -> OverviewCards

\* A router or card renders MissingAnnotationEmptyState in place of its content.
Passes(c, e) ==
  CASE c = "ecsServices" -> EcsAvailable(e)
    [] c \in {"ecrImages", "ecrScan"} -> EcrAvailable(e)
    [] c \in {"pipelineExecutions", "pipelineState"} -> CodePipelineAvailable(e)
    [] c = "codebuildProjects" -> CodeBuildAvailable(e)
    [] c = "securityHub" -> SecurityHubAvailable(e)
    [] OTHER -> TRUE

\* What the cost plugin exports: two pages, and content for the entity pages of an
\* app.  The app of this repository has the community plugin's of the same names.
OffEntityPage == {"costPage", "globalCluster"}
CostContent == {"entityCost", "entityCluster", "k8sShare"}

Mounts(c, e) == c \in OffEntityPage \cup CostContent \/ (c \in PageCards(e) /\ Passes(c, e))

-----------------------------------------------------------------------------
(* The effects. *)

\* The hooks of the AWS plugins are useAsyncRetry(..., []): nothing re-runs them.
\* The cost effects list what they read.
Watched(c) ==
  CASE c = "entityCost" -> {"entity", "period"}
    [] c = "costPage" -> {"period"}
    [] c \in {"entityCluster", "k8sShare"} -> {"entity"}
    [] OTHER -> {}

\* The request a run begins with: the cost page asks for its group first, and the
\* entity's costs are not asked of a client without the optional method.
FirstRequest(c) ==
  CASE c = "costPage" -> "groups"
    [] c = "entityCost" /\ ~offered -> "none"
    [] OTHER -> "figures"
NewRun(e, p) == [entity |-> e.name, period |-> p, at |-> FirstRequest(card)]

Current(i) == mounted /\ i = Len(runs)

FirstChosen == IF card = "ecsServices" THEN 0 ELSE 1

\* The initial state of the component: useState(true) or the hook's own.
Mount(e) ==
  /\ mounted' = TRUE /\ since' = e.name /\ period' = FirstPeriod
  /\ loading' = (card # "k8sShare") /\ failed' = FALSE
  /\ value' = NoValue /\ chosen' = FirstChosen
  /\ runs' = Append(runs, NewRun(e, FirstPeriod))

\* Mutant: the cost card is not marked as loading again.
StartUnmarked(e, p) ==
  /\ runs' = Append(runs, NewRun(e, p))
  /\ UNCHANGED <<mounted, since, chosen, loading, failed, value>>

\* Whose effect marks the card as loading again: that of the entity's costs returns
\* before it does, without the method.
Marks == HookCards \cup {"costPage"} \cup IF offered THEN {"entityCost"} ELSE {}

\* A watched value changed: the previous run's cleanup, then the effect again.
Start(e, p) ==
  /\ runs' = Append(runs, NewRun(e, p))
  /\ loading' = (loading \/ card \in Marks)
  /\ failed' = (failed /\ card \notin CostCards \cap Marks)
  /\ UNCHANGED <<mounted, since, chosen, value>>

Unmount == mounted' = FALSE /\ UNCHANGED <<since, loading, failed, value, chosen, runs>>

Still == UNCHANGED <<mounted, since, loading, failed, value, chosen, runs>>

-----------------------------------------------------------------------------
(* What a render makes of the state. *)

ErrorFirst(shown) == IF failed THEN "error" ELSE IF loading THEN "progress" ELSE shown
ValueFirst(shown) ==
  IF value # NoValue THEN shown ELSE IF failed THEN "error" ELSE "progress"

EcsServicesView == ErrorFirst(IF value.n > 0 THEN "clusters" ELSE "missing")
EcrImagesView ==
  ErrorFirst(CASE value.n = 0 -> "missing" [] value.n = 1 -> "table" [] OTHER -> "select")
EcrScanView == ErrorFirst("findings")
PipelineExecutionsView ==
  ErrorFirst(CASE value.n = 0 -> "missing" [] value.n = 1 -> "table" [] OTHER -> "select")
SecurityHubView == ErrorFirst("findings")
PipelineStateView ==
  ValueFirst(CASE value.n = 0 -> "missing" [] value.n = 1 -> "pipeline" [] OTHER -> "tabs")
CodeBuildView ==
  ValueFirst(CASE value.n = 0 -> "missing" [] value.n = 1 -> "project" [] OTHER -> "tabs")

\* The cost cards show their totals whatever the state, and a chart below.
Chart == IF loading THEN "progress" ELSE IF value = NoValue \/ value.n = 0 THEN "no data" ELSE "chart"
EntityCostView == Chart
CostPageView == Chart
EntityClusterView ==
  IF loading THEN "progress" ELSE IF value = NoValue \/ value.n = 0 THEN "no workload" ELSE "costs"
GlobalClusterView ==
  IF loading THEN "progress" ELSE IF value = NoValue \/ value.n = 0 THEN "no workload" ELSE "namespaces"

View ==
  IF ~mounted THEN "nothing" ELSE
  CASE card = "ecsServices" -> EcsServicesView
    [] card = "ecrImages" -> EcrImagesView
    [] card = "ecrScan" -> EcrScanView
    [] card = "pipelineExecutions" -> PipelineExecutionsView
    [] card = "securityHub" -> SecurityHubView
    [] card = "pipelineState" -> PipelineStateView
    [] card = "codebuildProjects" -> CodeBuildView
    [] card = "entityCost" -> EntityCostView
    [] card = "costPage" -> CostPageView
    [] card = "entityCluster" -> EntityClusterView
    [] card = "globalCluster" -> GlobalClusterView
    [] card = "k8sShare" -> IF value = NoValue THEN "cloud only" ELSE "breakdown"

-----------------------------------------------------------------------------
(* Steps. *)

\* The first render of the page.
Open ==
  /\ ~mounted /\ Mounts(card, entity) /\ Len(runs) < MaxRuns
  /\ Mount(entity)
  /\ UNCHANGED <<card, offered, entity>>

\* Navigation to another entity keeps the components both pages have.
Navigate ==
  /\ card \notin OffEntityPage /\ Len(runs) < MaxRuns
  /\ \E e \in Entities \ {entity} :
       /\ entity' = e
       /\ \/ mounted /\ ~Mounts(card, e) /\ Unmount
          \/ mounted /\ Mounts(card, e) /\ "entity" \in Watched(card) /\ Start(e, period)
          \/ mounted /\ Mounts(card, e) /\ "entity" \notin Watched(card) /\ Still
          \/ ~mounted /\ Still
  /\ UNCHANGED <<card, offered, period>>

Leave == mounted /\ Unmount /\ UNCHANGED <<card, offered, entity, period>>

\* RichPeriodSelect hands the intervals and their label on together.
ChoosePeriod ==
  /\ card \in CostCards /\ mounted /\ Len(runs) < MaxRuns
  /\ \E p \in Periods \ {period} :
       /\ period' = p
       /\ Start(entity, p)
  /\ UNCHANGED <<card, offered, entity>>

\* The select of the ECR and CodePipeline contents, the tabs of the overview cards.
Choose ==
  /\ View \in {"select", "tabs"}
  /\ \E k \in 1..value.n : chosen' = k
  /\ UNCHANGED <<card, offered, entity, period, mounted, since, loading, failed, value, runs>>

\* EcsDrawer, which covers the card while it is open: one of a task of a service.
ToggleDrawer ==
  /\ View = "clusters"
  /\ IF chosen = 0 THEN chosen' \in 1..value.n ELSE chosen' = 0
  /\ UNCHANGED <<card, offered, entity, period, mounted, since, loading, failed, value, runs>>

At(i, step) == runs' = [runs EXCEPT ![i].at = step]

\* The identity and the groups are in; the run goes on whether it is current or not.
GroupKnown(i) ==
  /\ runs[i].at = "groups" /\ At(i, "figures")
  /\ UNCHANGED <<card, offered, entity, period, mounted, since, loading, failed, value, chosen>>

\* Mutant: nothing tells a late answer from the last run's.
AnsweredAnyhow(i) ==
  \E n \in 0..2 :
    /\ value' = [of |-> runs[i].entity, period |-> runs[i].period, n |-> n]
    /\ failed' = (failed /\ card \notin HookCards)
    /\ loading' = FALSE

\* A response.  A hook drops all but its last call, an effect what follows its cleanup.
Answered(i) ==
  \E n \in 0..2 :
    LET v == [of |-> runs[i].entity, period |-> runs[i].period, n |-> n] IN
    /\ value' =
         CASE ~Current(i) -> value
           [] card = "k8sShare" /\ n = 0 -> value
           [] OTHER -> v
    /\ failed' = (failed /\ ~(Current(i) /\ card \in HookCards))
    /\ loading' = (loading /\ ~Current(i))

Answer(i) ==
  /\ runs[i].at = "figures" /\ At(i, "answered") /\ Answered(i)
  /\ UNCHANGED <<card, offered, entity, period, mounted, since, chosen>>

\* OpenCost answered without data: the cluster cards keep what they have.
NoData(i) ==
  /\ card \in ClusterCards /\ runs[i].at = "figures" /\ At(i, "no data")
  /\ loading' = (loading /\ ~Current(i))
  /\ UNCHANGED <<card, offered, entity, period, mounted, since, failed, value, chosen>>

\* Mutant: only the success path of the cost effect ends the loading.
FailedLoading(i) ==
  /\ failed' = (failed \/ (Current(i) /\ card \notin ClusterCards))
  /\ loading' = (loading /\ ~(Current(i) /\ card \notin CostCards))
  /\ value' = IF Current(i) /\ card \in HookCards THEN NoValue ELSE value

\* A rejection.  A hook forgets its value, the cost cards keep theirs under an
\* alert, the cluster cards log it or swallow it.
Failed(i) ==
  /\ failed' = (failed \/ (Current(i) /\ card \notin ClusterCards))
  /\ loading' = (loading /\ ~Current(i))
  /\ value' = IF Current(i) /\ card \in HookCards THEN NoValue ELSE value

Fail(i) ==
  /\ runs[i].at \in {"groups", "figures"} /\ At(i, "failed") /\ Failed(i)
  /\ UNCHANGED <<card, offered, entity, period, mounted, since, chosen>>

Settle(i) == GroupKnown(i) \/ Answer(i) \/ NoData(i) \/ Fail(i)

CardsInit ==
  /\ card \in Cards /\ entity \in Entities /\ period = FirstPeriod
  /\ offered \in BOOLEAN /\ (card # "entityCost" => offered)
  /\ mounted = FALSE /\ since = entity.name
  /\ loading = FALSE /\ failed = FALSE /\ value = NoValue /\ chosen = FirstChosen
  /\ runs = <<>>

CardsNext ==
  \/ Open \/ Navigate \/ Leave \/ ChoosePeriod \/ Choose \/ ToggleDrawer
  \/ \E i \in 1..Len(runs) : Settle(i)

\* The network answers or fails every request, sooner or later.
CardsFairness == \A i \in 1..MaxRuns : WF_cardVars(i \in 1..Len(runs) /\ Settle(i))

CardsSpec == CardsInit /\ [][CardsNext]_cardVars /\ CardsFairness

-----------------------------------------------------------------------------
(* Properties. *)

Steps == {"none", "groups", "figures", "answered", "no data", "failed"}

\* Types of all variables.
CardsTypeOK ==
  /\ card \in Cards /\ offered \in BOOLEAN /\ entity \in Entities /\ period \in Periods
  /\ mounted \in BOOLEAN /\ loading \in BOOLEAN /\ failed \in BOOLEAN
  /\ since \in {e.name : e \in Entities}
  /\ value \in Values /\ chosen \in 0..2
  /\ runs \in Seq([entity : {e.name : e \in Entities}, period : Periods, at : Steps])
  /\ Len(runs) <= MaxRuns

\* A card whose last run was answered shows that run's figures: for the entity
\* and under the period now on the page where its effect watches them, for the
\* entity it was mounted with where it does not, however the answers of earlier
\* runs come in between.  The Kubernetes share of the cost card is not covered:
\* it is never reset, so an entity without a workload inherits the last one.
ShownIsCurrent ==
  mounted /\ runs[Len(runs)].at = "answered" /\ card # "k8sShare" =>
    /\ ~loading /\ ~failed
    /\ value.of = IF "entity" \in Watched(card) \/ card \in OffEntityPage THEN entity.name ELSE since
    /\ "period" \in Watched(card) => value.period = period

\* While the figures of a cost card are not those of the period in its label,
\* the card says so: it is loading or shows an alert.
StaleIsTold ==
  mounted /\ card \in CostCards /\ value # NoValue =>
    loading \/ failed \/ (value.period = period /\ value.of = entity.name)

\* Loading ends, in an answer or in an error, however often the effect re-runs, if
\* the client has what the card asks for: the card of the entity's costs loads for
\* ever with one that does not (the early return of its effect).
LoadingEnds == mounted /\ loading /\ FirstRequest(card) # "none" ~> ~mounted \/ ~loading
=============================================================================
