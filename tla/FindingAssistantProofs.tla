------------------------- MODULE FindingAssistantProofs -------------------------
(* Proofs of the safety of EntityCards and FindingAssistant, for any entities,     *)
(* periods, findings and number of requests.                                       *)
EXTENDS FindingAssistant, TLAPS

\* The state of the last run of the card's effect.
Newest == runs[Len(runs)]

\* A card that is there has run its effect for what is on the page now, as far as
\* the effect watches it, and for what was on the page at the mount otherwise.
RunOfPage ==
  mounted =>
    /\ runs # <<>>
    /\ Newest.entity =
         IF "entity" \in Watched(card) \/ card \in OffEntityPage THEN entity.name ELSE since
    /\ "period" \in Watched(card) => Newest.period = period

\* While that run is under way a cost card is loading and no error is left of an
\* earlier one; after it failed there is one.
RunIsTold ==
  /\ card \in ClusterCards => ~failed
  /\ mounted /\ Newest.at \in {"none", "groups", "figures"} =>
       ~failed /\ (card \in CostCards => loading)
  /\ mounted /\ Newest.at = "no data" => card \in ClusterCards
  /\ mounted /\ Newest.at = "failed" /\ card \in CostCards => failed

\* An answered run left its own figures.
RunIsShown ==
  mounted /\ Newest.at = "answered" /\ card # "k8sShare" =>
    ~loading /\ ~failed /\ value.of = Newest.entity /\ value.period = Newest.period

\* A hook that is neither loading nor failed has a value: what a card reads of it
\* by its non-null assertion (response!) is there.
Figures == [of : EntityNames, period : Periods, n : 0..2]
HookHasValue == mounted /\ card \in HookCards /\ ~loading /\ ~failed => value \in Figures

\* Only the card of the entity's costs can miss its method, and then no run of its
\* effect makes a request.
Unasked == offered \/ (card = "entityCost" /\ (mounted => Newest.at = "none"))

CardTypes ==
  /\ card \in Cards /\ offered \in BOOLEAN /\ entity \in Entities /\ period \in Periods
  /\ mounted \in BOOLEAN /\ loading \in BOOLEAN /\ failed \in BOOLEAN
  /\ since \in EntityNames
  /\ value \in Values /\ chosen \in 0..2
  /\ runs \in Seq([entity : EntityNames, period : Periods, at : Steps])
  /\ Len(runs) <= MaxRuns

CardsInv == CardTypes /\ RunOfPage /\ RunIsTold /\ RunIsShown /\ HookHasValue /\ Unasked

-----------------------------------------------------------------------------
(* The card. *)

\* An entity goes by its name.
LEMMA EntityNamed == ASSUME NEW e \in Entities PROVE e.name \in EntityNames
  BY DEF EntityNames

\* The request a run begins with is one of the steps of a run.
LEMMA RunType ==
  ASSUME card \in Cards, NEW e \in Entities, NEW p \in Periods
  PROVE  /\ NewRun(e, p) \in [entity : EntityNames, period : Periods, at : Steps]
         /\ NewRun(e, p).entity = e.name /\ NewRun(e, p).period = p
         /\ offered => NewRun(e, p).at \in {"groups", "figures"}
         /\ ~offered /\ card = "entityCost" => NewRun(e, p).at = "none"
         /\ NewRun(e, p).at \in {"none", "groups", "figures"}
  BY EntityNamed DEF NewRun, FirstRequest, Steps

\* What the effect of each card depends on.
LEMMA WatchedBy ==
  ASSUME card \in Cards
  PROVE  /\ "entity" \in Watched(card) => card \in CostCards \cup ClusterCards
         /\ "period" \in Watched(card) => card \in CostCards
         /\ card \in CostCards => "period" \in Watched(card)
         /\ card \in CostCards => "entity" \in Watched(card) \/ card \in OffEntityPage
         /\ card \in HookCards => card \notin CostCards \cup ClusterCards
         /\ card \in CostCards => card \notin ClusterCards
  BY DEF Cards, Watched, CostCards, ClusterCards, HookCards, OffEntityPage

\* A card begins with no request.
LEMMA CardsInitInv == CardsInit => CardsInv
<1>. SUFFICES ASSUME CardsInit PROVE CardsInv
  OBVIOUS
<1>2. /\ period \in Periods /\ since \in EntityNames /\ value \in Values /\ chosen \in 0..2
      /\ runs \in Seq([entity : EntityNames, period : Periods, at : Steps])
      /\ Len(runs) <= MaxRuns
  BY EntityNamed, EntitiesAssumption, MaxRunsAssumption DEF CardsInit, Values, FirstChosen
<1>1. CardTypes
  BY <1>2, Zenon DEF CardsInit, CardTypes
<1>. QED
  BY <1>1 DEF CardsInit, CardsInv, RunOfPage, RunIsTold, RunIsShown, HookHasValue, Unasked

\* A run is added.
LEMMA RunAdded ==
  ASSUME CardTypes, Len(runs) < MaxRuns, NEW e \in Entities, NEW p \in Periods,
         runs' = Append(runs, NewRun(e, p))
  PROVE  /\ runs' \in Seq([entity : EntityNames, period : Periods, at : Steps])
         /\ Len(runs') <= MaxRuns /\ runs' # <<>> /\ Newest' = NewRun(e, p)
<1>1. NewRun(e, p) \in [entity : EntityNames, period : Periods, at : Steps]
  BY RunType DEF CardTypes
<1>2. runs \in Seq([entity : EntityNames, period : Periods, at : Steps])
  BY DEF CardTypes
<1>. QED
  BY <1>1, <1>2, MaxRunsAssumption DEF Newest

LEMMA OpenInv == CardsInv /\ Open => CardsInv'
<1>. SUFFICES ASSUME CardsInv, Open PROVE CardsInv'
  OBVIOUS
<1>1. /\ UNCHANGED <<card, offered, entity>> /\ Len(runs) < MaxRuns
      /\ mounted' = TRUE /\ since' = entity.name /\ period' = FirstPeriod
      /\ failed' = FALSE /\ value' = NoValue /\ chosen' = FirstChosen
      /\ loading' = (card # "k8sShare")
      /\ runs' = Append(runs, NewRun(entity, FirstPeriod))
  BY DEF Open, Mount
<1>2. CardTypes /\ card \in Cards /\ entity \in Entities /\ FirstPeriod \in Periods
  BY EntitiesAssumption DEF CardsInv, CardTypes
<1>3. /\ runs' \in Seq([entity : EntityNames, period : Periods, at : Steps])
      /\ Len(runs') <= MaxRuns /\ runs' # <<>> /\ Newest' = NewRun(entity, FirstPeriod)
  BY <1>1, <1>2, RunAdded
<1>4. /\ Newest'.entity = entity.name /\ Newest'.period = FirstPeriod
      /\ Newest'.at \in {"none", "groups", "figures"}
      /\ ~offered /\ card = "entityCost" => Newest'.at = "none"
  BY <1>2, <1>3, RunType
<1>10. since' \in EntityNames /\ value' \in Values /\ chosen' \in 0..2
  BY <1>1, <1>2, EntityNamed DEF Values, FirstChosen
<1>11. loading' \in BOOLEAN
  BY <1>1, Zenon
<1>5. CardTypes'
  BY <1>1, <1>2, <1>3, <1>10, <1>11, Zenon DEF CardTypes
<1>6. RunOfPage'
  BY <1>1, <1>3, <1>4 DEF RunOfPage
<1>7. "k8sShare" \notin CostCards
  BY DEF CostCards
<1>8. RunIsTold'
  BY <1>1, <1>4, <1>7 DEF RunIsTold
<1>9. RunIsShown'
  BY <1>1, <1>4 DEF RunIsShown
<1>12. HookHasValue'
  BY <1>1 DEF HookHasValue, HookCards
<1>13. Unasked'
  BY <1>1, <1>4 DEF CardsInv, Unasked
<1>. QED
  BY <1>5, <1>6, <1>8, <1>9, <1>12, <1>13 DEF CardsInv

\* The effect runs again, for a new entity or a new period.
LEMMA StartInv ==
  ASSUME CardsInv, mounted, Len(runs) < MaxRuns, NEW e \in Entities, NEW p \in Periods,
         Start(e, p), card' = card, offered' = offered, entity' = e, period' = p,
         "entity" \in Watched(card) \/ e = entity,
         "period" \in Watched(card) \/ p = period,
         card \in CostCards \cup ClusterCards
  PROVE  CardsInv'
<1>1. /\ runs' = Append(runs, NewRun(e, p)) /\ UNCHANGED <<mounted, since, chosen, value>>
      /\ loading' = (loading \/ card \in Marks)
      /\ failed' = (failed /\ card \notin CostCards \cap Marks)
  BY DEF Start
<1>2. CardTypes /\ card \in Cards
  BY DEF CardsInv, CardTypes
<1>3. /\ runs' \in Seq([entity : EntityNames, period : Periods, at : Steps])
      /\ Len(runs') <= MaxRuns /\ runs' # <<>> /\ Newest' = NewRun(e, p)
  BY <1>1, <1>2, RunAdded
<1>4. /\ Newest'.entity = e.name /\ Newest'.period = p
      /\ Newest'.at \in {"none", "groups", "figures"}
      /\ ~offered /\ card = "entityCost" => Newest'.at = "none"
  BY <1>2, <1>3, RunType
<1>5. CardTypes'
  BY <1>1, <1>2, <1>3 DEF CardTypes
<1>6. RunOfPage'
  <2>1. "entity" \in Watched(card) \/ card \in OffEntityPage \/ e = entity
    OBVIOUS
  <2>2. "entity" \in Watched(card) \/ card \in OffEntityPage \/ card \in ClusterCards
    BY <1>2, WatchedBy
  <2>3. "entity" \in Watched(card) \/ card \in OffEntityPage
    BY <2>2 DEF ClusterCards, OffEntityPage, Watched
  <2>. QED
    BY <1>1, <1>3, <1>4, <2>3 DEF RunOfPage
<1>7. RunIsTold'
  <2>1. card \in ClusterCards => ~failed
    BY DEF CardsInv, RunIsTold
  <2>2. offered => CostCards \subseteq Marks
    BY DEF CostCards, Marks
  <2>3. ~offered /\ card \in CostCards => ~failed /\ loading
    BY DEF CardsInv, Unasked, RunIsTold
  <2>4. ~failed' /\ (card \in CostCards => loading')
    BY <1>1, <2>1, <2>2, <2>3
  <2>. QED
    BY <1>1, <1>4, <2>4 DEF RunIsTold
<1>8. RunIsShown'
  BY <1>1, <1>4 DEF RunIsShown
<1>9. HookHasValue'
  BY <1>2, WatchedBy DEF HookHasValue
<1>10. Unasked'
  BY <1>4 DEF CardsInv, Unasked
<1>. QED
  BY <1>5, <1>6, <1>7, <1>8, <1>9, <1>10 DEF CardsInv

\* A card that is left keeps nothing of its requests.
LEMMA UnmountInv ==
  ASSUME CardsInv, Unmount, card' = card, offered' = offered, entity' \in Entities, period' = period
  PROVE  CardsInv'
<1>1. CardTypes'
  BY DEF CardsInv, CardTypes, Unmount
<1>. QED
  BY <1>1 DEF CardsInv, Unmount, RunOfPage, RunIsTold, RunIsShown, HookHasValue, Unasked

LEMMA NavigateInv == CardsInv /\ Navigate => CardsInv'
<1>. SUFFICES ASSUME CardsInv, Navigate PROVE CardsInv'
  OBVIOUS
<1>1. PICK e \in Entities :
        /\ entity' = e /\ UNCHANGED <<card, offered, period>> /\ card \notin OffEntityPage
        /\ Len(runs) < MaxRuns
        /\ \/ mounted /\ Unmount
           \/ mounted /\ "entity" \in Watched(card) /\ Start(e, period)
           \/ mounted /\ "entity" \notin Watched(card) /\ Still
           \/ ~mounted /\ Still
  BY DEF Navigate
<1>2. CASE mounted /\ Unmount
  BY <1>1, <1>2, UnmountInv
<1>3. CASE mounted /\ "entity" \in Watched(card) /\ Start(e, period)
  <2>1. card \in Cards /\ period \in Periods
    BY DEF CardsInv, CardTypes
  <2>2. card \in CostCards \cup ClusterCards
    BY <1>3, <2>1, WatchedBy
  <2>. QED
    BY <1>1, <1>3, <2>1, <2>2, StartInv
<1>4. CASE Still /\ (~mounted \/ "entity" \notin Watched(card))
  <2>1. CardTypes'
    BY <1>1, <1>4 DEF CardsInv, CardTypes, Still
  <2>2. RunOfPage'
    BY <1>1, <1>4 DEF CardsInv, RunOfPage, Still, Newest
  <2>3. RunIsTold' /\ RunIsShown' /\ HookHasValue' /\ Unasked'
    BY <1>1, <1>4 DEF CardsInv, RunIsTold, RunIsShown, HookHasValue, Unasked, Still, Newest
  <2>. QED
    BY <2>1, <2>2, <2>3 DEF CardsInv
<1>. QED
  BY <1>1, <1>2, <1>3, <1>4

LEMMA LeaveInv == CardsInv /\ Leave => CardsInv'
  BY UnmountInv DEF Leave, CardsInv, CardTypes

LEMMA ChoosePeriodInv == CardsInv /\ ChoosePeriod => CardsInv'
<1>. SUFFICES ASSUME CardsInv, ChoosePeriod PROVE CardsInv'
  OBVIOUS
<1>1. PICK p \in Periods : /\ period' = p /\ Start(entity, p) /\ UNCHANGED <<card, offered, entity>>
                           /\ card \in CostCards /\ mounted /\ Len(runs) < MaxRuns
  BY DEF ChoosePeriod
<1>2. card \in Cards /\ entity \in Entities
  BY DEF CardsInv, CardTypes
<1>3. "period" \in Watched(card)
  BY <1>1, <1>2, WatchedBy
<1>. QED
  BY <1>1, <1>2, <1>3, StartInv

\* What is chosen of the value plays no part in the other facts.
LEMMA ChosenInv ==
  ASSUME CardsInv, chosen' \in 0..2,
         UNCHANGED <<card, offered, entity, period, mounted, since, loading, failed, value, runs>>
  PROVE  CardsInv'
<1>1. CardTypes'
  BY DEF CardsInv, CardTypes
<1>. QED
  BY <1>1 DEF CardsInv, RunOfPage, RunIsTold, RunIsShown, HookHasValue, Unasked, Newest

\* A step of run i changes where that run is and nothing else of the runs.
LEMMA RunsAt ==
  ASSUME CardTypes, NEW i \in 1..Len(runs), NEW step \in Steps, At(i, step)
  PROVE  /\ runs[i].entity \in EntityNames /\ runs[i].period \in Periods
         /\ runs' \in Seq([entity : EntityNames, period : Periods, at : Steps])
         /\ Len(runs') = Len(runs) /\ Len(runs) \in Nat \ {0}
         /\ \A j \in 1..Len(runs) \ {i} : runs'[j] = runs[j]
         /\ runs'[i].entity = runs[i].entity /\ runs'[i].period = runs[i].period
         /\ runs'[i].at = step
<1> DEFINE R == [entity : EntityNames, period : Periods, at : Steps]
<1>1. runs \in Seq(R) /\ Len(runs) \in Nat /\ Len(runs) # 0
  BY DEF CardTypes
<1>6. \A r \in R : r.entity \in EntityNames /\ r.period \in Periods
                  /\ [r EXCEPT !.at = step] \in R
  OBVIOUS
<1> HIDE DEF R
<1>2. runs[i] \in R
  BY <1>1
<1>3. [runs[i] EXCEPT !.at = step] \in R
  BY <1>2, <1>6
<1>4. runs' = [runs EXCEPT ![i] = [runs[i] EXCEPT !.at = step]]
  BY DEF At
<1>5. runs' \in Seq(R) /\ Len(runs') = Len(runs)
      /\ \A j \in 1..Len(runs) \ {i} : runs'[j] = runs[j]
  BY <1>1, <1>3, <1>4
<1>7. runs'[i] = [runs[i] EXCEPT !.at = step]
  BY <1>1, <1>4
<1>8. /\ runs'[i].entity = runs[i].entity /\ runs'[i].period = runs[i].period
      /\ runs'[i].at = step
  BY <1>1, <1>2, <1>7 DEF R
<1>9. runs[i].entity \in EntityNames /\ runs[i].period \in Periods
  BY <1>2, <1>6, Zenon
<1>10. runs' \in Seq([entity : EntityNames, period : Periods, at : Steps])
  BY <1>5, Zenon DEF R
<1>. QED
  BY <1>1, <1>5, <1>8, <1>9, <1>10

\* An effect of run i that touches the component only if the run is its newest:
\* the earlier runs play no part.
LEMMA RunSettled ==
  ASSUME CardsInv, NEW i \in 1..Len(runs), NEW step \in Steps, At(i, step),
         runs[i].at \in {"groups", "figures"},
         UNCHANGED <<card, offered, entity, period, mounted, since, chosen>>,
         value' \in Values, loading' \in BOOLEAN, failed' \in BOOLEAN,
         card \in ClusterCards => ~failed',
         ~Current(i) => UNCHANGED <<loading, failed, value>>,
         Current(i) => RunIsTold' /\ RunIsShown' /\ HookHasValue'
  PROVE  CardsInv'
<1>1. CardTypes /\ runs \in Seq([entity : EntityNames, period : Periods, at : Steps])
  BY DEF CardsInv, CardTypes
<1>2. /\ runs' \in Seq([entity : EntityNames, period : Periods, at : Steps])
      /\ Len(runs') = Len(runs)
      /\ Newest'.entity = Newest.entity /\ Newest'.period = Newest.period
      /\ i # Len(runs) => Newest' = Newest
  BY <1>1, RunsAt DEF Newest
<1>3. CardTypes'
  BY <1>1, <1>2, Zenon DEF CardTypes
<1>4. runs # <<>> /\ runs' # <<>>
  BY <1>1, <1>2
<1>5. RunOfPage'
  BY <1>2, <1>4 DEF CardsInv, RunOfPage
<1>9. Unasked'
  <2>1. mounted /\ Current(i) => Newest.at # "none"
    BY DEF Current, Newest
  <2>. QED
    BY <1>2, <2>1 DEF CardsInv, Unasked, Current
<1>6. CASE Current(i)
  BY <1>3, <1>5, <1>6, <1>9 DEF CardsInv
<1>7. CASE ~mounted
  <2>1. ~mounted'
    BY <1>7
  <2>. QED
    BY <1>3, <1>5, <1>9, <2>1 DEF CardsInv, RunIsTold, RunIsShown, HookHasValue
<1>8. CASE mounted /\ ~Current(i)
  <2>1. Newest' = Newest
    BY <1>2, <1>8 DEF Current
  <2>2. RunIsTold' /\ RunIsShown' /\ HookHasValue'
    BY <1>8, <2>1 DEF CardsInv, RunIsTold, RunIsShown, HookHasValue
  <2>. QED
    BY <1>3, <1>5, <1>9, <2>2 DEF CardsInv
<1>. QED
  BY <1>6, <1>7, <1>8

\* What a step writes of the newest run.
LEMMA NewestAt ==
  ASSUME CardTypes, NEW i \in 1..Len(runs), NEW step \in Steps, At(i, step), Current(i)
  PROVE  /\ Newest = runs[i] /\ Newest'.at = step
         /\ Newest'.entity = Newest.entity /\ Newest'.period = Newest.period
         /\ runs[i].entity \in EntityNames /\ runs[i].period \in Periods
         /\ mounted \in BOOLEAN /\ mounted
<1>1. i = Len(runs) /\ mounted
  BY DEF Current
<1>. QED
  BY <1>1, RunsAt DEF Newest, CardTypes

LEMMA GroupKnownInv == ASSUME NEW i \in 1..Len(runs), CardsInv, GroupKnown(i) PROVE CardsInv'
<1>1. /\ At(i, "figures") /\ "figures" \in Steps /\ runs[i].at = "groups"
      /\ UNCHANGED <<card, offered, entity, period, mounted, since, loading, failed, value, chosen>>
  BY DEF GroupKnown, Steps
<1>2. CardTypes /\ value \in Values /\ loading \in BOOLEAN /\ failed \in BOOLEAN
  BY DEF CardsInv, CardTypes
<1>3. card \in ClusterCards => ~failed
  BY DEF CardsInv, RunIsTold
<1>4. ASSUME Current(i) PROVE RunIsTold' /\ RunIsShown' /\ HookHasValue'
  <2>1. Newest = runs[i] /\ Newest'.at = "figures" /\ mounted
    BY <1>1, <1>2, <1>4, NewestAt
  <2>. QED
    BY <1>1, <2>1 DEF CardsInv, RunIsTold, RunIsShown, HookHasValue
<1>. QED
  BY <1>1, <1>2, <1>3, <1>4, RunSettled

LEMMA AnswerInv == ASSUME NEW i \in 1..Len(runs), CardsInv, Answer(i) PROVE CardsInv'
<1>1. PICK n \in 0..2 :
        LET v == [of |-> runs[i].entity, period |-> runs[i].period, n |-> n] IN
        /\ value' = CASE ~Current(i) -> value
                      [] card = "k8sShare" /\ n = 0 -> value
                      [] OTHER -> v
        /\ failed' = (failed /\ ~(Current(i) /\ card \in HookCards))
        /\ loading' = (loading /\ ~Current(i))
  BY DEF Answer, Answered
<1>2. /\ At(i, "answered") /\ "answered" \in Steps /\ runs[i].at = "figures"
      /\ UNCHANGED <<card, offered, entity, period, mounted, since, chosen>>
  BY DEF Answer, Steps
<1>3. CardTypes /\ value \in Values /\ loading \in BOOLEAN /\ failed \in BOOLEAN
  BY DEF CardsInv, CardTypes
<1>4. loading' \in BOOLEAN /\ failed' \in BOOLEAN
  BY <1>1, Zenon
<1>5. runs[i].entity \in EntityNames /\ runs[i].period \in Periods
  BY <1>2, <1>3, RunsAt
<1>6. value' \in Values
  BY <1>1, <1>3, <1>5 DEF Values, EntityNames
<1>7. (card \in ClusterCards => ~failed) /\ (failed' => failed)
  BY <1>1 DEF CardsInv, RunIsTold
<1>8. ~Current(i) => UNCHANGED <<loading, failed, value>>
  BY <1>1, <1>3
<1>9. ASSUME Current(i) PROVE RunIsTold' /\ RunIsShown' /\ HookHasValue'
  <2>1. /\ Newest = runs[i] /\ Newest'.at = "answered" /\ mounted
        /\ Newest'.entity = runs[i].entity /\ Newest'.period = runs[i].period
    BY <1>2, <1>3, <1>9, NewestAt
  <2>2. ~failed /\ ~loading' /\ ~failed'
    BY <1>1, <1>2, <1>7, <1>9, <2>1 DEF CardsInv, RunIsTold
  <2>3. card # "k8sShare" => value'.of = runs[i].entity /\ value'.period = runs[i].period
    BY <1>1, <1>9
  <2>4. card \in HookCards => value' \in Figures
    BY <1>1, <1>5, <1>9 DEF HookCards, Figures
  <2>. QED
    BY <1>2, <2>1, <2>2, <2>3, <2>4 DEF RunIsTold, RunIsShown, HookHasValue
<1>. QED
  BY <1>2, <1>4, <1>6, <1>7, <1>8, <1>9, RunSettled

LEMMA NoDataInv == ASSUME NEW i \in 1..Len(runs), CardsInv, NoData(i) PROVE CardsInv'
<1>1. /\ At(i, "no data") /\ "no data" \in Steps /\ card \in ClusterCards /\ runs[i].at = "figures"
      /\ loading' = (loading /\ ~Current(i))
      /\ UNCHANGED <<card, offered, entity, period, mounted, since, failed, value, chosen>>
  BY DEF NoData, Steps
<1>2. CardTypes /\ value \in Values /\ loading \in BOOLEAN /\ failed \in BOOLEAN
  BY DEF CardsInv, CardTypes
<1>3. ~failed
  BY <1>1 DEF CardsInv, RunIsTold
<1>4. loading' \in BOOLEAN /\ (~Current(i) => loading' = loading)
  BY <1>1, <1>2
<1>5. ASSUME Current(i) PROVE RunIsTold' /\ RunIsShown' /\ HookHasValue'
  <2>1. Newest'.at = "no data" /\ mounted
    BY <1>1, <1>2, <1>5, NewestAt
  <2>2. card \notin HookCards
    BY <1>1, <1>2, WatchedBy DEF CardTypes
  <2>. QED
    BY <1>1, <1>3, <2>1, <2>2 DEF RunIsTold, RunIsShown, HookHasValue
<1>. QED
  BY <1>1, <1>2, <1>3, <1>4, <1>5, RunSettled

LEMMA FailInv == ASSUME NEW i \in 1..Len(runs), CardsInv, Fail(i) PROVE CardsInv'
<1>1. /\ At(i, "failed") /\ "failed" \in Steps /\ runs[i].at \in {"groups", "figures"}
      /\ UNCHANGED <<card, offered, entity, period, mounted, since, chosen>>
      /\ failed' = (failed \/ (Current(i) /\ card \notin ClusterCards))
      /\ loading' = (loading /\ ~Current(i))
      /\ value' = IF Current(i) /\ card \in HookCards THEN NoValue ELSE value
  BY DEF Fail, Failed, Steps
<1>2. CardTypes /\ value \in Values /\ loading \in BOOLEAN /\ failed \in BOOLEAN /\ card \in Cards
  BY DEF CardsInv, CardTypes
<1>3. loading' \in BOOLEAN /\ failed' \in BOOLEAN
  BY <1>1, Zenon
<1>4. value' \in Values
  BY <1>1, <1>2 DEF Values
<1>5. card \in ClusterCards => ~failed'
  BY <1>1 DEF CardsInv, RunIsTold
<1>6. ~Current(i) => UNCHANGED <<loading, failed, value>>
  BY <1>1, <1>2
<1>7. ASSUME Current(i) PROVE RunIsTold' /\ RunIsShown' /\ HookHasValue'
  <2>1. Newest'.at = "failed" /\ mounted
    BY <1>1, <1>2, <1>7, NewestAt
  <2>2. card \in CostCards \cup HookCards => failed'
    BY <1>1, <1>2, <1>7, WatchedBy
  <2>. QED
    BY <1>1, <1>5, <2>1, <2>2 DEF RunIsTold, RunIsShown, HookHasValue
<1>. QED
  BY <1>1, <1>3, <1>4, <1>5, <1>6, <1>7, RunSettled

\* What can be chosen from is shown only of a value.
LEMMA ShownHasValue ==
  ASSUME CardsInv, View \in {"select", "tabs", "clusters"}
  PROVE  value \in Figures
<1>1. /\ mounted \in BOOLEAN /\ loading \in BOOLEAN /\ failed \in BOOLEAN
      /\ card \in Cards /\ value \in Values /\ HookHasValue
  BY DEF CardsInv, CardTypes
<1>2. value # NoValue => value \in Figures
  BY <1>1 DEF Values, Figures, EntityNames
<1>6. View # "nothing" => mounted
  BY DEF View
<1>7. Chart \notin {"select", "tabs", "clusters"}
  BY DEF Chart
<1>8. EntityClusterView \notin {"select", "tabs", "clusters"}
      /\ GlobalClusterView \notin {"select", "tabs", "clusters"}
  BY DEF EntityClusterView, GlobalClusterView
<1>3. mounted /\ card \in HookCards
  BY <1>1, <1>6, <1>7, <1>8 DEF View, Cards, HookCards, CostCards, ClusterCards, EntityCostView, CostPageView
<1>4. CASE card \in {"pipelineState", "codebuildProjects"}
  BY <1>2, <1>3, <1>4 DEF View, PipelineStateView, CodeBuildView, ValueFirst
<1>5. CASE card \notin {"pipelineState", "codebuildProjects"}
  <2>1. ~failed /\ ~loading
    BY <1>1, <1>3, <1>5 DEF View, HookCards, EcsServicesView, EcrImagesView, EcrScanView,
                            PipelineExecutionsView, SecurityHubView, ErrorFirst
  <2>. QED
    BY <1>1, <1>3, <2>1 DEF HookHasValue
<1>. QED
  BY <1>4, <1>5

\* Every step of the card keeps its invariant.
LEMMA CardsStep == CardsInv /\ [CardsNext]_cardVars => CardsInv'
<1>. SUFFICES ASSUME CardsInv, [CardsNext]_cardVars PROVE CardsInv'
  OBVIOUS
<1>1. CASE Open
  BY <1>1, OpenInv
<1>2. CASE Navigate
  BY <1>2, NavigateInv
<1>3. CASE Leave
  BY <1>3, LeaveInv
<1>4. CASE ChoosePeriod
  BY <1>4, ChoosePeriodInv
<1>5. CASE Choose \/ ToggleDrawer
  <2>1. View \in {"select", "tabs", "clusters"}
    BY <1>5 DEF Choose, ToggleDrawer
  <2>2. value \in Figures
    BY <2>1, ShownHasValue
  <2>3. value.n \in 0..2
    BY <2>2 DEF Figures
  <2>4. chosen' \in 0..value.n
    BY <1>5, <2>3 DEF Choose, ToggleDrawer
  <2>5. chosen' \in 0..2
    BY <2>3, <2>4
  <2>. QED
    BY <1>5, <2>5, ChosenInv DEF Choose, ToggleDrawer
<1>7. CASE \E i \in 1..Len(runs) : Settle(i)
  BY <1>7, GroupKnownInv, AnswerInv, NoDataInv, FailInv DEF Settle
<1>8. CASE UNCHANGED cardVars
  BY <1>8, ChosenInv DEF cardVars, CardsInv, CardTypes
<1>. QED
  BY <1>1, <1>2, <1>3, <1>4, <1>5, <1>7, <1>8 DEF CardsNext

-----------------------------------------------------------------------------
(* The assistant. *)

Facts ==
  /\ filters \in [Facets -> SUBSET UNION {Chips(x) : x \in Facets}]
  /\ selected \in Ids \cup {None} /\ modal \in Ids \cup {None}

ReplyType == reply \in [at : {"closed", "idle", "loading", "error", "response"},
                        answer : Analyses \cup {None}]
RequestsType == requests \in Seq(Requests) /\ Len(requests) <= MaxRequests
Keys == {CacheKey(e, f) : e \in EntityNames, f \in Ids}
CacheType == cache \in [Keys -> Analyses \cup {None}]

\* A request answered was answered with the analysis of its own finding, and
\* only one that was answered writes.
AnsweredWithOwn ==
  \A i \in 1..Len(requests) :
    /\ requests[i].at = "answered" => requests[i].result = Result(requests[i])
    /\ requests[i].writes => requests[i].at = "answered"

\* A modal that waits made the last request of all.
WaitsForLast ==
  reply.at = "loading" => requests # <<>> /\ requests[Len(requests)].finding = modal

AssistantInv ==
  /\ Facts /\ ReplyType /\ RequestsType /\ CacheType
  /\ AnsweredWithOwn /\ WaitsForLast /\ CachedWasAnswered /\ AnalysisIsOfFinding

\* A question about a finding of an entity has a key in the cache,
LEMMA KeyOf ==
  ASSUME NEW e \in EntityNames, NEW f \in Ids
  PROVE  CacheKey(e, f) \in Keys
  BY DEF Keys

\* and no other question has the same.
LEMMA SameKey ==
  ASSUME NEW e, NEW f, NEW e2, NEW f2, CacheKey(e, f) = CacheKey(e2, f2)
  PROVE  e = e2 /\ f = f2
  BY DEF CacheKey

\* Nothing is asked or cached at the start.
LEMMA AssistantInitInv ==
  ASSUME PagesInit
  PROVE  AssistantInv
<1>1. reply = [at |-> "closed", answer |-> None] /\ requests = <<>>
      /\ filters = [x \in Facets |-> {}] /\ selected = None /\ modal = None
      /\ cache = [k \in Keys |-> None]
  BY DEF PagesInit, Closed, NoFilters, Keys
<1>2. Facts /\ ReplyType /\ RequestsType /\ CacheType
  BY <1>1, MaxRequestsAssumption DEF Facts, ReplyType, RequestsType, CacheType
<1>3. AnsweredWithOwn /\ WaitsForLast /\ AnalysisIsOfFinding
  BY <1>1 DEF AnsweredWithOwn, WaitsForLast, AnalysisIsOfFinding
<1>4. CachedWasAnswered
  BY <1>1, KeyOf DEF CachedWasAnswered
<1>. QED
  BY <1>2, <1>3, <1>4 DEF AssistantInv

\* A step of one request: the others, and whose the request is, stay; what was
\* answered stays answered.
LEMMA RequestStep ==
  ASSUME AssistantInv, NEW i \in 1..Len(requests), NEW q \in Requests,
         requests' = [requests EXCEPT ![i] = q],
         q.entity = requests[i].entity, q.finding = requests[i].finding,
         requests[i].at = "answered" => q.at = "answered" /\ q.result = requests[i].result,
         q.at = "answered" => q.result = Result(requests[i]),
         q.writes => q.at = "answered"
  PROVE  /\ RequestsType' /\ AnsweredWithOwn'
         /\ Len(requests') = Len(requests) /\ requests' # <<>>
         /\ \A k \in 1..Len(requests) :
              /\ requests'[k].finding = requests[k].finding
              /\ requests[k].at = "answered" =>
                   requests'[k].at = "answered" /\ requests'[k].result = requests[k].result
<1>1. requests \in Seq(Requests) /\ Len(requests) \in Nat /\ Len(requests) <= MaxRequests
  BY DEF AssistantInv, RequestsType
<1>2. /\ requests' \in Seq(Requests) /\ Len(requests') = Len(requests) /\ requests'[i] = q
      /\ \A k \in 1..Len(requests) \ {i} : requests'[k] = requests[k]
  BY <1>1
<1>3. AnsweredWithOwn'
  <2>. SUFFICES ASSUME NEW k \in 1..Len(requests)
                PROVE  /\ requests'[k].at = "answered" => requests'[k].result = Result(requests'[k])
                       /\ requests'[k].writes => requests'[k].at = "answered"
    BY <1>2 DEF AnsweredWithOwn
  <2>1. CASE k = i
    BY <1>2, <2>1 DEF Result
  <2>2. CASE k # i
    BY <1>2, <2>2 DEF AssistantInv, AnsweredWithOwn, Result
  <2>. QED
    BY <2>1, <2>2
<1>4. requests' # <<>>
  BY <1>1, <1>2
<1>. QED
  BY <1>1, <1>2, <1>3, <1>4 DEF RequestsType

\* Entries stay true while answered requests do.
LEMMA CacheStays ==
  ASSUME AssistantInv, Len(requests') >= Len(requests), Len(requests') \in Nat, cache' = cache,
         \A k \in 1..Len(requests) : requests[k].at = "answered" =>
           requests'[k].at = "answered" /\ requests'[k].result = requests[k].result
  PROVE  CachedWasAnswered'
<1>. SUFFICES ASSUME NEW e \in EntityNames, NEW f \in Ids, cache[CacheKey(e, f)] # None
              PROVE  \E k \in 1..Len(requests') :
                       /\ requests'[k].at = "answered" /\ requests'[k].result = cache[CacheKey(e, f)]
                       /\ cache[CacheKey(e, f)].entity = e /\ cache[CacheKey(e, f)].finding = f
  BY DEF CachedWasAnswered
<1>1. PICK k \in 1..Len(requests) :
        /\ requests[k].at = "answered" /\ requests[k].result = cache[CacheKey(e, f)]
        /\ cache[CacheKey(e, f)].entity = e /\ cache[CacheKey(e, f)].finding = f
  BY DEF AssistantInv, CachedWasAnswered
<1>2. Len(requests) \in Nat
  BY DEF AssistantInv, RequestsType
<1>3. k \in 1..Len(requests')
  BY <1>2
<1>. QED
  BY <1>1, <1>3

\* A step of a request that leaves modal, reply and cache alone.
LEMMA Behind ==
  ASSUME AssistantInv, NEW i \in 1..Len(requests), NEW q \in Requests,
         requests' = [requests EXCEPT ![i] = q],
         q.entity = requests[i].entity, q.finding = requests[i].finding,
         requests[i].at = "answered" => q.at = "answered" /\ q.result = requests[i].result,
         q.at = "answered" => q.result = Result(requests[i]),
         q.writes => q.at = "answered",
         UNCHANGED <<filters, selected, modal, reply, cache>>
  PROVE  AssistantInv'
<1>1. /\ RequestsType' /\ AnsweredWithOwn'
      /\ Len(requests') = Len(requests) /\ requests' # <<>>
      /\ \A k \in 1..Len(requests) :
           /\ requests'[k].finding = requests[k].finding
           /\ requests[k].at = "answered" =>
                requests'[k].at = "answered" /\ requests'[k].result = requests[k].result
  BY RequestStep
<1>2. Len(requests) \in Nat /\ Len(requests) # 0
  BY DEF AssistantInv, RequestsType
<1>3. CachedWasAnswered'
  BY <1>1, <1>2, CacheStays
<1>6. requests'[Len(requests')].finding = requests[Len(requests)].finding
  <2>1. Len(requests) \in 1..Len(requests)
    BY <1>2
  <2>. QED
    BY <1>1, <2>1, Zenon
<1>4. WaitsForLast'
  BY <1>1, <1>6 DEF AssistantInv, WaitsForLast
<1>5. Facts' /\ ReplyType' /\ CacheType' /\ AnalysisIsOfFinding'
  BY DEF AssistantInv, Facts, ReplyType, CacheType, AnalysisIsOfFinding, Chips
<1>. QED
  BY <1>1, <1>3, <1>4, <1>5 DEF AssistantInv

\* Requests are requests.
LEMMA TypeOfRequest ==
  ASSUME AssistantInv, NEW i \in 1..Len(requests)
  PROVE  requests[i] \in Requests
  BY DEF AssistantInv, RequestsType

\* What the cache has for a request is the analysis of its finding.
LEMMA HitIsOwn ==
  ASSUME AssistantInv, NEW q \in Requests, cache[CacheKey(q.entity, q.finding)] # None
  PROVE  cache[CacheKey(q.entity, q.finding)] = Result(q)
<1>1. q.entity \in EntityNames /\ q.finding \in Ids
  BY DEF Requests
<1>2. cache[CacheKey(q.entity, q.finding)] \in Analyses
  BY <1>1, KeyOf DEF AssistantInv, CacheType
<1>3. cache[CacheKey(q.entity, q.finding)].entity = q.entity
      /\ cache[CacheKey(q.entity, q.finding)].finding = q.finding
  BY <1>1 DEF AssistantInv, CachedWasAnswered
<1>. QED
  BY <1>2, <1>3 DEF Analyses, Result

LEMMA LookupInv == ASSUME NEW i \in 1..Len(requests), AssistantInv, Lookup(i) PROVE AssistantInv'
<1> DEFINE q == requests[i]
           hit == cache[CacheKey(q.entity, q.finding)]
<1>1. /\ q \in Requests /\ q.at = "sent" /\ UNCHANGED <<filters, selected, modal, reply, cache>>
  BY TypeOfRequest DEF Lookup, ToServer
<1>2. q.writes = FALSE
  BY <1>1 DEF AssistantInv, AnsweredWithOwn, Requests
<1>3. CASE requests' = [requests EXCEPT ![i].at = "refused"]
  <2>1. /\ [q EXCEPT !.at = "refused"] \in Requests
        /\ requests' = [requests EXCEPT ![i] = [q EXCEPT !.at = "refused"]]
    BY <1>1, <1>3 DEF Requests
  <2>2. /\ [q EXCEPT !.at = "refused"].entity = q.entity
        /\ [q EXCEPT !.at = "refused"].finding = q.finding
        /\ [q EXCEPT !.at = "refused"].at = "refused"
        /\ [q EXCEPT !.at = "refused"].writes = FALSE
    BY <1>1, <1>2 DEF Requests
  <2>. QED
    BY <1>1, <2>1, <2>2, Behind
<1>4. CASE requests' = [requests EXCEPT ![i].at = IF hit = None THEN "missed" ELSE "answered",
                                        ![i].result = hit]
  <2> DEFINE s == IF hit = None THEN "missed" ELSE "answered"
             r == [q EXCEPT !.at = s, !.result = hit]
  <2>1. hit \in Analyses \cup {None}
    BY <1>1, KeyOf DEF AssistantInv, CacheType, Requests
  <2>2. s \in {"missed", "answered"} /\ (s = "answered" => hit # None)
    OBVIOUS
  <2>3. s = "answered" => hit = Result(q)
    BY <1>1, <2>2, HitIsOwn
  <2>4. requests' = [requests EXCEPT ![i] = r]
    BY <1>4
  <2> HIDE DEF s, hit, q
  <2>5. /\ r \in Requests /\ r.entity = q.entity /\ r.finding = q.finding
        /\ r.at = s /\ r.result = hit /\ r.writes = FALSE
    BY <1>1, <1>2, <2>1, <2>2 DEF Requests
  <2>. QED
    BY <1>1, <2>2, <2>3, <2>4, <2>5, Behind DEF q
<1>. QED
  BY <1>3, <1>4 DEF Lookup

LEMMA AnalyseInv == ASSUME NEW i \in 1..Len(requests), AssistantInv, Analyse(i) PROVE AssistantInv'
<1> DEFINE q == requests[i]
<1>1. /\ q \in Requests /\ q.at = "missed" /\ UNCHANGED <<filters, selected, modal, reply, cache>>
  BY TypeOfRequest DEF Analyse, ToServer
<1>2. q.writes = FALSE
  BY <1>1 DEF AssistantInv, AnsweredWithOwn, Requests
<1>3. CASE requests' = [requests EXCEPT ![i].at = "refused"]
  <2>1. /\ [q EXCEPT !.at = "refused"] \in Requests
        /\ requests' = [requests EXCEPT ![i] = [q EXCEPT !.at = "refused"]]
    BY <1>1, <1>3 DEF Requests
  <2>2. /\ [q EXCEPT !.at = "refused"].entity = q.entity
        /\ [q EXCEPT !.at = "refused"].finding = q.finding
        /\ [q EXCEPT !.at = "refused"].at = "refused"
        /\ [q EXCEPT !.at = "refused"].writes = FALSE
    BY <1>1, <1>2 DEF Requests
  <2>. QED
    BY <1>1, <2>1, <2>2, Behind
<1>4. CASE requests' = [requests EXCEPT ![i].at = "answered", ![i].writes = TRUE,
                                        ![i].result = Result(q)]
  <2> DEFINE a == Result(q)
             r == [q EXCEPT !.at = "answered", !.writes = TRUE, !.result = a]
  <2>1. a \in Analyses
    BY <1>1 DEF Result, Analyses, Requests
  <2>2. requests' = [requests EXCEPT ![i] = r]
    BY <1>4
  <2> HIDE DEF a, q
  <2>3. /\ r \in Requests /\ r.entity = q.entity /\ r.finding = q.finding
        /\ r.at = "answered" /\ r.result = a /\ r.writes = TRUE
    BY <1>1, <2>1 DEF Requests
  <2>. QED
    BY <1>1, <2>2, <2>3, Behind DEF q, a
<1>. QED
  BY <1>3, <1>4 DEF Analyse

LEMMA WriteInv == ASSUME NEW i \in 1..Len(requests), AssistantInv, Write(i) PROVE AssistantInv'
<1> DEFINE q == requests[i]
           k == CacheKey(q.entity, q.finding)
           r == [q EXCEPT !.writes = FALSE]
<1>1. /\ q \in Requests /\ q.at = "answered" /\ q.result = Result(q)
      /\ UNCHANGED <<filters, selected, modal, reply>>
      /\ requests' = [requests EXCEPT ![i] = r]
      /\ cache' = [cache EXCEPT ![k] = q.result] \/ cache' = cache
  BY TypeOfRequest DEF Write, ToServer, AssistantInv, AnsweredWithOwn
<1>2. /\ r \in Requests /\ r.entity = q.entity /\ r.finding = q.finding
      /\ r.at = "answered" /\ r.result = q.result /\ r.writes = FALSE
  BY <1>1 DEF Requests
<1>3. CASE cache' = cache
  BY <1>1, <1>2, <1>3, Behind
<1>4. CASE cache' = [cache EXCEPT ![k] = q.result]
  <2>1. /\ RequestsType' /\ AnsweredWithOwn'
        /\ Len(requests') = Len(requests) /\ requests' # <<>>
        /\ \A j \in 1..Len(requests) :
             /\ requests'[j].finding = requests[j].finding
             /\ requests[j].at = "answered" =>
                  requests'[j].at = "answered" /\ requests'[j].result = requests[j].result
    BY <1>1, <1>2, RequestStep
  <2>2. Len(requests) \in Nat /\ Len(requests) # 0
    BY DEF AssistantInv, RequestsType
  <2>3. requests'[Len(requests')].finding = requests[Len(requests)].finding
    BY <2>1, <2>2
  <2>4. WaitsForLast' /\ AnalysisIsOfFinding'
    BY <1>1, <2>1, <2>3 DEF AssistantInv, WaitsForLast, AnalysisIsOfFinding
  <2>5. q.entity \in EntityNames /\ q.finding \in Ids /\ q.result \in Analyses
    BY <1>1 DEF Requests, Result, Analyses
  <2>6. cache \in [Keys -> Analyses \cup {None}] /\ k \in Keys
    BY <2>5, KeyOf DEF AssistantInv, CacheType
  <2>7. CacheType'
    BY <1>4, <2>5, <2>6 DEF CacheType
  <2>8. CachedWasAnswered'
    <3>. SUFFICES ASSUME NEW e \in EntityNames, NEW f \in Ids, cache'[CacheKey(e, f)] # None
                  PROVE  \E j \in 1..Len(requests') :
                           /\ requests'[j].at = "answered" /\ requests'[j].result = cache'[CacheKey(e, f)]
                           /\ cache'[CacheKey(e, f)].entity = e /\ cache'[CacheKey(e, f)].finding = f
      BY DEF CachedWasAnswered, CacheKey
    <3>0. CacheKey(e, f) \in Keys
      BY KeyOf
    <3>1. CASE CacheKey(e, f) = k
      <4>1. cache'[CacheKey(e, f)] = q.result
        BY <1>4, <2>6, <3>1
      <4>2. e = q.entity /\ f = q.finding
        BY <3>1, SameKey
      <4>3. q.result.entity = q.entity /\ q.result.finding = q.finding
        BY <1>1 DEF Result
      <4>4. requests'[i].at = "answered" /\ requests'[i].result = q.result
        BY <1>1, <2>1
      <4>. QED
        BY <2>1, <4>1, <4>2, <4>3, <4>4
    <3>2. CASE CacheKey(e, f) # k
      <4>1. cache'[CacheKey(e, f)] = cache[CacheKey(e, f)]
        BY <1>4, <2>6, <3>0, <3>2
      <4>2. PICK j \in 1..Len(requests) :
              /\ requests[j].at = "answered" /\ requests[j].result = cache[CacheKey(e, f)]
              /\ cache[CacheKey(e, f)].entity = e /\ cache[CacheKey(e, f)].finding = f
        BY <4>1 DEF AssistantInv, CachedWasAnswered
      <4>. QED
        BY <2>1, <4>1, <4>2
    <3>. QED
      BY <3>1, <3>2
  <2>9. Facts' /\ ReplyType'
    BY <1>1 DEF AssistantInv, Facts, ReplyType, Chips
  <2>. QED
    BY <2>1, <2>4, <2>7, <2>8, <2>9 DEF AssistantInv
<1>. QED
  BY <1>1, <1>3, <1>4

LEMMA ExpireInv == AssistantInv /\ Expire => AssistantInv'
<1>. SUFFICES ASSUME AssistantInv, Expire PROVE AssistantInv'
  OBVIOUS
<1>1. PICK k \in DOMAIN cache : cache' = [cache EXCEPT ![k] = None]
  BY DEF Expire
<1>2. UNCHANGED <<filters, selected, modal, reply, requests>>
  BY DEF Expire, ToServer
<1>3. cache \in [Keys -> Analyses \cup {None}]
  BY DEF AssistantInv, CacheType
<1>4. CacheType' /\ \A j \in Keys : cache'[j] \in {cache[j], None}
  BY <1>1, <1>3 DEF CacheType
<1>5. CachedWasAnswered'
  <2>. SUFFICES ASSUME NEW e \in EntityNames, NEW f \in Ids, cache'[CacheKey(e, f)] # None
                PROVE  \E j \in 1..Len(requests') :
                         /\ requests'[j].at = "answered" /\ requests'[j].result = cache'[CacheKey(e, f)]
                         /\ cache'[CacheKey(e, f)].entity = e /\ cache'[CacheKey(e, f)].finding = f
    BY DEF CachedWasAnswered, CacheKey
  <2>1. cache'[CacheKey(e, f)] = cache[CacheKey(e, f)]
    BY <1>4, KeyOf
  <2>. QED
    BY <1>2, <2>1 DEF AssistantInv, CachedWasAnswered
<1>6. AnsweredWithOwn' /\ WaitsForLast' /\ AnalysisIsOfFinding'
  BY <1>2 DEF AssistantInv, AnsweredWithOwn, WaitsForLast, AnalysisIsOfFinding, Result
<1>. QED
  BY <1>2, <1>4, <1>5, <1>6 DEF AssistantInv, Facts, ReplyType, RequestsType, Chips

\* The answer of a request reaches the modal it belongs to, or none.
LEMMA ArriveInv == ASSUME NEW i \in 1..Len(requests), AssistantInv, Arrive(i) PROVE AssistantInv'
<1> DEFINE q == requests[i]
           r == [q EXCEPT !.waits = FALSE]
<1>1. /\ q \in Requests /\ q.at \in {"answered", "refused"}
      /\ UNCHANGED <<filters, selected, modal, cache>>
      /\ requests' = [requests EXCEPT ![i] = r]
      /\ reply' = IF ~OfThisModal(i) THEN reply
                  ELSE IF q.at = "answered" THEN [at |-> "response", answer |-> q.result]
                  ELSE [at |-> "error", answer |-> None]
  BY TypeOfRequest DEF Arrive
<1>2. /\ r \in Requests /\ r.entity = q.entity /\ r.finding = q.finding
      /\ r.at = q.at /\ r.result = q.result /\ r.writes = q.writes
  BY <1>1 DEF Requests
<1>3. /\ q.at = "answered" => q.result = Result(q)
      /\ q.writes => q.at = "answered"
  BY DEF AssistantInv, AnsweredWithOwn
<1>4. CASE reply' = reply
  BY <1>1, <1>2, <1>3, <1>4, Behind
<1>5. CASE OfThisModal(i)
  <2>1. /\ RequestsType' /\ AnsweredWithOwn'
        /\ Len(requests') = Len(requests) /\ requests' # <<>>
        /\ \A j \in 1..Len(requests) :
             /\ requests'[j].finding = requests[j].finding
             /\ requests[j].at = "answered" =>
                  requests'[j].at = "answered" /\ requests'[j].result = requests[j].result
    BY <1>1, <1>2, <1>3, RequestStep
  <2>2. Len(requests) \in Nat
    BY DEF AssistantInv, RequestsType
  <2>3. CachedWasAnswered'
    BY <1>1, <2>1, <2>2, CacheStays
  <2>4. reply.at = "loading" /\ i = Len(requests)
    BY <1>5 DEF OfThisModal
  <2>5. q.finding = modal
    BY <2>4 DEF AssistantInv, WaitsForLast
  <2>6. q.result \in Analyses \cup {None} /\ (q.at = "answered" => q.result.finding = modal)
    BY <1>1, <1>3, <2>5 DEF Requests, Result
  <2>7. reply'.at \in {"response", "error"} /\ ReplyType' /\ AnalysisIsOfFinding'
    <3>1. CASE q.at = "answered"
      BY <1>1, <1>5, <2>6, <3>1 DEF ReplyType, AnalysisIsOfFinding
    <3>2. CASE q.at # "answered"
      BY <1>1, <1>5, <3>2 DEF ReplyType, AnalysisIsOfFinding
    <3>. QED
      BY <3>1, <3>2
  <2>8. WaitsForLast'
    BY <2>7 DEF WaitsForLast
  <2>9. Facts' /\ CacheType'
    BY <1>1 DEF AssistantInv, Facts, CacheType, Chips
  <2>. QED
    BY <2>1, <2>3, <2>7, <2>8, <2>9 DEF AssistantInv
<1>. QED
  BY <1>1, <1>4, <1>5

LEMMA AskInv == ASSUME AssistantInv, CardTypes, Ask PROVE AssistantInv'
<1> DEFINE q == [entity |-> entity.name, finding |-> modal, at |-> "sent", waits |-> TRUE,
                 writes |-> FALSE, result |-> None]
<1>1. /\ modal # None /\ Len(requests) < MaxRequests
      /\ reply' = [at |-> "loading", answer |-> None]
      /\ requests' = Append(requests, q)
      /\ UNCHANGED <<filters, selected, modal, cache>>
  BY DEF Ask
<1>2. q \in Requests
  BY <1>1, EntityNamed DEF AssistantInv, Facts, CardTypes, Requests
<1>3. requests \in Seq(Requests) /\ Len(requests) \in Nat
  BY DEF AssistantInv, RequestsType
<1>4. q.at = "sent" /\ q.writes = FALSE /\ q.finding = modal
  OBVIOUS
<1> HIDE DEF q
<1>5. /\ requests' \in Seq(Requests) /\ Len(requests') = Len(requests) + 1 /\ Len(requests') \in Nat
      /\ requests'[Len(requests) + 1] = q
      /\ \A k \in 1..Len(requests) : requests'[k] = requests[k]
  BY <1>1, <1>2, <1>3
<1>6. RequestsType'
  BY <1>1, <1>3, <1>5, MaxRequestsAssumption DEF RequestsType
<1>7. AnsweredWithOwn'
  <2>. SUFFICES ASSUME NEW k \in 1..Len(requests) + 1
                PROVE  /\ requests'[k].at = "answered" => requests'[k].result = Result(requests'[k])
                       /\ requests'[k].writes => requests'[k].at = "answered"
    BY <1>5 DEF AnsweredWithOwn
  <2>1. CASE k = Len(requests) + 1
    BY <1>4, <1>5, <2>1
  <2>2. CASE k \in 1..Len(requests)
    BY <1>5, <2>2 DEF AssistantInv, AnsweredWithOwn
  <2>. QED
    BY <1>3, <2>1, <2>2
<1>8. WaitsForLast'
  <2>1. requests' # <<>> /\ requests'[Len(requests')].finding = modal
    BY <1>3, <1>4, <1>5
  <2>. QED
    BY <1>1, <2>1 DEF WaitsForLast
<1>9. CachedWasAnswered'
  BY <1>1, <1>3, <1>5, CacheStays
<1>10. ReplyType' /\ AnalysisIsOfFinding'
  BY <1>1 DEF ReplyType, AnalysisIsOfFinding
<1>11. Facts' /\ CacheType'
  BY <1>1 DEF AssistantInv, Facts, CacheType, Chips
<1>. QED
  BY <1>6, <1>7, <1>8, <1>9, <1>10, <1>11 DEF AssistantInv

\* The viewer's other steps and those of the card leave requests and cache alone.
LEMMA ViewerInv ==
  ASSUME AssistantInv, UNCHANGED <<requests, cache>>, Facts',
         \/ UNCHANGED <<modal, reply>>
         \/ reply' = Idle
         \/ reply' = Closed
  PROVE  AssistantInv'
<1>1. ReplyType' /\ WaitsForLast' /\ AnalysisIsOfFinding'
  BY DEF AssistantInv, ReplyType, WaitsForLast, AnalysisIsOfFinding, Idle, Closed
<1>2. RequestsType' /\ CacheType' /\ AnsweredWithOwn'
  BY DEF AssistantInv, RequestsType, CacheType, AnsweredWithOwn, Result
<1>3. CachedWasAnswered'
  BY CacheStays DEF AssistantInv, RequestsType
<1>. QED
  BY <1>1, <1>2, <1>3 DEF AssistantInv

\* What the table shows are findings.
LEMMA RowsType == Rows \subseteq Ids
  BY DEF Rows, Ids, FilteredData

\* Every step of the assistant keeps its invariant.
LEMMA AssistantStepInv == ASSUME AssistantInv, CardTypes, AssistantStep PROVE AssistantInv'
<1>0. Facts
  BY DEF AssistantInv
<1>1. CASE ToggleFilter
  <2>1. /\ UNCHANGED <<selected, modal, reply, requests, cache>>
        /\ filters' \in [Facets -> SUBSET UNION {Chips(x) : x \in Facets}]
    BY <1>0, <1>1 DEF ToggleFilter, Facts
  <2>. QED
    BY <1>0, <2>1, ViewerInv DEF Facts, Chips
<1>2. CASE ClearAllFilters
  BY <1>0, <1>2, ViewerInv DEF ClearAllFilters, NoFilters, Facts, Chips
<1>3. CASE SelectRow
  BY <1>0, <1>3, RowsType, ViewerInv DEF SelectRow, Facts, Chips
<1>4. CASE CloseDrawer
  BY <1>0, <1>4, ViewerInv DEF CloseDrawer, Facts, Chips
<1>5. CASE OpenModal
  BY <1>0, <1>5, RowsType, ViewerInv DEF OpenModal, Facts, Chips
<1>6. CASE CloseModal
  BY <1>0, <1>6, ViewerInv DEF CloseModal, Facts, Chips
<1>7. CASE Ask
  BY <1>7, AskInv
<1>8. CASE Expire
  BY <1>8, ExpireInv
<1>9. CASE \E i \in 1..Len(requests) : Serve(i)
  BY <1>9, LookupInv, AnalyseInv, WriteInv, ArriveInv DEF Serve
<1>. QED
  BY <1>1, <1>2, <1>3, <1>4, <1>5, <1>6, <1>7, <1>8, <1>9 DEF AssistantStep

\* A link followed closes what is open.
LEMMA FollowInv == ASSUME AssistantInv, Follow PROVE AssistantInv'
<1>1. Facts
  BY DEF AssistantInv
<1>2. CASE UNCHANGED <<filters, selected, modal, reply>>
  BY <1>1, <1>2, ViewerInv DEF Follow, Facts, Chips
<1>3. CASE filters' = NoFilters /\ selected' = None /\ modal' = None /\ reply' = Closed
  BY <1>1, <1>3, ViewerInv DEF Follow, Facts, NoFilters, Chips
<1>. QED
  BY <1>2, <1>3 DEF Follow

-----------------------------------------------------------------------------
(* Both together. *)

Inv == CardsInv /\ AssistantInv

\* The assistant leaves the card alone.
LEMMA AssistantStepAlone == AssistantStep => UNCHANGED cardVars
  BY DEF AssistantStep, ToggleFilter, ClearAllFilters, SelectRow, CloseDrawer, OpenModal,
         CloseModal, Ask, Expire, ToServer, Serve, Lookup, Analyse, Write, Arrive

\* The invariant of the cards and the assistant, on one page.
THEOREM PagesInvariant == PagesSpec => []Inv
<1>1. PagesInit => Inv
  BY CardsInitInv, AssistantInitInv DEF PagesInit, Inv
<1>2. Inv /\ [PagesNext]_pagesVars => Inv'
  <2>. SUFFICES ASSUME Inv, [PagesNext]_pagesVars PROVE Inv'
    OBVIOUS
  <2>0. CardsInv /\ AssistantInv /\ CardTypes
    BY DEF Inv, CardsInv
  <2>1. CASE CardStep
    BY <2>0, <2>1, CardsStep, FollowInv DEF CardStep, Inv
  <2>2. CASE AssistantStep
    BY <2>0, <2>2, AssistantStepAlone, CardsStep, AssistantStepInv DEF Inv
  <2>3. CASE UNCHANGED pagesVars
    <3>1. UNCHANGED cardVars /\ UNCHANGED <<filters, selected, modal, reply, requests, cache>>
      BY <2>3 DEF pagesVars, assistantVars
    <3>2. Facts'
      BY <2>0, <3>1 DEF AssistantInv, Facts, Chips
    <3>. QED
      BY <2>0, <3>1, <3>2, CardsStep, ViewerInv DEF Inv
  <2>. QED
    BY <2>1, <2>2, <2>3 DEF PagesNext
<1>. QED
  BY <1>1, <1>2, PTL DEF PagesSpec

-----------------------------------------------------------------------------
(* What follows. *)

\* Every variable has its type.
THEOREM TypeCorrect == PagesSpec => []PagesTypeOK
<1>1. CardTypes => CardsTypeOK
  BY DEF CardTypes, CardsTypeOK, EntityNames
<1>2. AssistantInv /\ CardsTypeOK => PagesTypeOK
  <2>1. Facts /\ ReplyType /\ RequestsType /\ CacheType <=>
          /\ filters \in [Facets -> SUBSET UNION {Chips(x) : x \in Facets}]
          /\ selected \in Ids \cup {None} /\ modal \in Ids \cup {None}
          /\ reply \in [at : {"closed", "idle", "loading", "error", "response"},
                        answer : Analyses \cup {None}]
          /\ requests \in Seq(Requests) /\ Len(requests) <= MaxRequests
          /\ cache \in [Keys -> Analyses \cup {None}]
    BY DEF Facts, ReplyType, RequestsType, CacheType
  <2>. QED
    BY <2>1 DEF AssistantInv, PagesTypeOK, Keys
<1>3. Inv => PagesTypeOK
  BY <1>1, <1>2 DEF Inv, CardsInv
<1>. QED
  BY <1>3, PagesInvariant, PTL

\* A card whose newest run was answered shows what is on the page.
THEOREM CardsShowThePage == PagesSpec => []ShownIsCurrent
<1>1. Inv => ShownIsCurrent
  <2>. SUFFICES ASSUME Inv, mounted, Newest.at = "answered", card # "k8sShare"
                PROVE  /\ ~loading /\ ~failed
                       /\ value.of = IF "entity" \in Watched(card) \/ card \in OffEntityPage
                                     THEN entity.name ELSE since
                       /\ "period" \in Watched(card) => value.period = period
    BY DEF ShownIsCurrent, Newest
  <2>1. ~loading /\ ~failed /\ value.of = Newest.entity /\ value.period = Newest.period
    BY DEF Inv, CardsInv, RunIsShown
  <2>. QED
    BY <2>1 DEF Inv, CardsInv, RunOfPage
<1>. QED
  BY <1>1, PagesInvariant, PTL

\* A cost card with figures of another period or entity says it is loading or failed.
THEOREM StaleFiguresAreTold == PagesSpec => []StaleIsTold
<1>1. Inv => StaleIsTold
  <2>. SUFFICES ASSUME Inv, mounted, card \in CostCards, ~loading, ~failed
                PROVE  value.period = period /\ value.of = entity.name
    BY DEF StaleIsTold
  <2>1. /\ CardTypes /\ runs # <<>> /\ card \in Cards
        /\ RunOfPage /\ RunIsTold /\ RunIsShown
    BY DEF Inv, CardsInv, CardTypes, RunOfPage
  <2>2. Newest.at \in Steps
    <3> DEFINE R == [entity : EntityNames, period : Periods, at : Steps]
    <3>1. runs \in Seq(R) /\ Len(runs) \in Nat /\ Len(runs) # 0
      BY <2>1 DEF CardTypes
    <3>2. \A r \in R : r.at \in Steps
      OBVIOUS
    <3> HIDE DEF R
    <3>3. runs[Len(runs)] \in R
      BY <3>1
    <3>. QED
      BY <3>2, <3>3 DEF Newest
  <2>3. /\ card \notin ClusterCards /\ "period" \in Watched(card) /\ card # "k8sShare"
        /\ "entity" \in Watched(card) \/ card \in OffEntityPage
    BY <2>1, WatchedBy DEF CostCards
  <2>4. Newest.at = "answered"
    BY <2>1, <2>2, <2>3 DEF Steps, RunIsTold
  <2>. QED
    BY <2>1, <2>3, <2>4 DEF RunOfPage, RunIsShown
<1>. QED
  BY <1>1, PagesInvariant, PTL

\* A modal shows the analysis of its own finding.
THEOREM AnalysesAreOwn == PagesSpec => []AnalysisIsOfFinding
<1>1. Inv => AnalysisIsOfFinding
  BY DEF Inv, AssistantInv
<1>. QED
  BY <1>1, PagesInvariant, PTL

\* The cache holds what requests were answered with, under their own keys.
THEOREM CacheIsTrue == PagesSpec => []CachedWasAnswered
<1>1. Inv => CachedWasAnswered
  BY DEF Inv, AssistantInv
<1>. QED
  BY <1>1, PagesInvariant, PTL
=============================================================================
