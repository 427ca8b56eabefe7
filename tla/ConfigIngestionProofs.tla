------------------------ MODULE ConfigIngestionProofs ------------------------
(* Proofs of the safety of ConfigIngestion, for any number of resources, page   *)
(* size, records and changes.                                                   *)
EXTENDS ConfigIngestion, TLAPS

\* kept and seen bracket what is in the account now.
HistoryFits == kept \subseteq Versions(account) /\ Versions(account) \subseteq seen

\* The rounds rest without a token, and a page is worked on only while ingesting.
Phases ==
  /\ status = "rest" => cursor = 0
  /\ response # NoResponse => status = "ingest"

\* What stayed in the account is marked up to the token.
MarkedUpToCursor ==
  \A v \in kept : status = "rest" \/ v.arn <= cursor => EntityName(v) \in told

\* Marked names have an entity, that of a version of the round.
MarkedAreCurrent ==
  \A n \in told :
    /\ catalog[n] # NoEntity
    /\ \E v \in seen : v.arn = catalog[n] /\ EntityName(v) = n

\* A page holds what stayed in the account since, from the token to its end.
PageIsWhole ==
  response # NoResponse =>
    /\ response.results \subseteq seen
    /\ \A v \in kept :
         v.arn > cursor /\ (v.arn <= response.last \/ ~ response.more)
           => v \in response.results

\* After a round only what was marked is left.
OnlyMarkedRests ==
  status = "rest" => \A n \in CatalogNames : catalog[n] # NoEntity => n \in told

Round ==
  /\ HistoryFits /\ Phases /\ MarkedUpToCursor /\ MarkedAreCurrent
  /\ PageIsWhole /\ OnlyMarkedRests

Inv == TypeOK /\ Round

-----------------------------------------------------------------------------
\* Every version gives an entity a name.
LEMMA EntityNameType == \A v \in Version : EntityName(v) \in CatalogNames
<1>. SUFFICES ASSUME NEW v \in Version PROVE EntityName(v) \in CatalogNames
  OBVIOUS
<1>1. v.arn \in Resources /\ v.record \in Record
  BY ProviderAssumption DEF Version
<1>. QED
  BY <1>1 DEF Record, EntityName, CatalogNames

\* What AWS Config holds of an account are versions.
LEMMA VersionsType == \A acc : Versions(acc) \subseteq Version
  BY DEF Versions

\* No round has begun at the start.
LEMMA InitInv == Init => Inv
<1>. SUFFICES ASSUME Init PROVE Inv
  OBVIOUS
<1>1. TypeOK
  BY ProviderAssumption, VersionsType DEF Init, TypeOK
<1>2. \A v \in kept : v.arn \in Nat /\ v.arn > 0
  BY ProviderAssumption, VersionsType DEF Init, Version, Resources
<1>3. Round
  BY <1>2 DEF Init, Round, HistoryFits, Phases, MarkedUpToCursor, MarkedAreCurrent,
              PageIsWhole, OnlyMarkedRests
<1>. QED
  BY <1>1, <1>3 DEF Inv

LEMMA ChangeInv ==
  ASSUME Inv, NEW r \in Resources, NEW record \in Records \cup {Absent}, Change(r, record)
  PROVE  Inv'
<1>1. /\ account' = [account EXCEPT ![r] = record] /\ changes < MaxChanges
      /\ changes' = changes + 1
      /\ kept' = kept \cap Versions(account') /\ seen' = seen \cup Versions(account')
      /\ UNCHANGED <<status, cursor, response, told, catalog>>
  BY DEF Change, engine
<1>2. TypeOK'
  BY <1>1, ProviderAssumption, VersionsType DEF Inv, TypeOK
<1>3. HistoryFits'
  BY <1>1 DEF HistoryFits, Versions
<1>4. kept' \subseteq kept /\ seen \subseteq seen'
  BY <1>1
<1>5. Phases' /\ OnlyMarkedRests'
  BY <1>1 DEF Inv, Round, Phases, OnlyMarkedRests
<1>6. MarkedUpToCursor' /\ MarkedAreCurrent'
  BY <1>1, <1>4 DEF Inv, Round, MarkedUpToCursor, MarkedAreCurrent
<1>7. PageIsWhole'
  BY <1>1, <1>4 DEF Inv, Round, PageIsWhole
<1>. QED
  BY <1>2, <1>3, <1>5, <1>6, <1>7 DEF Inv, Round

LEMMA QueryInv == Inv /\ Query => Inv'
<1>. SUFFICES ASSUME Inv, Query PROVE Inv'
  OBVIOUS
<1>1. PICK last \in cursor..N, more \in BOOLEAN :
        /\ ~ more => \A r \in last + 1 .. N : account[r] = Absent
        /\ response' = [results |-> {v \in Versions(account) : v.arn \in cursor + 1 .. last},
                        last |-> last, more |-> more]
  BY DEF Query
<1> DEFINE results == {v \in Versions(account) : v.arn \in cursor + 1 .. last}
<1>2. /\ status = "ingest"
      /\ UNCHANGED <<account, changes, status, cursor, told, catalog, kept, seen>>
  BY DEF Query
<1>3. cursor \in Nat /\ N \in Nat /\ last \in 0..N /\ results \subseteq Version
  BY <1>1, ProviderAssumption, VersionsType DEF Inv, TypeOK
<1>4. response' \in Response
  BY <1>1, <1>3 DEF Response
<1>5. TypeOK'
  BY <1>2, <1>4 DEF Inv, TypeOK
<1>6. HistoryFits' /\ Phases' /\ MarkedUpToCursor' /\ MarkedAreCurrent' /\ OnlyMarkedRests'
  BY <1>2 DEF Inv, Round, HistoryFits, Phases, MarkedUpToCursor, MarkedAreCurrent,
              OnlyMarkedRests, Versions
<1>7. ASSUME NEW v \in kept, v.arn > cursor, v.arn <= last \/ ~ more
      PROVE  v \in results
  <2>1. v \in Versions(account) /\ v.arn \in 1..N
    BY VersionsType DEF Inv, Round, HistoryFits, Version, Resources
  <2>2. CASE v.arn <= last
    BY <2>1, <2>2, <1>3, <1>7
  <2>3. CASE ~ more /\ v.arn > last
    <3>1. account[v.arn] = Absent
      BY <2>1, <2>3, <1>1, <1>3
    <3>2. account[v.arn] = v.record /\ v.record \in Records
      BY <2>1 DEF Versions, Version
    <3>. QED
      BY <3>1, <3>2, ProviderAssumption
  <2>. QED
    BY <2>1, <2>2, <2>3, <1>3, <1>7
<1>8. PageIsWhole'
  <2>1. results \subseteq seen
    BY DEF Inv, Round, HistoryFits
  <2>. QED
    BY <2>1, <1>1, <1>2, <1>7 DEF PageIsWhole
<1>. QED
  BY <1>5, <1>6, <1>8 DEF Inv, Round

\* A step that only moves between ingesting and backing off, or drops the page.
LEMMA PauseInv ==
  ASSUME Inv, UNCHANGED <<account, changes, cursor, told, catalog, kept, seen>>,
         status # "rest", status' \in {"ingest", "backoff"}, response' = NoResponse
  PROVE  Inv'
<1>1. TypeOK'
  BY DEF Inv, TypeOK
<1>2. Round'
  BY DEF Inv, Round, HistoryFits, Phases, MarkedUpToCursor, MarkedAreCurrent,
         PageIsWhole, OnlyMarkedRests, Versions
<1>. QED
  BY <1>1, <1>2 DEF Inv

LEMMA NextRoundInv == Inv /\ NextRound => Inv'
<1>. SUFFICES ASSUME Inv, NextRound PROVE Inv'
  OBVIOUS
<1>1. /\ status = "rest" /\ cursor = 0 /\ response = NoResponse
      /\ status' = "ingest" /\ told' = {}
      /\ kept' = Versions(account) /\ seen' = Versions(account)
      /\ UNCHANGED <<account, changes, cursor, response, catalog>>
  BY DEF NextRound, Inv, Round, Phases
<1>2. TypeOK'
  BY <1>1, VersionsType DEF Inv, TypeOK
<1>3. \A v \in kept' : v.arn \in Nat /\ v.arn > 0
  BY <1>1, ProviderAssumption, VersionsType DEF Version, Resources
<1>4. Round'
  BY <1>1, <1>3 DEF Round, HistoryFits, Phases, MarkedUpToCursor, MarkedAreCurrent,
                    PageIsWhole, OnlyMarkedRests, Versions
<1>. QED
  BY <1>2, <1>4 DEF Inv

LEMMA DeliverInv == Inv /\ Deliver => Inv'
<1>. SUFFICES ASSUME Inv, Deliver PROVE Inv'
  OBVIOUS
<1> DEFINE results == response.results
           names == {EntityName(v) : v \in results}
<1>1. /\ response # NoResponse /\ response' = NoResponse /\ status = "ingest"
      /\ UNCHANGED <<account, changes, kept, seen>>
      /\ told' = told \cup names
  BY DEF Deliver, Mark, Inv, Round, Phases
<1>2. PICK added \in [names -> Resources] :
        /\ \A n \in names : \E v \in results : EntityName(v) = n /\ v.arn = added[n]
        /\ catalog' = [n \in CatalogNames |->
             IF n \in names THEN added[n]
             ELSE IF n \in told \cup names \/ response.more THEN catalog[n] ELSE NoEntity]
  BY DEF Deliver, Mark
<1>3. \/ response.more /\ cursor' = response.last /\ status' = status
      \/ ~ response.more /\ cursor' = 0 /\ status' = "rest"
  BY DEF Deliver, Mark
<1>4. /\ results \subseteq Version /\ response.last \in 0..N /\ response.more \in BOOLEAN
      /\ results \subseteq seen /\ cursor \in 0..N /\ N \in Nat
  BY <1>1, ProviderAssumption DEF Inv, TypeOK, Response, Round, PageIsWhole
<1>5. names \subseteq CatalogNames
  BY <1>4, EntityNameType
<1>6. TypeOK'
  <2>1. told' \subseteq CatalogNames
    BY <1>1, <1>5 DEF Inv, TypeOK
  <2>2. catalog' \in [CatalogNames -> Resources \cup {NoEntity}]
    BY <1>2 DEF Inv, TypeOK
  <2>. QED
    BY <2>1, <2>2, <1>1, <1>3, <1>4 DEF Inv, TypeOK
<1>7. HistoryFits' /\ Phases' /\ PageIsWhole'
  BY <1>1, <1>3 DEF Inv, Round, HistoryFits, Phases, PageIsWhole, Versions
<1>8. MarkedUpToCursor'
  <2>. SUFFICES ASSUME NEW v \in kept, status' = "rest" \/ v.arn <= cursor'
                PROVE  EntityName(v) \in told'
    BY <1>1 DEF MarkedUpToCursor
  <2>1. v.arn \in 1..N
    BY VersionsType DEF Inv, TypeOK, Version, Resources
  <2>2. CASE v.arn <= cursor
    BY <2>2, <1>1 DEF Inv, Round, MarkedUpToCursor
  <2>3. CASE v.arn > cursor
    BY <2>1, <2>3, <1>1, <1>3 DEF Inv, Round, PageIsWhole
  <2>. QED
    BY <2>1, <2>2, <2>3, <1>4
<1>9. MarkedAreCurrent'
  <2>. SUFFICES ASSUME NEW n \in told \cup names
                PROVE  /\ catalog'[n] # NoEntity
                       /\ \E v \in seen : v.arn = catalog'[n] /\ EntityName(v) = n
    BY <1>1 DEF MarkedAreCurrent
  <2>1. n \in CatalogNames
    BY <1>5 DEF Inv, TypeOK
  <2>2. CASE n \in names
    BY <2>1, <2>2, <1>2, <1>4, ProviderAssumption
  <2>3. CASE n \notin names
    BY <2>1, <2>3, <1>2 DEF Inv, Round, MarkedAreCurrent
  <2>. QED
    BY <2>2, <2>3
<1>10. OnlyMarkedRests'
  <2>. SUFFICES ASSUME status' = "rest", NEW n \in CatalogNames, n \notin told'
                PROVE  catalog'[n] = NoEntity
    BY DEF OnlyMarkedRests
  <2>1. ~ response.more
    BY <1>1, <1>3
  <2>. QED
    BY <2>1, <1>1, <1>2
<1>. QED
  BY <1>6, <1>7, <1>8, <1>9, <1>10 DEF Inv, Round

\* Every step of a round keeps the invariant.
LEMMA NextInv == Inv /\ [Next]_vars => Inv'
<1>. SUFFICES ASSUME Inv, [Next]_vars PROVE Inv'
  OBVIOUS
<1>1. CASE \E r \in Resources, record \in Records \cup {Absent} : Change(r, record)
  BY <1>1, ChangeInv
<1>2. CASE Query
  BY <1>2, QueryInv
<1>3. CASE QueryFails \/ RoundFails \/ Crash \/ Retry
  <2>1. response' = NoResponse /\ status # "rest" /\ status' \in {"ingest", "backoff"}
    BY <1>3 DEF QueryFails, RoundFails, Crash, Retry, Inv, Round, Phases
  <2>2. UNCHANGED <<account, changes, cursor, told, catalog, kept, seen>>
    BY <1>3 DEF QueryFails, RoundFails, Crash, Retry
  <2>. QED
    BY <2>1, <2>2, PauseInv
<1>4. CASE Deliver
  BY <1>4, DeliverInv
<1>5. CASE NextRound
  BY <1>5, NextRoundInv
<1>6. CASE UNCHANGED vars
  BY <1>6 DEF vars, Inv, TypeOK, Round, HistoryFits, Phases, MarkedUpToCursor,
              MarkedAreCurrent, PageIsWhole, OnlyMarkedRests, Versions
<1>. QED
  BY <1>1, <1>2, <1>3, <1>4, <1>5, <1>6 DEF Next

\* The invariant, for any number of rounds.
LEMMA Invariance == Spec => []Inv
<1>. QED
  BY InitInv, NextInv, PTL DEF Spec

-----------------------------------------------------------------------------
\* Every reachable state of the provider and the engine is well typed.
THEOREM TypeCorrect == Spec => []TypeOK
<1>1. Inv => TypeOK
  BY DEF Inv
<1>. QED
  BY <1>1, Invariance, PTL

\* A round that ends has listed every resource that was there throughout it:
\* next() says done only at the end of the listing, and throws for the page
\* instead of leaving a result out.
THEOREM NothingIsMissed == Spec => []ResourcesAreListed
<1>1. Inv => ResourcesAreListed
  BY DEF Inv, Round, MarkedUpToCursor, MarkedAreCurrent, ResourcesAreListed
<1>. QED
  BY <1>1, Invariance, PTL

\* A round that ends has left no entity of a resource that was gone, or had
\* another name, all the time since it began: next() never answers from an
\* earlier round.
THEOREM NothingIsStale == Spec => []EntitiesAreCurrent
<1>1. Inv => EntitiesAreCurrent
  BY DEF Inv, Round, OnlyMarkedRests, MarkedAreCurrent, EntitiesAreCurrent
<1>. QED
  BY <1>1, Invariance, PTL

=============================================================================
