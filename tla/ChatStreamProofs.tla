-------------------------- MODULE ChatStreamProofs --------------------------
(***************************************************************************)
(* Theorems about ChatStream, for runs of any length: what the client is   *)
(* sent is the run's own events in order, a response that ends normally is *)
(* the whole answer, and the backend implements ChatContract.              *)
(*                                                                         *)
(* The argument places the response, the queue of the ReadableStream and   *)
(* the events in the transform stream one after the other in the list of   *)
(* all events the run produced, until an error discards the later ones.    *)
(***************************************************************************)
EXTENDS ChatStream, SequenceTheorems, TLAPS

Produced == ChatEvent \cup {ResponseEvent}
Written == Produced \cup {ErrorEvent}

\* How far the three loops are, relative to each other.
Phases ==
  /\ router = "awaiting" <=> graph = "pending"
  /\ router \in {"awaiting", "cut"} =>
       copier = "copying" /\ wire = <<>> /\ out = <<>> /\ pipe = <<>> /\ produced = <<>>
  /\ router = "cut" => graph = "threw"
  /\ copier = "closed" => graph = "ended" /\ pipe = <<>>
  /\ copier \in {"errored", "gone"} => graph = "threw"
  /\ copier = "errored" => out = <<>>
  /\ router = "ended" => out = <<>> /\ copier \in {"closed", "errored"}
  /\ graph = "threw" => pipe = <<>>

\* The session id comes first, and nothing after it looks like one.
SessionFirst ==
  /\ router \in {"reading", "ended"} => produced # <<>>
  /\ produced # <<>> => produced[1] = ResponseEvent
  /\ \A i \in 2..Len(produced) : produced[i] \in ChatEvent

\* The last event of a response whose run threw.
ToldError(i) ==
  router = "ended" /\ graph = "threw" /\ i = Len(wire) /\ wire[i] = ErrorEvent

WireInProduced ==
  /\ \A i \in 1..Len(wire) :
       \/ i <= Len(produced) /\ wire[i] = produced[i]
       \/ ToldError(i)
  /\ router = "ended" /\ graph = "threw" => wire # <<>> /\ wire[Len(wire)] = ErrorEvent

OutInProduced ==
  router # "ended" =>
    /\ Len(wire) + Len(out) <= Len(produced)
    /\ \A i \in 1..Len(out) : out[i] = produced[Len(wire) + i]

\* Nothing is discarded unless the run throws.
PipeInProduced ==
  graph # "threw" =>
    /\ Len(wire) + Len(out) + Len(pipe) = Len(produced)
    /\ \A i \in 1..Len(pipe) : pipe[i] = produced[Len(wire) + Len(out) + i]

Inv == StreamTypeOK /\ Phases /\ SessionFirst /\ WireInProduced /\ OutInProduced /\ PipeInProduced

-----------------------------------------------------------------------------
\* A chat event of the run, or none.
LEMMA TranslateType ==
  ASSUME NEW k \in Kinds, NEW n \in 1..MaxEvents
  PROVE  /\ Translate(k, n) \in Seq(ChatEvent)
         /\ Len(Translate(k, n)) \in {0, 1}
<1>1. [type |-> "ChunkEvent", of |-> n] \in ChatEvent
  BY DEF ChatEvent
<1>2. [type |-> "ToolEvent", of |-> n] \in ChatEvent
  BY DEF ChatEvent
<1>. QED
  BY <1>1, <1>2 DEF Translate, Kinds

\* What an event adds to a list of produced events.
LEMMA ExtendProduced ==
  ASSUME NEW k \in Kinds, NEW n \in 1..MaxEvents, NEW q \in Seq(Produced)
  PROVE  /\ q \o Translate(k, n) \in Seq(Produced)
         /\ Len(q \o Translate(k, n)) = Len(q) + Len(Translate(k, n))
         /\ \A i \in 1..Len(q) + Len(Translate(k, n)) :
              (q \o Translate(k, n))[i] =
                IF i <= Len(q) THEN q[i] ELSE Translate(k, n)[i - Len(q)]
<1>1. Translate(k, n) \in Seq(Produced)
  BY TranslateType DEF Produced
<1>. QED
  BY <1>1, ConcatProperties

\* The four lists, with their types at hand.
LEMMA Lists ==
  ASSUME StreamTypeOK
  PROVE  /\ pipe \in Seq(Produced) /\ out \in Seq(Produced) /\ produced \in Seq(Produced)
         /\ wire \in Seq(Written)
BY DEF StreamTypeOK, Produced, Written

\* Nothing is under way at the start.
LEMMA InvInit == StreamInit => Inv
<1>. SUFFICES ASSUME StreamInit PROVE Inv
  OBVIOUS
<1>1. StreamTypeOK
  <2>1. <<>> \in Seq(Produced) /\ <<>> \in Seq(Written)
    BY EmptySeq
  <2>2. {pipe, out, produced} \subseteq Seq(Produced) /\ wire \in Seq(Written)
    BY <2>1 DEF StreamInit
  <2>3. 0 \in 0..MaxEvents
    BY EventsAssumption
  <2>. QED
    BY <2>2, <2>3 DEF StreamInit, StreamTypeOK, Produced, Written
<1>2. Phases /\ SessionFirst /\ WireInProduced /\ OutInProduced /\ PipeInProduced
  BY DEF StreamInit, Phases, SessionFirst, WireInProduced, OutInProduced, PipeInProduced
<1>. QED
  BY <1>1, <1>2 DEF Inv

LEMMA StartInv == Inv /\ Start => Inv'
<1>. SUFFICES ASSUME Inv, Start PROVE Inv'
  OBVIOUS
<1>1. /\ wire = <<>> /\ out = <<>> /\ copier = "copying" /\ graph' = "running"
      /\ router' = "reading" /\ pipe' = <<ResponseEvent>> /\ produced' = <<ResponseEvent>>
      /\ UNCHANGED <<cause, emitted, copier, out, wire, signalled>>
  BY DEF Inv, Phases, Start
<1>2. StreamTypeOK'
  BY <1>1 DEF Inv, StreamTypeOK
<1>3. Phases'
  BY <1>1 DEF Inv, Phases
<1>4. SessionFirst'
  BY <1>1 DEF SessionFirst
<1>5. WireInProduced' /\ OutInProduced' /\ PipeInProduced'
  BY <1>1 DEF WireInProduced, OutInProduced, PipeInProduced
<1>. QED
  BY <1>2, <1>3, <1>4, <1>5 DEF Inv

LEMMA RefuseInv == Inv /\ Refuse => Inv'
<1>. SUFFICES ASSUME Inv, Refuse PROVE Inv'
  OBVIOUS
<1>1. /\ wire = <<>> /\ out = <<>> /\ pipe = <<>> /\ produced = <<>> /\ copier = "copying"
      /\ graph' = "threw" /\ router' = "cut"
      /\ UNCHANGED <<cause, emitted, pipe, copier, out, wire, signalled, produced>>
  BY DEF Inv, Phases, Refuse
<1>2. StreamTypeOK'
  BY <1>1 DEF Inv, StreamTypeOK
<1>3. Phases' /\ SessionFirst' /\ WireInProduced' /\ OutInProduced' /\ PipeInProduced'
  BY <1>1 DEF Phases, SessionFirst, WireInProduced, OutInProduced, PipeInProduced
<1>. QED
  BY <1>2, <1>3 DEF Inv

LEMMA EmitInv == \A k \in Kinds : Inv /\ Emit(k) => Inv'
<1>. SUFFICES ASSUME NEW k \in Kinds, Inv, Emit(k) PROVE Inv'
  OBVIOUS
<1> DEFINE T == Translate(k, emitted + 1)
<1>1. /\ graph = "running" /\ emitted < MaxEvents /\ emitted' = emitted + 1
      /\ pipe' = pipe \o T /\ produced' = produced \o T
      /\ UNCHANGED <<graph, cause, copier, out, router, wire, signalled>>
  BY DEF Emit
<1>2. emitted + 1 \in 1..MaxEvents
  BY <1>1, EventsAssumption DEF Inv, StreamTypeOK
<1>3. T \in Seq(ChatEvent) /\ Len(T) \in {0, 1}
  BY <1>2, TranslateType
<1>4. /\ pipe' \in Seq(Produced) /\ Len(pipe') = Len(pipe) + Len(T)
      /\ \A i \in 1..Len(pipe) + Len(T) :
           pipe'[i] = IF i <= Len(pipe) THEN pipe[i] ELSE T[i - Len(pipe)]
  BY <1>1, <1>2, ExtendProduced, Lists DEF Inv
<1>5. /\ produced' \in Seq(Produced) /\ Len(produced') = Len(produced) + Len(T)
      /\ \A i \in 1..Len(produced) + Len(T) :
           produced'[i] = IF i <= Len(produced) THEN produced[i] ELSE T[i - Len(produced)]
  BY <1>1, <1>2, ExtendProduced, Lists DEF Inv
<1>. HIDE DEF T
<1>6. StreamTypeOK'
  BY <1>1, <1>2, <1>4, <1>5 DEF Inv, StreamTypeOK, Produced
<1>7. Phases'
  BY <1>1 DEF Inv, Phases
<1>8. router = "reading" /\ produced # <<>> /\ Len(produced) > 0
  BY <1>1, Lists, EmptySeq DEF Inv, Phases, SessionFirst, StreamTypeOK
<1>9. SessionFirst'
  <2>1. produced' # <<>> /\ produced'[1] = ResponseEvent
    BY <1>3, <1>5, <1>8, EmptySeq, Lists DEF Inv, SessionFirst
  <2>2. ASSUME NEW i \in 2..Len(produced') PROVE produced'[i] \in ChatEvent
    <3>1. CASE i <= Len(produced)
      BY <3>1, <1>3, <1>5, Lists DEF Inv, SessionFirst
    <3>2. CASE i > Len(produced)
      <4>1. Len(T) = 1 /\ i = Len(produced) + 1 /\ produced'[i] = T[1]
        BY <3>2, <1>3, <1>5, Lists DEF Inv
      <4>. QED
        BY <4>1, <1>3
    <3>. QED
      BY <3>1, <3>2, Lists DEF Inv
  <2>. QED
    BY <2>1, <2>2 DEF SessionFirst
<1>10. WireInProduced'
  BY <1>1, <1>3, <1>5, Lists DEF Inv, WireInProduced, ToldError
<1>11. OutInProduced'
  BY <1>1, <1>3, <1>5, Lists DEF Inv, OutInProduced
<1>12. PipeInProduced'
  <2>1. /\ Len(wire) + Len(out) + Len(pipe) = Len(produced)
        /\ \A i \in 1..Len(pipe) : pipe[i] = produced[Len(wire) + Len(out) + i]
    BY <1>1 DEF Inv, PipeInProduced
  <2>2. /\ Len(wire) \in Nat /\ Len(out) \in Nat /\ Len(pipe) \in Nat /\ Len(T) \in Nat
    BY <1>3, Lists, LenProperties DEF Inv
  <2>3. wire' = wire /\ out' = out
    BY <1>1
  <2>4. Len(wire') + Len(out') + Len(pipe') = Len(produced')
    <3>1. Len(wire) + Len(out) + Len(pipe) = Len(produced)
      BY <2>1
    <3>2. Len(pipe') = Len(pipe) + Len(T)
      BY <1>4
    <3>3. Len(produced') = Len(produced) + Len(T)
      BY <1>5
    <3>4. Len(wire') = Len(wire) /\ Len(out') = Len(out)
      BY <2>3
    <3>. QED
      BY <2>2, <3>1, <3>2, <3>3, <3>4
  <2>5. ASSUME NEW i \in 1..Len(pipe')
        PROVE  pipe'[i] = produced'[Len(wire') + Len(out') + i]
    <3> DEFINE n == Len(wire) + Len(out) + i
    <3>1. Len(wire') + Len(out') + i = n
      BY <2>3
    <3>2. i \in 1..Len(pipe) + Len(T)
      BY <1>4
    <3>3. pipe'[i] = IF i <= Len(pipe) THEN pipe[i] ELSE T[i - Len(pipe)]
      BY <1>4, <3>2
    <3>4. Len(produced) = Len(wire) + Len(out) + Len(pipe)
      BY <2>1
    <3>5. n \in 1..Len(produced) + Len(T)
      BY <3>2, <3>4, <2>2
    <3>6. produced'[n] = IF n <= Len(produced) THEN produced[n] ELSE T[n - Len(produced)]
      BY <3>5, <1>5
    <3>7. n <= Len(produced) <=> i <= Len(pipe)
      BY <3>2, <3>4, <2>2
    <3>8. n - Len(produced) = i - Len(pipe)
      BY <3>2, <3>4, <2>2
    <3>9. i <= Len(pipe) => pipe[i] = produced[n]
      BY <3>2, <2>1, <2>2
    <3>. QED
      BY <3>1, <3>3, <3>6, <3>7, <3>8, <3>9
  <2>. QED
    BY <2>4, <2>5 DEF PipeInProduced
<1>. QED
  BY <1>6, <1>7, <1>9, <1>10, <1>11, <1>12 DEF Inv

LEMMA CompleteInv == Inv /\ Complete => Inv'
<1>. SUFFICES ASSUME Inv, Complete PROVE Inv'
  OBVIOUS
<1>1. /\ graph = "running" /\ graph' = "ended"
      /\ UNCHANGED <<cause, emitted, pipe, copier, out, router, wire, signalled, produced>>
  BY DEF Complete
<1>2. StreamTypeOK'
  BY <1>1 DEF Inv, StreamTypeOK
<1>3. Phases'
  BY <1>1 DEF Inv, Phases
<1>4. SessionFirst' /\ WireInProduced' /\ OutInProduced' /\ PipeInProduced'
  BY <1>1 DEF Inv, SessionFirst, WireInProduced, ToldError, OutInProduced, PipeInProduced
<1>. QED
  BY <1>2, <1>3, <1>4 DEF Inv

LEMMA ThrowInv == \A e \in {"Abort", "other"} : Inv /\ Throw(e) => Inv'
<1>. SUFFICES ASSUME NEW e \in {"Abort", "other"}, Inv, Throw(e) PROVE Inv'
  OBVIOUS
<1>1. /\ graph = "running" /\ graph' = "threw" /\ cause' = e /\ pipe' = <<>>
      /\ UNCHANGED <<emitted, copier, out, router, wire, signalled, produced>>
  BY DEF Throw
<1>2. StreamTypeOK'
  BY <1>1 DEF Inv, StreamTypeOK
<1>3. router = "reading" /\ Phases'
  BY <1>1 DEF Inv, Phases, StreamTypeOK
<1>4. SessionFirst' /\ WireInProduced' /\ OutInProduced' /\ PipeInProduced'
  BY <1>1, <1>3 DEF Inv, SessionFirst, WireInProduced, ToldError, OutInProduced, PipeInProduced
<1>. QED
  BY <1>2, <1>3, <1>4 DEF Inv

LEMMA CloseRequestInv == Inv /\ CloseRequest => Inv'
<1>. SUFFICES ASSUME Inv, CloseRequest PROVE Inv'
  OBVIOUS
<1>1. /\ signalled' = TRUE
      /\ UNCHANGED <<graph, cause, emitted, pipe, copier, out, router, wire, produced>>
  BY DEF CloseRequest
<1>2. StreamTypeOK'
  BY <1>1 DEF Inv, StreamTypeOK
<1>3. Phases' /\ SessionFirst' /\ WireInProduced' /\ OutInProduced' /\ PipeInProduced'
  BY <1>1 DEF Inv, Phases, SessionFirst, WireInProduced, ToldError, OutInProduced, PipeInProduced
<1>. QED
  BY <1>2, <1>3 DEF Inv

\* Moving the first element of one list to the end of another.
LEMMA MoveHead ==
  ASSUME NEW S, NEW s \in Seq(S), s # <<>>, NEW t \in Seq(S)
  PROVE  /\ Append(t, Head(s)) \in Seq(S) /\ Tail(s) \in Seq(S)
         /\ Len(Append(t, Head(s))) = Len(t) + 1 /\ Len(Tail(s)) = Len(s) - 1
         /\ Len(s) \in Nat \ {0} /\ Len(t) \in Nat
         /\ \A i \in 1..Len(t) : Append(t, Head(s))[i] = t[i]
         /\ Append(t, Head(s))[Len(t) + 1] = s[1]
         /\ \A i \in 1..Len(s) - 1 : Tail(s)[i] = s[i + 1]
<1>1. Head(s) \in S /\ Head(s) = s[1]
  BY HeadTailProperties
<1>2. Len(s) \in Nat \ {0} /\ Len(t) \in Nat
  BY EmptySeq, LenProperties
<1>. QED
  BY <1>1, <1>2, HeadTailProperties, AppendProperties

LEMMA CopyInv == Inv /\ Copy => Inv'
<1>. SUFFICES ASSUME Inv, Copy PROVE Inv'
  OBVIOUS
<1>1. /\ copier = "copying" /\ pipe # <<>> /\ out' = Append(out, Head(pipe)) /\ pipe' = Tail(pipe)
      /\ UNCHANGED <<graph, cause, emitted, copier, router, wire, signalled, produced>>
  BY DEF Copy
<1>2. graph # "threw" /\ router = "reading"
  BY <1>1 DEF Inv, Phases, StreamTypeOK
<1>3. /\ out' \in Seq(Produced) /\ pipe' \in Seq(Produced)
      /\ Len(out') = Len(out) + 1 /\ Len(pipe') = Len(pipe) - 1
      /\ Len(pipe) \in Nat \ {0} /\ Len(out) \in Nat
      /\ \A i \in 1..Len(out) : out'[i] = out[i]
      /\ out'[Len(out) + 1] = pipe[1]
      /\ \A i \in 1..Len(pipe) - 1 : pipe'[i] = pipe[i + 1]
  BY <1>1, Lists, MoveHead DEF Inv
<1>4. Len(wire) \in Nat
  BY Lists, LenProperties DEF Inv
<1>5. /\ Len(wire) + Len(out) + Len(pipe) = Len(produced)
      /\ \A i \in 1..Len(pipe) : pipe[i] = produced[Len(wire) + Len(out) + i]
  BY <1>2 DEF Inv, PipeInProduced
<1>6. \A i \in 1..Len(out) : out[i] = produced[Len(wire) + i]
  BY <1>2 DEF Inv, OutInProduced
<1>7. StreamTypeOK'
  BY <1>1, <1>3 DEF Inv, StreamTypeOK, Produced
<1>8. Phases'
  BY <1>1, <1>2 DEF Inv, Phases
<1>9. SessionFirst' /\ WireInProduced'
  BY <1>1 DEF Inv, SessionFirst, WireInProduced, ToldError
<1>10. OutInProduced'
  <2>1. Len(wire) + Len(out') <= Len(produced)
    BY <1>3, <1>4, <1>5
  <2>2. ASSUME NEW i \in 1..Len(out') PROVE out'[i] = produced[Len(wire) + i]
    <3>1. CASE i <= Len(out)
      BY <3>1, <1>3, <1>6
    <3>2. CASE i = Len(out) + 1
      <4>1. pipe[1] = produced[Len(wire) + Len(out) + 1]
        BY <1>3, <1>5
      <4>2. Len(wire) + Len(out) + 1 = Len(wire) + i
        BY <3>2, <1>3, <1>4
      <4>. QED
        BY <3>2, <4>1, <4>2, <1>3
    <3>. QED
      BY <3>1, <3>2, <1>3
  <2>. QED
    BY <2>1, <2>2, <1>1 DEF OutInProduced
<1>11. PipeInProduced'
  <2>1. Len(wire) + Len(out') + Len(pipe') = Len(produced)
    <3>1. Len(out') = Len(out) + 1 /\ Len(pipe') = Len(pipe) - 1
      BY <1>3
    <3>2. Len(pipe) \in Nat /\ Len(out) \in Nat
      BY <1>3
    <3>. QED
      BY <3>1, <3>2, <1>4, <1>5
  <2>2. ASSUME NEW i \in 1..Len(pipe')
        PROVE  pipe'[i] = produced[Len(wire) + Len(out') + i]
    <3>1. i \in 1..Len(pipe) - 1 /\ i + 1 \in 1..Len(pipe)
      BY <1>3
    <3>2. pipe'[i] = pipe[i + 1]
      BY <3>1, <1>3
    <3>3. pipe[i + 1] = produced[Len(wire) + Len(out) + (i + 1)]
      BY <3>1, <1>5
    <3>4. Len(wire) + Len(out) + (i + 1) = Len(wire) + Len(out') + i
      BY <1>3, <1>4
    <3>. QED
      BY <3>2, <3>3, <3>4
  <2>. QED
    BY <2>1, <2>2, <1>1 DEF PipeInProduced
<1>. QED
  BY <1>7, <1>8, <1>9, <1>10, <1>11 DEF Inv

LEMMA CopyDoneInv == Inv /\ CopyDone => Inv'
<1>. SUFFICES ASSUME Inv, CopyDone PROVE Inv'
  OBVIOUS
<1>1. /\ copier = "copying" /\ graph = "ended" /\ pipe = <<>> /\ copier' = "closed"
      /\ UNCHANGED <<graph, cause, emitted, pipe, out, router, wire, signalled, produced>>
  BY DEF CopyDone
<1>2. StreamTypeOK'
  BY <1>1 DEF Inv, StreamTypeOK
<1>3. Phases'
  BY <1>1 DEF Inv, Phases
<1>4. SessionFirst' /\ WireInProduced' /\ OutInProduced' /\ PipeInProduced'
  BY <1>1 DEF Inv, SessionFirst, WireInProduced, ToldError, OutInProduced, PipeInProduced
<1>. QED
  BY <1>2, <1>3, <1>4 DEF Inv

LEMMA CopyFailsInv == Inv /\ CopyFails => Inv'
<1>. SUFFICES ASSUME Inv, CopyFails PROVE Inv'
  OBVIOUS
<1>1. /\ copier = "copying" /\ graph = "threw" /\ router # "cut"
      /\ \/ copier' = "gone" /\ out' = out
         \/ copier' = "errored" /\ out' = <<>>
      /\ UNCHANGED <<graph, cause, emitted, pipe, router, wire, signalled, produced>>
  BY DEF CopyFails
<1>2. <<>> \in Seq(Produced)
  BY EmptySeq
<1>3. out' \in Seq(Produced)
  BY <1>1, <1>2, Lists DEF Inv
<1>4. StreamTypeOK'
  BY <1>1, <1>3 DEF Inv, StreamTypeOK, Produced
<1>5. router = "reading"
  BY <1>1 DEF Inv, Phases, StreamTypeOK
<1>6. Phases'
  BY <1>1, <1>5 DEF Inv, Phases
<1>7. SessionFirst' /\ WireInProduced' /\ PipeInProduced'
  BY <1>1 DEF Inv, SessionFirst, WireInProduced, ToldError, PipeInProduced
<1>8. OutInProduced'
  <2>1. /\ Len(wire) + Len(out) <= Len(produced)
        /\ \A i \in 1..Len(out) : out[i] = produced[Len(wire) + i]
    BY <1>5 DEF Inv, OutInProduced
  <2>2. Len(wire) \in Nat /\ Len(out) \in Nat /\ Len(produced) \in Nat
    BY Lists, LenProperties DEF Inv
  <2>3. CASE out' = out
    BY <2>1, <2>3, <1>1 DEF OutInProduced
  <2>4. CASE out' = <<>>
    <3>1. Len(out') = 0
      BY <2>4, EmptySeq
    <3>. QED
      BY <2>1, <2>2, <3>1, <1>1 DEF OutInProduced
  <2>. QED
    BY <2>3, <2>4, <1>1
<1>. QED
  BY <1>4, <1>6, <1>7, <1>8 DEF Inv

LEMMA WriteInv == Inv /\ Write => Inv'
<1>. SUFFICES ASSUME Inv, Write PROVE Inv'
  OBVIOUS
<1>1. /\ router = "reading" /\ out # <<>> /\ wire' = Append(wire, Head(out)) /\ out' = Tail(out)
      /\ UNCHANGED <<graph, cause, emitted, pipe, copier, router, signalled, produced>>
  BY DEF Write
<1>2. out \in Seq(Written) /\ out \in Seq(Produced) /\ wire \in Seq(Written)
      /\ produced \in Seq(Produced)
  BY Lists DEF Inv, Produced, Written
<1>3. /\ wire' \in Seq(Written) /\ Len(wire') = Len(wire) + 1 /\ Len(out') = Len(out) - 1
      /\ Len(out) \in Nat \ {0} /\ Len(wire) \in Nat
      /\ \A i \in 1..Len(wire) : wire'[i] = wire[i]
      /\ wire'[Len(wire) + 1] = out[1]
      /\ \A i \in 1..Len(out) - 1 : out'[i] = out[i + 1]
  BY <1>1, <1>2, MoveHead
<1>4. out' \in Seq(Produced)
  BY <1>1, <1>2, MoveHead
<1>5. /\ Len(wire) + Len(out) <= Len(produced)
      /\ \A i \in 1..Len(out) : out[i] = produced[Len(wire) + i]
  BY <1>1 DEF Inv, OutInProduced
<1>6. Len(produced) \in Nat /\ Len(pipe) \in Nat
  BY Lists, LenProperties DEF Inv
<1>7. StreamTypeOK'
  BY <1>1, <1>3, <1>4 DEF Inv, StreamTypeOK, Produced, Written
<1>8. Phases'
  BY <1>1 DEF Inv, Phases
<1>9. SessionFirst'
  BY <1>1 DEF Inv, SessionFirst
<1>10. WireInProduced'
  <2>1. ASSUME NEW i \in 1..Len(wire') PROVE i <= Len(produced) /\ wire'[i] = produced[i]
    <3>1. CASE i <= Len(wire)
      BY <3>1, <1>1, <1>3 DEF Inv, WireInProduced, ToldError
    <3>2. CASE i = Len(wire) + 1
      <4>1. out[1] = produced[Len(wire) + 1]
        BY <1>3, <1>5
      <4>2. i <= Len(produced)
        BY <3>2, <1>3, <1>5, <1>6
      <4>. QED
        BY <3>2, <4>1, <4>2, <1>3
    <3>. QED
      BY <3>1, <3>2, <1>3
  <2>. QED
    BY <2>1, <1>1 DEF WireInProduced
<1>11. OutInProduced'
  <2>1. Len(wire') + Len(out') <= Len(produced)
    <3>1. Len(wire') = Len(wire) + 1 /\ Len(out') = Len(out) - 1
      BY <1>3
    <3>2. Len(wire) \in Nat /\ Len(out) \in Nat
      BY <1>3
    <3>. QED
      BY <3>1, <3>2, <1>5, <1>6
  <2>2. ASSUME NEW i \in 1..Len(out') PROVE out'[i] = produced[Len(wire') + i]
    <3>1. i \in 1..Len(out) - 1 /\ i + 1 \in 1..Len(out)
      BY <1>3
    <3>2. out'[i] = out[i + 1]
      BY <3>1, <1>3
    <3>3. out[i + 1] = produced[Len(wire) + (i + 1)]
      BY <3>1, <1>5
    <3>4. Len(wire) + (i + 1) = Len(wire') + i
      BY <1>3
    <3>. QED
      BY <3>2, <3>3, <3>4
  <2>. QED
    BY <2>1, <2>2, <1>1 DEF OutInProduced
<1>12. PipeInProduced'
  <2>1. Len(wire') + Len(out') = Len(wire) + Len(out)
    <3>1. Len(wire') = Len(wire) + 1 /\ Len(out') = Len(out) - 1
      BY <1>3
    <3>2. Len(wire) \in Nat /\ Len(out) \in Nat
      BY <1>3
    <3>. QED
      BY <3>1, <3>2
  <2>. QED
    BY <2>1, <1>1 DEF Inv, PipeInProduced
<1>. QED
  BY <1>7, <1>8, <1>9, <1>10, <1>11, <1>12 DEF Inv

LEMMA WriteErrorInv == Inv /\ WriteError => Inv'
<1>. SUFFICES ASSUME Inv, WriteError PROVE Inv'
  OBVIOUS
<1>1. /\ router = "reading" /\ copier = "errored" /\ router' = "ended"
      /\ wire' = Append(wire, ErrorEvent)
      /\ UNCHANGED <<graph, cause, emitted, pipe, copier, out, signalled, produced>>
  BY DEF WriteError
<1>2. wire \in Seq(Written) /\ ErrorEvent \in Written /\ Len(wire) \in Nat
  BY Lists, LenProperties DEF Inv, Written
<1>3. /\ wire' \in Seq(Written) /\ wire' # <<>> /\ Len(wire') = Len(wire) + 1
      /\ \A i \in 1..Len(wire) : wire'[i] = wire[i]
      /\ wire'[Len(wire) + 1] = ErrorEvent
  BY <1>1, <1>2, AppendProperties
<1>4. graph = "threw" /\ out = <<>>
  BY <1>1 DEF Inv, Phases
<1>5. StreamTypeOK'
  BY <1>1, <1>3 DEF Inv, StreamTypeOK, Produced, Written
<1>6. Phases'
  BY <1>1, <1>4 DEF Inv, Phases
<1>7. SessionFirst'
  BY <1>1 DEF Inv, SessionFirst
<1>8. WireInProduced'
  <2>1. \A i \in 1..Len(wire) : i <= Len(produced) /\ wire[i] = produced[i]
    BY <1>1 DEF Inv, WireInProduced, ToldError
  <2>2. wire' # <<>> /\ wire'[Len(wire')] = ErrorEvent
    BY <1>3
  <2>3. ASSUME NEW i \in 1..Len(wire')
        PROVE  \/ i <= Len(produced) /\ wire'[i] = produced[i]
               \/ ToldError(i)'
    <3>1. CASE i <= Len(wire)
      BY <3>1, <2>1, <1>2, <1>3
    <3>2. CASE i = Len(wire')
      BY <3>2, <2>2, <1>1, <1>4 DEF ToldError
    <3>. QED
      BY <3>1, <3>2, <1>2, <1>3
  <2>. QED
    BY <2>2, <2>3, <1>1 DEF WireInProduced
<1>9. OutInProduced' /\ PipeInProduced'
  BY <1>1, <1>4 DEF OutInProduced, PipeInProduced
<1>. QED
  BY <1>5, <1>6, <1>7, <1>8, <1>9 DEF Inv

LEMMA EndResponseInv == Inv /\ EndResponse => Inv'
<1>. SUFFICES ASSUME Inv, EndResponse PROVE Inv'
  OBVIOUS
<1>1. /\ router = "reading" /\ copier = "closed" /\ out = <<>> /\ router' = "ended"
      /\ UNCHANGED <<graph, cause, emitted, pipe, copier, out, wire, signalled, produced>>
  BY DEF EndResponse
<1>2. graph = "ended"
  BY <1>1 DEF Inv, Phases
<1>3. StreamTypeOK'
  BY <1>1 DEF Inv, StreamTypeOK
<1>4. Phases'
  BY <1>1, <1>2 DEF Inv, Phases
<1>5. SessionFirst' /\ WireInProduced' /\ OutInProduced' /\ PipeInProduced'
  BY <1>1, <1>2 DEF Inv, SessionFirst, WireInProduced, ToldError, OutInProduced, PipeInProduced
<1>. QED
  BY <1>3, <1>4, <1>5 DEF Inv

-----------------------------------------------------------------------------
\* Every step of the three sides keeps the invariant.
LEMMA InvNext == Inv /\ [StreamNext]_streamVars => Inv'
<1>. SUFFICES ASSUME Inv, [StreamNext]_streamVars PROVE Inv'
  OBVIOUS
<1>1. CASE Run
  BY <1>1, StartInv, EmitInv, CompleteInv DEF Run
<1>2. CASE Deliver
  BY <1>2, CopyInv, CopyDoneInv, CopyFailsInv, WriteInv, WriteErrorInv, EndResponseInv DEF Deliver
<1>3. CASE Refuse \/ CloseRequest \/ \E e \in {"Abort", "other"} : Throw(e)
  BY <1>3, RefuseInv, CloseRequestInv, ThrowInv
<1>4. CASE UNCHANGED streamVars
  <2>1. UNCHANGED <<graph, cause, emitted, pipe, copier, out, router, wire, signalled, produced>>
    BY <1>4 DEF streamVars
  <2>2. StreamTypeOK' /\ Phases' /\ SessionFirst'
    BY <2>1 DEF Inv, StreamTypeOK, Phases, SessionFirst
  <2>3. WireInProduced' /\ OutInProduced' /\ PipeInProduced'
    BY <2>1 DEF Inv, WireInProduced, ToldError, OutInProduced, PipeInProduced
  <2>. QED
    BY <2>2, <2>3 DEF Inv
<1>. QED
  BY <1>1, <1>2, <1>3, <1>4 DEF StreamNext

\* The invariant, for runs of any length.
LEMMA Invariance == StreamSpec => []Inv
<1>1. StreamInit => Inv
  BY InvInit
<1>2. Inv /\ [StreamNext]_streamVars => Inv'
  BY InvNext
<1>. QED
  BY <1>1, <1>2, PTL DEF StreamSpec

\* Type correctness, for runs of any length.
THEOREM TypeCorrect == StreamSpec => []StreamTypeOK
<1>1. Inv => StreamTypeOK
  BY DEF Inv
<1>. QED
  BY <1>1, Invariance, PTL

\* The response never tells what the run did not, nor in another order
\* (start() of the ReadableStream, the loop of the route).
THEOREM InOrder == StreamSpec => []WrittenInOrder
<1>1. Inv => WrittenInOrder
  BY DEF Inv, WireInProduced, ToldError, WrittenInOrder
<1>. QED
  BY <1>1, Invariance, PTL

\* A response that has ended is whole, or ends in an error.
LEMMA InvWhole == Inv => WholeOrTold
<1>. SUFFICES ASSUME Inv, router = "ended"
              PROVE  \/ graph = "ended" /\ wire = produced
                     \/ graph = "threw" /\ wire # <<>> /\ wire[Len(wire)] = ErrorEvent
  BY DEF WholeOrTold
<1>1. out = <<>> /\ copier \in {"closed", "errored"}
  BY DEF Inv, Phases
<1>2. CASE copier = "errored"
  BY <1>2 DEF Inv, Phases, WireInProduced
<1>3. CASE copier = "closed"
  <2>1. graph = "ended" /\ pipe = <<>>
    BY <1>3 DEF Inv, Phases
  <2>2. wire \in Seq(Written) /\ produced \in Seq(Written) /\ Len(wire) \in Nat
    BY Lists, LenProperties DEF Inv, Produced, Written
  <2>3. Len(wire) = Len(produced)
    BY <2>1, <2>2, <1>1, EmptySeq DEF Inv, PipeInProduced
  <2>4. \A i \in 1..Len(wire) : wire[i] = produced[i]
    BY <2>1 DEF Inv, WireInProduced, ToldError
  <2>5. wire = produced
    BY <2>2, <2>3, <2>4, SeqEqual
  <2>. QED
    BY <2>1, <2>5
<1>. QED
  BY <1>1, <1>2, <1>3

\* A response that ends normally is the whole answer, for runs of any length:
\* what the two buffers discard when a run throws is never passed over in silence.
THEOREM NothingInSilence == StreamSpec => []WholeOrTold
BY Invariance, InvWhole, PTL

-----------------------------------------------------------------------------
\* What the route writes is what ChatContract allows next.
LEMMA WriteRefines == Inv /\ Write => Contract!Announce \/ Contract!Tell
<1>. SUFFICES ASSUME Inv, Write PROVE Contract!Announce \/ Contract!Tell
  OBVIOUS
<1>1. /\ router = "reading" /\ out # <<>> /\ wire' = Append(wire, Head(out))
      /\ UNCHANGED router
  BY DEF Write
<1>2. status = "open" /\ UNCHANGED status
  BY <1>1 DEF status
<1>3. /\ out \in Seq(Produced) /\ Len(out) \in Nat \ {0} /\ Len(wire) \in Nat
      /\ Len(produced) \in Nat /\ Head(out) = out[1] /\ wire \in Seq(Written)
  BY <1>1, Lists, EmptySeq, LenProperties DEF Inv
<1>4. out[1] = produced[Len(wire) + 1] /\ Len(wire) + 1 <= Len(produced)
  BY <1>1, <1>3 DEF Inv, OutInProduced
<1>5. CASE wire = <<>>
  <2>1. Len(wire) = 0 /\ produced # <<>>
    BY <1>1, <1>5, EmptySeq DEF Inv, SessionFirst
  <2>2. Head(out) = ResponseEvent
    BY <2>1, <1>3, <1>4 DEF Inv, SessionFirst
  <2>3. wire' = <<ResponseEvent>>
    BY <2>2, <1>1, <1>5
  <2>. QED
    BY <2>3, <1>2, <1>5 DEF Contract!Announce
<1>6. CASE wire # <<>>
  <2>1. Len(wire) + 1 \in 2..Len(produced)
    BY <1>3, <1>4, <1>6, EmptySeq
  <2>2. Head(out) \in ChatEvent
    BY <2>1, <1>3, <1>4 DEF Inv, SessionFirst
  <2>. QED
    BY <2>2, <1>1, <1>2, <1>6 DEF Contract!Tell
<1>. QED
  BY <1>5, <1>6

\* Every step is one of the contract, or none.
LEMMA StepRefines == Inv /\ [StreamNext]_streamVars => [Contract!Next]_<<wire, status>>
<1>. SUFFICES ASSUME Inv, [StreamNext]_streamVars PROVE [Contract!Next]_<<wire, status>>
  OBVIOUS
<1>1. CASE Write
  BY <1>1, WriteRefines DEF Contract!Next
<1>2. CASE WriteError
  BY <1>2 DEF WriteError, status, Contract!TellError, Contract!Next
<1>3. CASE EndResponse
  <2>1. graph = "ended" /\ pipe = <<>> /\ out = <<>> /\ produced # <<>>
    BY <1>3 DEF EndResponse, Inv, Phases, SessionFirst
  <2>2. Len(wire) = Len(produced)
    <3>1. Len(out) = 0 /\ Len(pipe) = 0
      BY <2>1, EmptySeq
    <3>2. Len(wire) \in Nat /\ Len(produced) \in Nat
      BY Lists, LenProperties DEF Inv
    <3>. QED
      BY <2>1, <3>1, <3>2 DEF Inv, PipeInProduced
  <2>3. wire # <<>>
    BY <2>1, <2>2, Lists, EmptySeq DEF Inv
  <2>. QED
    BY <2>3, <1>3 DEF EndResponse, status, Contract!End, Contract!Next
<1>4. CASE Refuse
  <2>1. wire = <<>> /\ router = "awaiting"
    BY <1>4 DEF Refuse, Inv, Phases
  <2>. QED
    BY <2>1, <1>4 DEF Refuse, status, Contract!Cut, Contract!Next
<1>5. CASE Start
  <2>1. router = "awaiting"
    BY <1>5 DEF Start, Inv, Phases
  <2>. QED
    BY <2>1, <1>5 DEF Start, status
<1>6. CASE \E k \in Kinds : Emit(k)
  BY <1>6 DEF Emit, status
<1>7. CASE Complete \/ CloseRequest \/ \E e \in {"Abort", "other"} : Throw(e)
  BY <1>7 DEF Complete, CloseRequest, Throw, status
<1>8. CASE Copy \/ CopyDone \/ CopyFails
  BY <1>8 DEF Copy, CopyDone, CopyFails, status
<1>9. CASE UNCHANGED streamVars
  BY <1>9 DEF streamVars, status
<1>. QED
  BY <1>1, <1>2, <1>3, <1>4, <1>5, <1>6, <1>7, <1>8, <1>9 DEF StreamNext, Run, Deliver

\* The backend implements what the chat page is written against, for runs of any
\* length: the session id first, then events of the run, an error only at the end.
THEOREM Implements == StreamSpec => KeepsContract
<1>1. StreamInit => Contract!Init
  BY DEF StreamInit, status, Contract!Init
<1>2. Inv /\ [StreamNext]_streamVars => [Contract!Next]_<<wire, status>>
  BY StepRefines
<1>. QED
  BY <1>1, <1>2, Invariance, PTL DEF StreamSpec, KeepsContract, Contract!Spec
=============================================================================
