--------------------------- MODULE ChatPageProofs ---------------------------
(***************************************************************************)
(* Theorems about ChatPage, for any pages, calls and session ids.          *)
(***************************************************************************)
EXTENDS ChatPage, SequenceTheorems, TLAPS

\* What is true of every call: once sent it has a page, it is aborted only before
\* its request is out, and it is told its session and heard of after that.
CallsInOrder ==
  \A c \in Calls :
    /\ phase[c] # "unsent" => page[c] \in Pages
    /\ c \in aborted => phase[c] \in {"prelude", "over", "lost"}
    /\ phase[c] \in {"unsent", "prelude", "open"} => told[c] = NoSession /\ c \notin heard

\* What is true of every page, tangled or not: nothing is under way before it is
\* mounted or after it is closed, it is loading as long as it has a controller,
\* and a controller is that of a call of its own under way.
PageInOrder(p) ==
  /\ mount[p] \in {"no", "closed"} => ~ Busy(p)
  /\ mount[p] = "no" => session[p] = NoSession
  /\ loading[p] <=> ctrl[p] # NoCall
  /\ ctrl[p] # NoCall => ctrl[p] \in InFlight(p) \ aborted
PagesInOrder == \A p \in Pages : PageInOrder(p)

\* No session id is anywhere that no call was told.
IsTold(s) == \E c \in Calls : told[c] = s
IdsAreTold ==
  /\ \A s \in forgotten : IsTold(s)
  /\ stored.session # NoSession => IsTold(stored.session)
  /\ \A p \in Pages : /\ session[p] # NoSession => IsTold(session[p])
                      /\ asked[p] # NoSession => IsTold(asked[p])

Typed == TypeOK /\ CallsInOrder /\ PagesInOrder /\ IdsAreTold

\* The last message of the page is the answer of call c.
Answering(p, c) ==
  LET ms == messages[p] IN
  /\ ms # <<>>
  /\ ms[Len(ms)].by = c /\ ms[Len(ms)].type # "user"
  /\ c \in heard => c \in ms[Len(ms)].from

\* What is true of a page as long as it is not tangled: it waits for the backend
\* or for one call, and the last message is the answer of that call.
AtOneThing(p) ==
  /\ asked[p] # NoSession => InFlight(p) = {} /\ session[p] = NoSession /\ messages[p] = <<>>
  /\ \A c, d \in InFlight(p) : c = d
  /\ \A c \in InFlight(p) :
       /\ c \notin aborted => ctrl[p] = c
       /\ Answering(p, c)
       /\ phase[c] \in {"prelude", "open"} => session[p] = sent[c]
OneThing == \A p \in Pages \ tangled : AtOneThing(p)

\* What is true of the messages of a page, and of those in storage.
Owned(ms) ==
  \A i \in 1..Len(ms) :
    ms[i].from \subseteq (IF ms[i].type = "user" THEN {} ELSE {ms[i].by})
AllOwned == tangled = {} => Owned(stored.messages) /\ \A p \in Pages : Owned(messages[p])

\* A page that reads or writes the storage, or may begin to.
Using(p) == mount[p] = "here" \/ Busy(p)
Alone == ~ shared => \A p, q \in Pages : Using(p) /\ Using(q) => p = q

\* Messages of one conversation, that of session id s, with every answer of the
\* calls in done.
AnsweredIn(ms, c) == \E i \in 1..Len(ms) : ms[i].by = c /\ c \in ms[i].from
IsConversation(ms, s, tl, done) ==
  /\ \A i \in 1..Len(ms) : tl[ms[i].by] \in {NoSession, s}
  /\ \A c \in done : AnsweredIn(ms, c)

Settled == {c \in heard : phase[c] = "over" /\ told[c] \in SessionIds \ forgotten}
Conversation(ms) == IsConversation(ms, stored.session, told, Settled)

\* The page in use and the storage agree, except for the turn under way.
InStepWith(p) ==
  IF asked[p] # NoSession THEN asked[p] = stored.session
  ELSE /\ session[p] = stored.session
       /\ Conversation(messages[p])
       /\ InFlight(p) = {} => messages[p] = stored.messages
InStep ==
  ~ shared /\ tangled = {} =>
    /\ stored.session \notin forgotten
    /\ Conversation(stored.messages)
    /\ \A p \in Pages : Using(p) => InStepWith(p)

PageInv == Typed /\ OneThing /\ AllOwned /\ Alone /\ InStep

-----------------------------------------------------------------------------
(* Messages. *)

\* An event goes into the last message and leaves its author.
LEMMA AmendFacts ==
  ASSUME NEW ms \in Seq(ChatMessage), ms # <<>>, NEW c \in Calls, NEW type
  PROVE  LET am == Amend(ms, c, type) IN
         /\ am \in Seq(ChatMessage) /\ Len(am) = Len(ms) /\ am # <<>>
         /\ \A i \in 1..Len(ms) : am[i].by = ms[i].by /\ ms[i].from \subseteq am[i].from
         /\ \A i \in 1..Len(ms) : i # Len(ms) => am[i] = ms[i]
         /\ am[Len(ms)].from = ms[Len(ms)].from \cup {c}
         /\ am[Len(ms)].type = IF type = "error" THEN "error" ELSE ms[Len(ms)].type
<1> DEFINE n == Len(ms)
           m == ms[n]
           t == IF type = "error" THEN "error" ELSE m.type
           q1 == [m EXCEPT !.from = m.from \cup {c}]
           q == [q1 EXCEPT !.type = t]
           am == Amend(ms, c, type)
<1>1. n \in 1..Len(ms) /\ DOMAIN ms = 1..Len(ms)
  OBVIOUS
<1>2. m \in ChatMessage
  BY <1>1
<1>3. q1 \in ChatMessage /\ q1.by = m.by /\ q1.from = m.from \cup {c} /\ q1.type = m.type
  BY <1>2 DEF ChatMessage
<1>4. q \in ChatMessage /\ q.by = m.by /\ q.from = m.from \cup {c} /\ q.type = t
  <2> HIDE DEF q1, m
  <2>1. t \in {"user", "agent", "error"}
    BY <1>2 DEF ChatMessage
  <2> HIDE DEF t
  <2>. QED
    BY <1>3, <2>1 DEF ChatMessage
<1>5. am = [ms EXCEPT ![n] = q]
  <2> DEFINE z == [ms EXCEPT ![n] = q1]
  <2>1. z[n] = q1
    BY <1>1
  <2>2. am = [z EXCEPT ![n] = [z[n] EXCEPT !.type = t]]
    BY <1>1, <1>3 DEF Amend
  <2>3. am = [z EXCEPT ![n] = q]
    BY <2>1, <2>2
  <2> HIDE DEF q, q1, am
  <2>. QED
    BY <2>3
<1> HIDE DEF am, q, t
<1>6. am \in Seq(ChatMessage) /\ Len(am) = Len(ms)
  BY <1>1, <1>4, <1>5
<1>7. \A i \in 1..Len(ms) : i # Len(ms) => am[i] = ms[i]
  BY <1>5
<1>8. am[Len(ms)] = q
  BY <1>1, <1>5
<1>9. am # <<>>
  BY <1>1, <1>6
<1>10. \A i \in 1..Len(ms) : am[i].by = ms[i].by /\ ms[i].from \subseteq am[i].from
  <2>. SUFFICES ASSUME NEW i \in 1..Len(ms)
                PROVE  am[i].by = ms[i].by /\ ms[i].from \subseteq am[i].from
    OBVIOUS
  <2>1. CASE i = Len(ms)
    BY <1>4, <1>8, <2>1
  <2>2. CASE i # Len(ms)
    BY <1>7, <2>2
  <2>. QED
    BY <2>1, <2>2
<1>. QED
  BY <1>4, <1>6, <1>7, <1>8, <1>9, <1>10 DEF am, t

\* A turn is the question and an empty answer at the end.
LEMMA TurnFacts ==
  ASSUME NEW ms \in Seq(ChatMessage), NEW c \in Calls
  PROVE  LET tm == ms \o Turn(c) IN
         /\ tm \in Seq(ChatMessage) /\ Len(tm) = Len(ms) + 2 /\ tm # <<>>
         /\ \A i \in 1..Len(ms) : tm[i] = ms[i]
         /\ tm[Len(ms) + 1] = [by |-> c, type |-> "user", from |-> {}]
         /\ tm[Len(ms) + 2] = [by |-> c, type |-> "agent", from |-> {}]
<1> DEFINE q == [by |-> c, type |-> "user", from |-> {}]
           a == [by |-> c, type |-> "agent", from |-> {}]
<1>1. q \in ChatMessage /\ a \in ChatMessage
  BY DEF ChatMessage
<1> HIDE DEF q, a
<1>2. Turn(c) = <<q, a>>
  BY DEF Turn, q, a
<1>3. <<q, a>> \in Seq(ChatMessage) /\ Len(<<q, a>>) = 2
  BY <1>1
<1>4. LET tm == ms \o <<q, a>> IN
        /\ tm \in Seq(ChatMessage) /\ Len(tm) = Len(ms) + 2
        /\ \A i \in 1..Len(ms) : tm[i] = ms[i]
        /\ tm[Len(ms) + 1] = q /\ tm[Len(ms) + 2] = a
  BY <1>1, <1>3
<1>5. ms \o <<q, a>> # <<>>
  BY <1>4
<1>. QED
  BY <1>2, <1>4, <1>5 DEF q, a

-----------------------------------------------------------------------------
(* Steps.  Five handlers can end a call, and do it the same way; what is left   *)
(* of Fetch, Event and Cancel are the steps that do not.                        *)

Ends(c) ==
  /\ phase[c] \in Live
  /\ \E ms :
       /\ \/ ms = messages[page[c]]
          \/ messages[page[c]] # <<>> /\ ms = Amend(messages[page[c]], c, "error")
       /\ Finish(c, ms)
  /\ UNCHANGED <<pageVars, callVars, history>>

GoesOut(c) ==
  /\ phase[c] = "prelude" /\ c \notin aborted
  /\ phase' = [phase EXCEPT ![c] = "open"]
  /\ UNCHANGED <<messages, loading, ctrl, stored, pageVars, callVars, history>>

Hears(c, type) ==
  /\ phase[c] = "streaming" \/ (phase[c] = "open" /\ type = "error")
  /\ messages[page[c]] # <<>>
  /\ messages' = [messages EXCEPT ![page[c]] = Amend(messages[page[c]], c, type)]
  /\ heard' = heard \cup {c}
  /\ phase' = [phase EXCEPT ![c] = IF type = "error" THEN "ending" ELSE phase[c]]
  /\ UNCHANGED <<loading, ctrl, stored, pageVars, callVars, forgotten, tangled, shared>>

Withdraws(p, c) ==
  /\ mount[p] = "here" /\ ctrl[p] = c /\ phase[c] = "prelude"
  /\ aborted' = aborted \cup {c}
  /\ loading' = [loading EXCEPT ![p] = FALSE]
  /\ ctrl' = [ctrl EXCEPT ![p] = NoCall]
  /\ UNCHANGED <<messages, phase, stored, pageVars, page, sent, told, hung, history>>

CallStep(c) ==
  \/ Ends(c) \/ GoesOut(c) \/ Respond(c) \/ Hears(c, "chunk") \/ Hears(c, "error")
  \/ Withdraws(page[c], c)

StepOf(p) ==
  \/ Mount(p) \/ LoadFound(p) \/ LoadMissing(p) \/ LoadFails(p)
  \/ Clear(p) \/ Leave(p) \/ Close(p)
  \/ \E c \in Calls : Send(p, c)
  \/ \E c \in Calls : page[c] = p /\ phase[c] \in Live /\ CallStep(c)

\* A call that finishes with what is shown, amended or not, ends.
LEMMA FinishEnds ==
  ASSUME NEW c, phase[c] \in Live, NEW ms, Finish(c, ms),
         \/ ms = messages[page[c]]
         \/ messages[page[c]] # <<>> /\ ms = Amend(messages[page[c]], c, "error"),
         UNCHANGED <<pageVars, callVars, history>>
  PROVE  Ends(c)
  BY DEF Ends

\* So does a call that fails.
LEMMA FailEnds ==
  ASSUME NEW c, phase[c] \in Live, Fail(c), UNCHANGED <<pageVars, callVars, history>>
  PROVE  Ends(c)
<1> DEFINE ms == Written(messages[page[c]], c, "error")
<1>1. Finish(c, ms)
  BY DEF Fail
<1>2. \/ ms = messages[page[c]]
      \/ messages[page[c]] # <<>> /\ ms = Amend(messages[page[c]], c, "error")
  BY DEF Written
<1> HIDE DEF ms
<1>. QED
  BY <1>1, <1>2, FinishEnds

\* Every step is a step of one page, but for the backend's aborting a run.
LEMMA NextIsStepOf ==
  ASSUME TypeOK, CallsInOrder, PagesInOrder, Next, ~ \E c \in Calls : Hang(c)
  PROVE  \E p \in Pages : StepOf(p)
<1> USE DEF StepOf
<1>1. ASSUME NEW c \in Calls, phase[c] \in Live, CallStep(c)
      PROVE  \E p \in Pages : StepOf(p)
  <2>1. page[c] \in Pages
    BY <1>1 DEF CallsInOrder, Live
  <2>. QED
    BY <1>1, <2>1
<1>2. ASSUME NEW c \in Calls, Fetch(c) PROVE CallStep(c) /\ phase[c] \in Live
  <2>1. phase[c] \in Live
    BY <1>2 DEF Fetch, Live
  <2>2. CASE c \in aborted
    BY <1>2, <2>1, <2>2, FailEnds DEF Fetch, CallStep
  <2>3. CASE c \notin aborted
    BY <1>2, <2>1, <2>3 DEF Fetch, CallStep, GoesOut
  <2>. QED
    BY <2>1, <2>2, <2>3
<1>3. ASSUME NEW c \in Calls, NEW type \in {"chunk", "error"}, Event(c, type)
      PROVE  CallStep(c) /\ phase[c] \in Live
  <2>1. phase[c] \in Live
    BY <1>3 DEF Event, Live
  <2>2. CASE messages[page[c]] = <<>>
    <3>1. Finish(c, messages[page[c]]) /\ UNCHANGED <<pageVars, callVars, history>>
      BY <1>3, <2>2 DEF Event, history
    <3>. QED
      BY <2>1, <3>1, FinishEnds DEF CallStep
  <2>3. CASE messages[page[c]] # <<>>
    <3>1. page[c] \in Pages
      BY <2>1 DEF CallsInOrder, Live
    <3>2. Hears(c, type)
      BY <1>3, <2>3, <3>1 DEF Event, Hears, TypeOK
    <3>. QED
      BY <2>1, <3>2 DEF CallStep
  <2>. QED
    BY <2>1, <2>2, <2>3
<1>4. ASSUME NEW c \in Calls, End(c) PROVE CallStep(c) /\ phase[c] \in Live
  <2>1. phase[c] \in Live
    BY <1>4 DEF End, Live
  <2>2. Finish(c, messages[page[c]]) /\ UNCHANGED <<pageVars, callVars, history>>
    BY <1>4 DEF End
  <2>. QED
    BY <2>1, <2>2, FinishEnds DEF CallStep
<1>5. ASSUME NEW c \in Calls, NetworkFails(c) PROVE CallStep(c) /\ phase[c] \in Live
  BY <1>5, FailEnds DEF NetworkFails, CallStep
<1>6. ASSUME NEW c \in Calls, Respond(c) PROVE CallStep(c) /\ phase[c] \in Live
  BY <1>6 DEF Respond, CallStep, Live
<1>7. ASSUME NEW p \in Pages, Cancel(p) PROVE \E q \in Pages : StepOf(q)
  <2>1. ctrl[p] \in Calls /\ page[ctrl[p]] = p /\ phase[ctrl[p]] \in Live
    BY <1>7 DEF Cancel, PagesInOrder, PageInOrder, InFlight
  <2>2. CallStep(ctrl[p])
    BY <1>7, <2>1, FailEnds DEF Cancel, CallStep, Withdraws, callVars
  <2>. QED
    BY <1>1, <2>1, <2>2
<1>. QED
  BY <1>1, <1>2, <1>3, <1>4, <1>5, <1>6, <1>7 DEF Next, Load, Proceed

-----------------------------------------------------------------------------
(* Types. *)

\* saveToStorage leaves messages and a session id, or none, in storage.
LEMMA SavedType ==
  ASSUME TypeOK, NEW ms \in Seq(ChatMessage), NEW s \in SessionIds \cup {NoSession}
  PROVE  Saved(ms, s) \in [messages : Seq(ChatMessage), session : SessionIds \cup {NoSession}]
  BY DEF TypeOK, Saved

\* Storage may be empty.
LEMMA EmptyType ==
  EmptyStorage \in [messages : Seq(ChatMessage), session : SessionIds \cup {NoSession}]
  BY DEF EmptyStorage

\* What a call that ends leaves behind.
LEMMA EndsFacts ==
  ASSUME TypeOK, NEW c \in Calls, page[c] \in Pages, Ends(c)
  PROVE  \E ms \in Seq(ChatMessage) :
           /\ \/ ms = messages[page[c]]
              \/ messages[page[c]] # <<>> /\ ms = Amend(messages[page[c]], c, "error")
           /\ phase[c] \in Live
           /\ Finish(c, ms) /\ UNCHANGED <<pageVars, callVars, history>>
<1>1. messages[page[c]] \in Seq(ChatMessage)
  BY DEF TypeOK
<1>2. messages[page[c]] # <<>> => Amend(messages[page[c]], c, "error") \in Seq(ChatMessage)
  BY <1>1, AmendFacts
<1>. QED
  BY <1>1, <1>2 DEF Ends

\* Every step of a page keeps the types of the variables.
LEMMA TypeStep ==
  ASSUME TypeOK, CallsInOrder, PagesInOrder, NEW p \in Pages, StepOf(p)
  PROVE  TypeOK'
<1> USE DEF TypeOK
<1>1. CASE Mount(p)
  BY <1>1 DEF Mount, callVars
<1>2. CASE LoadFound(p)
  BY <1>2 DEF LoadFound, callVars, history
<1>3. CASE LoadMissing(p)
  BY <1>3, EmptyType DEF LoadMissing, callVars
<1>4. CASE LoadFails(p)
  BY <1>4 DEF LoadFails, callVars
<1>5. CASE Clear(p)
  BY <1>5, EmptyType DEF Clear, callVars
<1>6. CASE Leave(p)
  BY <1>6 DEF Leave, callVars, history
<1>7. CASE Close(p)
  BY <1>7 DEF Close, callVars, history, Phases
<1>8. ASSUME NEW c \in Calls, Send(p, c) PROVE TypeOK'
  <2>1. messages[p] \o Turn(c) \in Seq(ChatMessage)
    BY TurnFacts
  <2>. QED
    BY <1>8, <2>1 DEF Send, pageVars, Phases, Live
<1>9. ASSUME NEW c \in Calls, page[c] = p, phase[c] \in Live, CallStep(c) PROVE TypeOK'
  <2>1. CASE Ends(c)
    <3>1. PICK ms \in Seq(ChatMessage) :
            Finish(c, ms) /\ UNCHANGED <<pageVars, callVars, history>>
      BY <1>9, <2>1, EndsFacts
    <3>2. stored' \in [messages : Seq(ChatMessage), session : SessionIds \cup {NoSession}]
      BY <1>9, <3>1, SavedType DEF Finish
    <3>. QED
      BY <1>9, <3>1, <3>2 DEF Finish, pageVars, callVars, history, Phases
  <2>2. CASE GoesOut(c)
    BY <2>2 DEF GoesOut, pageVars, callVars, history, Phases, Live
  <2>3. CASE Respond(c)
    <3>1. PICK s \in SessionIds :
            /\ told' = [told EXCEPT ![c] = s] /\ session' = [session EXCEPT ![page[c]] = s]
            /\ stored' = Saved(messages[page[c]], s)
      BY <2>3 DEF Respond
    <3>2. stored' \in [messages : Seq(ChatMessage), session : SessionIds \cup {NoSession}]
      BY <1>9, <3>1, SavedType
    <3>. QED
      BY <2>3, <3>1, <3>2 DEF Respond, history, Phases, Live
  <2>4. ASSUME NEW type \in {"chunk", "error"}, Hears(c, type) PROVE TypeOK'
    <3>1. Amend(messages[page[c]], c, type) \in Seq(ChatMessage)
      BY <1>9, <2>4, AmendFacts DEF Hears
    <3>. QED
      BY <2>4, <3>1 DEF Hears, pageVars, callVars, Phases, Live
  <2>5. CASE Withdraws(page[c], c)
    BY <2>5 DEF Withdraws, pageVars, history
  <2>. QED
    BY <1>9, <2>1, <2>2, <2>3, <2>4, <2>5 DEF CallStep
<1>. QED
  BY <1>1, <1>2, <1>3, <1>4, <1>5, <1>6, <1>7, <1>8, <1>9 DEF StepOf

-----------------------------------------------------------------------------
(* What a step of one page leaves as it was. *)

SameCall(c) ==
  /\ phase'[c] = phase[c] /\ page'[c] = page[c] /\ sent'[c] = sent[c] /\ told'[c] = told[c]
  /\ c \in aborted' <=> c \in aborted
  /\ c \in heard' <=> c \in heard

SamePage(q) ==
  /\ mount'[q] = mount[q] /\ asked'[q] = asked[q] /\ messages'[q] = messages[q]
  /\ session'[q] = session[q] /\ loading'[q] = loading[q] /\ ctrl'[q] = ctrl[q]
  /\ q \in tangled' <=> q \in tangled

\* A step is about one call at most, unless it closes the page.
LEMMA CallFrame ==
  ASSUME TypeOK, CallsInOrder, NEW p \in Pages, StepOf(p), NEW d \in Calls
  PROVE  \/ SameCall(d)
         \/ Send(p, d)
         \/ page[d] = p /\ phase[d] \in Live /\ CallStep(d)
         \/ Close(p) /\ d \in InFlight(p)
<1> USE DEF TypeOK, SameCall
<1>1. CASE Mount(p) \/ LoadFound(p) \/ LoadMissing(p) \/ LoadFails(p) \/ Clear(p) \/ Leave(p)
  BY <1>1 DEF Mount, LoadFound, LoadMissing, LoadFails, Clear, Leave, callVars, history
<1>2. CASE Close(p)
  BY <1>2 DEF Close, callVars, history
<1>3. ASSUME NEW c \in Calls, c # d, Send(p, c) PROVE SameCall(d)
  BY <1>3 DEF Send
<1>4. ASSUME NEW c \in Calls, c # d, page[c] = p, phase[c] \in Live, CallStep(c)
      PROVE  SameCall(d)
  <2>1. CASE Ends(c)
    BY <1>4, <2>1 DEF Ends, Finish, callVars, history
  <2>2. CASE GoesOut(c) \/ Respond(c)
    BY <1>4, <2>2 DEF GoesOut, Respond, callVars, history
  <2>3. CASE Hears(c, "chunk") \/ Hears(c, "error")
    BY <1>4, <2>3 DEF Hears, callVars
  <2>4. CASE Withdraws(page[c], c)
    BY <1>4, <2>4 DEF Withdraws, history
  <2>. QED
    BY <1>4, <2>1, <2>2, <2>3, <2>4 DEF CallStep
<1>. QED
  BY <1>1, <1>2, <1>3, <1>4 DEF StepOf

\* No step changes a page but the one it is of.
LEMMA PageFrame ==
  ASSUME TypeOK, CallsInOrder, NEW p \in Pages, StepOf(p), NEW q \in Pages, q # p
  PROVE  SamePage(q)
<1> USE DEF TypeOK, SamePage
<1>1. CASE Mount(p) \/ LoadFound(p) \/ LoadMissing(p) \/ LoadFails(p)
  BY <1>1 DEF Mount, LoadFound, LoadMissing, LoadFails, history
<1>2. CASE Clear(p) \/ Leave(p) \/ Close(p)
  BY <1>2 DEF Clear, Leave, Close, history
<1>3. ASSUME NEW c \in Calls, Send(p, c) PROVE SamePage(q)
  BY <1>3 DEF Send, pageVars
<1>4. ASSUME NEW c \in Calls, page[c] = p, CallStep(c) PROVE SamePage(q)
  <2>1. CASE Ends(c)
    BY <1>4, <2>1 DEF Ends, Finish, pageVars, history
  <2>2. CASE GoesOut(c) \/ Respond(c)
    BY <1>4, <2>2 DEF GoesOut, Respond, pageVars, history
  <2>3. CASE Hears(c, "chunk") \/ Hears(c, "error")
    BY <1>4, <2>3 DEF Hears, pageVars
  <2>4. CASE Withdraws(page[c], c)
    BY <1>4, <2>4 DEF Withdraws, pageVars, history
  <2>. QED
    BY <1>4, <2>1, <2>2, <2>3, <2>4 DEF CallStep
<1>. QED
  BY <1>1, <1>2, <1>3, <1>4 DEF StepOf

\* Where a step can take the call it is about.
LEMMA CallMoves ==
  ASSUME TypeOK, NEW c \in Calls, page[c] \in Pages, CallStep(c)
  PROVE  /\ UNCHANGED <<page, sent, forgotten, tangled, shared, mount, asked>>
         /\ \/ phase'[c] = "over" /\ UNCHANGED <<told, aborted, heard>>
            \/ /\ phase[c] = "prelude" /\ c \notin aborted /\ phase'[c] = "open"
               /\ UNCHANGED <<told, aborted, heard>>
            \/ /\ phase[c] = "open" /\ phase'[c] = "streaming" /\ UNCHANGED <<aborted, heard>>
            \/ /\ phase[c] \in {"open", "streaming"} /\ phase'[c] \in {"streaming", "ending"}
               /\ phase[c] = "open" => phase'[c] = "ending"
               /\ heard' = heard \cup {c} /\ UNCHANGED <<told, aborted>>
            \/ /\ phase[c] = "prelude" /\ phase'[c] = "prelude" /\ aborted' = aborted \cup {c}
               /\ UNCHANGED <<told, heard>>
<1> USE DEF TypeOK
<1>1. CASE Ends(c)
  BY <1>1 DEF Ends, Finish, pageVars, callVars, history
<1>2. CASE GoesOut(c)
  BY <1>2 DEF GoesOut, pageVars, callVars, history
<1>3. CASE Respond(c)
  BY <1>3 DEF Respond, history
<1>4. CASE Hears(c, "chunk") \/ Hears(c, "error")
  BY <1>4 DEF Hears, pageVars, callVars
<1>5. CASE Withdraws(page[c], c)
  BY <1>5 DEF Withdraws, pageVars, history
<1>. QED
  BY <1>1, <1>2, <1>3, <1>4, <1>5 DEF CallStep

-----------------------------------------------------------------------------
(* Calls and pages stay in order. *)

\* Every step keeps the calls in order.
LEMMA CallsInOrderStep ==
  ASSUME TypeOK, CallsInOrder, PagesInOrder, NEW p \in Pages, StepOf(p)
  PROVE  CallsInOrder'
<1>. SUFFICES ASSUME NEW d \in Calls
              PROVE  /\ phase'[d] # "unsent" => page'[d] \in Pages
                     /\ d \in aborted' => phase'[d] \in {"prelude", "over", "lost"}
                     /\ phase'[d] \in {"unsent", "prelude", "open"} =>
                          told'[d] = NoSession /\ d \notin heard'
  BY DEF CallsInOrder
<1>1. CASE SameCall(d)
  BY <1>1 DEF SameCall, CallsInOrder
<1>2. CASE Send(p, d)
  BY <1>2 DEF Send, CallsInOrder, TypeOK
<1>3. CASE page[d] = p /\ phase[d] \in Live /\ CallStep(d)
  BY <1>3, CallMoves DEF CallsInOrder
<1>4. CASE Close(p) /\ d \in InFlight(p)
  BY <1>4 DEF Close, CallsInOrder, InFlight, Live, callVars, history
<1>. QED
  BY <1>1, <1>2, <1>3, <1>4, CallFrame

\* The calls of a page come and go with its own steps.
LEMMA InFlightFrame ==
  ASSUME TypeOK, CallsInOrder, NEW p \in Pages, StepOf(p), NEW q \in Pages, q # p
  PROVE  InFlight(q)' = InFlight(q) /\ \A d \in InFlight(q) : SameCall(d)
<1>1. ASSUME NEW d \in Calls
      PROVE  /\ page'[d] = q /\ phase'[d] \in Live <=> page[d] = q /\ phase[d] \in Live
             /\ page[d] = q /\ phase[d] \in Live => SameCall(d)
  <2>1. CASE SameCall(d)
    BY <2>1 DEF SameCall
  <2>2. CASE Send(p, d)
    BY <2>2 DEF Send, TypeOK, Live
  <2>3. CASE page[d] = p /\ phase[d] \in Live /\ CallStep(d)
    BY <2>3, CallMoves
  <2>4. CASE Close(p) /\ d \in InFlight(p)
    BY <2>4 DEF Close, InFlight, callVars
  <2>. QED
    BY <2>1, <2>2, <2>3, <2>4, CallFrame
<1>. QED
  BY <1>1 DEF InFlight

\* Whether a page is busy depends on its own steps.
LEMMA BusyFrame ==
  ASSUME TypeOK, CallsInOrder, NEW p \in Pages, StepOf(p), NEW q \in Pages, q # p
  PROVE  Busy(q)' <=> Busy(q)
  BY InFlightFrame, PageFrame DEF Busy, SamePage

\* What a step of a page does to the calls in flight on it.
LEMMA InFlightStep ==
  ASSUME TypeOK, CallsInOrder, NEW p \in Pages, StepOf(p)
  PROVE  /\ Mount(p) \/ LoadFound(p) \/ LoadMissing(p) \/ LoadFails(p) \/ Clear(p) \/ Leave(p)
              => InFlight(p)' = InFlight(p) /\ aborted' = aborted
         /\ Close(p) => InFlight(p)' = {} /\ aborted' = aborted
         /\ \A c \in Calls : Send(p, c) => InFlight(p)' = InFlight(p) \cup {c}
                                           /\ aborted' = aborted
         /\ \A c \in InFlight(p) :
              /\ Ends(c) => InFlight(p)' = InFlight(p) \ {c} /\ aborted' = aborted
              /\ GoesOut(c) \/ Respond(c) \/ Hears(c, "chunk") \/ Hears(c, "error")
                   => InFlight(p)' = InFlight(p) /\ aborted' = aborted
              /\ Withdraws(p, c) => InFlight(p)' = InFlight(p) /\ aborted' = aborted \cup {c}
<1> USE DEF InFlight, TypeOK
<1>1. Mount(p) \/ LoadFound(p) \/ LoadMissing(p) \/ LoadFails(p) \/ Clear(p) \/ Leave(p)
        => InFlight(p)' = InFlight(p) /\ aborted' = aborted
  BY DEF Mount, LoadFound, LoadMissing, LoadFails, Clear, Leave, callVars
<1>2. ASSUME Close(p) PROVE InFlight(p)' = {} /\ aborted' = aborted
  BY <1>2 DEF Close, callVars, Live
<1>3. ASSUME NEW c \in Calls, Send(p, c)
      PROVE  InFlight(p)' = InFlight(p) \cup {c} /\ aborted' = aborted
  BY <1>3 DEF Send, Live
<1>4. ASSUME NEW c \in InFlight(p)
      PROVE  /\ Ends(c) => InFlight(p)' = InFlight(p) \ {c} /\ aborted' = aborted
             /\ GoesOut(c) \/ Respond(c) \/ Hears(c, "chunk") \/ Hears(c, "error")
                  => InFlight(p)' = InFlight(p) /\ aborted' = aborted
             /\ Withdraws(p, c) => InFlight(p)' = InFlight(p) /\ aborted' = aborted \cup {c}
  <2>1. Ends(c) => InFlight(p)' = InFlight(p) \ {c} /\ aborted' = aborted
    BY <1>4 DEF Ends, Finish, callVars, Live
  <2>2. GoesOut(c) \/ Respond(c) \/ Hears(c, "chunk") \/ Hears(c, "error")
          => InFlight(p)' = InFlight(p) /\ aborted' = aborted
    BY <1>4 DEF GoesOut, Respond, Hears, callVars, Live
  <2>3. Withdraws(p, c) => InFlight(p)' = InFlight(p) /\ aborted' = aborted \cup {c}
    BY <1>4 DEF Withdraws
  <2>. QED
    BY <2>1, <2>2, <2>3
<1>. QED
  BY <1>1, <1>2, <1>3, <1>4

\* The steps of a page, one by one.
LEMMA StepCases ==
  ASSUME TypeOK, CallsInOrder, NEW p \in Pages, StepOf(p)
  PROVE  \/ Mount(p) \/ LoadFound(p) \/ LoadMissing(p) \/ LoadFails(p)
         \/ Clear(p) \/ Leave(p) \/ Close(p)
         \/ \E c \in Calls : Send(p, c)
         \/ \E c \in InFlight(p) : /\ c \in Calls /\ page[c] = p /\ phase[c] \in Live
                                   /\ \/ Ends(c) \/ GoesOut(c) \/ Respond(c) \/ Withdraws(p, c)
                                      \/ Hears(c, "chunk") \/ Hears(c, "error")
  BY DEF StepOf, CallStep, InFlight

\* A page is in order after its own step.
LEMMA PageInOrderStep ==
  ASSUME TypeOK, CallsInOrder, PagesInOrder, NEW p \in Pages, StepOf(p)
  PROVE  PageInOrder(p)'
<1>0. PageInOrder(p)
  BY DEF PagesInOrder
<1> USE DEF TypeOK, PageInOrder
<1>1. CASE Mount(p) \/ LoadFound(p) \/ LoadMissing(p) \/ LoadFails(p)
  BY <1>0, <1>1, InFlightStep DEF Mount, LoadFound, LoadMissing, LoadFails, Busy
<1>2. CASE Clear(p) \/ Leave(p)
  BY <1>0, <1>2, InFlightStep DEF Clear, Leave, Busy
<1>3. CASE Close(p)
  BY <1>0, <1>3, InFlightStep DEF Close, Busy
<1>4. ASSUME NEW c \in Calls, Send(p, c) PROVE PageInOrder(p)'
  <2>1. InFlight(p)' = InFlight(p) \cup {c} /\ aborted' = aborted
    BY <1>4, InFlightStep
  <2>2. c \notin aborted
    BY <1>4 DEF Send, CallsInOrder
  <2>. QED
    BY <1>0, <1>4, <2>1, <2>2, AbsentAssumption DEF Send, pageVars
<1>5. ASSUME NEW c \in InFlight(p), c \in Calls, page[c] = p, Ends(c) PROVE PageInOrder(p)'
  <2>1. InFlight(p)' = InFlight(p) \ {c}
    BY <1>5, InFlightStep
  <2>2. mount' = mount /\ asked' = asked /\ session' = session
        /\ loading'[p] = FALSE /\ ctrl'[p] = NoCall
    BY <1>5 DEF Ends, Finish, pageVars
  <2>. QED
    BY <1>0, <1>5, <2>1, <2>2 DEF Busy
<1>6. ASSUME NEW c \in InFlight(p), c \in Calls, page[c] = p,
             GoesOut(c) \/ Respond(c) \/ Hears(c, "chunk") \/ Hears(c, "error")
      PROVE  PageInOrder(p)'
  <2>1. InFlight(p)' = InFlight(p) /\ aborted' = aborted
    BY <1>6, InFlightStep
  <2>2. mount' = mount /\ asked' = asked /\ ctrl' = ctrl /\ loading' = loading
    BY <1>6 DEF GoesOut, Respond, Hears, pageVars
  <2>3. mount[p] # "no"
    BY <1>0, <1>6 DEF Busy
  <2>. QED
    BY <1>0, <2>1, <2>2, <2>3 DEF Busy
<1>7. ASSUME NEW c \in InFlight(p), c \in Calls, Withdraws(p, c) PROVE PageInOrder(p)'
  <2>1. InFlight(p)' = InFlight(p)
    BY <1>7, InFlightStep
  <2>. QED
    BY <1>0, <1>7, <2>1 DEF Withdraws, pageVars, Busy
<1>. QED
  BY <1>1, <1>2, <1>3, <1>4, <1>5, <1>6, <1>7, StepCases

\* And so are all others.
LEMMA PagesInOrderStep ==
  ASSUME TypeOK, CallsInOrder, PagesInOrder, NEW p \in Pages, StepOf(p)
  PROVE  PagesInOrder'
<1>. SUFFICES ASSUME NEW q \in Pages PROVE PageInOrder(q)'
  BY DEF PagesInOrder, PageInOrder
<1>1. CASE q = p
  BY <1>1, PageInOrderStep
<1>2. CASE q # p
  <2>1. SamePage(q) /\ (Busy(q)' <=> Busy(q)) /\ InFlight(q)' = InFlight(q)
        /\ \A d \in InFlight(q) : SameCall(d)
    BY <1>2, PageFrame, BusyFrame, InFlightFrame
  <2>2. PageInOrder(q)
    BY DEF PagesInOrder, PageInOrder
  <2>. QED
    BY <2>1, <2>2 DEF PageInOrder, SamePage, SameCall
<1>. QED
  BY <1>1, <1>2

-----------------------------------------------------------------------------
(* Session ids come from calls that were told them. *)

\* A call that was told its session is never told another one.
LEMMA ToldStays ==
  ASSUME TypeOK, CallsInOrder, NEW p \in Pages, StepOf(p), NEW s \in SessionIds, IsTold(s)
  PROVE  IsTold(s)'
<1>1. PICK c \in Calls : told[c] = s
  BY DEF IsTold
<1>2. told'[c] = told[c]
  <2>1. CASE page[c] = p /\ phase[c] \in Live /\ CallStep(c)
    <3>1. phase[c] # "open"
      BY <1>1, AbsentAssumption DEF CallsInOrder
    <3>. QED
      BY <2>1, <3>1, CallMoves
  <2>2. CASE SameCall(c)
    BY <2>2 DEF SameCall
  <2>3. CASE Send(p, c) \/ Close(p)
    BY <2>3 DEF Send, Close, callVars
  <2>. QED
    BY <2>1, <2>2, <2>3, CallFrame
<1>. QED
  BY <1>1, <1>2 DEF IsTold

\* Ids move between page, storage and history; a new one is told to its call.
LEMMA IdsAreToldStep ==
  ASSUME TypeOK, CallsInOrder, PagesInOrder, IdsAreTold, NEW p \in Pages, StepOf(p)
  PROVE  IdsAreTold'
<1> DEFINE Fine(s) == s = NoSession \/ (s \in SessionIds /\ \E c \in Calls : told'[c] = s)
           AllFine == /\ \A s \in forgotten' : Fine(s)
                      /\ Fine(stored'.session)
                      /\ \A q \in Pages : Fine(session'[q]) /\ Fine(asked'[q])
<1>0. ASSUME NEW s \in SessionIds, IsTold(s) PROVE Fine(s)
  BY <1>0, ToldStays DEF IsTold
<1>1. /\ \A s \in forgotten : Fine(s)
      /\ Fine(stored.session)
      /\ \A q \in Pages : Fine(session[q]) /\ Fine(asked[q])
  <2> HIDE DEF Fine
  <2>1. Fine(NoSession)
    BY DEF Fine
  <2>. QED
    BY <1>0, <2>1 DEF IdsAreTold, TypeOK
<1>20. forgotten' \subseteq SessionIds /\ NoSession \notin SessionIds
  BY TypeStep, AbsentAssumption DEF TypeOK
<1>2. SUFFICES AllFine
  BY <1>20 DEF IdsAreTold, IsTold
<1> HIDE DEF Fine
<1>3. Fine(NoSession)
  BY DEF Fine
<1> USE DEF TypeOK
<1>4. ASSUME Mount(p) PROVE AllFine
  BY <1>1, <1>3, <1>4 DEF Mount, history, EmptyStorage
<1>5. ASSUME LoadFound(p) PROVE AllFine
  BY <1>1, <1>3, <1>5 DEF LoadFound, history, EmptyStorage
<1>6. ASSUME LoadMissing(p) PROVE AllFine
  BY <1>1, <1>3, <1>6 DEF LoadMissing, history, EmptyStorage
<1>7. ASSUME LoadFails(p) PROVE AllFine
  BY <1>1, <1>3, <1>7 DEF LoadFails, history, EmptyStorage
<1>8. ASSUME Clear(p) PROVE AllFine
  BY <1>1, <1>3, <1>8 DEF Clear, history, EmptyStorage
<1>9. ASSUME Leave(p) PROVE AllFine
  BY <1>1, <1>3, <1>9 DEF Leave, history, EmptyStorage
<1>10. ASSUME Close(p) PROVE AllFine
  BY <1>1, <1>3, <1>10 DEF Close, history, EmptyStorage
<1>11. ASSUME NEW c \in Calls, Send(p, c)
      PROVE  UNCHANGED <<forgotten, stored, session, asked>>
  BY <1>11 DEF Send, pageVars
<1>12. ASSUME NEW c \in InFlight(p), c \in Calls, page[c] = p, Ends(c) PROVE AllFine
  <2>1. UNCHANGED <<session, asked, forgotten>> /\ \E ms : stored' = Saved(ms, session[p])
    BY <1>12 DEF Ends, Finish, pageVars, history
  <2>2. stored'.session \in {stored.session, session[p]}
    BY <2>1 DEF Saved
  <2>. QED
    BY <1>1, <2>1, <2>2
<1>13. ASSUME NEW c \in InFlight(p), c \in Calls, page[c] = p, Respond(c) PROVE AllFine
  <2>1. PICK s \in SessionIds :
          /\ told' = [told EXCEPT ![c] = s]
          /\ session' = [session EXCEPT ![p] = s]
          /\ stored' = Saved(messages[p], s)
    BY <1>13 DEF Respond
  <2>2. UNCHANGED <<asked, forgotten>>
    BY <1>13 DEF Respond, history
  <2>3. told'[c] = s
    BY <1>13, <2>1
  <2>4. Fine(s)
    BY <1>13, <2>3 DEF Fine, IsTold
  <2>5. stored'.session = s
    BY <2>1, AbsentAssumption DEF Saved
  <2>. QED
    BY <1>1, <2>1, <2>2, <2>4, <2>5
<1>14. ASSUME NEW c \in InFlight(p), GoesOut(c) \/ Hears(c, "chunk") \/ Hears(c, "error")
                                    \/ Withdraws(p, c)
      PROVE  UNCHANGED <<forgotten, stored, session, asked>>
  BY <1>14 DEF GoesOut, Hears, Withdraws, pageVars, history
<1>. QED
  BY <1>1, <1>4, <1>5, <1>6, <1>7, <1>8, <1>9, <1>10, <1>11, <1>12, <1>13, <1>14, StepCases

\* Initially nothing is mounted, sent or stored.
LEMMA TypedInit == Init => Typed
<1>. SUFFICES ASSUME Init PROVE Typed
  OBVIOUS
<1>1. TypeOK
  <2>1. <<>> \in Seq(ChatMessage)
    OBVIOUS
  <2>. QED
    BY <2>1, EmptyType DEF Init, TypeOK, Phases
<1>2. CallsInOrder
  BY DEF Init, CallsInOrder
<1>3. PagesInOrder
  BY DEF Init, PagesInOrder, PageInOrder, Busy, InFlight, Live
<1>4. IdsAreTold
  BY DEF Init, IdsAreTold, EmptyStorage
<1>. QED
  BY <1>1, <1>2, <1>3, <1>4 DEF Typed

\* The unconditional invariants are inductive together.
LEMMA TypedStep == ASSUME Typed, NEW p \in Pages, StepOf(p) PROVE Typed'
  BY TypeStep, CallsInOrderStep, PagesInOrderStep, IdsAreToldStep DEF Typed

\* What the pages hold and the storage, without what the backend aborted.
Unmoved ==
  UNCHANGED <<mount, asked, messages, session, loading, ctrl, phase, page, sent, told, aborted,
              stored, heard, forgotten, tangled, shared>>

\* A step that changes nothing of the pages keeps everything.
LEMMA TypedStutter == Typed /\ Unmoved /\ hung' \in SUBSET Calls => Typed'
<1>. SUFFICES ASSUME Typed, Unmoved, hung' \in SUBSET Calls PROVE Typed'
  OBVIOUS
<1>. QED
  BY DEF Unmoved, Typed, TypeOK, CallsInOrder, PagesInOrder, PageInOrder, IdsAreTold, IsTold, Busy,
       InFlight

-----------------------------------------------------------------------------
(* An untangled page waits for one thing at a time. *)

\* Once tangled, or shared, always so: what holds under a proviso held before.
LEMMA TangledGrows ==
  ASSUME TypeOK, CallsInOrder, NEW p \in Pages, StepOf(p)
  PROVE  tangled \subseteq tangled' /\ (shared => shared')
<1>1. ASSUME NEW c \in Calls, page[c] = p, CallStep(c) PROVE UNCHANGED <<tangled, shared>>
  BY <1>1, CallMoves
<1>2. ASSUME NEW c \in Calls, Send(p, c) PROVE tangled \subseteq tangled' /\ shared' = shared
  BY <1>2 DEF Send
<1>. QED
  BY <1>1, <1>2 DEF StepOf, Mount, LoadFound, LoadMissing, LoadFails, Clear, Leave, Close, history

\* A step that leaves its page untangled leaves it waiting for one thing at most.
LEMMA AtOneThingStep ==
  ASSUME Typed, OneThing, NEW p \in Pages, StepOf(p), p \notin tangled'
  PROVE  AtOneThing(p)'
<1>0. AtOneThing(p) /\ PageInOrder(p)
  BY TangledGrows DEF Typed, OneThing, PagesInOrder
<1> USE DEF Typed, TypeOK
<1>1. CASE Mount(p)
  <2>1. InFlight(p) = {} /\ InFlight(p)' = {} /\ session'[p] = NoSession
    BY <1>0, <1>1, InFlightStep DEF Mount, PageInOrder, Busy
  <2>2. asked'[p] # NoSession => messages'[p] = <<>>
    BY <1>1 DEF Mount
  <2>. QED
    BY <2>1, <2>2 DEF AtOneThing
<1>2. CASE LoadFound(p) \/ LoadMissing(p)
  <2>1. InFlight(p)' = {}
    BY <1>0, <1>2, InFlightStep DEF LoadFound, LoadMissing, AtOneThing
  <2>2. asked'[p] = NoSession
    BY <1>2 DEF LoadFound, LoadMissing
  <2>. QED
    BY <2>1, <2>2 DEF AtOneThing
<1>3. CASE LoadFails(p)
  BY <1>3 DEF LoadFails
<1>4. CASE Clear(p)
  <2>1. ~ Busy(p)
    BY <1>4 DEF Clear
  <2>2. asked'[p] = NoSession /\ InFlight(p)' = {}
    BY <1>4, <2>1, InFlightStep DEF Clear, Busy
  <2>. QED
    BY <2>2 DEF AtOneThing
<1>5. CASE Leave(p)
  <2>1. UNCHANGED <<asked, messages, session, ctrl, phase, aborted, sent, heard>>
        /\ InFlight(p)' = InFlight(p)
    BY <1>5, InFlightStep DEF Leave, callVars, history
  <2>. QED
    BY <1>0, <2>1 DEF AtOneThing, Answering
<1>6. CASE Close(p)
  <2>1. asked'[p] = NoSession /\ InFlight(p)' = {}
    BY <1>6, InFlightStep DEF Close
  <2>. QED
    BY <2>1 DEF AtOneThing
<1>7. ASSUME NEW c \in Calls, Send(p, c) PROVE AtOneThing(p)'
  <2>1. ~ Busy(p) /\ asked' = asked
    BY <1>7 DEF Send, pageVars
  <2>2. asked'[p] = NoSession /\ InFlight(p)' = {c}
    BY <1>7, <2>1, InFlightStep DEF Busy
  <2>3. ctrl'[p] = c /\ session'[p] = sent'[c]
    BY <1>7 DEF Send, pageVars
  <2>4. c \notin heard'
    BY <1>7 DEF Send, CallsInOrder
  <2>5. messages'[p] = messages[p] \o Turn(c)
    BY <1>7 DEF Send
  <2>6. Answering(p, c)'
    <3> DEFINE ms == messages[p]
    <3>1. ms \in Seq(ChatMessage)
      OBVIOUS
    <3> HIDE DEF ms
    <3>2. LET tm == ms \o Turn(c) IN
            /\ tm # <<>> /\ Len(tm) = Len(ms) + 2
            /\ tm[Len(ms) + 2] = [by |-> c, type |-> "agent", from |-> {}]
      BY <3>1, TurnFacts
    <3>3. messages'[p] # <<>> /\ messages'[p][Len(messages'[p])].by = c
          /\ messages'[p][Len(messages'[p])].type = "agent"
      BY <2>5, <3>2 DEF ms
    <3>. QED
      BY <2>4, <3>3 DEF Answering
  <2>. QED
    BY <2>2, <2>3, <2>6 DEF AtOneThing
<1>8. ASSUME NEW c \in InFlight(p), c \in Calls, page[c] = p, Ends(c) PROVE AtOneThing(p)'
  <2>1. InFlight(p)' = {}
    BY <1>0, <1>8, InFlightStep DEF AtOneThing
  <2>2. asked'[p] = NoSession
    BY <1>0, <1>8 DEF Ends, pageVars, AtOneThing
  <2>. QED
    BY <2>1, <2>2 DEF AtOneThing
<1>9. ASSUME NEW c \in InFlight(p), c \in Calls, page[c] = p,
             GoesOut(c) \/ Respond(c) \/ Withdraws(p, c)
      PROVE  AtOneThing(p)'
  <2>1. InFlight(p) = {c} /\ InFlight(p)' = {c}
    BY <1>0, <1>9, InFlightStep DEF AtOneThing
  <2>2. asked'[p] = NoSession /\ UNCHANGED <<messages, heard>>
    BY <1>0, <1>9 DEF GoesOut, Respond, Withdraws, pageVars, history, AtOneThing
  <2>3. Answering(p, c)'
    BY <1>0, <1>9, <2>2 DEF Answering, AtOneThing
  <2>4. c \notin aborted' => ctrl'[p] = c
    BY <1>0, <1>9 DEF GoesOut, Respond, Withdraws, callVars, AtOneThing
  <2>5. phase'[c] \in {"prelude", "open"} => session'[p] = sent'[c]
    BY <1>0, <1>9 DEF GoesOut, Respond, Withdraws, pageVars, callVars, AtOneThing
  <2>. QED
    BY <2>1, <2>2, <2>3, <2>4, <2>5 DEF AtOneThing
<1>10. ASSUME NEW c \in InFlight(p), c \in Calls, page[c] = p,
              NEW type \in {"chunk", "error"}, Hears(c, type)
       PROVE  AtOneThing(p)'
  <2>1. InFlight(p) = {c} /\ InFlight(p)' = {c}
    BY <1>0, <1>10, InFlightStep DEF AtOneThing
  <2>2. asked'[p] = NoSession /\ UNCHANGED <<ctrl, aborted>>
    BY <1>0, <1>10 DEF Hears, pageVars, callVars, AtOneThing
  <2>3. phase'[c] \notin {"prelude", "open"}
    BY <1>10 DEF Hears
  <2>4. Answering(p, c)'
    <3> DEFINE ms == messages[p]
               am == Amend(ms, c, type)
    <3>1. ms \in Seq(ChatMessage) /\ ms # <<>> /\ messages'[p] = am
      BY <1>10 DEF Hears
    <3>2. ms[Len(ms)].by = c /\ ms[Len(ms)].type # "user"
      BY <1>0 DEF AtOneThing, Answering
    <3> HIDE DEF ms
    <3>3. LET bm == Amend(ms, c, type) IN
          /\ bm # <<>> /\ Len(bm) = Len(ms)
          /\ \A i \in 1..Len(ms) : bm[i].by = ms[i].by
          /\ bm[Len(ms)].from = ms[Len(ms)].from \cup {c}
          /\ bm[Len(ms)].type = IF type = "error" THEN "error" ELSE ms[Len(ms)].type
      BY <1>10, <3>1, AmendFacts
    <3>4. Len(ms) \in 1..Len(ms)
      BY <3>1
    <3>5. messages'[p] # <<>> /\ messages'[p][Len(messages'[p])].by = c
          /\ messages'[p][Len(messages'[p])].type # "user"
          /\ c \in messages'[p][Len(messages'[p])].from
      BY <3>1, <3>2, <3>3, <3>4
    <3>. QED
      BY <3>5 DEF Answering
  <2>5. c \notin aborted' => ctrl'[p] = c
    BY <1>0, <1>10, <2>2 DEF AtOneThing
  <2>. QED
    BY <2>1, <2>2, <2>3, <2>4, <2>5 DEF AtOneThing
<1>. QED
  BY <1>1, <1>2, <1>3, <1>4, <1>5, <1>6, <1>7, <1>8, <1>9, <1>10, StepCases

\* And leaves every other page waiting for what it waited for.
LEMMA OneThingStep ==
  ASSUME Typed, OneThing, NEW p \in Pages, StepOf(p)
  PROVE  OneThing'
<1>. SUFFICES ASSUME NEW q \in Pages, q \notin tangled' PROVE AtOneThing(q)'
  BY DEF OneThing
<1>1. CASE q = p
  BY <1>1, AtOneThingStep
<1>2. CASE q # p
  <2>1. SamePage(q) /\ InFlight(q)' = InFlight(q) /\ \A d \in InFlight(q) : SameCall(d)
    BY <1>2, PageFrame, InFlightFrame DEF Typed
  <2>2. AtOneThing(q)
    BY TangledGrows DEF OneThing, Typed
  <2>. QED
    BY <2>1, <2>2 DEF AtOneThing, Answering, SamePage, SameCall
<1>. QED
  BY <1>1, <1>2

-----------------------------------------------------------------------------
(* What a call does to the messages of an untangled page. *)

\* An event of a call amends its own answer: nobody else's.
LEMMA AmendKeepsOwned ==
  ASSUME NEW ms \in Seq(ChatMessage), ms # <<>>, NEW c \in Calls, NEW type, Owned(ms),
         ms[Len(ms)].by = c, ms[Len(ms)].type # "user"
  PROVE  Owned(Amend(ms, c, type))
<1>1. LET am == Amend(ms, c, type) IN
        /\ Len(am) = Len(ms)
        /\ \A i \in 1..Len(ms) : am[i].by = ms[i].by
        /\ \A i \in 1..Len(ms) : i # Len(ms) => am[i] = ms[i]
        /\ am[Len(ms)].from = ms[Len(ms)].from \cup {c}
        /\ am[Len(ms)].type = IF type = "error" THEN "error" ELSE ms[Len(ms)].type
  BY AmendFacts
<1> DEFINE am == Amend(ms, c, type)
<1> HIDE DEF am
<1>2. /\ Len(am) = Len(ms)
      /\ \A i \in 1..Len(ms) : am[i].by = ms[i].by
      /\ \A i \in 1..Len(ms) : i # Len(ms) => am[i] = ms[i]
      /\ am[Len(ms)].from = ms[Len(ms)].from \cup {c}
      /\ am[Len(ms)].type # "user"
  BY <1>1 DEF am
<1>. SUFFICES ASSUME NEW i \in 1..Len(ms)
              PROVE  am[i].from \subseteq (IF am[i].type = "user" THEN {} ELSE {am[i].by})
  BY <1>2 DEF Owned, am
<1>3. ms[i].from \subseteq (IF ms[i].type = "user" THEN {} ELSE {ms[i].by})
  BY DEF Owned
<1>4. CASE i # Len(ms)
  BY <1>2, <1>3, <1>4
<1>5. CASE i = Len(ms)
  BY <1>2, <1>3, <1>5
<1>. QED
  BY <1>4, <1>5

\* A new turn holds nothing yet.
LEMMA TurnKeepsOwned ==
  ASSUME NEW ms \in Seq(ChatMessage), NEW c \in Calls, Owned(ms)
  PROVE  Owned(ms \o Turn(c))
<1>1. LET tm == ms \o Turn(c) IN
        /\ Len(tm) = Len(ms) + 2
        /\ \A i \in 1..Len(ms) : tm[i] = ms[i]
        /\ tm[Len(ms) + 1] = [by |-> c, type |-> "user", from |-> {}]
        /\ tm[Len(ms) + 2] = [by |-> c, type |-> "agent", from |-> {}]
  BY TurnFacts
<1> DEFINE tm == ms \o Turn(c)
<1>2. /\ Len(tm) = Len(ms) + 2
      /\ \A i \in 1..Len(ms) : tm[i] = ms[i]
      /\ tm[Len(ms) + 1].from = {} /\ tm[Len(ms) + 2].from = {}
  BY <1>1
<1> HIDE DEF tm
<1>. SUFFICES ASSUME NEW i \in 1..Len(tm)
              PROVE  tm[i].from \subseteq (IF tm[i].type = "user" THEN {} ELSE {tm[i].by})
  BY DEF Owned, tm
<1>3. Len(ms) \in Nat
  OBVIOUS
<1>4. i \in 1..Len(ms) \/ i = Len(ms) + 1 \/ i = Len(ms) + 2
  BY <1>2, <1>3
<1>5. CASE i \in 1..Len(ms)
  BY <1>2, <1>5 DEF Owned
<1>6. CASE i = Len(ms) + 1 \/ i = Len(ms) + 2
  BY <1>2, <1>6
<1>. QED
  BY <1>4, <1>5, <1>6

\* An event neither moves a message nor takes anything out of one.
LEMMA AmendKeepsConversation ==
  ASSUME NEW ms \in Seq(ChatMessage), ms # <<>>, NEW c \in Calls, NEW type,
         NEW s, NEW tl, NEW done, IsConversation(ms, s, tl, done)
  PROVE  IsConversation(Amend(ms, c, type), s, tl, done)
<1>1. LET am == Amend(ms, c, type) IN
        /\ Len(am) = Len(ms)
        /\ \A i \in 1..Len(ms) : am[i].by = ms[i].by /\ ms[i].from \subseteq am[i].from
  BY AmendFacts
<1> DEFINE am == Amend(ms, c, type)
<1> HIDE DEF am
<1>2. /\ Len(am) = Len(ms)
      /\ \A i \in 1..Len(ms) : am[i].by = ms[i].by /\ ms[i].from \subseteq am[i].from
  BY <1>1 DEF am
<1>3. \A i \in 1..Len(am) : tl[am[i].by] \in {NoSession, s}
  BY <1>2 DEF IsConversation
<1>4. ASSUME NEW d \in done PROVE AnsweredIn(am, d)
  BY <1>2 DEF IsConversation, AnsweredIn
<1>. QED
  BY <1>3, <1>4 DEF IsConversation, am

\* A new turn continues the conversation if its call runs on the same session.
LEMMA TurnKeepsConversation ==
  ASSUME NEW ms \in Seq(ChatMessage), NEW c \in Calls,
         NEW s, NEW tl, NEW done, IsConversation(ms, s, tl, done), tl[c] \in {NoSession, s}
  PROVE  IsConversation(ms \o Turn(c), s, tl, done)
<1>1. LET tm == ms \o Turn(c) IN
        /\ Len(tm) = Len(ms) + 2
        /\ \A i \in 1..Len(ms) : tm[i] = ms[i]
        /\ tm[Len(ms) + 1] = [by |-> c, type |-> "user", from |-> {}]
        /\ tm[Len(ms) + 2] = [by |-> c, type |-> "agent", from |-> {}]
  BY TurnFacts
<1> DEFINE tm == ms \o Turn(c)
<1>2. /\ Len(tm) = Len(ms) + 2
      /\ \A i \in 1..Len(ms) : tm[i] = ms[i]
      /\ tm[Len(ms) + 1].by = c /\ tm[Len(ms) + 2].by = c
  BY <1>1
<1> HIDE DEF tm
<1>3. Len(ms) \in Nat
  OBVIOUS
<1>4. ASSUME NEW i \in 1..Len(tm) PROVE tl[tm[i].by] \in {NoSession, s}
  <2>1. i \in 1..Len(ms) \/ i = Len(ms) + 1 \/ i = Len(ms) + 2
    BY <1>2, <1>3
  <2>2. CASE i \in 1..Len(ms)
    BY <1>2, <2>2 DEF IsConversation
  <2>3. CASE i = Len(ms) + 1 \/ i = Len(ms) + 2
    BY <1>2, <2>3
  <2>. QED
    BY <2>1, <2>2, <2>3
<1>5. ASSUME NEW d \in done PROVE AnsweredIn(tm, d)
  <2>1. PICK i \in 1..Len(ms) : ms[i].by = d /\ d \in ms[i].from
    BY DEF IsConversation, AnsweredIn
  <2>2. i \in 1..Len(tm) /\ tm[i] = ms[i]
    BY <1>2, <1>3
  <2>. QED
    BY <2>1, <2>2 DEF AnsweredIn
<1>. QED
  BY <1>4, <1>5 DEF IsConversation, tm

\* A conversation answers what a smaller set of calls asks.
LEMMA FewerSettled ==
  ASSUME NEW ms, NEW s, NEW tl, NEW done, NEW fewer,
         IsConversation(ms, s, tl, done), \A c \in fewer : c \in done \/ AnsweredIn(ms, c)
  PROVE  IsConversation(ms, s, tl, fewer)
  BY DEF IsConversation

\* What a call on an untangled page hears, or ends with, goes into its own answer.
LEMMA OwnAnswerGrows ==
  ASSUME Typed, OneThing, NEW p \in Pages, p \notin tangled, NEW c \in InFlight(p),
         Ends(c) \/ Hears(c, "chunk") \/ Hears(c, "error")
  PROVE  /\ messages[p] # <<>> /\ messages[p][Len(messages[p])].by = c
         /\ messages[p][Len(messages[p])].type # "user"
         /\ \/ messages'[p] = messages[p]
            \/ \E type \in {"chunk", "error"} : messages'[p] = Amend(messages[p], c, type)
         /\ \A q \in Pages \ {p} : messages'[q] = messages[q]
<1>0. c \in Calls /\ page[c] = p /\ Answering(p, c)
  BY DEF OneThing, AtOneThing, InFlight
<1>1. messages[p] # <<>> /\ messages[p][Len(messages[p])].by = c
      /\ messages[p][Len(messages[p])].type # "user"
  BY <1>0 DEF Answering
<1> USE DEF Typed, TypeOK
<1>2. CASE Ends(c)
  <2>1. PICK ms : /\ \/ ms = messages[p]
                     \/ ms = Amend(messages[p], c, "error")
                  /\ messages' = [messages EXCEPT ![p] = ms]
    BY <1>0, <1>2 DEF Ends, Finish
  <2>. QED
    BY <1>1, <2>1
<1>3. ASSUME NEW type \in {"chunk", "error"}, Hears(c, type)
      PROVE  /\ messages'[p] = Amend(messages[p], c, type)
             /\ \A q \in Pages \ {p} : messages'[q] = messages[q]
  BY <1>0, <1>3 DEF Hears
<1>. QED
  BY <1>1, <1>2, <1>3

\* A call that ends on an untangled page stores what is shown.
LEMMA EndsStores ==
  ASSUME Typed, OneThing, NEW p \in Pages, p \notin tangled, NEW c \in InFlight(p), Ends(c)
  PROVE  /\ stored'.messages = messages'[p]
         /\ stored'.session = IF session[p] # NoSession THEN session[p] ELSE stored.session
<1>0. c \in Calls /\ page[c] = p
  BY DEF InFlight
<1>1. messages[p] \in Seq(ChatMessage) /\ messages[p] # <<>>
  BY OwnAnswerGrows DEF Typed, TypeOK
<1>2. PICK ms : /\ \/ ms = messages[p]
                   \/ ms = Amend(messages[p], c, "error")
                /\ messages' = [messages EXCEPT ![p] = ms]
                /\ stored' = Saved(ms, session[p])
  BY <1>0 DEF Ends, Finish
<1>3. ms # <<>>
  <2>1. Amend(messages[p], c, "error") # <<>>
    BY <1>0, <1>1, AmendFacts
  <2>. QED
    BY <1>1, <1>2, <2>1
<1>. QED
  BY <1>2, <1>3 DEF Saved, Typed, TypeOK

-----------------------------------------------------------------------------
(* Every message holds what its own call streamed. *)

\* Loading and saving copy messages, a call amends its own answer.
LEMMA AllOwnedStep ==
  ASSUME Typed, OneThing, AllOwned, NEW p \in Pages, StepOf(p), TypeOK'
  PROVE  AllOwned'
<1>. SUFFICES ASSUME tangled' = {}
              PROVE  Owned(stored'.messages) /\ \A q \in Pages : Owned(messages'[q])
  BY DEF AllOwned, Owned
<1>1. tangled = {}
  BY TangledGrows DEF Typed
<1>2. Owned(stored.messages) /\ \A q \in Pages : Owned(messages[q])
  BY <1>1 DEF AllOwned
<1>3. Owned(<<>>)
  BY DEF Owned
<1> USE DEF Typed, TypeOK
<1>4. CASE Mount(p) \/ LoadFound(p)
  BY <1>2, <1>3, <1>4 DEF Mount, LoadFound
<1>5. CASE LoadMissing(p) \/ LoadFails(p) \/ Clear(p)
  BY <1>2, <1>3, <1>5 DEF LoadMissing, LoadFails, Clear, EmptyStorage
<1>6. CASE Leave(p) \/ Close(p)
  BY <1>2, <1>3, <1>6 DEF Leave, Close
<1>7. ASSUME NEW c \in Calls, Send(p, c)
      PROVE  Owned(stored'.messages) /\ \A q \in Pages : Owned(messages'[q])
  <2>1. messages'[p] = messages[p] \o Turn(c) /\ stored' = stored
        /\ \A q \in Pages \ {p} : messages'[q] = messages[q]
    BY <1>7 DEF Send
  <2>2. Owned(messages[p] \o Turn(c))
    BY <1>2, TurnKeepsOwned
  <2>. QED
    BY <1>2, <2>1, <2>2
<1>8. ASSUME NEW c \in InFlight(p), c \in Calls, page[c] = p,
             Ends(c) \/ Hears(c, "chunk") \/ Hears(c, "error")
      PROVE  Owned(stored'.messages) /\ \A q \in Pages : Owned(messages'[q])
  <2>1. /\ messages[p] # <<>> /\ messages[p][Len(messages[p])].by = c
        /\ messages[p][Len(messages[p])].type # "user"
        /\ \/ messages'[p] = messages[p]
           \/ \E type \in {"chunk", "error"} : messages'[p] = Amend(messages[p], c, type)
        /\ \A q \in Pages \ {p} : messages'[q] = messages[q]
    BY <1>1, <1>8, OwnAnswerGrows
  <2>2. Owned(messages'[p])
    BY <1>2, <1>8, <2>1, AmendKeepsOwned
  <2>3. stored'.messages = messages'[p] \/ stored' = stored
    BY <1>1, <1>8, EndsStores DEF Hears
  <2>. QED
    BY <1>2, <2>1, <2>2, <2>3
<1>9. ASSUME NEW c \in InFlight(p), c \in Calls, page[c] = p,
             GoesOut(c) \/ Respond(c) \/ Withdraws(p, c)
      PROVE  Owned(stored'.messages) /\ \A q \in Pages : Owned(messages'[q])
  <2>1. messages' = messages
    BY <1>9 DEF GoesOut, Respond, Withdraws
  <2>2. stored' = stored \/ \E s : stored' = Saved(messages[p], s)
    BY <1>9 DEF GoesOut, Respond, Withdraws
  <2>3. stored'.messages \in {stored.messages, messages[p]}
    BY <2>2 DEF Saved
  <2>. QED
    BY <1>2, <2>1, <2>3
<1>. QED
  BY <1>4, <1>5, <1>6, <1>7, <1>8, <1>9, StepCases

-----------------------------------------------------------------------------
(* As long as pages do not overlap, the page in use and the storage agree. *)

\* Only mounting puts a page to use.
LEMMA UsingShrinks ==
  ASSUME Typed, NEW p \in Pages, StepOf(p), ~ Mount(p)
  PROVE  /\ \A q \in Pages : Using(q)' => Using(q)
         /\ ~ Close(p) => Using(p)
         /\ Close(p) => ~ Using(p)'
<1>1. ASSUME NEW q \in Pages, q # p PROVE Using(q)' => Using(q)
  BY <1>1, PageFrame, BusyFrame DEF Using, SamePage, Typed
<1>2. CASE Close(p)
  <2>1. mount'[p] = "closed" /\ asked'[p] = NoSession /\ InFlight(p)' = {}
    BY <1>2, InFlightStep DEF Close, Typed, TypeOK
  <2>2. ~ Using(p)'
    BY <2>1 DEF Using, Busy
  <2>3. \A q \in Pages : Using(q)' => Using(q)
    BY <1>1, <2>2
  <2>. QED
    BY <1>2, <2>2, <2>3
<1>3. CASE ~ Close(p)
  <2>1. Using(p)
    BY <1>3, StepCases DEF Typed, LoadFound, LoadMissing, LoadFails, Clear, Leave, Send, Using, Busy
  <2>. QED
    BY <1>1, <1>3, <2>1
<1>. QED
  BY <1>2, <1>3

\* A second page in use is a shared storage.
LEMMA AloneStep ==
  ASSUME Typed, Alone, NEW p \in Pages, StepOf(p)
  PROVE  Alone'
<1>. SUFFICES ASSUME ~ shared', NEW q \in Pages, NEW r \in Pages, Using(q)', Using(r)'
              PROVE  q = r
  BY DEF Alone
<1>1. ~ shared
  BY TangledGrows DEF Typed
<1>2. CASE Mount(p)
  <2>1. \A o \in Pages : ~ Using(o)
    BY <1>2 DEF Mount, Using
  <2>2. \A o \in Pages \ {p} : Using(o)' => Using(o)
    BY PageFrame, BusyFrame DEF Using, SamePage, Typed
  <2>. QED
    BY <2>1, <2>2
<1>3. CASE ~ Mount(p)
  BY <1>1, <1>3, UsingShrinks DEF Alone
<1>. QED
  BY <1>2, <1>3

\* The calls whose answers have to be stored: only a call that ends joins them.
LEMMA SettledStep ==
  ASSUME Typed, NEW p \in Pages, StepOf(p), NEW d \in Settled'
  PROVE  /\ forgotten \subseteq forgotten' /\ d \in Calls /\ told'[d] \notin forgotten'
         /\ \/ d \in Settled /\ told'[d] = told[d]
            \/ d \in InFlight(p) /\ d \in heard /\ Ends(d)
<1> USE DEF Typed, TypeOK
<1>0. d \in heard' /\ phase'[d] = "over" /\ told'[d] \in SessionIds \ forgotten'
  BY DEF Settled
<1>1. forgotten \subseteq forgotten'
  <2>1. ASSUME NEW c \in Calls, page[c] = p, CallStep(c) PROVE forgotten' = forgotten
    BY <2>1, CallMoves
  <2>. QED
    BY <2>1 DEF StepOf, Mount, LoadFound, LoadMissing, LoadFails, Clear, Leave, Close, Send, history
<1>2. d \in Calls
  BY <1>0, TypeStep
<1>3. CASE SameCall(d)
  BY <1>0, <1>1, <1>2, <1>3 DEF SameCall, Settled
<1>4. CASE Send(p, d) \/ (Close(p) /\ d \in InFlight(p))
  BY <1>0, <1>2, <1>4 DEF Send, Close
<1>5. CASE page[d] = p /\ phase[d] \in Live /\ CallStep(d)
  <2>1. CASE Ends(d)
    <3>1. heard' = heard
      BY <2>1 DEF Ends, history
    <3>. QED
      BY <1>0, <1>1, <1>2, <1>5, <2>1, <3>1 DEF InFlight
  <2>2. CASE ~ Ends(d)
    BY <1>0, <1>2, <1>5, <2>2 DEF CallStep, GoesOut, Respond, Hears, Withdraws, Live
  <2>. QED
    BY <2>1, <2>2
<1>. QED
  BY <1>0, <1>1, <1>2, <1>3, <1>4, <1>5, CallFrame

\* What InStep says once pages do not overlap and none is tangled.
LEMMA InStepHolds ==
  ASSUME ~ shared, tangled = {}, InStep
  PROVE  /\ stored.session \notin forgotten
         /\ Conversation(stored.messages)
         /\ \A p \in Pages : Using(p) => InStepWith(p)
  BY DEF InStep

\* A page is in step after its own step.
LEMMA InStepOwnStep ==
  ASSUME Typed, OneThing, Alone, InStep, NEW p \in Pages, StepOf(p), ~ Close(p),
         ~ shared', tangled' = {}
  PROVE  /\ stored'.session \notin forgotten'
         /\ Conversation(stored.messages)'
         /\ InStepWith(p)'
<1>1. ~ shared /\ tangled = {}
  BY TangledGrows DEF Typed
<1>2. /\ stored.session \notin forgotten
      /\ IsConversation(stored.messages, stored.session, told, Settled)
      /\ Using(p) => InStepWith(p)
  BY <1>1, InStepHolds DEF Conversation
<1>3. AtOneThing(p) /\ PageInOrder(p)
  BY <1>1 DEF Typed, OneThing, PagesInOrder
<1>4. NoSession \notin forgotten' /\ NoSession \notin forgotten
  BY AbsentAssumption, TypedStep DEF Typed, TypeOK
<1>5. IsConversation(<<>>, NoSession, told', {})
  BY DEF IsConversation
<1> USE DEF Typed, TypeOK
<1> DEFINE Goal == /\ stored'.session \notin forgotten'
                   /\ IsConversation(stored'.messages, stored'.session, told', Settled')
                   /\ IF asked'[p] # NoSession THEN asked'[p] = stored'.session
                      ELSE /\ session'[p] = stored'.session
                           /\ IsConversation(messages'[p], stored'.session, told', Settled')
                           /\ InFlight(p)' = {} => messages'[p] = stored'.messages
<1>6. SUFFICES Goal
  BY DEF InStepWith, Conversation
\* Nothing is settled that was not.
<1>7. ASSUME NEW ms, told' = told, ~ \E c \in InFlight(p) : Ends(c),
             IsConversation(ms, stored.session, told, Settled)
      PROVE  IsConversation(ms, stored.session, told', Settled')
  <2>1. \A d \in Settled' : d \in Settled
    BY <1>7, SettledStep
  <2>. QED
    BY <1>7, <2>1, FewerSettled
<1>8. ASSUME NEW c \in InFlight(p), Ends(c)
      PROVE  phase[c] # "over" /\ phase'[c] = "over"
  BY <1>8 DEF InFlight, Live, Ends, Finish
<1>9. CASE Mount(p)
  <2>1. /\ session'[p] = NoSession /\ asked'[p] = stored.session
        /\ messages'[p] = IF stored.session = NoSession THEN stored.messages ELSE <<>>
        /\ UNCHANGED <<stored, told, phase, forgotten>>
    BY <1>3, <1>9 DEF Mount, callVars, PageInOrder
  <2>2. IsConversation(stored.messages, stored.session, told', Settled')
    BY <1>2, <1>7, <1>8, <2>1
  <2>. QED
    BY <1>2, <2>1, <2>2
<1>10. CASE LoadFound(p)
  <2>1. /\ session'[p] = asked[p] /\ asked'[p] = NoSession /\ asked[p] # NoSession
        /\ messages'[p] = IF stored.messages # <<>> THEN stored.messages ELSE messages[p]
        /\ UNCHANGED <<stored, told, phase, forgotten>>
    BY <1>10 DEF LoadFound, callVars, history
  <2>2. asked[p] = stored.session /\ messages[p] = <<>>
    BY <1>2, <1>3, <2>1 DEF InStepWith, AtOneThing, Using, Busy
  <2>3. IsConversation(stored.messages, stored.session, told', Settled')
    BY <1>2, <1>7, <1>8, <2>1
  <2>. QED
    BY <1>2, <2>1, <2>2, <2>3
<1>11. CASE LoadFails(p)
  BY <1>11 DEF LoadFails
\* What is cleared, or not found, is the stored conversation.
<1>12. ASSUME Conversation(stored.messages), told' = told, phase' = phase,
              stored.session \in forgotten' \cup {NoSession}
       PROVE  Settled' = {}
  <2>. SUFFICES ASSUME NEW d \in Settled' PROVE FALSE
    OBVIOUS
  <2>1. d \in Settled /\ told'[d] \notin forgotten'
    BY <1>8, <1>12, SettledStep
  <2>2. told[d] \in {NoSession, stored.session}
    BY <1>12, <2>1 DEF Conversation, IsConversation, AnsweredIn
  <2>3. told[d] # NoSession
    BY <2>1, AbsentAssumption DEF Settled
  <2>. QED
    BY <1>12, <2>1, <2>2, <2>3
<1>13. CASE LoadMissing(p)
  <2>1. /\ asked'[p] = NoSession /\ stored' = EmptyStorage /\ asked[p] # NoSession
        /\ forgotten' = forgotten \cup {asked[p]}
        /\ UNCHANGED <<told, phase, session, messages>>
    BY <1>13 DEF LoadMissing, callVars
  <2>2. asked[p] = stored.session /\ messages[p] = <<>> /\ session[p] = NoSession
    BY <1>2, <1>3, <2>1 DEF InStepWith, AtOneThing, Using, Busy
  <2>3. Settled' = {}
    BY <1>2, <1>12, <2>1, <2>2 DEF Conversation
  <2>. QED
    BY <1>4, <1>5, <2>1, <2>2, <2>3 DEF EmptyStorage
<1>14. CASE Clear(p)
  <2>1. /\ ~ Busy(p) /\ Using(p)
        /\ session'[p] = NoSession /\ messages'[p] = <<>> /\ stored' = EmptyStorage
        /\ forgotten' = forgotten \cup ({session[p]} \ {NoSession})
        /\ UNCHANGED <<told, phase, asked>>
    BY <1>14 DEF Clear, callVars, Using
  <2>2. asked[p] = NoSession /\ session[p] = stored.session
    BY <1>2, <2>1 DEF InStepWith, Busy
  <2>3. Settled' = {}
    BY <1>2, <1>12, <2>1, <2>2 DEF Conversation
  <2>. QED
    BY <1>4, <1>5, <2>1, <2>2, <2>3 DEF EmptyStorage
<1>15. ASSUME Using(p), UNCHANGED <<asked, session, stored, told, forgotten>>,
              ~ \E c \in InFlight(p) : Ends(c),
              IsConversation(messages[p], stored.session, told, Settled) =>
                IsConversation(messages'[p], stored.session, told, Settled),
              InFlight(p)' = {} => InFlight(p) = {} /\ messages'[p] = messages[p]
       PROVE  Goal
  <2>1. IsConversation(stored.messages, stored.session, told', Settled')
    BY <1>2, <1>7, <1>15
  <2>2. CASE asked[p] # NoSession
    BY <1>2, <1>15, <2>1, <2>2 DEF InStepWith
  <2>3. CASE asked[p] = NoSession
    <3>1. /\ session[p] = stored.session
          /\ IsConversation(messages[p], stored.session, told, Settled)
          /\ InFlight(p) = {} => messages[p] = stored.messages
      BY <1>2, <1>15, <2>3 DEF InStepWith, Conversation
    <3>2. IsConversation(messages'[p], stored.session, told', Settled')
      BY <1>7, <1>15, <3>1
    <3>. QED
      BY <1>2, <1>15, <2>1, <2>3, <3>1, <3>2
  <2>. QED
    BY <2>2, <2>3
<1> HIDE DEF Goal
<1>16. CASE Leave(p)
  <2>1. UNCHANGED <<asked, session, stored, told, forgotten, messages, phase>> /\ Using(p)
    BY <1>16 DEF Leave, callVars, history, Using
  <2>2. InFlight(p)' = InFlight(p)
    BY <1>16, InFlightStep
  <2>. QED
    BY <1>8, <1>15, <2>1, <2>2
<1>17. ASSUME NEW c \in Calls, Send(p, c) PROVE Goal
  <2>1. /\ UNCHANGED <<asked, session, stored, told, forgotten>> /\ Using(p)
        /\ messages'[p] = messages[p] \o Turn(c) /\ told[c] = NoSession
        /\ phase' = [phase EXCEPT ![c] = "prelude"] /\ phase[c] = "unsent"
    BY <1>17 DEF Send, pageVars, Using, CallsInOrder
  <2>2. InFlight(p)' # {}
    BY <1>17, InFlightStep
  <2>3. ~ \E d \in InFlight(p) : Ends(d)
    BY <1>8, <2>1 DEF InFlight
  <2>4. IsConversation(messages[p], stored.session, told, Settled) =>
          IsConversation(messages'[p], stored.session, told, Settled)
    BY <2>1, TurnKeepsConversation
  <2>. QED
    BY <1>15, <2>1, <2>2, <2>3, <2>4
<1>18. ASSUME NEW c \in InFlight(p), c \in Calls, page[c] = p, phase[c] \in Live,
              GoesOut(c) \/ Hears(c, "chunk") \/ Hears(c, "error") \/ Withdraws(p, c)
       PROVE  Goal
  <2>1. UNCHANGED <<asked, session, stored, told, forgotten>> /\ Using(p)
    BY <1>18 DEF GoesOut, Hears, Withdraws, pageVars, callVars, history, Using, Busy
  <2>2. InFlight(p)' = InFlight(p) /\ InFlight(p) # {}
    BY <1>18, InFlightStep
  <2>3. ~ \E d \in InFlight(p) : Ends(d)
    <3>1. \A d \in InFlight(p) : d = c
      BY <1>3, <1>18 DEF AtOneThing
    <3>2. phase'[c] # "over"
      BY <1>18 DEF GoesOut, Hears, Withdraws, Live
    <3>. QED
      BY <1>8, <3>1, <3>2
  <2>4. messages'[p] = messages[p]
        \/ \E type \in {"chunk", "error"} : messages'[p] = Amend(messages[p], c, type)
    BY <1>1, <1>18, OwnAnswerGrows DEF GoesOut, Withdraws
  <2>5. messages[p] # <<>>
    BY <1>3, <1>18 DEF AtOneThing, Answering
  <2>6. IsConversation(messages[p], stored.session, told, Settled) =>
          IsConversation(messages'[p], stored.session, told, Settled)
    BY <1>18, <2>4, <2>5, AmendKeepsConversation
  <2>. QED
    BY <1>15, <2>1, <2>2, <2>3, <2>6
<1>19. ASSUME NEW c \in InFlight(p), c \in Calls, page[c] = p, phase[c] \in Live, Ends(c)
       PROVE  Goal
  <2>1. UNCHANGED <<asked, session, told, forgotten, heard>>
    BY <1>19 DEF Ends, Finish, pageVars, callVars, history
  <2>2. asked[p] = NoSession /\ Using(p)
    BY <1>3, <1>19 DEF AtOneThing, Using, Busy
  <2>3. session[p] = stored.session
        /\ IsConversation(messages[p], stored.session, told, Settled)
    BY <1>2, <2>2 DEF InStepWith, Conversation
  <2>4. stored'.messages = messages'[p] /\ stored'.session = stored.session
    BY <1>1, <1>19, <2>3, EndsStores
  <2>5. messages'[p] = messages[p]
        \/ \E type \in {"chunk", "error"} : messages'[p] = Amend(messages[p], c, type)
    BY <1>1, <1>19, OwnAnswerGrows
  <2>6. /\ messages[p] # <<>> /\ messages[p][Len(messages[p])].by = c
        /\ c \in heard => c \in messages[p][Len(messages[p])].from
    BY <1>3, <1>19 DEF AtOneThing, Answering
  <2>7. IsConversation(messages'[p], stored.session, told, Settled)
    BY <1>19, <2>3, <2>5, <2>6, AmendKeepsConversation
  <2>8. c \in heard => AnsweredIn(messages'[p], c)
    <3> DEFINE ms == messages[p]
    <3>1. ms \in Seq(ChatMessage) /\ ms # <<>> /\ Len(ms) \in 1..Len(ms)
      BY <2>6
    <3>2. CASE messages'[p] = messages[p]
      BY <2>6, <3>1, <3>2 DEF AnsweredIn
    <3>3. ASSUME NEW type \in {"chunk", "error"}, messages'[p] = Amend(messages[p], c, type)
          PROVE  c \in heard => AnsweredIn(messages'[p], c)
      <4>1. LET am == Amend(ms, c, type) IN
              /\ Len(am) = Len(ms)
              /\ \A i \in 1..Len(ms) : am[i].by = ms[i].by
              /\ am[Len(ms)].from = ms[Len(ms)].from \cup {c}
        BY <1>19, <3>1, AmendFacts
      <4>. QED
        BY <2>6, <3>1, <3>3, <4>1 DEF AnsweredIn
    <3>. QED
      BY <2>5, <3>2, <3>3
  <2>9. \A d \in Settled' : d \in Settled \/ AnsweredIn(messages'[p], d)
    <3>1. \A d \in InFlight(p) : d = c
      BY <1>3, <1>19 DEF AtOneThing
    <3>. QED
      BY <2>8, <3>1, SettledStep
  <2>10. IsConversation(messages'[p], stored.session, told', Settled')
    BY <2>1, <2>7, <2>9, FewerSettled
  <2>. QED
    BY <1>2, <2>1, <2>2, <2>3, <2>4, <2>10 DEF Goal
<1>20. ASSUME NEW c \in InFlight(p), c \in Calls, page[c] = p, phase[c] \in Live, Respond(c)
       PROVE  Goal
  <2>1. PICK s \in SessionIds :
          /\ IF sent[c] = NoSession THEN \A d \in Calls : told[d] # s ELSE s = sent[c]
          /\ told' = [told EXCEPT ![c] = s]
          /\ session' = [session EXCEPT ![p] = s]
          /\ stored' = Saved(messages[p], s)
    BY <1>20 DEF Respond
  <2>2. /\ UNCHANGED <<asked, forgotten, heard, messages>>
        /\ phase[c] = "open" /\ phase'[c] = "streaming" /\ session'[p] = s
    BY <1>20, <2>1 DEF Respond, history
  <2>3. asked[p] = NoSession /\ Using(p) /\ messages[p] # <<>> /\ session[p] = sent[c]
    BY <1>3, <1>20, <2>2 DEF AtOneThing, Answering, Using, Busy
  <2>4. session[p] = stored.session
        /\ IsConversation(messages[p], stored.session, told, Settled)
    BY <1>2, <2>3 DEF InStepWith, Conversation
  <2>5. stored'.messages = messages[p] /\ stored'.session = s
    BY <2>1, <2>3, AbsentAssumption DEF Saved
  <2>6. s \notin forgotten
    <3>1. CASE sent[c] = NoSession
      BY <2>1, <3>1 DEF IdsAreTold, IsTold
    <3>2. CASE sent[c] # NoSession
      BY <1>2, <2>1, <2>3, <2>4, <3>2
    <3>. QED
      BY <3>1, <3>2
  <2>7. stored.session \in {NoSession, s}
    BY <2>1, <2>3, <2>4
  <2>8. \A d \in Settled' : d \in Settled
    <3>1. \A d \in InFlight(p) : d = c
      BY <1>3, <1>20 DEF AtOneThing
    <3>. QED
      BY <1>8, <2>2, <3>1, SettledStep
  <2>9. IsConversation(messages[p], s, told', Settled')
    <3>1. ASSUME NEW i \in 1..Len(messages[p])
          PROVE  told'[messages[p][i].by] \in {NoSession, s}
      <4>1. told[messages[p][i].by] \in {NoSession, s}
        BY <2>4, <2>7 DEF IsConversation
      <4>2. messages[p][i] \in ChatMessage
        OBVIOUS
      <4>3. messages[p][i].by \in Calls
        BY <4>2 DEF ChatMessage
      <4>. QED
        BY <2>1, <4>1, <4>3
    <3>2. \A d \in Settled' : AnsweredIn(messages[p], d)
      BY <2>4, <2>8 DEF IsConversation
    <3>. QED
      BY <3>1, <3>2 DEF IsConversation
  <2>10. InFlight(p)' # {}
    BY <1>20, InFlightStep
  <2>. QED
    BY <2>2, <2>3, <2>5, <2>6, <2>9, <2>10 DEF Goal
<1>. QED
  BY <1>9, <1>10, <1>11, <1>13, <1>14, <1>16, <1>17, <1>18, <1>19, <1>20, StepCases DEF Goal

\* Every page in use is in step after any step.
LEMMA InStepStep ==
  ASSUME Typed, OneThing, Alone, InStep, NEW p \in Pages, StepOf(p)
  PROVE  InStep'
<1>. SUFFICES ASSUME ~ shared', tangled' = {}
              PROVE  /\ stored'.session \notin forgotten'
                     /\ Conversation(stored.messages)'
                     /\ \A q \in Pages : Using(q)' => InStepWith(q)'
  BY DEF InStep
<1>1. Alone'
  BY AloneStep
<1>2. CASE ~ Close(p)
  <2>1. /\ stored'.session \notin forgotten' /\ Conversation(stored.messages)'
        /\ InStepWith(p)'
    BY <1>2, InStepOwnStep
  <2>2. ASSUME NEW q \in Pages, Using(q)' PROVE InStepWith(q)'
    <3>1. q = p \/ ~ Using(p)'
      BY <1>1, <2>2 DEF Alone
    <3>2. CASE q = p
      BY <2>1, <3>2
    <3>3. CASE q # p /\ Mount(p)
      <4>1. Using(p)'
        BY <3>3 DEF Mount, Using, Typed, TypeOK
      <4>. QED
        BY <3>1, <3>3, <4>1
    <3>4. CASE q # p /\ ~ Mount(p)
      <4>1. Using(q) /\ Using(p)
        BY <1>2, <2>2, <3>4, UsingShrinks
      <4>2. ~ shared
        BY TangledGrows DEF Typed
      <4>. QED
        BY <3>4, <4>1, <4>2 DEF Alone
    <3>. QED
      BY <3>2, <3>3, <3>4
  <2>. QED
    BY <2>1, <2>2
<1>3. CASE Close(p)
  <2>1. ~ shared /\ tangled = {}
    BY TangledGrows DEF Typed
  <2>2. /\ stored.session \notin forgotten
        /\ IsConversation(stored.messages, stored.session, told, Settled)
        /\ \A q \in Pages : Using(q) => InStepWith(q)
    BY <2>1, InStepHolds DEF Conversation
  <2>3. UNCHANGED <<stored, told, forgotten, heard>>
    BY <1>3 DEF Close, callVars, history
  <2>4. Settled' = Settled
    <3>1. \A c \in Calls : phase'[c] = "over" <=> phase[c] = "over"
      BY <1>3 DEF Close, InFlight, Live, Typed, TypeOK
    <3>. QED
      BY <2>3, <3>1 DEF Settled, Typed, TypeOK
  <2>5. ASSUME NEW q \in Pages, Using(q)' PROVE InStepWith(q)'
    <3>1. Using(q) /\ q # p
      BY <1>3, <2>5, UsingShrinks DEF Mount, Close
    <3>2. SamePage(q) /\ InFlight(q)' = InFlight(q)
      BY <3>1, PageFrame, InFlightFrame DEF Typed
    <3>. QED
      BY <2>2, <2>3, <2>4, <3>1, <3>2 DEF InStepWith, Conversation, SamePage
  <2>. QED
    BY <2>2, <2>3, <2>4, <2>5 DEF Conversation
<1>. QED
  BY <1>2, <1>3

-----------------------------------------------------------------------------
(* The theorems. *)

\* The invariant holds initially.
LEMMA PageInit == Init => PageInv
<1>. SUFFICES ASSUME Init PROVE PageInv
  OBVIOUS
<1>1. Typed
  BY TypedInit
<1>2. \A p \in Pages : mount[p] = "no" /\ asked[p] = NoSession /\ messages[p] = <<>>
  BY DEF Init
<1>3. \A p \in Pages : InFlight(p) = {}
  BY DEF Init, InFlight, Live
<1>4. OneThing
  BY <1>2, <1>3 DEF OneThing, AtOneThing
<1>5. AllOwned
  BY <1>2 DEF Init, AllOwned, Owned, EmptyStorage
<1>6. \A p \in Pages : ~ Using(p)
  BY <1>2, <1>3 DEF Using, Busy
<1>7. Alone
  BY <1>6 DEF Alone
<1>8. InStep
  BY <1>6 DEF Init, InStep, Conversation, IsConversation, Settled, EmptyStorage
<1>. QED
  BY <1>1, <1>4, <1>5, <1>7, <1>8 DEF PageInv

\* Every step of every page keeps the invariant.
LEMMA PageStep == PageInv /\ [Next]_vars => PageInv'
<1>. SUFFICES ASSUME PageInv, [Next]_vars PROVE PageInv'
  OBVIOUS
<1> USE DEF PageInv
<1>1. CASE Next /\ ~ \E c \in Calls : Hang(c)
  <2>1. PICK p \in Pages : StepOf(p)
    BY <1>1, NextIsStepOf DEF Typed
  <2>2. Typed'
    BY <2>1, TypedStep
  <2>. QED
    BY <2>1, <2>2, OneThingStep, AllOwnedStep, AloneStep, InStepStep DEF Typed
<1>2. CASE UNCHANGED vars \/ \E c \in Calls : Hang(c)
  <2>1. Unmoved /\ hung' \in SUBSET Calls
    BY <1>2 DEF vars, Hang, Unmoved, pageVars, history, Typed, TypeOK
  <2>2. Typed'
    BY <2>1, TypedStutter
  <2>3. OneThing' /\ Alone' /\ AllOwned'
    BY <2>1 DEF Unmoved, OneThing, AtOneThing, Answering, Alone, Using, Busy, InFlight, AllOwned, Owned
  <2>4. InStep'
    BY <2>1 DEF Unmoved, InStep, InStepWith, Conversation, Settled, Using, Busy, InFlight
  <2>. QED
    BY <2>2, <2>3, <2>4
<1>. QED
  BY <1>1, <1>2

\* The inductive invariant of the page.
THEOREM PageInvariant == Spec => []PageInv
  BY PageInit, PageStep, PTL DEF Spec

\* The variables of every page, call and storage have their types.
THEOREM TypeCorrect == Spec => []TypeOK
<1>1. PageInv => TypeOK
  BY DEF PageInv, Typed
<1>. QED
  BY <1>1, PageInvariant, PTL

\* What a call streams goes into its own answer and nowhere else.
THEOREM StreamsIntoItsAnswer == Spec => []OwnAnswers
<1>1. PageInv => OwnAnswers
  BY DEF PageInv, AllOwned, Owned, OwnAnswers
<1>. QED
  BY <1>1, PageInvariant, PTL

\* A page can be cancelled exactly while a call of its own is under way.
THEOREM CancelIsForItsCall == Spec => []BusyWithItsCall
<1>1. PageInv => BusyWithItsCall
  <2>. SUFFICES ASSUME PageInv, NEW p \in Pages, p \notin tangled
                PROVE  /\ loading[p] <=> ctrl[p] # NoCall
                       /\ InFlight(p) \ aborted = {ctrl[p]} \ {NoCall}
    BY DEF BusyWithItsCall
  <2>1. AtOneThing(p) /\ PageInOrder(p)
    BY DEF PageInv, Typed, OneThing, PagesInOrder
  <2>2. NoCall \notin InFlight(p)
    BY AbsentAssumption DEF InFlight
  <2>3. InFlight(p) \ aborted = {ctrl[p]} \ {NoCall}
    BY <2>1, <2>2 DEF AtOneThing, PageInOrder
  <2>. QED
    BY <2>1, <2>3 DEF PageInOrder
<1>. QED
  BY <1>1, PageInvariant, PTL

\* A conversation that was cleared, or that the backend lost, is not continued.
THEOREM NothingForgottenGoesOn == Spec => []ClearedIsForgotten
<1>1. PageInv => ClearedIsForgotten
  <2>. SUFFICES ASSUME PageInv, ~ shared, tangled = {}
                PROVE  /\ stored.session \notin forgotten
                       /\ \A p \in Pages : mount[p] = "here" => session[p] \notin forgotten
    BY DEF ClearedIsForgotten
  <2>1. stored.session \notin forgotten /\ \A p \in Pages : Using(p) => InStepWith(p)
    BY InStepHolds DEF PageInv
  <2>2. ASSUME NEW p \in Pages, mount[p] = "here" PROVE session[p] \notin forgotten
    <3>1. AtOneThing(p) /\ NoSession \notin forgotten
      BY AbsentAssumption DEF PageInv, Typed, TypeOK, OneThing
    <3>. QED
      BY <2>1, <2>2, <3>1 DEF Using, InStepWith, AtOneThing
  <2>. QED
    BY <2>1, <2>2
<1>. QED
  BY <1>1, PageInvariant, PTL

\* Storage holds the messages of one conversation and the session it runs on.
THEOREM StorageIsOneConversation == Spec => []StoredTogether
<1>1. PageInv => StoredTogether
  BY InStepHolds DEF PageInv, Conversation, IsConversation, StoredTogether
<1>. QED
  BY <1>1, PageInvariant, PTL

\* What was shown of an answer that came to its end is stored.
THEOREM ShownIsStored == Spec => []AnswersAreStored
<1>1. PageInv => AnswersAreStored
  BY InStepHolds DEF PageInv, Conversation, IsConversation, AnsweredIn, Settled, AnswersAreStored
<1>. QED
  BY <1>1, PageInvariant, PTL
=============================================================================
