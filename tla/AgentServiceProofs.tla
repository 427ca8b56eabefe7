------------------------- MODULE AgentServiceProofs -------------------------
(***************************************************************************)
(* Theorems about AgentService, for any users, services, agents, sessions  *)
(* and calls, any memory configuration and any number of restarts.         *)
(***************************************************************************)
EXTENDS AgentService, TLAPS

\* Types are not inductive alone: a call that runs has been asked, and works on
\* a session that has an id.
Located ==
  \A c \in Calls :
    /\ IF pc[c] = "idle" THEN ~ fresh[c] ELSE req[c] \in Request
    /\ pc[c] \in Streaming \/ fresh[c] => sid[c] \in SessionIds

Typed == TypeOK /\ Located

\* The service starts with its types, and no call located.
LEMMA TypedInit == Init => Typed
BY DEF Init, Typed, TypeOK, Located, PCs, Streaming, Over

\* A principal is a user or the one string all services share (getUserEntityRef).
LEMMA PrincipalType == ASSUME NEW x \in Creds PROVE Principal(x) \in Principals
BY DEF Creds, Principal, Principals

\* Every action keeps the types of the variables, and calls located.
LEMMA TypedStep == Typed /\ [Next]_vars => Typed'
<1> SUFFICES ASSUME TypeOK, Located, [Next]_vars PROVE TypeOK' /\ Located'
  BY DEF Typed
<1> USE DEF TypeOK, Located
<1>1. ASSUME NEW c \in Calls, NEW r \in Request, NEW s \in SessionIds \cup {NoSession},
             Ask(c, r, s)
      PROVE TypeOK' /\ Located'
  <2>1. pc' = [pc EXCEPT ![c] = "identify"] /\ "identify" \in PCs /\ "identify" \notin Streaming
    BY <1>1 DEF Ask, Goto, PCs, Streaming
  <2>2. req' = [req EXCEPT ![c] = r] /\ sid' = [sid EXCEPT ![c] = s]
        /\ UNCHANGED <<rows, thread, announced, fresh, local, steps, disturbed, restarts>>
    BY <1>1 DEF Ask
  <2>3. TypeOK'
    BY <2>1, <2>2
  <2>4. ~ fresh[c]
    BY <1>1 DEF Ask, Goto
  <2>. QED
    BY <2>1, <2>2, <2>3, <2>4
<1>2. ASSUME NEW c \in Calls, Identify(c) PROVE TypeOK' /\ Located'
  BY <1>2 DEF Identify, Goto, PCs, Over, Streaming
<1>3. ASSUME NEW c \in Calls, MakeSession(c) PROVE TypeOK' /\ Located'
  <2>1. req[c] \in Request
    BY <1>3 DEF MakeSession, UnusedIds, Goto
  <2>2. [principal |-> Owner(c), agent |-> req[c].agent, ended |-> FALSE] \in Row
    BY <2>1, PrincipalType DEF Owner, Request, Row
  <2>. QED
    BY <1>3, <2>2 DEF MakeSession, UnusedIds, Goto, PCs, Streaming, Over
<1>4. ASSUME NEW c \in Calls, FindSession(c) PROVE TypeOK' /\ Located'
  BY <1>4 DEF FindSession, Lookup, Goto, PCs, Streaming, Over, Matches
<1>5. ASSUME NEW c \in Calls, EndSession(c) PROVE TypeOK' /\ Located'
  <2>1. rows' \in [SessionIds -> Row \cup {NoRow}]
    BY <1>5 DEF EndSession, Goto, Matches, Row
  <2>. QED
    BY <1>5, <2>1 DEF EndSession, Goto, PCs, Over, Streaming
<1>6. ASSUME NEW c \in Calls, ListActions(c) PROVE TypeOK' /\ Located'
  BY <1>6 DEF ListActions, Goto, PCs, Streaming
<1>7. ASSUME NEW c \in Calls, LoadThread(c) PROVE TypeOK' /\ Located'
  <2>0. [kind |-> "system", by |-> c] \in Message /\ [kind |-> "human", by |-> c] \in Message
    BY DEF Message
  <2>1. Input(c) \in Seq(Message)
    BY <2>0 DEF Input
  <2>2. thread[sid[c]] \in Seq(Message)
    BY <1>7 DEF LoadThread, InitialState, Goto, Streaming
  <2>3. thread[sid[c]] \o Input(c) \in Seq(Message)
    BY <2>1, <2>2
  <2>. QED
    BY <1>7, <2>3 DEF LoadThread, InitialState, Goto, PCs, Streaming
<1>8. ASSUME NEW c \in Calls, SaveInput(c) PROVE TypeOK' /\ Located'
  BY <1>8 DEF SaveInput, Goto, PCs, Streaming
<1>9. ASSUME NEW c \in Calls, NEW k \in {"toolcall", "tool", "ai"}, Superstep(c, k),
             NEW from \in {"model", "tool"}, NEW to \in {"model", "tool", "done"},
             Goto(c, from, to)
      PROVE TypeOK' /\ Located'
  <2>0. [kind |-> k, by |-> c] \in Message /\ local[c] \in Seq(Message)
    BY DEF Message
  <2>1. Append(local[c], [kind |-> k, by |-> c]) \in Seq(Message)
    BY <2>0
  <2>. QED
    BY <1>9, <2>1 DEF Superstep, Goto, PCs, Streaming, Over
<1>10. ASSUME NEW c \in Calls,
              StepLimit(c) \/ GenerateAnswers(c) \/ Reject(c) \/ Interrupt(c)
       PROVE TypeOK' /\ Located'
  BY <1>10 DEF StepLimit, GenerateAnswers, Reject, Interrupt, Goto, PCs, Over, Streaming
<1>11. CASE Restart
  BY <1>11 DEF Restart, PCs, Over, Streaming
<1>12. CASE UNCHANGED vars
  BY <1>12 DEF vars
<1>. QED
  BY <1>1, <1>2, <1>3, <1>4, <1>5, <1>6, <1>7, <1>8, <1>9, <1>10, <1>11, <1>12
  DEF Next, Proceed, ModelAnswers, ModelCallsTool, ToolAnswers

\* The variables of the service have their types in every reachable state.
THEOREM TypeCorrect == Spec => []TypeOK
<1>1. Typed => TypeOK
  BY DEF Typed
<1>. QED
  BY <1>1, TypedInit, TypedStep, PTL DEF Spec

-----------------------------------------------------------------------------
\* What a step leaves as it was: what a call that was made asks, and whose and
\* for which agent an inserted row is (SessionsStore has no DELETE, and its only
\* UPDATE sets ended).
CallsStay ==
  \A c \in Calls : pc[c] # "idle" => pc'[c] # "idle" /\ req'[c] = req[c]

RowsStay ==
  \A s \in SessionIds : rows[s] # NoRow =>
    rows'[s] = rows[s] \/ rows'[s] = [rows[s] EXCEPT !.ended = TRUE]

\* No action takes back what a call asked.
LEMMA CallsStayStep == Typed /\ [Next]_vars => CallsStay
<1> SUFFICES ASSUME Typed, [Next]_vars PROVE CallsStay
  OBVIOUS
<1> USE DEF Typed, TypeOK, CallsStay
<1>1. ASSUME NEW c \in Calls, Proceed(c) PROVE CallsStay
  BY <1>1 DEF UnusedIds, Lookup, InitialState, Proceed, Identify, MakeSession, FindSession, EndSession, ListActions,
       LoadThread, SaveInput, ModelAnswers, ModelCallsTool, ToolAnswers, Superstep,
       StepLimit, GenerateAnswers, Goto
<1>2. ASSUME NEW c \in Calls, Reject(c) \/ Interrupt(c) PROVE CallsStay
  BY <1>2 DEF Reject, Interrupt
<1>3. ASSUME NEW c \in Calls, NEW r \in Request, NEW s \in SessionIds \cup {NoSession},
             Ask(c, r, s)
      PROVE CallsStay
  BY <1>3 DEF Ask, Goto
<1>4. CASE Restart
  BY <1>4 DEF Restart, Over
<1>5. CASE UNCHANGED vars
  BY <1>5 DEF vars
<1>. QED
  BY <1>1, <1>2, <1>3, <1>4, <1>5 DEF Next

\* No action removes or re-assigns a row.
LEMMA RowsStayStep == Typed /\ [Next]_vars => RowsStay
<1> SUFFICES ASSUME Typed, [Next]_vars PROVE RowsStay
  OBVIOUS
<1> USE DEF RowsStay
<1>1. ASSUME NEW c \in Calls, MakeSession(c) PROVE RowsStay
  BY <1>1 DEF MakeSession, UnusedIds, Typed, TypeOK
<1>2. ASSUME NEW c \in Calls, EndSession(c) PROVE RowsStay
  BY <1>2 DEF EndSession, Typed, TypeOK
<1>3. ASSUME UNCHANGED rows PROVE RowsStay
  BY <1>3
<1>4. ASSUME NEW c \in Calls, Proceed(c) \/ Reject(c) \/ Interrupt(c)
      PROVE MakeSession(c) \/ EndSession(c) \/ UNCHANGED rows
  BY <1>4 DEF Proceed, Identify, FindSession, ListActions, LoadThread, SaveInput,
       ModelAnswers, ModelCallsTool, ToolAnswers, Superstep, StepLimit,
       GenerateAnswers, Reject, Interrupt
<1>5. ASSUME NEW c \in Calls, NEW r \in Request, NEW s \in SessionIds \cup {NoSession},
             Ask(c, r, s)
      PROVE UNCHANGED rows
  BY <1>5 DEF Ask
<1>6. Restart => UNCHANGED rows
  BY DEF Restart
<1>7. UNCHANGED vars => UNCHANGED rows
  BY DEF vars
<1>. QED
  BY <1>1, <1>2, <1>3, <1>4, <1>5, <1>6, <1>7 DEF Next

\* An inserted row is never removed, re-assigned or re-opened.
THEOREM RowsAreStable == Spec => RowsOnlyEnd
<1>1. Typed /\ [Next]_vars => [RowsStay]_vars
  BY RowsStayStep
<1>2. RowsStay <=>
        \A s \in SessionIds : rows[s] # NoRow =>
          \/ rows'[s] = rows[s]
          \/ rows'[s] = [rows[s] EXCEPT !.ended = TRUE]
  BY DEF RowsStay
<1>3. Typed /\ [Next]_vars =>
        [\A s \in SessionIds : rows[s] # NoRow =>
          \/ rows'[s] = rows[s]
          \/ rows'[s] = [rows[s] EXCEPT !.ended = TRUE]]_vars
  BY <1>1, <1>2
<1>. QED
  BY <1>3, TypedInit, TypedStep, PTL DEF Spec, RowsOnlyEnd

-----------------------------------------------------------------------------
\* Whichever session id a caller sends, the call streams on a session of its own.
LEMMA OwnStep == Typed /\ WorksOnOwnSession /\ [Next]_vars => WorksOnOwnSession'
<1> SUFFICES ASSUME Typed, WorksOnOwnSession, [Next]_vars,
                    NEW d \in Calls, pc'[d] \in Streaming
             PROVE  Matches(d)'
  BY DEF WorksOnOwnSession, Matches, Owner
<1> USE DEF Typed, TypeOK
<1>1. CallsStay /\ RowsStay
  BY CallsStayStep, RowsStayStep DEF Typed
<1>2. CASE pc[d] \in Streaming /\ sid'[d] = sid[d]
  <2>1. Matches(d) /\ pc[d] # "idle"
    BY <1>2 DEF WorksOnOwnSession, Matches, Streaming
  <2>2. rows'[sid[d]].principal = rows[sid[d]].principal
        /\ rows'[sid[d]].agent = rows[sid[d]].agent /\ rows'[sid[d]] # NoRow
    <3>1. rows[sid[d]] \in Row /\ [rows[sid[d]] EXCEPT !.ended = TRUE] \in Row
      BY <2>1 DEF Matches, Row
    <3>2. rows'[sid[d]] = rows[sid[d]] \/ rows'[sid[d]] = [rows[sid[d]] EXCEPT !.ended = TRUE]
      BY <1>1, <2>1 DEF RowsStay, Matches
    <3>. QED
      BY <3>1, <3>2, AbsentAssumption DEF Row
  <2>. QED
    BY <1>1, <1>2, <2>1, <2>2 DEF Matches, CallsStay, Owner
<1>3. CASE MakeSession(d)
  <2>1. req'[d] = req[d] /\ req[d] \in Request /\ pc[d] = "session"
    BY <1>3 DEF MakeSession, UnusedIds, Goto, Located
  <2>2. PICK s \in SessionIds :
          /\ rows' = [rows EXCEPT ![s] = [principal |-> Owner(d), agent |-> req[d].agent,
                                          ended |-> FALSE]]
          /\ sid' = [sid EXCEPT ![d] = s]
    BY <1>3 DEF MakeSession, UnusedIds
  <2>3. [principal |-> Owner(d), agent |-> req[d].agent, ended |-> FALSE] \in Row
    BY <2>1, PrincipalType DEF Owner, Request, Row
  <2>. QED
    BY <2>1, <2>2, <2>3, AbsentAssumption DEF Matches, Owner
<1>4. CASE FindSession(d)
  BY <1>4 DEF FindSession, Lookup, Goto, Matches, Owner, Streaming
<1>5. \/ pc[d] \in Streaming /\ sid'[d] = sid[d]
      \/ MakeSession(d)
      \/ FindSession(d)
  <2>1. ASSUME NEW c \in Calls, NEW r \in Request, NEW s \in SessionIds \cup {NoSession},
               Ask(c, r, s)
        PROVE  pc[d] \in Streaming /\ sid'[d] = sid[d]
    BY <2>1 DEF Ask, Goto, Streaming
  <2>2. ASSUME NEW c \in Calls, MakeSession(c), c # d
        PROVE  pc[d] \in Streaming /\ sid'[d] = sid[d]
    BY <2>2 DEF MakeSession, UnusedIds, Goto
  <2>3. ASSUME NEW c \in Calls, FindSession(c), c # d
        PROVE  pc[d] \in Streaming /\ sid'[d] = sid[d]
    BY <2>3 DEF FindSession, Lookup, Goto
  <2>4. ASSUME NEW c \in Calls, Identify(c) \/ EndSession(c) \/ GenerateAnswers(c)
        PROVE  pc[d] \in Streaming /\ sid'[d] = sid[d]
    BY <2>4 DEF Identify, EndSession, GenerateAnswers, Goto, Streaming
  <2>5. ASSUME NEW c \in Calls, ListActions(c) \/ LoadThread(c) \/ SaveInput(c)
        PROVE  pc[d] \in Streaming /\ sid'[d] = sid[d]
    BY <2>5 DEF ListActions, LoadThread, SaveInput, Goto, Streaming
  <2>6. ASSUME NEW c \in Calls, ModelAnswers(c) \/ ModelCallsTool(c) \/ ToolAnswers(c)
        PROVE  pc[d] \in Streaming /\ sid'[d] = sid[d]
    BY <2>6 DEF ModelAnswers, ModelCallsTool, ToolAnswers, Superstep, Goto, Streaming
  <2>7. ASSUME NEW c \in Calls, StepLimit(c) \/ Reject(c) \/ Interrupt(c)
        PROVE  pc[d] \in Streaming /\ sid'[d] = sid[d]
    BY <2>7 DEF StepLimit, Reject, Interrupt, Streaming
  <2>8. CASE Restart
    BY <2>8 DEF Restart, Streaming, Over
  <2>9. CASE UNCHANGED vars
    BY <2>9 DEF vars
  <2>. QED
    BY <2>1, <2>2, <2>3, <2>4, <2>5, <2>6, <2>7, <2>8, <2>9 DEF Next, Proceed
<1>. QED
  BY <1>2, <1>3, <1>4, <1>5

\* No call streams at the start.
LEMMA OwnInit == Init => WorksOnOwnSession
BY DEF Init, WorksOnOwnSession, Streaming

\* Every call that streams does so on a session of its principal and agent.
THEOREM SessionsAreOwned == Spec => []WorksOnOwnSession
BY TypedInit, TypedStep, OwnInit, OwnStep, PTL DEF Spec

-----------------------------------------------------------------------------
\* The strengthening behind ConversationsArePrivate: every message, in a
\* checkpoint or in the memory of a running graph, was added by a call that was
\* made and whose principal owns the session's row.
AddedFor(m, p) == pc[m.by] # "idle" /\ Owner(m.by) = p

ThreadsOwned ==
  \A s \in SessionIds : \A i \in 1..Len(thread[s]) :
    rows[s] # NoRow /\ AddedFor(thread[s][i], rows[s].principal)

LocalsOwned ==
  \A c \in Calls : pc[c] \in {"save", "model", "tool"} =>
    \A i \in 1..Len(local[c]) : AddedFor(local[c][i], Owner(c))

PrivateInv == Typed /\ WorksOnOwnSession /\ ThreadsOwned /\ LocalsOwned

\* There is nothing to be private at the start.
LEMMA PrivateInit == Init => PrivateInv
BY TypedInit, OwnInit DEF Init, PrivateInv, ThreadsOwned, LocalsOwned

\* A message keeps its author, and its author's principal.
LEMMA AddedForStep ==
  ASSUME Typed, [Next]_vars, NEW m \in Message, NEW p, AddedFor(m, p)
  PROVE  pc'[m.by] # "idle" /\ Principal(req'[m.by].cred) = p
<1>1. CallsStay
  BY CallsStayStep
<1>2. m.by \in Calls
  BY DEF Message
<1>. QED
  BY <1>1, <1>2 DEF AddedFor, CallsStay, Owner

\* A row keeps its principal.
LEMMA PrincipalStays ==
  ASSUME Typed, [Next]_vars, NEW s \in SessionIds, rows[s] # NoRow
  PROVE  rows'[s] # NoRow /\ rows'[s].principal = rows[s].principal
<1>1. rows[s] \in Row /\ [rows[s] EXCEPT !.ended = TRUE] \in Row
  BY DEF Typed, TypeOK, Row
<1>2. rows'[s] = rows[s] \/ rows'[s] = [rows[s] EXCEPT !.ended = TRUE]
  BY RowsStayStep DEF RowsStay
<1>. QED
  BY <1>1, <1>2, AbsentAssumption DEF Row

\* What a graph holds in memory: what it held before, the thread of the session
\* it loaded followed by its own input, or what it held and a message of its own.
LEMMA LocalSources ==
  ASSUME Typed, [Next]_vars, NEW d \in Calls, pc'[d] \in {"save", "model", "tool"}
  PROVE  \/ pc[d] \in {"save", "model", "tool"} /\ local'[d] = local[d]
         \/ pc[d] = "load" /\ local'[d] = thread[sid[d]] \o Input(d)
         \/ /\ pc[d] \in {"model", "tool"}
            /\ \E m \in Message : m.by = d /\ local'[d] = Append(local[d], m)
<1> USE DEF Typed, TypeOK
<1>1. ASSUME NEW c \in Calls, NEW r \in Request, NEW s \in SessionIds \cup {NoSession},
             Ask(c, r, s)
      PROVE  pc[d] \in {"save", "model", "tool"} /\ local'[d] = local[d]
  BY <1>1 DEF Ask, Goto
<1>2. ASSUME NEW c \in Calls,
             Identify(c) \/ MakeSession(c) \/ FindSession(c) \/ EndSession(c)
      PROVE  pc[d] \in {"save", "model", "tool"} /\ local'[d] = local[d]
  BY <1>2 DEF Identify, MakeSession, FindSession, Lookup, UnusedIds, EndSession, Goto
<1>3. ASSUME NEW c \in Calls,
             ListActions(c) \/ SaveInput(c) \/ GenerateAnswers(c)
      PROVE  pc[d] \in {"save", "model", "tool"} /\ local'[d] = local[d]
  BY <1>3 DEF ListActions, SaveInput, GenerateAnswers, Goto
<1>4. ASSUME NEW c \in Calls, StepLimit(c) \/ Reject(c) \/ Interrupt(c)
      PROVE  pc[d] \in {"save", "model", "tool"} /\ local'[d] = local[d]
  BY <1>4 DEF StepLimit, Reject, Interrupt
<1>5. CASE Restart
  BY <1>5 DEF Restart, Over
<1>6. CASE UNCHANGED vars
  BY <1>6 DEF vars
<1>7. ASSUME NEW c \in Calls, LoadThread(c)
      PROVE  \/ pc[d] \in {"save", "model", "tool"} /\ local'[d] = local[d]
             \/ pc[d] = "load" /\ local'[d] = thread[sid[d]] \o Input(d)
  BY <1>7 DEF LoadThread, InitialState, Goto
<1>8. ASSUME NEW c \in Calls, NEW k \in {"toolcall", "tool", "ai"}, Superstep(c, k),
             NEW from \in {"model", "tool"}, NEW to \in {"model", "tool", "done"},
             Goto(c, from, to)
      PROVE  \/ pc[d] \in {"save", "model", "tool"} /\ local'[d] = local[d]
             \/ /\ pc[d] \in {"model", "tool"}
                /\ \E m \in Message : m.by = d /\ local'[d] = Append(local[d], m)
  <2>1. CASE c = d
    <3>1. [kind |-> k, by |-> d] \in Message /\ [kind |-> k, by |-> d].by = d
      BY DEF Message
    <3>. QED
      BY <1>8, <2>1, <3>1 DEF Superstep, Goto
  <2>2. CASE c # d
    BY <1>8, <2>2 DEF Superstep, Goto
  <2>. QED
    BY <2>1, <2>2
<1>. QED
  BY <1>1, <1>2, <1>3, <1>4, <1>5, <1>6, <1>7, <1>8
  DEF Next, Proceed, ModelAnswers, ModelCallsTool, ToolAnswers

\* What a checkpoint holds: what it held, nothing, or the state of a graph that
\* streams on the session.
LEMMA ThreadSources ==
  ASSUME Typed, [Next]_vars, NEW s \in SessionIds
  PROVE  \/ thread'[s] = thread[s] \/ thread'[s] = <<>>
         \/ \E d \in Calls :
              /\ sid[d] = s /\ pc[d] \in {"save", "model", "tool"}
              /\ \/ thread'[s] = local[d]
                 \/ \E m \in Message : m.by = d /\ thread'[s] = Append(local[d], m)
<1> USE DEF Typed, TypeOK
<1>1. ASSUME NEW c \in Calls, SaveInput(c)
      PROVE  \/ thread'[s] = thread[s]
             \/ sid[c] = s /\ pc[c] = "save" /\ thread'[s] = local[c]
  BY <1>1 DEF SaveInput, Goto
<1>2. ASSUME NEW c \in Calls, NEW k \in {"toolcall", "tool", "ai"}, Superstep(c, k),
             NEW from \in {"model", "tool"}, NEW to \in {"model", "tool", "done"},
             Goto(c, from, to)
      PROVE  \/ thread'[s] = thread[s]
             \/ /\ sid[c] = s /\ pc[c] \in {"save", "model", "tool"}
                /\ \E m \in Message : m.by = c /\ thread'[s] = Append(local[c], m)
  <2>1. [kind |-> k, by |-> c] \in Message /\ [kind |-> k, by |-> c].by = c
    BY DEF Message
  <2>. QED
    BY <1>2, <2>1 DEF Superstep, Goto
<1>3. CASE Restart
  BY <1>3 DEF Restart
<1>4. ASSUME NEW c \in Calls,
             \/ Identify(c) \/ MakeSession(c) \/ FindSession(c) \/ EndSession(c)
             \/ ListActions(c) \/ LoadThread(c) \/ GenerateAnswers(c)
             \/ StepLimit(c) \/ Reject(c) \/ Interrupt(c)
      PROVE  UNCHANGED thread
  BY <1>4 DEF Identify, MakeSession, FindSession, EndSession, ListActions, LoadThread,
       GenerateAnswers, StepLimit, Reject, Interrupt
<1>5. ASSUME NEW c \in Calls, NEW r \in Request, NEW t \in SessionIds \cup {NoSession},
             Ask(c, r, t)
      PROVE  UNCHANGED thread
  BY <1>5 DEF Ask
<1>6. UNCHANGED vars => UNCHANGED thread
  BY DEF vars
<1>7. ASSUME NEW c \in Calls, ModelAnswers(c) \/ ModelCallsTool(c) \/ ToolAnswers(c)
      PROVE  \/ thread'[s] = thread[s]
             \/ /\ sid[c] = s /\ pc[c] \in {"save", "model", "tool"}
                /\ \E m \in Message : m.by = c /\ thread'[s] = Append(local[c], m)
  BY <1>2, <1>7 DEF ModelAnswers, ModelCallsTool, ToolAnswers
<1>8. CASE \E c \in Calls : Proceed(c) \/ Reject(c) \/ Interrupt(c)
  BY <1>1, <1>4, <1>7, <1>8 DEF Proceed
<1>. QED
  BY <1>3, <1>5, <1>6, <1>8 DEF Next

\* A graph's state stays its principal's: what it loads is its own session's.
LEMMA LocalsOwnedStep == PrivateInv /\ [Next]_vars => LocalsOwned'
<1> SUFFICES ASSUME PrivateInv, [Next]_vars,
                    NEW d \in Calls, pc'[d] \in {"save", "model", "tool"},
                    NEW i \in 1..Len(local'[d])
             PROVE  LET m == local'[d][i] IN
                    pc'[m.by] # "idle" /\ Principal(req'[m.by].cred) = Owner(d)'
  BY DEF LocalsOwned, AddedFor, Owner
<1> USE DEF PrivateInv
<1>0. Typed /\ TypeOK /\ local[d] \in Seq(Message)
  BY DEF Typed, TypeOK
<1>1. pc[d] # "idle" /\ Owner(d)' = Owner(d)
  BY CallsStayStep, LocalSources DEF CallsStay, Owner
<1>2. SUFFICES \E m \in Message : local'[d][i] = m /\ AddedFor(m, Owner(d))
  BY <1>0, <1>1, AddedForStep
<1>3. CASE pc[d] \in {"save", "model", "tool"} /\ local'[d] = local[d]
  BY <1>0, <1>3 DEF LocalsOwned
<1>4. CASE pc[d] = "load" /\ local'[d] = thread[sid[d]] \o Input(d)
  <2>1. Matches(d)
    BY <1>4 DEF WorksOnOwnSession, Matches, Streaming
  <2>2. thread[sid[d]] \in Seq(Message) /\ sid[d] \in SessionIds
    BY <1>0, <2>1 DEF TypeOK, Matches
  <2>3. /\ [kind |-> "system", by |-> d] \in Message
        /\ [kind |-> "human", by |-> d] \in Message
    BY DEF Message
  <2>4. Input(d) \in Seq(Message) /\ Len(Input(d)) \in {1, 2}
        /\ \A j \in 1..Len(Input(d)) : Input(d)[j].by = d
    BY <2>3 DEF Input
  <2>5. CASE i \in 1..Len(thread[sid[d]])
    <3>1. local'[d][i] = thread[sid[d]][i]
      BY <1>4, <2>2, <2>4, <2>5
    <3>. QED
      BY <2>1, <2>2, <2>5, <3>1 DEF ThreadsOwned, Matches
  <2>6. CASE i \notin 1..Len(thread[sid[d]])
    <3> DEFINE j == i - Len(thread[sid[d]])
    <3>1. j \in 1..Len(Input(d)) /\ local'[d][i] = Input(d)[j]
      BY <1>4, <2>2, <2>4, <2>6
    <3>2. Input(d)[j] \in Message /\ Input(d)[j].by = d
      BY <2>4, <3>1
    <3>. QED
      BY <1>1, <3>1, <3>2 DEF AddedFor
  <2>. QED
    BY <2>5, <2>6
<1>5. CASE /\ pc[d] \in {"model", "tool"}
           /\ \E m \in Message : m.by = d /\ local'[d] = Append(local[d], m)
  <2>1. PICK m \in Message : m.by = d /\ local'[d] = Append(local[d], m)
    BY <1>5
  <2>2. CASE i \in 1..Len(local[d])
    BY <1>0, <1>5, <2>1, <2>2 DEF LocalsOwned
  <2>3. CASE i = Len(local[d]) + 1
    BY <1>0, <1>1, <2>1, <2>3 DEF AddedFor
  <2>. QED
    BY <1>0, <2>1, <2>2, <2>3
<1>. QED
  BY <1>3, <1>4, <1>5, LocalSources

\* A thread stays its principal's: only graphs on its session write it.
LEMMA ThreadsOwnedStep == PrivateInv /\ [Next]_vars => ThreadsOwned'
<1> SUFFICES ASSUME PrivateInv, [Next]_vars,
                    NEW s \in SessionIds, NEW i \in 1..Len(thread'[s])
             PROVE  LET m == thread'[s][i] IN
                    /\ rows'[s] # NoRow
                    /\ pc'[m.by] # "idle"
                    /\ Principal(req'[m.by].cred) = rows'[s].principal
  BY DEF ThreadsOwned, AddedFor, Owner
<1> USE DEF PrivateInv
<1>0. Typed /\ TypeOK /\ thread[s] \in Seq(Message)
  BY DEF Typed, TypeOK
<1>1. SUFFICES /\ rows[s] # NoRow
               /\ \E m \in Message : thread'[s][i] = m /\ AddedFor(m, rows[s].principal)
  BY <1>0, AddedForStep, PrincipalStays
<1>2. CASE thread'[s] = thread[s]
  BY <1>0, <1>2 DEF ThreadsOwned
<1>3. CASE thread'[s] = <<>>
  BY <1>3
<1>4. ASSUME NEW d \in Calls, sid[d] = s, pc[d] \in {"save", "model", "tool"},
             \/ thread'[s] = local[d]
             \/ \E m \in Message : m.by = d /\ thread'[s] = Append(local[d], m)
      PROVE  /\ rows[s] # NoRow
             /\ \E m \in Message : thread'[s][i] = m /\ AddedFor(m, rows[s].principal)
  <2>1. rows[s] # NoRow /\ rows[s].principal = Owner(d) /\ pc[d] # "idle"
    BY <1>4 DEF WorksOnOwnSession, Matches, Streaming
  <2>2. local[d] \in Seq(Message)
    BY <1>0 DEF TypeOK
  <2>3. CASE i \in 1..Len(local[d]) /\ thread'[s][i] = local[d][i]
    BY <1>4, <2>1, <2>2, <2>3 DEF LocalsOwned
  <2>4. CASE thread'[s] = local[d]
    BY <2>3, <2>4
  <2>5. ASSUME NEW m \in Message, m.by = d, thread'[s] = Append(local[d], m)
        PROVE  /\ rows[s] # NoRow
               /\ \E n \in Message : thread'[s][i] = n /\ AddedFor(n, rows[s].principal)
    <3>1. CASE i = Len(local[d]) + 1
      BY <2>1, <2>2, <2>5, <3>1 DEF AddedFor
    <3>2. CASE i \in 1..Len(local[d])
      BY <2>2, <2>3, <2>5, <3>2
    <3>. QED
      BY <2>2, <2>5, <3>1, <3>2
  <2>. QED
    BY <1>4, <2>4, <2>5
<1>. QED
  BY <1>0, <1>2, <1>3, <1>4, ThreadSources

\* Two users, or a user and a service, never share a principal, so they never
\* share a conversation.
LEMMA PrivateEnough == PrivateInv => ConversationsArePrivate
<1> SUFFICES ASSUME PrivateInv, NEW s \in SessionIds,
                    NEW i \in 1..Len(thread[s]), NEW j \in 1..Len(thread[s])
             PROVE  LET a == req[thread[s][i].by].cred
                        b == req[thread[s][j].by].cred
                    IN a = b \/ {a, b} \subseteq Services
  BY DEF ConversationsArePrivate
<1> DEFINE a == req[thread[s][i].by].cred
           b == req[thread[s][j].by].cred
<1>1. thread[s][i] \in Message /\ thread[s][j] \in Message
  BY DEF PrivateInv, Typed, TypeOK
<1>2. Principal(a) = Principal(b)
  BY DEF PrivateInv, ThreadsOwned, AddedFor, Owner
<1>3. a \in Creds /\ b \in Creds
  BY <1>1 DEF PrivateInv, ThreadsOwned, AddedFor, Typed, Located, Message, Request
<1>. QED
  BY <1>2, <1>3, PrincipalAssumption DEF Principal, Creds

\* No conversation mixes the messages of a user with those of anybody else.
THEOREM Privacy == Spec => []ConversationsArePrivate
<1>1. PrivateInv /\ [Next]_vars => PrivateInv'
  BY TypedStep, OwnStep, ThreadsOwnedStep, LocalsOwnedStep DEF PrivateInv
<1>. QED
  BY <1>1, PrivateInit, PrivateEnough, PTL DEF Spec

-----------------------------------------------------------------------------
(* The strengthening behind PromptOnEveryTurn and HistoryIsKept.  Of a session  *)
(* nothing cut across, at most one graph runs, its state is the checkpoint, and *)
(* both begin with the system prompt from the moment the opening turn is saved. *)

Running(c) == pc[c] \in {"save", "model", "tool"}

OneGraph ==
  \A c, d \in Calls : Running(c) /\ Running(d) /\ sid[c] = sid[d] => c = d \/ sid[c] \in disturbed

\* The call that opened a session, until its input is checkpointed.
Opens(c, s) == fresh[c] /\ sid[c] = s /\ pc[c] \in {"actions", "load", "save"}

Prompted(ms) == Len(ms) > 0 /\ ms[1].kind = "system"

ThreadsPrompted ==
  \A s \in SessionIds \ disturbed :
    /\ thread[s] = <<>> \/ Prompted(thread[s])
    /\ rows[s] # NoRow /\ thread[s] = <<>> => \E c \in Calls : Opens(c, s)

\* The message at place i is of that kind and was added by call c.
Said(ms, i, k, c) == ms[i] = [kind |-> k, by |-> c]

LocalsInStep ==
  \A c \in Calls : Running(c) /\ sid[c] \notin disturbed =>
    /\ Prompted(local[c])
    /\ \E i \in 1..Len(local[c]) : Said(local[c], i, "human", c)
    /\ local[c] = IF pc[c] = "save" THEN thread[sid[c]] \o Input(c) ELSE thread[sid[c]]

\* Only generate runs a graph without a session's thread.
GenerateAlone == \A c \in Calls : pc[c] = "generate" => req[c].op = "generate"

\* A turn is answered in a session.
AnsweredThere ==
  \A c \in Calls : pc[c] = "done" /\ req[c].op = "stream" => sid[c] \in SessionIds

HistoryInv ==
  /\ PrivateInv /\ OneGraph /\ ThreadsPrompted /\ LocalsInStep /\ GenerateAlone
  /\ AnsweredThere /\ HistoryIsKept

\* No conversation has begun at the start.
LEMMA HistoryInit == Init => HistoryInv
<1> SUFFICES ASSUME Init PROVE HistoryInv
  OBVIOUS
<1>1. \A c \in Calls : pc[c] = "idle"
  BY DEF Init
<1>2. \A s \in SessionIds : thread[s] = <<>> /\ rows[s] = NoRow
  BY DEF Init
<1>. QED
  BY <1>1, <1>2, PrivateInit
  DEF HistoryInv, OneGraph, ThreadsPrompted, LocalsInStep, GenerateAlone, AnsweredThere,
      HistoryIsKept, Running

-----------------------------------------------------------------------------
\* What one step may do to the conversations.  A quiet step touches none of
\* them and starts no graph; the others load, save or extend one, or restart the
\* backend.
RunsAsBefore(d) ==
  Running(d)' => Running(d) /\ pc'[d] = pc[d] /\ sid'[d] = sid[d] /\ fresh'[d] = fresh[d]

Quiet == UNCHANGED <<thread, local>> /\ \A d \in Calls : RunsAsBefore(d)

Extends(c, k) ==
  /\ pc[c] \in {"model", "tool"}
  /\ pc' = [pc EXCEPT ![c] = IF k = "ai" THEN "done" ELSE IF k = "tool" THEN "model" ELSE "tool"]
  /\ Superstep(c, k)

\* Every step is one of these.
LEMMA StepKinds ==
  ASSUME Typed, [Next]_vars
  PROVE  \/ Quiet
         \/ \E c \in Calls : LoadThread(c) \/ SaveInput(c)
         \/ \E c \in Calls, k \in {"toolcall", "tool", "ai"} : Extends(c, k)
         \/ Restart
<1> USE DEF Typed, TypeOK, Quiet, RunsAsBefore, Running
<1>1. ASSUME NEW c \in Calls, NEW r \in Request, NEW s \in SessionIds \cup {NoSession},
             Ask(c, r, s)
      PROVE  Quiet
  BY <1>1 DEF Ask, Goto
<1>2. ASSUME NEW c \in Calls, Identify(c) \/ FindSession(c) \/ EndSession(c)
      PROVE  Quiet
  BY <1>2 DEF Identify, FindSession, Lookup, EndSession, Goto
<1>3. ASSUME NEW c \in Calls, MakeSession(c) PROVE Quiet
  BY <1>3 DEF MakeSession, UnusedIds, Goto
<1>4. ASSUME NEW c \in Calls, ListActions(c) \/ GenerateAnswers(c) PROVE Quiet
  BY <1>4 DEF ListActions, GenerateAnswers, Goto
<1>5. ASSUME NEW c \in Calls, StepLimit(c) \/ Reject(c) \/ Interrupt(c) PROVE Quiet
  BY <1>5 DEF StepLimit, Reject, Interrupt
<1>6. UNCHANGED vars => Quiet
  BY DEF vars
<1>7. ASSUME NEW c \in Calls, ModelAnswers(c) \/ ModelCallsTool(c) \/ ToolAnswers(c)
      PROVE  \E k \in {"toolcall", "tool", "ai"} : Extends(c, k)
  BY <1>7 DEF ModelAnswers, ModelCallsTool, ToolAnswers, Goto, Extends
<1>. QED
  BY <1>1, <1>2, <1>3, <1>4, <1>5, <1>6, <1>7 DEF Next, Proceed

\* A session something cut across stays marked.
LEMMA DisturbedGrows == Typed /\ [Next]_vars => disturbed \subseteq disturbed'
<1> SUFFICES ASSUME Typed, [Next]_vars PROVE disturbed \subseteq disturbed'
  OBVIOUS
<1>1. ASSUME NEW c \in Calls, Proceed(c) PROVE disturbed \subseteq disturbed'
  BY <1>1 DEF Proceed, Identify, MakeSession, FindSession, EndSession, ListActions,
       LoadThread, SaveInput, ModelAnswers, ModelCallsTool, ToolAnswers, Superstep,
       StepLimit, GenerateAnswers
<1>2. ASSUME NEW c \in Calls, Reject(c) \/ Interrupt(c) PROVE disturbed \subseteq disturbed'
  BY <1>2 DEF Reject, Interrupt
<1>3. ASSUME NEW c \in Calls, NEW r \in Request, NEW s \in SessionIds \cup {NoSession},
             Ask(c, r, s)
      PROVE  disturbed \subseteq disturbed'
  BY <1>3 DEF Ask
<1>4. CASE Restart
  BY <1>4 DEF Restart
<1>5. CASE UNCHANGED vars
  BY <1>5 DEF vars
<1>. QED
  BY <1>1, <1>2, <1>3, <1>4, <1>5 DEF Next

\* A second graph starts on a thread only where LoadThread marks the session.
LEMMA OneGraphStep == Typed /\ OneGraph /\ [Next]_vars => OneGraph'
<1> SUFFICES ASSUME Typed, OneGraph, [Next]_vars,
                    NEW c \in Calls, NEW d \in Calls, Running(c)', Running(d)',
                    sid'[c] = sid'[d], c # d
             PROVE  sid'[c] \in disturbed'
  BY DEF OneGraph
<1>0. disturbed \subseteq disturbed'
  BY DisturbedGrows
<1> USE DEF Typed, TypeOK, OneGraph
<1>1. CASE Quiet
  BY <1>0, <1>1 DEF Quiet, RunsAsBefore
<1>2. ASSUME NEW e \in Calls, LoadThread(e) PROVE sid'[c] \in disturbed'
  <2>1. CASE c # e /\ d # e
    BY <1>0, <1>2, <2>1 DEF LoadThread, Goto, Running
  <2>2. CASE c = e \/ d = e
    <3>1. Contended(e)
      BY <1>2, <2>2 DEF LoadThread, Goto, Running, Contended, Streaming
    <3>. QED
      BY <1>2, <2>2, <3>1 DEF LoadThread
  <2>. QED
    BY <2>1, <2>2
<1>3. ASSUME NEW e \in Calls, SaveInput(e) PROVE sid'[c] \in disturbed'
  BY <1>0, <1>3 DEF SaveInput, Goto, Running
<1>4. ASSUME NEW e \in Calls, NEW k \in {"toolcall", "tool", "ai"}, Extends(e, k)
      PROVE  sid'[c] \in disturbed'
  BY <1>0, <1>4 DEF Extends, Superstep, Running
<1>5. CASE Restart
  BY <1>5 DEF Restart, Running, Over
<1>. QED
  BY <1>1, <1>2, <1>3, <1>4, <1>5, StepKinds

\* A call that works on a session nothing cut across finds the session's row.
LEMMA RunningHasRow ==
  ASSUME Typed, WorksOnOwnSession, NEW c \in Calls, pc[c] \in Streaming
  PROVE  sid[c] \in SessionIds /\ rows[sid[c]] # NoRow
BY DEF WorksOnOwnSession

\* What a sequence of messages keeps when one more is appended to it.
LEMMA AppendKeeps ==
  ASSUME NEW ms \in Seq(Message), NEW m \in Message, NEW c
  PROVE  LET more == Append(ms, m) IN
         /\ more \in Seq(Message) /\ Len(more) = Len(ms) + 1
         /\ more[Len(ms) + 1] = m
         /\ \A i \in 1..Len(ms) : i \in 1..Len(more) /\ more[i] = ms[i]
         /\ Prompted(ms) => Prompted(more)
<1> HIDE DEF Message
<1>. QED
  BY DEF Prompted

\* The input of a call ends with what the user said, and begins with the system
\* prompt in the turn that opens the session.
LEMMA InputShape ==
  ASSUME NEW c \in Calls
  PROVE  /\ Input(c) \in Seq(Message) /\ Len(Input(c)) > 0
         /\ Said(Input(c), Len(Input(c)), "human", c)
         /\ fresh[c] => Prompted(Input(c))
<1>1. [kind |-> "system", by |-> c] \in Message /\ [kind |-> "human", by |-> c] \in Message
  BY DEF Message
<1>. QED
  BY <1>1 DEF Input, Said, Prompted

\* A thread followed by an input begins as the thread does, and ends as the input.
LEMMA JoinKeeps ==
  ASSUME NEW ms \in Seq(Message), NEW ns \in Seq(Message), Len(ns) > 0
  PROVE  LET more == ms \o ns IN
         /\ more \in Seq(Message) /\ Len(more) = Len(ms) + Len(ns)
         /\ \A i \in 1..Len(ms) : i \in 1..Len(more) /\ more[i] = ms[i]
         /\ more[Len(more)] = ns[Len(ns)]
         /\ ms = <<>> => more = ns
<1> HIDE DEF Message
<1>. QED
  OBVIOUS

\* A graph's state stays its thread's, from the load on: nobody else writes it.
LEMMA LocalsInStepStep ==
  ASSUME Typed, WorksOnOwnSession, OneGraph, ThreadsPrompted, LocalsInStep, [Next]_vars
  PROVE  LocalsInStep'
<1> DEFINE Good(d, ms, th, at, in) ==
      /\ Prompted(ms)
      /\ \E i \in 1..Len(ms) : Said(ms, i, "human", d)
      /\ ms = IF at = "save" THEN th \o in ELSE th
<1> SUFFICES ASSUME NEW d \in Calls, Running(d)', sid'[d] \notin disturbed'
             PROVE  Good(d, local'[d], thread'[sid'[d]], pc'[d], Input(d)')
  BY DEF LocalsInStep
<1>0. disturbed \subseteq disturbed'
  BY DisturbedGrows
<1>i. ASSUME Running(d), sid[d] \notin disturbed
      PROVE  Good(d, local[d], thread[sid[d]], pc[d], Input(d))
  BY <1>i DEF LocalsInStep
<1>t. local[d] \in Seq(Message) /\ pc[d] \in PCs
  BY DEF Typed, TypeOK
<1>1. ASSUME Running(d), sid'[d] = sid[d], pc'[d] = pc[d], fresh'[d] = fresh[d],
             thread'[sid[d]] = thread[sid[d]], local'[d] = local[d]
      PROVE  Good(d, local'[d], thread'[sid'[d]], pc'[d], Input(d)')
  <2>1. Input(d)' = Input(d)
    BY <1>1 DEF Input
  <2>2. Good(d, local[d], thread[sid[d]], pc[d], Input(d))
    BY <1>0, <1>1, <1>i
  <2> HIDE DEF Good
  <2>. QED
    BY <1>1, <2>1, <2>2
<1>2. CASE Quiet
  BY <1>1, <1>2 DEF Quiet, RunsAsBefore
<1>3. ASSUME NEW c \in Calls, LoadThread(c)
      PROVE  Good(d, local'[d], thread'[sid'[d]], pc'[d], Input(d)')
  <2>1. CASE d # c
    BY <1>1, <1>3, <2>1 DEF LoadThread, Goto, Running, Typed, TypeOK
  <2>2. CASE d = c
    <3>1. /\ pc'[d] = "save" /\ local'[d] = thread[sid[d]] \o Input(d)
          /\ UNCHANGED <<thread, sid, fresh>> /\ ~ Contended(d) /\ pc[d] = "load"
      BY <1>3, <2>2 DEF LoadThread, InitialState, Goto, Typed, TypeOK
    <3>2. Input(d)' = Input(d)
      BY <3>1 DEF Input
    <3>3. /\ sid[d] \in SessionIds \ disturbed /\ rows[sid[d]] # NoRow
          /\ thread[sid[d]] \in Seq(Message)
      BY <1>0, <3>1, RunningHasRow DEF Streaming, Typed, TypeOK
    <3>4. thread[sid[d]] = <<>> => fresh[d]
      <4>1. SUFFICES ASSUME thread[sid[d]] = <<>> PROVE fresh[d]
        OBVIOUS
      <4>2. PICK e \in Calls : Opens(e, sid[d])
        BY <3>3, <4>1 DEF ThreadsPrompted
      <4>3. e = d
        BY <3>1, <4>2 DEF Opens, Contended, Streaming
      <4>. QED
        BY <4>2, <4>3 DEF Opens
    <3> DEFINE more == thread[sid[d]] \o Input(d)
    <3>5. /\ Len(more) \in 1..Len(more) /\ Said(more, Len(more), "human", d)
          /\ \A i \in 1..Len(thread[sid[d]]) : more[i] = thread[sid[d]][i]
          /\ thread[sid[d]] = <<>> => more = Input(d)
          /\ Len(more) > 0
      <4>1. /\ more \in Seq(Message) /\ Len(more) = Len(thread[sid[d]]) + Len(Input(d))
            /\ \A i \in 1..Len(thread[sid[d]]) : more[i] = thread[sid[d]][i]
            /\ more[Len(more)] = Input(d)[Len(Input(d))]
            /\ thread[sid[d]] = <<>> => more = Input(d)
        BY <3>3, InputShape, JoinKeeps
      <4> HIDE DEF more
      <4>2. Len(more) > 0
        BY <3>3, <4>1, InputShape
      <4>. QED
        BY <4>1, <4>2, InputShape DEF Said
    <3> HIDE DEF more
    <3>6. Prompted(more)
      <4>1. CASE thread[sid[d]] = <<>>
        BY <3>4, <3>5, <4>1, InputShape
      <4>2. CASE Prompted(thread[sid[d]])
        BY <3>3, <3>5, <4>2 DEF Prompted
      <4>. QED
        BY <3>3, <4>1, <4>2 DEF ThreadsPrompted
    <3>. QED
      BY <3>1, <3>2, <3>5, <3>6 DEF more
  <2>. QED
    BY <2>1, <2>2
<1>4. ASSUME NEW c \in Calls, Running(c), c # d,
             pc'[d] = pc[d], UNCHANGED <<sid, fresh>>, local'[d] = local[d],
             NEW v, thread' = [thread EXCEPT ![sid[c]] = v]
      PROVE  Good(d, local'[d], thread'[sid'[d]], pc'[d], Input(d)')
  <2>1. Running(d) /\ sid[d] # sid[c]
    BY <1>0, <1>4 DEF Running, OneGraph
  <2>2. thread'[sid[d]] = thread[sid[d]]
    BY <1>4, <2>1, RunningHasRow DEF Running, Streaming, Typed, TypeOK
  <2>. QED
    BY <1>1, <1>4, <2>1, <2>2
<1>5. ASSUME NEW c \in Calls, SaveInput(c)
      PROVE  Good(d, local'[d], thread'[sid'[d]], pc'[d], Input(d)')
  <2>1. CASE d # c
    BY <1>4, <1>5, <2>1 DEF SaveInput, Goto, Running, Typed, TypeOK
  <2>2. CASE d = c
    <3>1. pc[d] = "save" /\ pc'[d] = "model" /\ UNCHANGED <<sid, local>>
          /\ thread' = [thread EXCEPT ![sid[d]] = local[d]]
      BY <1>5, <2>2 DEF SaveInput, Goto, Typed, TypeOK
    <3>2. thread'[sid[d]] = local[d]
      BY <3>1, RunningHasRow DEF Streaming, Typed, TypeOK
    <3>. QED
      BY <1>0, <1>i, <3>1, <3>2 DEF Running
  <2>. QED
    BY <2>1, <2>2
<1>6. ASSUME NEW c \in Calls, NEW k \in {"toolcall", "tool", "ai"}, Extends(c, k)
      PROVE  Good(d, local'[d], thread'[sid'[d]], pc'[d], Input(d)')
  <2>1. CASE d # c
    BY <1>4, <1>6, <2>1 DEF Extends, Superstep, Running, Typed, TypeOK
  <2>2. CASE d = c
    <3> DEFINE m == [kind |-> k, by |-> d]
               more == Append(local[d], m)
    <3>1. pc[d] \in {"model", "tool"} /\ pc'[d] \in {"model", "tool"} /\ UNCHANGED sid
          /\ local'[d] = more /\ thread' = [thread EXCEPT ![sid[d]] = more]
      BY <1>6, <2>2 DEF Extends, Superstep, Running, Typed, TypeOK
    <3>2. thread'[sid[d]] = more
      BY <3>1, RunningHasRow DEF Streaming, Typed, TypeOK
    <3>3. m \in Message
      BY DEF Message
    <3> HIDE DEF m
    <3>4. /\ \A i \in 1..Len(local[d]) : i \in 1..Len(more) /\ more[i] = local[d][i]
          /\ Prompted(local[d]) => Prompted(more)
      BY <1>t, <3>3, AppendKeeps
    <3> HIDE DEF more
    <3>5. Prompted(local[d]) /\ \E i \in 1..Len(local[d]) : Said(local[d], i, "human", d)
      BY <1>0, <1>i, <3>1 DEF Running
    <3>. QED
      BY <3>1, <3>2, <3>4, <3>5 DEF Said
  <2>. QED
    BY <2>1, <2>2
<1>7. ~ Restart
  BY DEF Restart, Running, Over
<1>. QED
  BY <1>2, <1>3, <1>5, <1>6, <1>7, StepKinds

\* The call that opens a session opens it until its input is checkpointed, or
\* the session is marked: it was rejected, interrupted or lost first.
LEMMA OpenerStep ==
  ASSUME Typed, [Next]_vars, NEW e \in Calls, NEW s \in SessionIds, Opens(e, s)
  PROVE  Opens(e, s)' \/ SaveInput(e) \/ s \in disturbed'
<1> USE DEF Typed, TypeOK, Opens
<1>1. ASSUME NEW c \in Calls, NEW r \in Request, NEW t \in SessionIds \cup {NoSession},
             Ask(c, r, t)
      PROVE  Opens(e, s)'
  BY <1>1 DEF Ask, Goto
<1>2. ASSUME NEW c \in Calls,
             Identify(c) \/ MakeSession(c) \/ FindSession(c) \/ EndSession(c)
      PROVE  Opens(e, s)'
  BY <1>2 DEF Identify, MakeSession, UnusedIds, FindSession, Lookup, EndSession, Goto
<1>3. ASSUME NEW c \in Calls, ListActions(c) \/ LoadThread(c) \/ GenerateAnswers(c)
      PROVE  Opens(e, s)'
  BY <1>3 DEF ListActions, LoadThread, GenerateAnswers, Goto
<1>4. ASSUME NEW c \in Calls, SaveInput(c) PROVE Opens(e, s)' \/ SaveInput(e)
  BY <1>4 DEF SaveInput, Goto
<1>5. ASSUME NEW c \in Calls, ModelAnswers(c) \/ ModelCallsTool(c) \/ ToolAnswers(c)
      PROVE  Opens(e, s)'
  BY <1>5 DEF ModelAnswers, ModelCallsTool, ToolAnswers, Superstep, Goto
<1>6. ASSUME NEW c \in Calls, StepLimit(c) \/ Reject(c) \/ Interrupt(c)
      PROVE  Opens(e, s)' \/ s \in disturbed'
  <2>1. CASE c = e
    BY <1>6, <2>1 DEF StepLimit, Reject, Interrupt
  <2>2. CASE c # e
    BY <1>6, <2>2 DEF StepLimit, Reject, Interrupt
  <2>. QED
    BY <2>1, <2>2
<1>7. CASE Restart
  BY <1>7 DEF Restart
<1>8. CASE UNCHANGED vars
  BY <1>8 DEF vars
<1>. QED
  BY <1>1, <1>2, <1>3, <1>4, <1>5, <1>6, <1>7, <1>8 DEF Next, Proceed

\* A row comes with the call that opens its session, or with a mark.
LEMMA RowAppears ==
  ASSUME Typed, [Next]_vars, NEW s \in SessionIds, rows[s] = NoRow, rows'[s] # NoRow
  PROVE  s \in disturbed' \/ \E c \in Calls : Opens(c, s)'
<1> USE DEF Typed, TypeOK
<1>1. ASSUME NEW c \in Calls, MakeSession(c)
      PROVE  s \in disturbed' \/ Opens(c, s)'
  <2>1. PICK t \in UnusedIds :
          /\ rows' = [rows EXCEPT ![t] = [principal |-> Owner(c), agent |-> req[c].agent,
                                          ended |-> FALSE]]
          /\ sid' = [sid EXCEPT ![c] = t]
          /\ disturbed' = IF req[c].op = "stream" THEN disturbed ELSE disturbed \cup {t}
    BY <1>1 DEF MakeSession
  <2>2. t = s
    BY <2>1 DEF UnusedIds
  <2>. QED
    BY <1>1, <2>1, <2>2 DEF MakeSession, Opens, Goto
<1>2. ASSUME NEW c \in Calls, EndSession(c) PROVE FALSE
  <2>1. sid[c] # s \/ ~ Matches(c)
    BY DEF Matches
  <2>. QED
    BY <1>2, <2>1 DEF EndSession
<1>3. ASSUME NEW c \in Calls, Proceed(c) \/ Reject(c) \/ Interrupt(c)
      PROVE MakeSession(c) \/ EndSession(c) \/ UNCHANGED rows
  BY <1>3 DEF Proceed, Identify, FindSession, ListActions, LoadThread, SaveInput,
       ModelAnswers, ModelCallsTool, ToolAnswers, Superstep, StepLimit,
       GenerateAnswers, Reject, Interrupt
<1>4. ASSUME NEW c \in Calls, NEW r \in Request, NEW t \in SessionIds \cup {NoSession},
             Ask(c, r, t)
      PROVE  UNCHANGED rows
  BY <1>4 DEF Ask
<1>5. Restart \/ UNCHANGED vars => UNCHANGED rows
  BY DEF Restart, vars
<1>. QED
  BY <1>1, <1>2, <1>3, <1>4, <1>5 DEF Next

\* A checkpoint of a session nothing cut across only grows: what it holds stays,
\* at its place, and once it holds something it is not empty again.
LEMMA ThreadGrows ==
  ASSUME Typed, WorksOnOwnSession, LocalsInStep, [Next]_vars,
         NEW s \in SessionIds, s \notin disturbed', rows[s] # NoRow
  PROVE  /\ \A i \in 1..Len(thread[s]) : i \in 1..Len(thread'[s]) /\ thread'[s][i] = thread[s][i]
         /\ thread'[s] = <<>> => thread[s] = <<>>
<1> DEFINE Grows(new) == /\ \A i \in 1..Len(thread[s]) : i \in 1..Len(new) /\ new[i] = thread[s][i]
                         /\ new = <<>> => thread[s] = <<>>
<1> SUFFICES Grows(thread'[s])
  OBVIOUS
<1>0. s \notin disturbed
  BY DisturbedGrows
<1>t. thread[s] \in Seq(Message)
  BY DEF Typed, TypeOK
<1>1. ASSUME thread'[s] = thread[s] PROVE Grows(thread'[s])
  BY <1>1, <1>t
<1>2. ASSUME NEW c \in Calls, LoadThread(c) PROVE Grows(thread'[s])
  BY <1>1, <1>2 DEF LoadThread
<1>3. ASSUME NEW c \in Calls, SaveInput(c) PROVE Grows(thread'[s])
  <2>1. pc[c] = "save" /\ thread' = [thread EXCEPT ![sid[c]] = local[c]]
    BY <1>3 DEF SaveInput, Goto
  <2>2. CASE sid[c] = s
    <3>1. thread'[s] = local[c] /\ local[c] = thread[s] \o Input(c)
      BY <1>0, <2>1, <2>2 DEF LocalsInStep, Running, Typed, TypeOK
    <3> DEFINE more == thread[s] \o Input(c)
    <3>2. /\ more \in Seq(Message) /\ Len(more) = Len(thread[s]) + Len(Input(c))
          /\ \A i \in 1..Len(thread[s]) : i \in 1..Len(more) /\ more[i] = thread[s][i]
      BY <1>t, InputShape, JoinKeeps
    <3> HIDE DEF more
    <3>3. Len(more) > 0
      BY <1>t, <3>2, InputShape
    <3>. QED
      BY <3>1, <3>2, <3>3 DEF more
  <2>3. CASE sid[c] # s
    BY <1>1, <2>1, <2>3 DEF Typed, TypeOK
  <2>. QED
    BY <2>2, <2>3
<1>4. ASSUME NEW c \in Calls, NEW k \in {"toolcall", "tool", "ai"}, Extends(c, k)
      PROVE  Grows(thread'[s])
  <2> DEFINE m == [kind |-> k, by |-> c]
             more == Append(local[c], m)
  <2>1. pc[c] \in {"model", "tool"} /\ thread' = [thread EXCEPT ![sid[c]] = more]
    BY <1>4 DEF Extends, Superstep
  <2>2. CASE sid[c] = s
    <3>1. thread'[s] = more /\ local[c] = thread[s]
      BY <1>0, <2>1, <2>2 DEF LocalsInStep, Running, Typed, TypeOK
    <3>2. m \in Message
      BY DEF Message
    <3> HIDE DEF m
    <3>3. /\ more \in Seq(Message) /\ Len(more) = Len(thread[s]) + 1
          /\ \A i \in 1..Len(thread[s]) : i \in 1..Len(more) /\ more[i] = thread[s][i]
      BY <1>t, <3>1, <3>2, AppendKeeps
    <3> HIDE DEF more
    <3>4. Len(more) > 0
      BY <1>t, <3>3
    <3>. QED
      BY <3>1, <3>3, <3>4
  <2>3. CASE sid[c] # s
    BY <1>1, <2>1, <2>3 DEF Typed, TypeOK
  <2>. QED
    BY <2>2, <2>3
<1>5. CASE Restart
  <2>1. ~ Volatile
    BY <1>5 DEF Restart
  <2>. QED
    BY <1>1, <1>5, <2>1 DEF Restart
<1>6. CASE Quiet
  BY <1>1, <1>6 DEF Quiet
<1>. QED
  BY <1>2, <1>3, <1>4, <1>5, <1>6, StepKinds

\* Mutual order of the two: the thread begins with the prompt, or waits for the
\* call that opened its session.
LEMMA ThreadsPromptedStep ==
  ASSUME Typed, WorksOnOwnSession, ThreadsPrompted, LocalsInStep, [Next]_vars
  PROVE  ThreadsPrompted'
<1> SUFFICES ASSUME NEW s \in SessionIds, s \notin disturbed'
             PROVE  /\ thread'[s] = <<>> \/ Prompted(thread'[s])
                    /\ rows'[s] # NoRow /\ thread'[s] = <<>> => \E c \in Calls : Opens(c, s)'
  BY DEF ThreadsPrompted
<1>0. s \notin disturbed
  BY DisturbedGrows
<1>1. thread'[s] = <<>> \/ Prompted(thread'[s])
  <2>1. thread'[s] = thread[s] => thread'[s] = <<>> \/ Prompted(thread'[s])
    BY <1>0 DEF ThreadsPrompted
  <2>2. ASSUME NEW d \in Calls, sid[d] = s, pc[d] \in {"save", "model", "tool"},
               \/ thread'[s] = local[d]
               \/ \E m \in Message : m.by = d /\ thread'[s] = Append(local[d], m)
        PROVE  Prompted(thread'[s])
    <3>1. Prompted(local[d]) /\ local[d] \in Seq(Message)
      BY <1>0, <2>2 DEF LocalsInStep, Running, Typed, TypeOK
    <3>2. ASSUME NEW m \in Message, thread'[s] = Append(local[d], m)
          PROVE  Prompted(thread'[s])
      BY <3>1, <3>2, AppendKeeps
    <3>. QED
      BY <2>2, <3>1, <3>2
  <2>. QED
    BY <2>1, <2>2, ThreadSources
<1>2. ASSUME rows'[s] # NoRow, thread'[s] = <<>> PROVE \E c \in Calls : Opens(c, s)'
  <2>1. CASE rows[s] = NoRow
    BY <1>2, <2>1, RowAppears
  <2>2. CASE rows[s] # NoRow
    <3>1. thread[s] = <<>>
      BY <1>2, <2>2, ThreadGrows
    <3>2. PICK e \in Calls : Opens(e, s)
      BY <1>0, <2>2, <3>1 DEF ThreadsPrompted
    <3>3. ~ SaveInput(e)
      <4>1. SUFFICES ASSUME SaveInput(e) PROVE FALSE
        OBVIOUS
      <4>2. sid[e] = s /\ pc[e] = "save" /\ thread' = [thread EXCEPT ![sid[e]] = local[e]]
        BY <3>2, <4>1 DEF SaveInput, Goto, Opens
      <4>3. thread'[s] = local[e]
        BY <4>2 DEF Typed, TypeOK
      <4>4. Prompted(local[e])
        BY <1>0, <4>2 DEF LocalsInStep, Running
      <4>. QED
        BY <1>2, <4>3, <4>4 DEF Prompted
    <3>. QED
      BY <3>2, <3>3, OpenerStep
  <2>. QED
    BY <2>1, <2>2
<1>. QED
  BY <1>1, <1>2

\* Which calls come to be done, and which to generate.
LEMMA DoneSources ==
  ASSUME Typed, GenerateAlone, [Next]_vars, NEW c \in Calls
  PROVE  /\ pc'[c] = "generate" => req'[c].op = "generate"
         /\ pc'[c] = "done" /\ req'[c].op = "stream" =>
              /\ sid'[c] = sid[c]
              /\ pc[c] = "done" \/ ModelAnswers(c)
<1> DEFINE Shown == /\ pc'[c] = "generate" => req'[c].op = "generate"
                    /\ pc'[c] = "done" /\ req'[c].op = "stream" =>
                         /\ sid'[c] = sid[c]
                         /\ pc[c] = "done" \/ ModelAnswers(c)
<1> USE DEF Typed, TypeOK, GenerateAlone
<1>1. ASSUME NEW d \in Calls, NEW r \in Request, NEW t \in SessionIds \cup {NoSession},
             Ask(d, r, t)
      PROVE  Shown
  BY <1>1 DEF Ask, Goto
<1>2. ASSUME NEW d \in Calls, Identify(d) \/ FindSession(d) \/ EndSession(d)
      PROVE  Shown
  BY <1>2 DEF Identify, FindSession, Lookup, EndSession, Goto
<1>3. ASSUME NEW d \in Calls, MakeSession(d) PROVE Shown
  BY <1>3 DEF MakeSession, Goto
<1>4. ASSUME NEW d \in Calls,
             ListActions(d) \/ LoadThread(d) \/ SaveInput(d) \/ GenerateAnswers(d)
      PROVE  Shown
  BY <1>4 DEF ListActions, LoadThread, SaveInput, GenerateAnswers, Goto
<1>5. ASSUME NEW d \in Calls, ModelAnswers(d) \/ ModelCallsTool(d) \/ ToolAnswers(d)
      PROVE  Shown
  BY <1>5 DEF ModelAnswers, ModelCallsTool, ToolAnswers, Superstep, Goto
<1>6. ASSUME NEW d \in Calls, StepLimit(d) \/ Reject(d) \/ Interrupt(d)
      PROVE  Shown
  BY <1>6 DEF StepLimit, Reject, Interrupt
<1>7. CASE Restart
  BY <1>7 DEF Restart
<1>8. CASE UNCHANGED vars
  BY <1>8 DEF vars
<1>. QED
  BY <1>1, <1>2, <1>3, <1>4, <1>5, <1>6, <1>7, <1>8 DEF Next, Proceed

\* Only the answer of its model ends a streamed turn.
LEMMA AnsweredStep ==
  ASSUME Typed, GenerateAlone, AnsweredThere, [Next]_vars
  PROVE  GenerateAlone' /\ AnsweredThere'
<1>1. GenerateAlone'
  BY DoneSources DEF GenerateAlone
<1>2. ASSUME NEW c \in Calls, pc'[c] = "done", req'[c].op = "stream"
      PROVE  sid'[c] \in SessionIds
  <2>1. CASE pc[c] = "done"
    <3>1. req'[c] = req[c]
      BY <2>1, CallsStayStep DEF CallsStay
    <3>. QED
      BY <1>2, <2>1, <3>1, DoneSources DEF AnsweredThere
  <2>2. CASE ModelAnswers(c)
    BY <1>2, <2>2, DoneSources DEF ModelAnswers, Goto, Typed, Located, Streaming
  <2>. QED
    BY <1>2, <2>1, <2>2, DoneSources
<1>. QED
  BY <1>1, <1>2 DEF AnsweredThere

\* An answered turn is in its thread: the step that answers it puts the answer
\* behind its question, and no later step takes either away.
Told(c, ms) ==
  \E i, j \in 1..Len(ms) : i < j /\ Said(ms, i, "human", c) /\ Said(ms, j, "ai", c)

\* The answer goes behind the question it answers.
LEMMA ToldOnAnswer ==
  ASSUME Typed, WorksOnOwnSession, LocalsInStep, NEW c \in Calls, ModelAnswers(c),
         sid[c] \notin disturbed
  PROVE  Told(c, thread'[sid[c]])
<1> DEFINE m == [kind |-> "ai", by |-> c]
           more == Append(local[c], m)
<1>1. pc[c] = "model" /\ thread' = [thread EXCEPT ![sid[c]] = more]
  BY DEF ModelAnswers, Superstep, Goto
<1>2. thread'[sid[c]] = more
  BY <1>1, RunningHasRow DEF Typed, TypeOK, Streaming
<1>3. m \in Message /\ local[c] \in Seq(Message)
  BY DEF Message, Typed, TypeOK
<1>4. PICK i \in 1..Len(local[c]) : Said(local[c], i, "human", c)
  BY <1>1 DEF LocalsInStep, Running
<1>5. m = [kind |-> "ai", by |-> c]
  OBVIOUS
<1> HIDE DEF m
<1>6. /\ Len(more) = Len(local[c]) + 1 /\ more[Len(local[c]) + 1] = m
      /\ i \in 1..Len(more) /\ more[i] = local[c][i]
  BY <1>3, AppendKeeps
<1> HIDE DEF more
<1>7. /\ Len(local[c]) + 1 \in 1..Len(more) /\ i < Len(local[c]) + 1
  BY <1>3, <1>6
<1>. QED
  BY <1>2, <1>4, <1>5, <1>6, <1>7 DEF Told, Said

\* No step takes an answered turn out of its conversation.
LEMMA HistoryStep == HistoryInv /\ [Next]_vars => HistoryIsKept'
<1> SUFFICES ASSUME HistoryInv, [Next]_vars, NEW c \in Calls, pc'[c] = "done",
                    req'[c].op = "stream", sid'[c] \notin disturbed'
             PROVE  Told(c, thread'[sid'[c]])
  BY DEF HistoryIsKept, Told, Said
<1>0. Typed /\ PrivateInv /\ WorksOnOwnSession /\ LocalsInStep /\ GenerateAlone
  BY DEF HistoryInv, PrivateInv
<1>1. sid'[c] = sid[c] /\ sid[c] \notin disturbed
  BY <1>0, DoneSources, DisturbedGrows
<1>2. CASE ModelAnswers(c)
  BY <1>0, <1>1, <1>2, ToldOnAnswer
<1>3. CASE pc[c] = "done"
  <2>1. req[c].op = "stream"
    BY <1>0, <1>3, CallsStayStep DEF CallsStay
  <2>2. Told(c, thread[sid[c]]) /\ sid[c] \in SessionIds
    BY <1>1, <1>3, <2>1 DEF HistoryInv, HistoryIsKept, AnsweredThere, Told, Said
  <2>3. rows[sid[c]] # NoRow
    BY <1>0, <2>2 DEF PrivateInv, ThreadsOwned, Told
  <2>4. \A i \in 1..Len(thread[sid[c]]) :
          i \in 1..Len(thread'[sid[c]]) /\ thread'[sid[c]][i] = thread[sid[c]][i]
    BY <1>0, <1>1, <2>2, <2>3, ThreadGrows
  <2>. QED
    BY <1>1, <2>2, <2>4 DEF Told, Said
<1>. QED
  BY <1>0, <1>2, <1>3, DoneSources

\* The conversation a session keeps is whole: see HistoryInv.
THEOREM HistoryInvariant == Spec => []HistoryInv
<1>1. HistoryInv /\ [Next]_vars => HistoryInv'
  <2> SUFFICES ASSUME HistoryInv, [Next]_vars PROVE HistoryInv'
    OBVIOUS
  <2>1. PrivateInv /\ OneGraph /\ ThreadsPrompted /\ LocalsInStep
        /\ GenerateAlone /\ AnsweredThere /\ Typed /\ WorksOnOwnSession
    BY DEF HistoryInv, PrivateInv
  <2>2. PrivateInv'
    BY <2>1, TypedStep, OwnStep, ThreadsOwnedStep, LocalsOwnedStep DEF PrivateInv
  <2>. QED
    BY <2>1, <2>2, OneGraphStep, ThreadsPromptedStep, LocalsInStepStep, AnsweredStep,
       HistoryStep DEF HistoryInv
<1>. QED
  BY <1>1, HistoryInit, PTL DEF Spec

\* The model is given the system prompt on every turn of a session that stream
\* opened, whose first message was checkpointed, on which no two calls ran at
\* once and whose agent state survived.
THEOREM PromptIsApplied == Spec => []PromptOnEveryTurn
<1>1. HistoryInv => PromptOnEveryTurn
  BY DEF HistoryInv, LocalsInStep, PromptOnEveryTurn, Running, Prompted
<1>. QED
  BY <1>1, HistoryInvariant, PTL

\* A turn that was answered stays in such a session's conversation, question
\* before answer, whatever comes after.
THEOREM ConversationIsKept == Spec => []HistoryIsKept
<1>1. HistoryInv => HistoryIsKept
  BY DEF HistoryInv
<1>. QED
  BY <1>1, HistoryInvariant, PTL
=============================================================================
