---------------------------- MODULE AgentService ----------------------------
(***************************************************************************)
(* The backend of the GenAI plugin: DefaultAgentService, the session rows  *)
(* of DatabaseSessionStore, and the LangGraph agent type with its          *)
(* checkpointer.  Calls of the service run concurrently; each await of the *)
(* code is a step of its own, so any other call, a failure or a restart of *)
(* the backend may come between two of them.                               *)
(*                                                                         *)
(* A message of a conversation is a record: its kind and the call that     *)
(* added it.  Its text is abstracted, and so are the model and the tools.  *)
(***************************************************************************)
EXTENDS Naturals, Sequences

CONSTANTS
  Users,            \* user principals (user:<namespace>/<name>)
  Services,         \* service principals
  ServicePrincipal, \* the string stored for a service principal
  Agents,           \* the configured agents
  UnknownAgent,     \* an agent name that is not configured
  SessionIds,       \* the session ids uuidv4 returns in this instance
  NoSession,        \* the absent sessionId of a request
  NoRow,            \* no row in chat_sessions
  NoRequest,        \* a call that was not made yet
  Calls,            \* the calls made of the service, each made once
  Ops,              \* the operations those calls ask for
  Memory,           \* genai.langgraph.memory
  Client,           \* the client of the Backstage database
  RecursionLimit,   \* genai.langgraph.recursionLimit, in supersteps
  MaxRestarts       \* bound: restarts of the backend

ASSUME PrincipalAssumption ==
  /\ Users \cap Services = {}
  /\ ServicePrincipal \notin Users

ASSUME ConfigAssumption ==
  /\ Memory \in {"in-memory", "backstage"}
  /\ Client \in {"pg", "better-sqlite3"}
  /\ UnknownAgent \notin Agents
  /\ Ops \subseteq {"stream", "generate", "create", "get", "end"}
  /\ RecursionLimit \in Nat
  /\ MaxRestarts \in Nat

VARIABLES
  rows,      \* chat_sessions: the row of each session id, or NoRow
  thread,    \* the messages the checkpointer holds for each thread_id
  pc,        \* where each call is
  req,       \* what each call asks: operation, credentials, agent
  sid,       \* the session a call works on
  announced, \* session ids a client has been told
  fresh,     \* newSession, as DefaultAgentService.stream passes it
  local,     \* the message state a running graph holds
  steps,     \* supersteps the graph has run
  disturbed, \* history: sessions whose conversation something cut across
  restarts   \* restarts so far

vars ==
  <<rows, thread, pc, req, sid, announced, fresh, local, steps, disturbed, restarts>>

-----------------------------------------------------------------------------
Creds == Users \cup Services
AgentNames == Agents \cup {UnknownAgent}
Principals == Users \cup {ServicePrincipal}

Row == [principal : Principals, agent : AgentNames, ended : BOOLEAN]
Message == [kind : {"system", "human", "toolcall", "tool", "ai"}, by : Calls]
Request == [op : Ops, cred : Creds, agent : AgentNames]

ASSUME AbsentAssumption ==
  /\ NoSession \notin SessionIds
  /\ NoRow \notin Row
  /\ NoRequest \notin Request

\* A graph works on the session's thread, or is about to.
Streaming == {"actions", "load", "save", "model", "tool"}
\* Answered, refused before it ran, failed or interrupted while it ran, or
\* lost with the process.
Over == {"done", "rejected", "failed", "lost"}
PCs == {"idle", "identify", "session", "generate"} \cup Streaming \cup Over

\* Mutant: the credentials' own subject is stored.
Subject(c) == c

\* getUserEntityRef: every service is given one and the same string.
Principal(c) == IF c \in Services THEN ServicePrincipal ELSE c

Owner(c) == Principal(req[c].cred)

\* createCheckpointer: only a Postgres database keeps the agent state; sqlite
\* is opened as ':memory:', and the default is a MemorySaver.
Volatile == ~ (Memory = "backstage" /\ Client = "pg")

\* Mutant: the agent is left out of the WHERE clause.
MatchesAnyAgent(c) ==
  /\ sid[c] \in SessionIds
  /\ rows[sid[c]] # NoRow
  /\ rows[sid[c]].principal = Owner(c)

\* Mutant: the principal is left out of the WHERE clause.
MatchesAnyPrincipal(c) ==
  /\ sid[c] \in SessionIds
  /\ rows[sid[c]] # NoRow
  /\ rows[sid[c]].agent = req[c].agent

\* The WHERE clause of getSession and endSession.
Matches(c) ==
  /\ sid[c] \in SessionIds
  /\ rows[sid[c]] # NoRow
  /\ rows[sid[c]].principal = Owner(c)
  /\ rows[sid[c]].agent = req[c].agent

\* Mutant: an id may be in use already.
AnyId == SessionIds

\* uuidv4: an id that was never given.
UnusedIds == {s \in SessionIds : rows[s] = NoRow}

\* Mutant: a session that is not found is not reported, the call hangs.
LookupSilent(c) ==
  IF ~ Matches(c) THEN "session" ELSE IF req[c].op = "get" THEN "done" ELSE "actions"

\* What a call does with the row getSession returns, or with undefined.
Lookup(c) ==
  IF ~ Matches(c) THEN "rejected" ELSE IF req[c].op = "get" THEN "done" ELSE "actions"

\* Mutant: newSession is read the wrong way round.
InputInverted(c) ==
  IF fresh[c]
  THEN <<[kind |-> "human", by |-> c]>>
  ELSE <<[kind |-> "system", by |-> c], [kind |-> "human", by |-> c]>>

\* LangGraphReactAgentType.stream: the system prompt goes in only with the
\* message that opened the session.
Input(c) ==
  IF fresh[c]
  THEN <<[kind |-> "system", by |-> c], [kind |-> "human", by |-> c]>>
  ELSE <<[kind |-> "human", by |-> c]>>

\* Mutant: the graph is built without its checkpointer.
StateForgotten(c) == Input(c)

\* The state a graph starts from: the thread it was given, then the input.
InitialState(c) == thread[sid[c]] \o Input(c)

\* Another call is working on the same thread.
Contended(c) ==
  \E d \in Calls \ {c} :
    pc[d] \in Streaming /\ sid[d] = sid[c]

Goto(c, from, to) == pc[c] = from /\ pc' = [pc EXCEPT ![c] = to]

-----------------------------------------------------------------------------
Init ==
  /\ rows = [s \in SessionIds |-> NoRow]
  /\ thread = [s \in SessionIds |-> <<>>]
  /\ pc = [c \in Calls |-> "idle"]
  /\ req = [c \in Calls |-> NoRequest]
  /\ sid = [c \in Calls |-> NoSession]
  /\ announced = {}
  /\ fresh = [c \in Calls |-> FALSE]
  /\ local = [c \in Calls |-> <<>>]
  /\ steps = [c \in Calls |-> 0]
  /\ disturbed = {}
  /\ restarts = 0

\* A route calls the service.  The session id, where the operation takes one,
\* is any that was ever told to anybody.
Ask(c, r, s) ==
  /\ Goto(c, "idle", "identify")
  /\ r.op \in {"create", "generate"} => s = NoSession
  /\ r.op \in {"get", "end"} => s # NoSession
  /\ s \in announced \cup {NoSession}
  /\ req' = [req EXCEPT ![c] = r]
  /\ sid' = [sid EXCEPT ![c] = s]
  /\ UNCHANGED <<rows, thread, announced, fresh, local, steps, disturbed, restarts>>

\* getUserEntityRef has answered; the operations that run an agent look it up.
Identify(c) ==
  /\ Goto(c, "identify",
          IF req[c].op \in {"stream", "generate"} /\ req[c].agent \notin Agents
          THEN "rejected" ELSE "session")
  /\ UNCHANGED <<rows, thread, req, sid, announced, fresh, local, steps, disturbed,
                 restarts>>

\* makeSession: stream without a session, createSession, and generate (whose
\* ended = true is not written to the row).
MakeSession(c) ==
  /\ pc[c] = "session" /\ sid[c] = NoSession
  /\ req[c].op \in {"stream", "create", "generate"}
  /\ Goto(c, "session", CASE req[c].op = "stream" -> "actions"
                          [] req[c].op = "create" -> "done"
                          [] OTHER -> "generate")
  /\ \E s \in UnusedIds :
       /\ rows' = [rows EXCEPT ![s] = [principal |-> Owner(c),
                                       agent |-> req[c].agent,
                                       ended |-> FALSE]]
       /\ sid' = [sid EXCEPT ![c] = s]
       /\ disturbed' = IF req[c].op = "stream" THEN disturbed
                                               ELSE disturbed \cup {s}
       /\ announced' = IF req[c].op = "create" THEN announced \cup {s}
                                               ELSE announced
  /\ fresh' = [fresh EXCEPT ![c] = (req[c].op = "stream")]
  /\ UNCHANGED <<thread, req, local, steps, restarts>>

\* getSession, for stream with a session id and for getUserSession.  Whether
\* the session has ended is not asked.
FindSession(c) ==
  /\ pc[c] = "session"
  /\ \/ req[c].op = "stream" /\ sid[c] # NoSession
     \/ req[c].op = "get"
  /\ Goto(c, "session", Lookup(c))
  /\ UNCHANGED <<rows, thread, req, sid, announced, fresh, local, steps, disturbed,
                 restarts>>

EndSession(c) ==
  /\ pc[c] = "session" /\ req[c].op = "end"
  /\ Goto(c, "session", "done")
  /\ rows' = IF Matches(c) THEN [rows EXCEPT ![sid[c]].ended = TRUE] ELSE rows
  /\ UNCHANGED <<thread, req, sid, announced, fresh, local, steps, disturbed,
                 restarts>>

\* Agent.getAgentActions has answered and the graph is built; the ResponseEvent
\* that carries the session id is in the stream before anything of the graph.
ListActions(c) ==
  /\ Goto(c, "actions", "load")
  /\ announced' = announced \cup {sid[c]}
  /\ UNCHANGED <<rows, thread, req, sid, fresh, local, steps, disturbed, restarts>>

\* userInfo, the database or the actions service fails: the call rejects.
Reject(c) ==
  /\ pc[c] \in {"identify", "session", "actions"}
  /\ pc' = [pc EXCEPT ![c] = "rejected"]
  /\ disturbed' = IF fresh[c] THEN disturbed \cup {sid[c]} ELSE disturbed
  /\ UNCHANGED <<rows, thread, req, sid, announced, fresh, local, steps, restarts>>

\* The graph reads the latest checkpoint of its thread and appends the input.
LoadThread(c) ==
  /\ Goto(c, "load", "save")
  /\ local' = [local EXCEPT ![c] = InitialState(c)]
  /\ disturbed' = IF Contended(c) THEN disturbed \cup {sid[c]} ELSE disturbed
  /\ UNCHANGED <<rows, thread, req, sid, announced, fresh, steps, restarts>>

\* The input checkpoint is written.
SaveInput(c) ==
  /\ Goto(c, "save", "model")
  /\ thread' = [thread EXCEPT ![sid[c]] = local[c]]
  /\ UNCHANGED <<rows, req, sid, announced, fresh, local, steps, disturbed, restarts>>

\* A superstep of the graph: a message is added and a checkpoint written.
Superstep(c, k) ==
  LET m == Append(local[c], [kind |-> k, by |-> c]) IN
  /\ steps[c] < RecursionLimit
  /\ steps' = [steps EXCEPT ![c] = @ + 1]
  /\ local' = [local EXCEPT ![c] = m]
  /\ thread' = [thread EXCEPT ![sid[c]] = m]
  /\ UNCHANGED <<rows, req, sid, announced, fresh, disturbed, restarts>>

ModelAnswers(c) == Goto(c, "model", "done") /\ Superstep(c, "ai")
ModelCallsTool(c) == Goto(c, "model", "tool") /\ Superstep(c, "toolcall")
ToolAnswers(c) == Goto(c, "tool", "model") /\ Superstep(c, "tool")

\* generate runs its graph without a checkpointer.
GenerateAnswers(c) ==
  /\ Goto(c, "generate", "done")
  /\ UNCHANGED <<rows, thread, req, sid, announced, fresh, local, steps, disturbed,
                 restarts>>

\* The recursion limit is reached: GraphRecursionError.
StepLimit(c) ==
  /\ pc[c] \in {"model", "tool"} /\ steps[c] >= RecursionLimit
  /\ pc' = [pc EXCEPT ![c] = "failed"]
  /\ UNCHANGED <<rows, thread, req, sid, announced, fresh, local, steps, disturbed,
                 restarts>>

\* The run ends early: the client's signal aborts it, or the model or the
\* checkpointer throws.  What was checkpointed stays.
Interrupt(c) ==
  /\ pc[c] \in {"load", "save", "model", "tool", "generate"}
  /\ pc' = [pc EXCEPT ![c] = "failed"]
  /\ disturbed' = IF fresh[c] /\ pc[c] \in {"load", "save"}
                  THEN disturbed \cup {sid[c]} ELSE disturbed
  /\ UNCHANGED <<rows, thread, req, sid, announced, fresh, local, steps, restarts>>

\* The backend process is replaced: the rows stay, the calls are gone, and so
\* is the agent state unless the checkpointer keeps it.
Restart ==
  /\ restarts < MaxRestarts
  /\ restarts' = restarts + 1
  /\ pc' = [c \in Calls |-> IF pc[c] \in Over \cup {"idle"} THEN pc[c] ELSE "lost"]
  /\ thread' = IF Volatile THEN [s \in SessionIds |-> <<>>] ELSE thread
  /\ disturbed' = disturbed
       \cup {s \in SessionIds : Volatile /\ rows[s] # NoRow}
       \cup {sid[c] : c \in {d \in Calls : fresh[d] /\ pc[d] \in {"actions", "load", "save"}}}
  /\ UNCHANGED <<rows, req, sid, announced, fresh, local, steps>>

Proceed(c) ==
  \/ Identify(c) \/ MakeSession(c) \/ FindSession(c) \/ EndSession(c)
  \/ ListActions(c) \/ LoadThread(c) \/ SaveInput(c)
  \/ ModelAnswers(c) \/ ModelCallsTool(c) \/ ToolAnswers(c) \/ StepLimit(c)
  \/ GenerateAnswers(c)

Next ==
  \/ \E c \in Calls, r \in Request, s \in SessionIds \cup {NoSession} : Ask(c, r, s)
  \/ \E c \in Calls : Proceed(c) \/ Reject(c) \/ Interrupt(c)
  \/ Restart

Spec == Init /\ [][Next]_vars

\* What a call awaits settles: a call that can go on goes on.  Failures and
\* restarts are never owed.
FairSpec == Spec /\ \A c \in Calls : WF_vars(Proceed(c))

-----------------------------------------------------------------------------
TypeOK ==
  /\ rows \in [SessionIds -> Row \cup {NoRow}]
  /\ thread \in [SessionIds -> Seq(Message)]
  /\ pc \in [Calls -> PCs]
  /\ req \in [Calls -> Request \cup {NoRequest}]
  /\ sid \in [Calls -> SessionIds \cup {NoSession}]
  /\ announced \in SUBSET SessionIds
  /\ fresh \in [Calls -> BOOLEAN]
  /\ local \in [Calls -> Seq(Message)]
  /\ steps \in [Calls -> Nat]
  /\ disturbed \in SUBSET SessionIds
  /\ restarts \in Nat

\* A call that works on a session works on a session of its own principal and
\* of the agent it named, whatever session id the caller sent and whichever
\* await another call came in at (DefaultAgentService.stream, getSession).
WorksOnOwnSession ==
  \A c \in Calls :
    pc[c] \in Streaming =>
      /\ sid[c] \in SessionIds
      /\ rows[sid[c]] # NoRow
      /\ rows[sid[c]].principal = Owner(c)
      /\ rows[sid[c]].agent = req[c].agent

\* What one user tells an agent is never in a conversation another user's call
\* reads or writes: all messages of a thread were added by calls with the same
\* credentials, unless they are calls of services, which share one principal.
ConversationsArePrivate ==
  \A s \in SessionIds : \A i, j \in 1..Len(thread[s]) :
    LET a == req[thread[s][i].by].cred
        b == req[thread[s][j].by].cred
    IN a = b \/ {a, b} \subseteq Services

\* The model is given the system prompt on every turn of a session, provided
\* the session was opened by stream, its first message was checkpointed, no two
\* calls ran on it at once and the agent state survived.
PromptOnEveryTurn ==
  \A c \in Calls :
    pc[c] = "model" /\ sid[c] \notin disturbed => local[c][1].kind = "system"

\* A turn that was answered is in the conversation from then on, question before
\* answer, under the same provisos.
HistoryIsKept ==
  \A c \in Calls :
    pc[c] = "done" /\ req[c].op = "stream" /\ sid[c] \notin disturbed =>
      \E i, j \in 1..Len(thread[sid[c]]) :
        /\ i < j
        /\ thread[sid[c]][i] = [kind |-> "human", by |-> c]
        /\ thread[sid[c]][j] = [kind |-> "ai", by |-> c]

\* A row, once inserted, is never removed or given to another principal or
\* agent, and an ended session is never re-opened: no call has such an UPDATE,
\* and a fresh id never overwrites a row.
RowsOnlyEnd ==
  [][\A s \in SessionIds : rows[s] # NoRow =>
       \/ rows'[s] = rows[s]
       \/ rows'[s] = [rows[s] EXCEPT !.ended = TRUE]]_vars

\* Every call comes to an end: a session that is not found, an unknown agent, a
\* model that keeps calling tools, all of them do (stream, generate).
EveryCallEnds == \A c \in Calls : pc[c] # "idle" ~> pc[c] \in Over

\* docs/agent-types.md:16 and config.d.ts:28 make the system prompt something the
\* agent applies and requires.  Without the provisos of PromptOnEveryTurn: on
\* every turn of a session whose opening turn was answered.
SystemPromptApplied ==
  \A c, d \in Calls :
    pc[c] = "model" /\ pc[d] = "done" /\ fresh[d] /\ sid[d] = sid[c] =>
      local[c][1].kind = "system"
=============================================================================
