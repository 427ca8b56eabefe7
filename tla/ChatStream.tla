----------------------------- MODULE ChatStream -----------------------------
(***************************************************************************)
(* One POST /v1/chat in the backend: the events of the agent's graph, the  *)
(* ResponseTransformStream they are piped through, the ReadableStream that *)
(* LangGraphReactAgentType.stream wraps around it, and the loop of the     *)
(* route that writes what it reads to the response.                        *)
(***************************************************************************)
EXTENDS Naturals, Sequences

CONSTANTS
  ResponseEvent, \* the event with the session id
  ErrorEvent,    \* the event the route writes for a failed stream
  MaxEvents      \* bound: events of the graph

ASSUME EventsAssumption == MaxEvents \in Nat /\ ResponseEvent # ErrorEvent

VARIABLES
  graph,    \* the run: "pending" (stream() not answered), "running", "ended", "threw"
  cause,    \* the message of the error it threw: "none", "Abort" or "other"
  emitted,  \* events of the graph so far
  pipe,     \* chat events in the transform stream, not read yet
  copier,   \* the loop of start(): "copying", "closed", "errored" or "gone"
  out,      \* chat events in the ReadableStream, not read yet
  router,   \* the route: "awaiting" stream(), "reading", "ended" or "cut"
  wire,     \* chat events written to the response
  signalled,\* the abort signal
  produced  \* history: all chat events of the run

streamVars == <<graph, cause, emitted, pipe, copier, out, router, wire, signalled, produced>>

-----------------------------------------------------------------------------
\* Events of the graph that matter to ResponseTransformStream.transform.
Kinds == {"token", "tool_call_token", "model_end", "tool_start", "chain"}
ChatEvent == [type : {"ChunkEvent", "ToolEvent"}, of : 1..MaxEvents]

\* Mutant: every event becomes a chat event.
TranslateAll(k, n) == <<[type |-> k, of |-> n]>>

\* transform: tool call chunks and events of no concern give no chat event.
Translate(k, n) ==
  CASE k \in {"token", "model_end"} -> <<[type |-> "ChunkEvent", of |-> n]>>
    [] k = "tool_start"             -> <<[type |-> "ToolEvent", of |-> n]>>
    [] OTHER                        -> <<>>

StreamInit ==
  /\ graph = "pending" /\ cause = "none" /\ emitted = 0
  /\ pipe = <<>> /\ out = <<>> /\ wire = <<>> /\ produced = <<>>
  /\ copier = "copying" /\ router = "awaiting"
  /\ signalled = FALSE

\* agentService.stream answers.  The transform stream was constructed with the
\* ResponseEvent in it, and the loop of start() runs.
Start ==
  /\ graph = "pending"
  /\ graph' = "running" /\ router' = "reading"
  /\ pipe' = <<ResponseEvent>> /\ produced' = <<ResponseEvent>>
  /\ UNCHANGED <<cause, emitted, copier, out, wire, signalled>>

\* It rejects, outside the route's try: the headers are sent, the error
\* middleware can only cut the connection.
Refuse ==
  /\ graph = "pending"
  /\ graph' = "threw" /\ router' = "cut"
  /\ UNCHANGED <<cause, emitted, pipe, copier, out, wire, signalled, produced>>

\* The graph emits an event.  The transform stream holds at most two: one on its
\* writable side, and one that start put on its readable side.
Emit(k) ==
  /\ graph = "running" /\ emitted < MaxEvents /\ Len(pipe) < 2
  /\ emitted' = emitted + 1
  /\ pipe' = pipe \o Translate(k, emitted + 1)
  /\ produced' = produced \o Translate(k, emitted + 1)
  /\ UNCHANGED <<graph, cause, copier, out, router, wire, signalled>>

\* The run ends; flush terminates the transform stream after what it holds.
Complete ==
  /\ graph = "running"
  /\ graph' = "ended"
  /\ UNCHANGED <<cause, emitted, pipe, copier, out, router, wire, signalled, produced>>

\* The run throws, and what the transform stream still holds is discarded.  Only
\* a run that was told to stop throws 'Abort', and it may throw something else.
Throw(e) ==
  /\ graph = "running"
  /\ e = "Abort" => signalled
  /\ graph' = "threw" /\ cause' = e /\ pipe' = <<>>
  /\ UNCHANGED <<emitted, copier, out, router, wire, signalled, produced>>

\* request.on('close'): after the body was read, when the client disconnects, or
\* before the listener was there, depending on the version of Node.
CloseRequest ==
  /\ ~ signalled
  /\ signalled' = TRUE
  /\ UNCHANGED <<graph, cause, emitted, pipe, copier, out, router, wire, produced>>

\* Mutant: the newest event overtakes those that wait.
CopyInFront ==
  /\ copier = "copying" /\ pipe # <<>>
  /\ out' = <<Head(pipe)>> \o out
  /\ pipe' = Tail(pipe)
  /\ UNCHANGED <<graph, cause, emitted, copier, router, wire, signalled, produced>>

\* start(): read and enqueue, however full the ReadableStream is.
Copy ==
  /\ copier = "copying" /\ pipe # <<>>
  /\ out' = Append(out, Head(pipe))
  /\ pipe' = Tail(pipe)
  /\ UNCHANGED <<graph, cause, emitted, copier, router, wire, signalled, produced>>

\* Mutant: the controller is not closed.
CopyUnclosed ==
  /\ copier = "copying" /\ graph = "ended" /\ pipe = <<>>
  /\ copier' = "gone"
  /\ UNCHANGED <<graph, cause, emitted, pipe, out, router, wire, signalled, produced>>

CopyDone ==
  /\ copier = "copying" /\ graph = "ended" /\ pipe = <<>>
  /\ copier' = "closed"
  /\ UNCHANGED <<graph, cause, emitted, pipe, out, router, wire, signalled, produced>>

\* Mutant: every error is swallowed as if it were an abort, and the stream closed.
CopySwallows ==
  /\ copier = "copying" /\ graph = "threw" /\ router # "cut"
  /\ copier' = "closed"
  /\ UNCHANGED <<graph, cause, emitted, pipe, out, router, wire, signalled, produced>>

\* An 'Abort' is swallowed: the ReadableStream is neither closed nor errored.  Any
\* other error errors it, which discards the events nobody has read.
CopyFails ==
  /\ copier = "copying" /\ graph = "threw" /\ router # "cut"
  /\ IF cause = "Abort"
     THEN copier' = "gone" /\ UNCHANGED out
     ELSE copier' = "errored" /\ out' = <<>>
  /\ UNCHANGED <<graph, cause, emitted, pipe, router, wire, signalled, produced>>

Write ==
  /\ router = "reading" /\ out # <<>>
  /\ wire' = Append(wire, Head(out))
  /\ out' = Tail(out)
  /\ UNCHANGED <<graph, cause, emitted, pipe, copier, router, signalled, produced>>

\* Mutant: the error is written and the loop goes on.
WriteErrorAgain ==
  /\ router = "reading" /\ copier = "errored" /\ Len(wire) < MaxEvents
  /\ wire' = Append(wire, ErrorEvent)
  /\ UNCHANGED <<graph, cause, emitted, pipe, copier, out, router, signalled, produced>>

\* read() rejects: the catch block writes an ErrorEvent and the response ends.
WriteError ==
  /\ router = "reading" /\ copier = "errored"
  /\ wire' = Append(wire, ErrorEvent)
  /\ router' = "ended"
  /\ UNCHANGED <<graph, cause, emitted, pipe, copier, out, signalled, produced>>

EndResponse ==
  /\ router = "reading" /\ copier = "closed" /\ out = <<>>
  /\ router' = "ended"
  /\ UNCHANGED <<graph, cause, emitted, pipe, copier, out, wire, signalled, produced>>

Run == Start \/ (\E k \in Kinds : Emit(k)) \/ Complete
Deliver == Copy \/ CopyDone \/ CopyFails \/ Write \/ WriteError \/ EndResponse

StreamNext == Run \/ Refuse \/ CloseRequest \/ (\E e \in {"Abort", "other"} : Throw(e)) \/ Deliver

StreamSpec == StreamInit /\ [][StreamNext]_streamVars

\* A run comes to its end, by its recursion limit at the latest, and the loops of
\* start() and of the route go on whenever their read() can settle.
FairStreamSpec == StreamSpec /\ WF_streamVars(Start \/ Complete) /\ WF_streamVars(Deliver)

-----------------------------------------------------------------------------
StreamTypeOK ==
  /\ graph \in {"pending", "running", "ended", "threw"}
  /\ cause \in {"none", "Abort", "other"}
  /\ emitted \in 0..MaxEvents
  /\ copier \in {"copying", "closed", "errored", "gone"}
  /\ router \in {"awaiting", "reading", "ended", "cut"}
  /\ {pipe, out, produced} \subseteq Seq(ChatEvent \cup {ResponseEvent})
  /\ wire \in Seq(ChatEvent \cup {ResponseEvent, ErrorEvent})
  /\ signalled \in BOOLEAN

\* A response that ends without an ErrorEvent is the whole answer: the run ended
\* and every chat event it produced was written, in order.  What two buffers
\* discard when the run throws is never passed over in silence.
WholeOrTold ==
  router = "ended" =>
    \/ graph = "ended" /\ wire = produced
    \/ graph = "threw" /\ wire # <<>> /\ wire[Len(wire)] = ErrorEvent

\* Whatever was written is an initial part of what the run said, ErrorEvent aside,
\* although streams are cut at any point.
WrittenInOrder ==
  \A i \in 1..Len(wire) :
    wire[i] = ErrorEvent \/ (i <= Len(produced) /\ wire[i] = produced[i])

\* Every request the agent service answered comes to an end, unless its run was
\* aborted by the client's signal: then the route waits for a read() that never
\* settles.
RequestEnds ==
  router = "reading" ~> router = "ended" \/ (copier = "gone" /\ cause = "Abort")

\* The response as the chat page sees it.
status == IF router \in {"ended", "cut"} THEN router ELSE "open"

Contract == INSTANCE ChatContract WITH Events <- ChatEvent

\* The backend keeps the promise ChatPage relies on.
KeepsContract == Contract!Spec
=============================================================================
