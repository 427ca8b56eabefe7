---------------------------- MODULE ChatContract ----------------------------
(***************************************************************************)
(* What the backend promises the chat page of one POST /v1/chat: the       *)
(* events it receives, and how the response ends.  ChatPage is written     *)
(* against this promise, ChatStream shows that the backend keeps it.       *)
(***************************************************************************)
EXTENDS Naturals, Sequences

CONSTANTS
  Events,        \* what an agent run tells: chunks and tool calls
  ResponseEvent, \* the session id
  ErrorEvent     \* the run failed

VARIABLES
  wire,  \* the events written to the response, in order
  status \* of the response: "open", "ended", or "cut" without an event

Init == wire = <<>> /\ status = "open"

\* The session id comes before anything the agent says, and once.
Announce ==
  /\ status = "open" /\ wire = <<>>
  /\ wire' = <<ResponseEvent>>
  /\ UNCHANGED status

Tell ==
  /\ status = "open" /\ wire # <<>>
  /\ \E e \in Events : wire' = Append(wire, e)
  /\ UNCHANGED status

\* An error is the last event of its response.
TellError ==
  /\ status = "open"
  /\ wire' = Append(wire, ErrorEvent)
  /\ status' = "ended"

End ==
  /\ status = "open" /\ wire # <<>>
  /\ status' = "ended"
  /\ UNCHANGED wire

\* The call of the agent service itself rejects, after the headers went out.
Cut ==
  /\ status = "open" /\ wire = <<>>
  /\ status' = "cut"
  /\ UNCHANGED wire

Next == Announce \/ Tell \/ TellError \/ End \/ Cut

Spec == Init /\ [][Next]_<<wire, status>>
=============================================================================
