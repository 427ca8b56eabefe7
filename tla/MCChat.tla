-------------------------------- MODULE MCChat --------------------------------
(* The two sides of a chat for TLC, on small sets: the backend's stream of one  *)
(* request and the chat page.  What ties them is the contract the stream keeps  *)
(* (KeepsContract) and the page relies on, so a behaviour is one side's while   *)
(* the other has not begun.                                                     *)
EXTENDS ChatStream, ChatPage

CONSTANTS p1, p2, c1, c2, s1, s2

TwoPages == {p1, p2}
TwoCalls == {c1, c2}
TwoSessions == {s1, s2}

VARIABLE side  \* the side of this behaviour
chatVars == <<side, streamVars, vars>>

OfStream(step) == side = "stream" /\ step /\ UNCHANGED <<side, vars>>
OfPage(step) == side = "page" /\ step /\ UNCHANGED <<side, streamVars>>

ChatInit == side \in {"stream", "page"} /\ StreamInit /\ Init
ChatNext == OfStream(StreamNext) \/ OfPage(Next)

\* The fairness of FairStreamSpec and of FairSpec.
ChatFairness ==
  /\ WF_chatVars(OfStream(Start \/ Complete)) /\ WF_chatVars(OfStream(Deliver))
  /\ \A p \in Pages : WF_chatVars(OfPage(Load(p)))
  /\ \A c \in Calls : WF_chatVars(OfPage(c \notin hung /\ Proceed(c)))

ChatSpec == ChatInit /\ [][ChatNext]_chatVars /\ ChatFairness
===============================================================================
