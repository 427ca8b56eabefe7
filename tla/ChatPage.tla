------------------------------ MODULE ChatPage ------------------------------
(***************************************************************************)
(* The chat page of the GenAI plugin: ChatSessionManager, the hook         *)
(* useChatSession around it, the generator AgentApiClient.chatSync that    *)
(* feeds it, and the local storage every page of one agent shares.         *)
(*                                                                         *)
(* JavaScript runs each handler to its next await, so an action is a whole *)
(* handler up to there.  A page is one mount of the component: a browser   *)
(* tab, or what is left running when the user navigates inside the app.    *)
(* A message names the send that put it there and the sends whose events   *)
(* were written into it; its text is abstracted.                           *)
(***************************************************************************)
EXTENDS Naturals, Sequences

CONSTANTS
  Pages,      \* the mounts of the page in this instance
  Calls,      \* the messages users send, each a call of chatSync
  SessionIds, \* the session ids the backend can hand out
  NoSession,  \* sessionId is undefined, or not in storage
  NoCall,     \* abortController is null
  NoPage      \* a call that was not made

ASSUME AbsentAssumption ==
  NoSession \notin SessionIds /\ NoCall \notin Calls /\ NoPage \notin Pages

VARIABLES
  mount,    \* whether each page is shown, was left, or is gone
  asked,    \* the stored id a page's loadFromStorage awaits an answer for
  messages, \* ChatSessionManager.messages of each page
  session,  \* ChatSessionManager.sessionId of each page
  loading,  \* isLoading of each page
  ctrl,     \* abortController of each page: the call it aborts
  phase,    \* where each call is
  page,     \* the page of each call
  sent,     \* the session id each call was sent with
  told,     \* the session id of the ResponseEvent each call received
  aborted,  \* calls whose signal was aborted before the request went out
  hung,     \* calls whose run the backend aborted while the page still reads
  stored,   \* local storage: the messages (<<>> when absent) and the session id
  heard,    \* history: calls of which an event was shown in a message
  forgotten,\* history: session ids that were cleared or reported missing
  tangled,  \* history: pages where two handlers cut across each other
  shared    \* history: two live pages have used the storage at once

vars == <<mount, asked, messages, session, loading, ctrl, phase, page, sent, told,
          aborted, hung, stored, heard, forgotten, tangled, shared>>

pageVars == <<mount, asked, session>>
callVars == <<page, sent, told, aborted, hung>>
history == <<heard, forgotten, tangled, shared>>

-----------------------------------------------------------------------------
ChatMessage == [by : Calls, type : {"user", "agent", "error"}, from : SUBSET Calls]
Live == {"prelude", "open", "streaming", "ending"}
Phases == {"unsent", "over", "lost"} \cup Live
EmptyStorage == [messages |-> <<>>, session |-> NoSession]

InFlight(p) == {c \in Calls : page[c] = p /\ phase[c] \in Live}

\* Mutant: the session id is left where it was.
SavedMessages(ms, s) == [stored EXCEPT !.messages = IF ms # <<>> THEN ms ELSE @]

\* saveToStorage: an empty list and an undefined id are not written.
Saved(ms, s) == [messages |-> IF ms # <<>> THEN ms ELSE stored.messages,
                 session  |-> IF s # NoSession THEN s ELSE stored.session]

\* Mutant: no placeholder for the answer.
Unanswered(c) == <<[by |-> c, type |-> "user", from |-> {}]>>

\* sendUserMessage: the user's message and a placeholder for the answer.
Turn(c) == <<[by |-> c, type |-> "user", from |-> {}],
             [by |-> c, type |-> "agent", from |-> {}]>>

\* A chunk, a tool call or an error goes into the last message; an error also
\* changes its type.
Amend(ms, c, type) ==
  [ms EXCEPT ![Len(ms)].from = @ \cup {c},
             ![Len(ms)].type = IF type = "error" THEN "error" ELSE @]

\* The same for an empty list: the handler throws, and nothing is amended.
Written(ms, c, type) == IF ms = <<>> THEN ms ELSE Amend(ms, c, type)

\* Mutant: the storage is written on the first event only.
UnsavedFinish(c, ms) ==
  /\ phase' = [phase EXCEPT ![c] = "over"]
  /\ messages' = [messages EXCEPT ![page[c]] = ms]
  /\ loading' = [loading EXCEPT ![page[c]] = FALSE]
  /\ ctrl' = [ctrl EXCEPT ![page[c]] = NoCall]
  /\ UNCHANGED stored

\* Mutant: the hook's finally block is missing.
BusyFinish(c, ms) ==
  /\ phase' = [phase EXCEPT ![c] = "over"]
  /\ messages' = [messages EXCEPT ![page[c]] = ms]
  /\ stored' = Saved(ms, session[page[c]])
  /\ UNCHANGED <<loading, ctrl>>

\* The finally blocks of sendUserMessage and onUserMessage, whatever ended the
\* call and whichever call the page is busy with by now.
Finish(c, ms) ==
  /\ phase' = [phase EXCEPT ![c] = "over"]
  /\ messages' = [messages EXCEPT ![page[c]] = ms]
  /\ stored' = Saved(ms, session[page[c]])
  /\ loading' = [loading EXCEPT ![page[c]] = FALSE]
  /\ ctrl' = [ctrl EXCEPT ![page[c]] = NoCall]

\* chatSync catches whatever went wrong and yields one last ErrorEvent.
Fail(c) == Finish(c, Written(messages[page[c]], c, "error"))

\* Something else is under way on the page.
Busy(p) == asked[p] # NoSession \/ InFlight(p) # {}

-----------------------------------------------------------------------------
Init ==
  /\ mount = [p \in Pages |-> "no"]
  /\ asked = [p \in Pages |-> NoSession]
  /\ messages = [p \in Pages |-> <<>>]
  /\ session = [p \in Pages |-> NoSession]
  /\ loading = [p \in Pages |-> FALSE]
  /\ ctrl = [p \in Pages |-> NoCall]
  /\ phase = [c \in Calls |-> "unsent"]
  /\ page = [c \in Calls |-> NoPage]
  /\ sent = [c \in Calls |-> NoSession]
  /\ told = [c \in Calls |-> NoSession]
  /\ aborted = {} /\ hung = {}
  /\ stored = EmptyStorage
  /\ heard = {} /\ forgotten = {} /\ tangled = {} /\ shared = FALSE

\* The component is mounted and its effect starts loadFromStorage, which is not
\* awaited: without a stored id it runs to its end at once.
Mount(p) ==
  /\ mount[p] = "no"
  /\ mount' = [mount EXCEPT ![p] = "here"]
  /\ asked' = [asked EXCEPT ![p] = stored.session]
  /\ messages' = [messages EXCEPT ![p] =
                    IF stored.session = NoSession THEN stored.messages ELSE <<>>]
  /\ shared' = (shared \/ \E q \in Pages : mount[q] = "here" \/ Busy(q))
  /\ UNCHANGED <<session, loading, ctrl, phase, callVars, stored, heard, forgotten, tangled>>

\* getUserSession has found the stored session.
LoadFound(p) ==
  /\ asked[p] # NoSession
  /\ session' = [session EXCEPT ![p] = asked[p]]
  /\ asked' = [asked EXCEPT ![p] = NoSession]
  /\ messages' = [messages EXCEPT ![p] =
                    IF stored.messages # <<>> THEN stored.messages ELSE @]
  /\ UNCHANGED <<mount, loading, ctrl, phase, callVars, stored, history>>

\* It has not (404): what was stored is removed.
LoadMissing(p) ==
  /\ asked[p] # NoSession
  /\ asked' = [asked EXCEPT ![p] = NoSession]
  /\ stored' = EmptyStorage
  /\ forgotten' = forgotten \cup {asked[p]}
  /\ UNCHANGED <<mount, messages, session, loading, ctrl, phase, callVars, heard, tangled,
                 shared>>

\* The request fails: the rejection is not handled, the page stays empty and the
\* storage as it was.
LoadFails(p) ==
  /\ asked[p] # NoSession
  /\ asked' = [asked EXCEPT ![p] = NoSession]
  /\ tangled' = tangled \cup {p}
  /\ UNCHANGED <<mount, messages, session, loading, ctrl, phase, callVars, stored,
                 heard, forgotten, shared>>

\* onUserMessage: the input is disabled while isLoading.
Send(p, c) ==
  /\ mount[p] = "here" /\ ~ loading[p] /\ phase[c] = "unsent"
  /\ messages' = [messages EXCEPT ![p] = @ \o Turn(c)]
  /\ loading' = [loading EXCEPT ![p] = TRUE]
  /\ ctrl' = [ctrl EXCEPT ![p] = c]
  /\ phase' = [phase EXCEPT ![c] = "prelude"]
  /\ page' = [page EXCEPT ![c] = p]
  /\ sent' = [sent EXCEPT ![c] = session[p]]
  /\ tangled' = IF Busy(p) THEN tangled \cup {p} ELSE tangled
  /\ UNCHANGED <<pageVars, told, aborted, hung, stored, heard, forgotten, shared>>

\* The base URL and the token are there; the request goes out, unless its signal
\* was aborted in the meantime.
Fetch(c) ==
  /\ phase[c] = "prelude"
  /\ IF c \in aborted
     THEN Fail(c)
     ELSE /\ phase' = [phase EXCEPT ![c] = "open"]
          /\ UNCHANGED <<messages, loading, ctrl, stored>>
  /\ UNCHANGED <<pageVars, callVars, history>>

\* The ResponseEvent: the session this call runs on, a new one if it named none.
Respond(c) ==
  /\ phase[c] = "open"
  /\ phase' = [phase EXCEPT ![c] = "streaming"]
  /\ \E s \in SessionIds :
       /\ IF sent[c] = NoSession THEN \A d \in Calls : told[d] # s ELSE s = sent[c]
       /\ told' = [told EXCEPT ![c] = s]
       /\ session' = [session EXCEPT ![page[c]] = s]
       /\ stored' = Saved(messages[page[c]], s)
  /\ UNCHANGED <<mount, asked, messages, loading, ctrl, page, sent, aborted, hung, history>>

\* A ChunkEvent or a ToolEvent, or the ErrorEvent of a stream that failed in the
\* backend (which may come before the ResponseEvent: see ChatStream).  Without a
\* last message the handler throws and ends the call.
Event(c, type) ==
  /\ phase[c] = "streaming" \/ (phase[c] = "open" /\ type = "error")
  /\ type = "error" => c \notin hung
  /\ IF messages[page[c]] = <<>>
     THEN Finish(c, <<>>) /\ UNCHANGED heard
     ELSE /\ messages' = [messages EXCEPT ![page[c]] = Amend(@, c, type)]
          /\ heard' = heard \cup {c}
          /\ phase' = [phase EXCEPT ![c] = IF type = "error" THEN "ending" ELSE @]
          /\ UNCHANGED <<loading, ctrl, stored>>
  /\ UNCHANGED <<pageVars, callVars, forgotten, tangled, shared>>

End(c) ==
  /\ phase[c] \in {"streaming", "ending"} /\ c \notin hung
  /\ Finish(c, messages[page[c]])
  /\ UNCHANGED <<pageVars, callVars, history>>

\* The listener for the close of the request aborts the run, which may be while the
\* page still reads: the backend's stream is then neither closed nor failed, and the
\* response has no end (see ChatStream).  What is on its way still arrives.
Hang(c) ==
  /\ phase[c] \in {"open", "streaming"} /\ hung' = hung \cup {c}
  /\ UNCHANGED <<pageVars, messages, loading, ctrl, phase, page, sent, told, aborted, stored,
                 history>>

\* The request is refused or the connection breaks.
NetworkFails(c) ==
  /\ phase[c] \in Live
  /\ Fail(c)
  /\ UNCHANGED <<pageVars, callVars, history>>

\* Mutant: the abort controller is kept.
CancelKeepsController(p) ==
  /\ mount[p] = "here" /\ loading[p]
  /\ IF phase[ctrl[p]] = "prelude"
     THEN /\ aborted' = aborted \cup {ctrl[p]}
          /\ loading' = [loading EXCEPT ![p] = FALSE]
          /\ UNCHANGED <<ctrl, messages, phase, stored>>
     ELSE Fail(ctrl[p]) /\ UNCHANGED aborted
  /\ UNCHANGED <<pageVars, page, sent, told, hung, history>>

\* onCancel, whose button replaces Send while isLoading.  A request that is out
\* fails on the spot; one that is not learns of it when it is about to go out.
Cancel(p) ==
  /\ mount[p] = "here" /\ loading[p]
  /\ IF phase[ctrl[p]] = "prelude"
     THEN /\ aborted' = aborted \cup {ctrl[p]}
          /\ loading' = [loading EXCEPT ![p] = FALSE]
          /\ ctrl' = [ctrl EXCEPT ![p] = NoCall]
          /\ UNCHANGED <<messages, phase, stored>>
     ELSE Fail(ctrl[p]) /\ UNCHANGED aborted
  /\ UNCHANGED <<pageVars, page, sent, told, hung, history>>

\* Mutant: clear does not reset the session id.
ClearKeepsSession(p) ==
  /\ mount[p] = "here" /\ ~ loading[p]
  /\ messages' = [messages EXCEPT ![p] = <<>>]
  /\ stored' = EmptyStorage
  /\ forgotten' = forgotten \cup ({session[p]} \ {NoSession})
  /\ tangled' = IF Busy(p) THEN tangled \cup {p} ELSE tangled
  /\ UNCHANGED <<pageVars, loading, ctrl, phase, callVars, heard, shared>>

\* onClear, disabled while isLoading.  endSession is asked of the backend and
\* not awaited.
Clear(p) ==
  /\ mount[p] = "here" /\ ~ loading[p]
  /\ messages' = [messages EXCEPT ![p] = <<>>]
  /\ session' = [session EXCEPT ![p] = NoSession]
  /\ stored' = EmptyStorage
  /\ forgotten' = forgotten \cup ({session[p]} \ {NoSession})
  /\ tangled' = IF Busy(p) THEN tangled \cup {p} ELSE tangled
  /\ UNCHANGED <<mount, asked, loading, ctrl, phase, callVars, heard, shared>>

\* The user navigates inside the app: nothing aborts what is under way.
Leave(p) ==
  /\ mount[p] = "here"
  /\ mount' = [mount EXCEPT ![p] = "left"]
  /\ UNCHANGED <<asked, messages, session, loading, ctrl, phase, callVars, stored, history>>

\* The tab is reloaded or closed: its calls and its state are gone.
Close(p) ==
  /\ mount[p] \in {"here", "left"}
  /\ mount' = [mount EXCEPT ![p] = "closed"]
  /\ asked' = [asked EXCEPT ![p] = NoSession]
  /\ messages' = [messages EXCEPT ![p] = <<>>]
  /\ session' = [session EXCEPT ![p] = NoSession]
  /\ loading' = [loading EXCEPT ![p] = FALSE]
  /\ ctrl' = [ctrl EXCEPT ![p] = NoCall]
  /\ phase' = [c \in Calls |-> IF c \in InFlight(p) THEN "lost" ELSE phase[c]]
  /\ UNCHANGED <<callVars, stored, history>>

Load(p) == LoadFound(p) \/ LoadMissing(p) \/ LoadFails(p)
Proceed(c) == Fetch(c) \/ Respond(c) \/ End(c)

Next ==
  \/ \E p \in Pages : Mount(p) \/ Load(p) \/ Cancel(p) \/ Clear(p) \/ Leave(p) \/ Close(p)
  \/ \E p \in Pages, c \in Calls : Send(p, c)
  \/ \E c \in Calls : Proceed(c) \/ Hang(c) \/ NetworkFails(c) \/ Event(c, "chunk") \/ Event(c, "error")

Spec == Init /\ [][Next]_vars

\* What a page awaits of the network settles, and a response comes to its end unless
\* the backend left it without one.
FairSpec ==
  /\ Spec /\ \A p \in Pages : WF_vars(Load(p))
  /\ \A c \in Calls : WF_vars(c \notin hung /\ Proceed(c))

-----------------------------------------------------------------------------
TypeOK ==
  /\ mount \in [Pages -> {"no", "here", "left", "closed"}]
  /\ asked \in [Pages -> SessionIds \cup {NoSession}]
  /\ messages \in [Pages -> Seq(ChatMessage)]
  /\ session \in [Pages -> SessionIds \cup {NoSession}]
  /\ loading \in [Pages -> BOOLEAN]
  /\ ctrl \in [Pages -> Calls \cup {NoCall}]
  /\ phase \in [Calls -> Phases]
  /\ page \in [Calls -> Pages \cup {NoPage}]
  /\ sent \in [Calls -> SessionIds \cup {NoSession}]
  /\ told \in [Calls -> SessionIds \cup {NoSession}]
  /\ aborted \in SUBSET Calls /\ hung \in SUBSET Calls
  /\ stored \in [messages : Seq(ChatMessage), session : SessionIds \cup {NoSession}]
  /\ heard \in SUBSET Calls /\ forgotten \in SUBSET SessionIds
  /\ tangled \in SUBSET Pages /\ shared \in BOOLEAN

\* What a call streams goes into its own answer and nowhere else (the handlers of
\* sendUserMessage write to whichever message is last), as long as on no page a
\* load, or a call cancelled before it went out, was under way when the user sent
\* or cleared.
OwnAnswers ==
  tangled = {} =>
    \A p \in Pages : \A i \in 1..Len(messages[p]) :
      LET m == messages[p][i] IN m.from \subseteq (IF m.type = "user" THEN {} ELSE {m.by})

\* A page can be cancelled exactly while a call of its own is under way that was
\* not cancelled yet (isLoading and abortController, reset by two finally blocks
\* and by onCancel), under the same proviso for that page.
BusyWithItsCall ==
  \A p \in Pages : p \notin tangled =>
    /\ loading[p] <=> ctrl[p] # NoCall
    /\ InFlight(p) \ aborted = {ctrl[p]} \ {NoCall}

\* A conversation that was cleared, or that the backend does not know, is never
\* continued, as long as pages do not overlap and no page is tangled.
ClearedIsForgotten ==
  ~ shared /\ tangled = {} =>
    /\ stored.session \notin forgotten
    /\ \A p \in Pages : mount[p] = "here" => session[p] \notin forgotten

\* Storage holds the messages of one conversation and the session it runs on: a
\* reload never shows one conversation and continues another, under the same
\* provisos.
StoredTogether ==
  ~ shared /\ tangled = {} =>
    \A i \in 1..Len(stored.messages) :
      LET c == stored.messages[i].by IN told[c] # NoSession => told[c] = stored.session

\* What was shown of a call's answer survives a reload, once the call has come to
\* its end and until the session it was told is forgotten, under the same provisos
\* (saveToStorage in the finally block of sendUserMessage).
AnswersAreStored ==
  ~ shared /\ tangled = {} =>
    \A c \in heard : phase[c] = "over" /\ told[c] \in SessionIds \ forgotten =>
      \E i \in 1..Len(stored.messages) :
        stored.messages[i].by = c /\ c \in stored.messages[i].from

\* The input is never disabled for good, however calls, cancels and clears
\* interleave (the finally block of onUserMessage), but where the call it waits for
\* is one whose response the backend has left without an end.
InputComesBack == \A p \in Pages : loading[p] ~> ~ loading[p] \/ ctrl[p] \in hung
=============================================================================
