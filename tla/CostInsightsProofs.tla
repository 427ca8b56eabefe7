------------------------- MODULE CostInsightsProofs -------------------------
(***************************************************************************)
(* Theorems about the cost insights backend.  Of CostInsightsRouter, for   *)
(* any callers, requests and URLs, with or without the cache, and however  *)
(* permissions change; of CostFigures, for any calendar, bills, groups,    *)
(* entities and requests.                                                  *)
(***************************************************************************)
EXTENDS CostInsightsRouter, CostFigures, FiniteSetTheorems, WellFoundedInduction, TLAPS

\* A request that was received is at a stage; only the lookup patches res.json.
Staged ==
  \A r \in Requests :
    /\ stage[r] = "none" <=> url[r] = None
    /\ stage[r] \in {"none", "gate"} => ~ patched[r]
    /\ url[r] = None => reply[r] = None

Typed == TypeOK /\ Staged

\* What may be kept under a URL: a body computed for it, never a denial, and
\* costs only under a URL the gate guards.
Storable(u, body) ==
  /\ body.url = u
  /\ body.kind # "denied"
  /\ body.kind = "cost" => u \notin HealthUrls

\* The cache and the writes on their way to it hold nothing else.
StoreClean ==
  /\ \A u \in Urls : cache[u] # None => Storable(u, cache[u])
  /\ \A w \in writes : Storable(w[1], w[2])

\* Behind the gate there are only requests it allowed, and open ones.
BehindGate ==
  \A r \in Requests :
    stage[r] \in {"lookup", "find", "answer"} =>
      decision[r] = "ALLOW" \/ url[r] \in HealthUrls

\* What the replies promise, together: a reply is for its URL, costs were allowed
\* and come from a guarded URL, and a denial is the request's own.
Right(r) ==
  reply[r] # None =>
    /\ reply[r].body.url = url[r]
    /\ reply[r].body.kind = "cost" => url[r] \notin HealthUrls /\ decision[r] = "ALLOW"
    /\ reply[r].body.kind = "denied" => decision[r] = "DENY"

RepliesRight == \A r \in Requests : Right(r)

Inv == Typed /\ StoreClean /\ BehindGate /\ RepliesRight

\* No request has come at the start.
LEMMA TypedInit == Init => Typed
BY DEF Init, Typed, TypeOK, Staged

\* What response.json does to a request that has no reply yet.
LEMMA JsonTyped ==
  ASSUME Typed, NEW r \in Requests, url[r] # None,
         NEW status \in Status, NEW kind \in {"cost", "ok", "error", "denied"},
         Json(r, status, kind)
  PROVE  /\ reply' = [reply EXCEPT ![r] = [status |-> status,
                                           body |-> [kind |-> kind, url |-> url[r]]]]
         /\ reply' \in [Requests -> Reply \cup {None}] /\ reply'[r] # None
         /\ writes' \in SUBSET (Urls \X Body)
<1> DEFINE body == [kind |-> kind, url |-> url[r]]
<1>1. url[r] \in Urls
  BY DEF Typed, TypeOK
<1>2. body \in Body
  BY <1>1 DEF Body
<1>3. [status |-> status, body |-> body] \in Reply
  BY <1>2 DEF Reply
<1>4. <<Key(url[r]), body>> \in Urls \X Body
  BY <1>1, <1>2 DEF Key
<1>5. /\ reply' = [reply EXCEPT ![r] = [status |-> status, body |-> body]]
      /\ writes' = IF patched[r] THEN writes \cup {<<Key(url[r]), body>>} ELSE writes
  BY DEF Json
<1>. HIDE DEF body
<1>6. reply' \in [Requests -> Reply \cup {None}] /\ reply'[r] # None
  BY <1>3, <1>5, UrlsAssumption DEF Typed, TypeOK
<1>7. writes' \in SUBSET (Urls \X Body)
  BY <1>4, <1>5 DEF Typed, TypeOK
<1>. QED
  BY <1>5, <1>6, <1>7 DEF body

\* A request that passes a stage is at a stage that follows it.
LEMMA PassTyped ==
  ASSUME Typed, NEW r \in Requests, Pass(r)
  PROVE  stage' \in [Requests -> {"none", "gate", "lookup", "find", "answer"}]
BY DEF Typed, TypeOK, Pass, After

\* Every step keeps the types and the stages.
LEMMA TypedStep == Typed /\ [Next]_vars => Typed'
<1> SUFFICES ASSUME Typed, [Next]_vars PROVE Typed'
  OBVIOUS
<1> USE DEF Typed, TypeOK, Staged
<1>0. None \notin Urls /\ {200, 400, 403, 500} \subseteq Status
  BY UrlsAssumption DEF Status
<1>1. ASSUME NEW r \in Requests, NEW c \in Callers, NEW u \in Urls, Receive(r, c, u)
      PROVE Typed'
  <2>1. After("received", u) \in {"gate", "lookup", "find"}
        /\ (After("received", u) = "gate" => ~ patched[r])
    BY <1>1 DEF Receive, After
  <2>. QED
    BY <1>0, <1>1, <2>1 DEF Receive
<1>2. ASSUME NEW r \in Requests, Serve(r) PROVE Typed'
  <2> USE <1>0
  <2>1. CASE Allow(r)
    <3>1. After(stage[r], url[r]) \in {"lookup", "find"}
      BY <2>1 DEF Allow, In, After
    <3>. QED
      BY <2>1, <3>1 DEF Allow, In, Pass
  <2>2. CASE Deny(r)
    <3>1. url[r] # None
      BY <2>2 DEF Deny, In
    <3>. QED
      BY <2>2, <3>1, JsonTyped DEF Deny, In
  <2>3. CASE Hit(r)
    <3>1. url[r] \in Urls /\ cache[url[r]] \in Body
      BY <2>3 DEF Hit, In, Key
    <3>2. [status |-> 200, body |-> cache[Key(url[r])]] \in Reply
      BY <3>1 DEF Reply, Key
    <3>. QED
      BY <2>3, <3>1, <3>2 DEF Hit, In
  <2>4. CASE Miss(r)
    <3>1. After(stage[r], url[r]) = "find"
      BY <2>4 DEF Miss, In, After
    <3>. QED
      BY <2>4, <3>1 DEF Miss, In, Pass
  <2>5. CASE Find(r)
    <3>1. url[r] # None
      BY <2>5 DEF Find, In
    <3>2. After(stage[r], url[r]) = "answer"
      BY <2>5 DEF Find, In, After
    <3>3. CASE Json(r, 400, "error") /\ UNCHANGED stage
      BY <2>5, <3>1, <3>3, JsonTyped DEF Find, In, Readable
    <3>4. CASE Json(r, 500, "error") /\ UNCHANGED stage
      BY <2>5, <3>1, <3>4, JsonTyped DEF Find, In, Readable
    <3>5. CASE Pass(r) /\ UNCHANGED <<reply, writes>>
      BY <2>5, <3>1, <3>2, <3>5 DEF Find, In, Pass, Readable
    <3>. QED
      BY <2>5, <3>3, <3>4, <3>5 DEF Find
  <2>6. CASE Answer(r)
    <3>1. url[r] # None
      BY <2>6 DEF Answer, In
    <3>2. Json(r, 200, "ok") \/ Json(r, 200, "cost")
      BY <2>6 DEF Answer
    <3>. QED
      BY <2>6, <3>1, <3>2, JsonTyped DEF Answer, In
  <2>7. CASE Fail(r)
    <3>1. url[r] # None
      BY <2>7 DEF Fail, In
    <3>. QED
      BY <2>7, <3>1, JsonTyped DEF Fail, In
  <2>. QED
    BY <1>2, <2>1, <2>2, <2>3, <2>4, <2>5, <2>6, <2>7 DEF Serve
<1>3. ASSUME NEW w \in writes, Land(w) PROVE Typed'
  <2>1. w[1] \in Urls /\ w[2] \in Body
    OBVIOUS
  <2>. QED
    BY <1>3, <2>1 DEF Land
<1>4. ASSUME NEW w \in writes, Lose(w) PROVE Typed'
  BY <1>4 DEF Lose
<1>5. ASSUME NEW u \in Urls, Expire(u) PROVE Typed'
  BY <1>5 DEF Expire
<1>6. CASE ChangePolicy
  BY <1>6 DEF ChangePolicy
<1>7. CASE UNCHANGED vars
  BY <1>7 DEF vars
<1>. QED
  BY <1>1, <1>2, <1>3, <1>4, <1>5, <1>6, <1>7 DEF Next

\* A reply through response.json is right, and what it leaves for the cache is
\* storable, if costs were allowed and a denial is not written.
LEMMA JsonRight ==
  ASSUME Inv, NEW r \in Requests, url[r] # None,
         NEW status \in Status, NEW kind \in {"cost", "ok", "error", "denied"},
         Json(r, status, kind), UNCHANGED <<url, cache>>,
         \A q \in Requests \ {r} : decision'[q] = decision[q],
         kind = "cost" => url[r] \notin HealthUrls /\ decision'[r] = "ALLOW",
         kind = "denied" => decision'[r] = "DENY" /\ ~ patched[r]
  PROVE  RepliesRight' /\ StoreClean'
<1>1. Typed
  BY DEF Inv
<1>2. reply' = [reply EXCEPT ![r] = [status |-> status,
                                     body |-> [kind |-> kind, url |-> url[r]]]]
  BY <1>1, JsonTyped
<1>3. reply'[r].body.url = url[r] /\ reply'[r].body.kind = kind
  BY <1>1, <1>2 DEF Typed, TypeOK
<1>4. ASSUME NEW q \in Requests \ {r} PROVE Right(q)'
  <2>1. reply'[q] = reply[q] /\ url'[q] = url[q] /\ decision'[q] = decision[q]
    BY <1>1, <1>2 DEF Typed, TypeOK
  <2>2. Right(q)
    BY DEF Inv, RepliesRight
  <2>. QED
    BY <2>1, <2>2 DEF Right
<1>5. Right(r)'
  BY <1>3 DEF Right
<1>6. RepliesRight'
  BY <1>4, <1>5 DEF RepliesRight
<1>7. ASSUME NEW w \in writes' PROVE Storable(w[1], w[2])
  <2>1. CASE w \in writes
    BY <2>1 DEF Inv, StoreClean
  <2>2. CASE w \notin writes
    <3>1. patched[r] /\ w = <<url[r], [kind |-> kind, url |-> url[r]]>>
      BY <2>2 DEF Json, Key
    <3>. QED
      BY <3>1 DEF Storable
  <2>. QED
    BY <2>1, <2>2
<1>8. StoreClean'
  BY <1>7 DEF Inv, StoreClean, Storable
<1>. QED
  BY <1>6, <1>8

\* And nothing is stored.
LEMMA InvInit == Init => Inv
BY TypedInit DEF Inv, Init, StoreClean, BehindGate, RepliesRight, Right

\* Every step keeps the invariant: replies come from Deny, Hit, Find, Answer and
\* Fail, the store changes with Land and Expire, and only Allow opens the gate.
LEMMA InvStep == Inv /\ [Next]_vars => Inv'
<1> SUFFICES ASSUME Inv, [Next]_vars PROVE Inv'
  OBVIOUS
<1>t. Typed /\ Typed'
  BY TypedStep DEF Inv
<1> {200, 400, 403, 500} \subseteq Status /\ None \notin Urls
  BY UrlsAssumption DEF Status
<1> SUFFICES StoreClean' /\ BehindGate' /\ RepliesRight'
  BY <1>t DEF Inv
<1> USE <1>t DEF Typed, TypeOK
<1>1. ASSUME NEW r \in Requests, NEW c \in Callers, NEW u \in Urls, Receive(r, c, u)
      PROVE StoreClean' /\ BehindGate' /\ RepliesRight'
  <2>1. reply[r] = None
    BY <1>1 DEF Receive, Staged
  <2>2. StoreClean'
    BY <1>1 DEF Receive, Inv, StoreClean, Storable
  <2>3. u \notin HealthUrls => After("received", u) = "gate"
    BY DEF After
  <2>4. BehindGate'
    BY <1>1, <2>3 DEF Receive, Inv, BehindGate
  <2>5. RepliesRight'
    BY <1>1, <2>1 DEF Receive, Inv, RepliesRight, Right
  <2>. QED
    BY <2>2, <2>4, <2>5
<1>2. ASSUME NEW r \in Requests, Serve(r)
      PROVE StoreClean' /\ BehindGate' /\ RepliesRight'
  <2>1. CASE Allow(r)
    <3>1. StoreClean'
      BY <2>1 DEF Allow, Inv, StoreClean, Storable
    <3>2. BehindGate'
      BY <2>1 DEF Allow, In, Pass, Inv, BehindGate
    <3>3. RepliesRight'
      BY <2>1 DEF Allow, In, Inv, RepliesRight, Right
    <3>. QED
      BY <3>1, <3>2, <3>3
  <2>2. CASE Deny(r)
    <3>1. url[r] # None /\ ~ patched[r]
      BY <2>2 DEF Deny, In, Staged
    <3>2. decision' = [decision EXCEPT ![r] = "DENY"]
      BY <2>2 DEF Deny
    <3>3. StoreClean' /\ RepliesRight'
      BY <2>2, <3>1, <3>2, JsonRight DEF Deny
    <3>4. BehindGate'
      BY <2>2 DEF Deny, In, Inv, BehindGate
    <3>. QED
      BY <3>3, <3>4
  <2>3. CASE Hit(r)
    <3>1. url[r] \in Urls /\ cache[url[r]] \in Body
      BY <2>3 DEF Hit, In, Key, Staged
    <3>2. Storable(url[r], cache[url[r]])
      BY <2>3, <3>1 DEF Hit, Key, Inv, StoreClean
    <3>3. reply' = [reply EXCEPT ![r] = [status |-> 200, body |-> cache[url[r]]]]
      BY <2>3 DEF Hit, Key
    <3>4. reply'[r].body = cache[url[r]]
      BY <3>3
    <3>5. decision[r] = "ALLOW" \/ url[r] \in HealthUrls
      BY <2>3 DEF Hit, In, Inv, BehindGate
    <3>6. Right(r)'
      BY <2>3, <3>2, <3>4, <3>5 DEF Hit, Right, Storable
    <3>7. RepliesRight'
      BY <2>3, <3>3, <3>6 DEF Hit, Inv, RepliesRight, Right
    <3>8. StoreClean' /\ BehindGate'
      BY <2>3 DEF Hit, Inv, StoreClean, Storable, BehindGate
    <3>. QED
      BY <3>7, <3>8
  <2>4. CASE Miss(r)
    <3>1. StoreClean' /\ RepliesRight'
      BY <2>4 DEF Miss, Inv, StoreClean, Storable, RepliesRight, Right
    <3>2. BehindGate'
      BY <2>4 DEF Miss, In, Pass, Inv, BehindGate
    <3>. QED
      BY <3>1, <3>2
  <2>5. CASE Find(r)
    <3>1. url[r] # None
      BY <2>5 DEF Find, In, Staged
    <3>2. BehindGate'
      BY <2>5 DEF Find, In, Pass, Inv, BehindGate
    <3>3. UNCHANGED <<url, decision, cache>>
      BY <2>5 DEF Find
    <3>4. CASE Json(r, 400, "error")
      BY <3>1, <3>2, <3>3, <3>4, JsonRight
    <3>5. CASE Json(r, 500, "error")
      BY <3>1, <3>2, <3>3, <3>5, JsonRight
    <3>6. CASE UNCHANGED <<reply, writes>>
      BY <3>2, <3>3, <3>6 DEF Inv, StoreClean, Storable, RepliesRight, Right
    <3>. QED
      BY <2>5, <3>4, <3>5, <3>6 DEF Find
  <2>6. CASE Answer(r)
    <3>1. url[r] # None
      BY <2>6 DEF Answer, In, Staged
    <3>2. BehindGate'
      BY <2>6 DEF Answer, In, Inv, BehindGate
    <3>3. decision[r] = "ALLOW" \/ url[r] \in HealthUrls
      BY <2>6 DEF Answer, In, Inv, BehindGate
    <3>4. CASE url[r] \in HealthUrls
      BY <2>6, <3>1, <3>2, <3>4, JsonRight DEF Answer
    <3>5. CASE url[r] \notin HealthUrls
      BY <2>6, <3>1, <3>2, <3>3, <3>5, JsonRight DEF Answer
    <3>. QED
      BY <3>4, <3>5
  <2>7. CASE Fail(r)
    <3>1. url[r] # None
      BY <2>7 DEF Fail, In, Staged
    <3>2. BehindGate'
      BY <2>7 DEF Fail, Inv, BehindGate
    <3>. QED
      BY <2>7, <3>1, <3>2, JsonRight DEF Fail
  <2>. QED
    BY <1>2, <2>1, <2>2, <2>3, <2>4, <2>5, <2>6, <2>7 DEF Serve
<1>3. ASSUME NEW w \in writes, Land(w)
      PROVE StoreClean' /\ BehindGate' /\ RepliesRight'
  <2>1. Storable(w[1], w[2])
    BY DEF Inv, StoreClean
  <2>2. StoreClean'
    BY <1>3, <2>1 DEF Land, Inv, StoreClean, Storable
  <2>3. BehindGate' /\ RepliesRight'
    BY <1>3 DEF Land, Inv, BehindGate, RepliesRight, Right
  <2>. QED
    BY <2>2, <2>3
<1>4. ASSUME NEW w \in writes, Lose(w)
      PROVE StoreClean' /\ BehindGate' /\ RepliesRight'
  BY <1>4 DEF Lose, Inv, StoreClean, Storable, BehindGate, RepliesRight, Right
<1>5. ASSUME NEW u \in Urls, Expire(u)
      PROVE StoreClean' /\ BehindGate' /\ RepliesRight'
  BY <1>5 DEF Expire, Inv, StoreClean, Storable, BehindGate, RepliesRight, Right
<1>6. CASE ChangePolicy
  BY <1>6 DEF ChangePolicy, Inv, StoreClean, Storable, BehindGate, RepliesRight, Right
<1>7. CASE UNCHANGED vars
  BY <1>7 DEF vars, Inv, StoreClean, Storable, BehindGate, RepliesRight, Right
<1>. QED
  BY <1>1, <1>2, <1>3, <1>4, <1>5, <1>6, <1>7 DEF Next

\* The invariant, for any number of requests.
LEMMA Invariance == Spec => []Inv
BY InvInit, InvStep, PTL DEF Spec

\* Every reachable state is well typed (createRouter, CostInsightsCache).
THEOREM TypeCorrect == Spec => []TypeOK
<1>1. Inv => TypeOK
  BY DEF Inv, Typed
<1>. QED
  BY <1>1, Invariance, PTL

\* Whatever the cache holds, and however permissions change, a request gets costs
\* only if the gate allowed it: the cache hit does not bypass the gate.
THEOREM Gate == Spec => []CostsOnlyIfAllowed
<1>1. Inv => CostsOnlyIfAllowed
  BY DEF Inv, RepliesRight, Right, CostsOnlyIfAllowed
<1>. QED
  BY <1>1, Invariance, PTL

\* No caller is answered with the denial of another, whatever lands in the cache.
THEOREM OwnDenials == Spec => []DenialsAreOwn
<1>1. Inv => DenialsAreOwn
  BY DEF Inv, RepliesRight, Right, DenialsAreOwn
<1>. QED
  BY <1>1, Invariance, PTL

\* No reply was computed for another URL, whichever write landed last.
THEOREM RightUrl == Spec => []AnswersItsUrl
<1>1. Inv => AnswersItsUrl
  BY DEF Inv, RepliesRight, Right, AnswersItsUrl
<1>. QED
  BY <1>1, Invariance, PTL

-----------------------------------------------------------------------------
\* A request is not patched before its lookup; what its caller may read while it
\* is under way was shown to it; and costs of an entity are asked for, and computed,
\* only after the catalog has shown the entity.
ShownTo(r) ==
  /\ stage[r] = "lookup" => CacheEnabled /\ ~ patched[r]
  /\ url[r] # None /\ reply[r] = None /\ Readable(r) => shown[r]
  /\ stage[r] = "answer" /\ url[r] \in EntityUrls => shown[r]
  /\ Computed(r) /\ reply[r].body.kind = "cost" /\ url[r] \in EntityUrls => shown[r]

Shown == \A r \in Requests : ShownTo(r)

\* A step that leaves a request alone keeps what is said of it.
LEMMA ShownKept ==
  ASSUME NEW r \in Requests, ShownTo(r), stage'[r] = stage[r], patched'[r] = patched[r],
         url'[r] = url[r], shown'[r] = shown[r], reply'[r] = reply[r],
         caller'[r] = caller[r], visible' = visible
  PROVE  ShownTo(r)'
BY DEF ShownTo, Computed, Readable

\* Neither does a reply that holds no costs.
LEMMA ShownError ==
  ASSUME Typed, NEW r \in Requests, url[r] # None, UNCHANGED url,
         NEW status \in Status, NEW kind \in {"error", "denied", "ok"}, Json(r, status, kind),
         stage'[r] \notin {"lookup", "answer"} \/ (stage'[r] = "answer" /\ ShownTo(r) /\ UNCHANGED <<stage, shown>>)
  PROVE  ShownTo(r)'
<1>1. reply' = [reply EXCEPT ![r] = [status |-> status,
                                     body |-> [kind |-> kind, url |-> url[r]]]]
  BY JsonTyped
<1>2. reply'[r] # None
  BY JsonTyped
<1>3. reply'[r].body.kind = kind
  BY <1>1 DEF Typed, TypeOK
<1>. QED
  BY <1>2, <1>3 DEF ShownTo

\* Whatever is answered next is shown to its caller.
LEMMA ShownStep == Typed /\ Shown /\ [Next]_vars => Shown'
<1> SUFFICES ASSUME Typed, Shown, [Next]_vars PROVE Shown'
  OBVIOUS
<1> {200, 400, 403, 500} \subseteq Status /\ None \notin Urls
  BY UrlsAssumption DEF Status
<1> USE DEF Typed, TypeOK
<1>1. ASSUME NEW r \in Requests, NEW c \in Callers, NEW u \in Urls, Receive(r, c, u)
      PROVE Shown'
  <2>1. ShownTo(r)'
    <3>1. reply'[r] = None /\ ~ patched'[r] /\ stage'[r] = After("received", u)
      BY <1>1 DEF Receive, Staged
    <3>2. stage'[r] # "answer" /\ (stage'[r] = "lookup" => CacheEnabled)
      BY <3>1 DEF After
    <3>3. Readable(r)' => shown'[r]
      BY <1>1 DEF Receive, Readable
    <3>. QED
      BY <3>1, <3>2, <3>3 DEF ShownTo, Computed
  <2>2. ASSUME NEW q \in Requests \ {r} PROVE ShownTo(q)'
    BY <1>1, ShownKept DEF Receive, Shown
  <2>. QED
    BY <2>1, <2>2 DEF Shown
<1>2. ASSUME NEW r \in Requests, Serve(r) PROVE Shown'
  <2>1. ASSUME NEW q \in Requests \ {r} PROVE ShownTo(q)'
    <3>1. /\ stage'[q] = stage[q] /\ patched'[q] = patched[q] /\ url'[q] = url[q]
          /\ shown'[q] = shown[q] /\ reply'[q] = reply[q] /\ caller'[q] = caller[q]
          /\ visible' = visible
      BY <1>2 DEF Serve, Allow, Deny, Hit, Miss, Find, Answer, Fail, Pass, Json
    <3>. QED
      BY <3>1, ShownKept DEF Shown
  <2>a. ShownTo(r) /\ UNCHANGED <<url, caller, visible, shown>>
    BY <1>2 DEF Serve, Allow, Deny, Hit, Miss, Find, Answer, Fail, Shown
  <2>b. Readable(r)' <=> Readable(r)
    BY <2>a DEF Readable
  <2>2. CASE Allow(r)
    <3>1. /\ stage'[r] = After("gate", url[r]) /\ reply[r] = None /\ reply'[r] = None
          /\ ~ patched'[r] /\ url[r] # None
      BY <2>2 DEF Allow, In, Pass, Staged
    <3>2. stage'[r] # "answer" /\ (stage'[r] = "lookup" => CacheEnabled)
      BY <3>1 DEF After
    <3>. QED
      BY <2>1, <2>a, <2>b, <3>1, <3>2 DEF Shown, ShownTo, Computed
  <2>3. CASE Deny(r)
    <3>1. ShownTo(r)'
      BY <2>3, ShownError DEF Deny, In, Staged
    <3>. QED
      BY <2>1, <3>1 DEF Shown
  <2>4. CASE Hit(r)
    <3>1. CacheEnabled /\ ~ patched[r]
      BY <2>4 DEF Hit, In, Shown, ShownTo
    <3>2. ~ Computed(r)' /\ stage'[r] = "lookup" /\ ~ patched'[r]
      BY <2>4, <3>1 DEF Hit, In, Computed
    <3>3. url[r] \in Urls /\ cache[url[r]] \in Body
      BY <2>4 DEF Hit, In, Key, Staged
    <3>4. [status |-> 200, body |-> cache[Key(url[r])]] \in Reply
      BY <3>3 DEF Reply, Key
    <3>5. reply'[r] # None
      BY <2>4, <3>4, UrlsAssumption DEF Hit
    <3>. QED
      BY <2>1, <3>1, <3>2, <3>5 DEF Shown, ShownTo
  <2>5. CASE Miss(r)
    <3>1. stage'[r] = "find" /\ reply[r] = None /\ reply'[r] = None
      BY <2>5 DEF Miss, In, Pass, After
    <3>. QED
      BY <2>1, <2>a, <2>b, <3>1 DEF Shown, ShownTo, Computed
  <2>6. CASE Find(r)
    <3>1. url[r] # None /\ UNCHANGED url /\ stage[r] = "find" /\ reply[r] = None
      BY <2>6 DEF Find, In, Staged
    <3>2. CASE (Json(r, 400, "error") \/ Json(r, 500, "error")) /\ UNCHANGED stage
      <4>1. ShownTo(r)'
        BY <3>1, <3>2, ShownError
      <4>. QED
        BY <2>1, <4>1 DEF Shown
    <3>3. CASE /\ url[r] \notin InvalidUrls /\ (url[r] \in EntityUrls => Readable(r))
               /\ Pass(r) /\ UNCHANGED <<reply, writes>>
      <4>1. stage'[r] = "answer" /\ (url[r] \in EntityUrls => shown[r])
        BY <2>6, <2>a, <3>1, <3>3 DEF Find, Pass, After, ShownTo
      <4>2. reply'[r] = None
        BY <3>1, <3>3
      <4>. QED
        BY <2>1, <2>a, <2>b, <3>1, <3>3, <4>1, <4>2 DEF Shown, ShownTo, Computed
    <3>. QED
      BY <2>6, <3>2, <3>3 DEF Find
  <2>7. CASE Answer(r)
    <3>1. stage'[r] = "answer" /\ (url[r] \in EntityUrls => shown'[r]) /\ UNCHANGED url
      BY <2>7 DEF Answer, In, Shown, ShownTo
    <3>2. url[r] # None /\ (Json(r, 200, "ok") \/ Json(r, 200, "cost"))
      BY <2>7 DEF Answer, In, Staged
    <3>3. reply'[r] # None
      BY <3>2, JsonTyped
    <3>. QED
      BY <2>1, <3>1, <3>3 DEF Shown, ShownTo
  <2>8. CASE Fail(r)
    <3>1. url[r] # None /\ UNCHANGED <<url, stage, shown>> /\ stage[r] \in {"gate", "find", "answer"}
      BY <2>8 DEF Fail, In, Staged
    <3>2. ShownTo(r)'
      BY <2>8, <3>1, ShownError DEF Fail, Shown
    <3>. QED
      BY <2>1, <3>2 DEF Shown
  <2>. QED
    BY <1>2, <2>2, <2>3, <2>4, <2>5, <2>6, <2>7, <2>8 DEF Serve
<1>3. CASE \/ \E w \in writes : Land(w) \/ Lose(w)
           \/ \E u \in Urls : Expire(u)
           \/ UNCHANGED vars
  <2>1. UNCHANGED <<stage, patched, url, shown, reply, caller, visible>>
    BY <1>3 DEF Land, Lose, Expire, vars
  <2>. QED
    BY <2>1, ShownKept DEF Shown
<1>4. CASE ChangePolicy
  <2>1. UNCHANGED <<stage, patched, url, reply>>
    BY <1>4 DEF ChangePolicy
  <2>2. \A r \in Requests :
          shown'[r] <=> (shown[r] \/ (url[r] # None /\ reply[r] = None /\ Readable(r)'))
    BY <1>4 DEF ChangePolicy
  <2>. QED
    BY <2>1, <2>2 DEF Shown, ShownTo, Computed
<1>. QED
  BY <1>1, <1>2, <1>3, <1>4 DEF Next

\* A handler computes the costs of an entity only for a caller who could read that
\* entity in the catalog during the request, however the catalog changes under way.
THEOREM ShownEntities == Spec => []ComputedCostsNeedEntity
<1>1. Init => Shown
  BY DEF Init, Shown, ShownTo, Computed
<1>2. Typed /\ Shown /\ [Next]_vars => Shown'
  BY ShownStep
<1>3. Inv => Typed
  BY DEF Inv
<1>4. Shown => ComputedCostsNeedEntity
  BY DEF Shown, ShownTo, ComputedCostsNeedEntity
<1>. QED
  BY <1>1, <1>2, <1>3, <1>4, Invariance, PTL DEF Spec

-----------------------------------------------------------------------------
(* Sums.  SumFunctionOnSet is a fold: a recursive function on the subsets of a *)
(* set, about which the library states nothing.                                *)

\* Any natural numbers have a least.
LEMMA Least ==
  ASSUME NEW T \in SUBSET Nat, T # {}
  PROVE  \E x \in T : \A y \in T : x <= y
<1> DEFINE R == OpToRel(<, Nat)
<1>1. \E x \in T : \A y \in T : ~ (<<y, x>> \in R)
  BY NatLessThanWellFounded, WFMin
<1>2. \A x, y \in Nat : y < x => <<y, x>> \in R
  BY DEF OpToRel
<1>3. PICK x \in T : \A y \in T : ~ (<<y, x>> \in R)
  BY <1>1
<1>4. \A y \in T : ~ (y < x)
  BY <1>2, <1>3
<1>5. \A y \in T : x <= y
  BY <1>4
<1>. QED
  BY <1>5

\* Of any subsets of a finite set there is one that has no other within it.
LEMMA Smallest ==
  ASSUME NEW S, IsFiniteSet(S), NEW W \in SUBSET (SUBSET S), W # {}
  PROVE  \E T \in W : \A U \in SUBSET T : U # T => U \notin W
<1>1. \A T \in W : IsFiniteSet(T) /\ Cardinality(T) \in Nat
  BY FS_Subset, FS_CardinalityType
<1> DEFINE Ranks == {Cardinality(T) : T \in W}
<1>2. Ranks \in SUBSET Nat /\ Ranks # {}
  BY <1>1
<1>3. PICK n \in Ranks : \A k \in Ranks : n <= k
  <2> HIDE DEF Ranks
  <2>. QED
    BY <1>2, Least
<1>4. PICK T \in W : n = Cardinality(T)
  OBVIOUS
<1>5. ASSUME NEW U \in SUBSET T, U # T, U \in W PROVE FALSE
  <2>1. Cardinality(U) <= Cardinality(T) /\ Cardinality(U) # Cardinality(T)
    BY <1>1, <1>5, FS_Subset
  <2>2. Cardinality(T) <= Cardinality(U)
    BY <1>3, <1>4, <1>5
  <2>. QED
    BY <1>1, <1>5, <2>1, <2>2
<1>. QED
  BY <1>5

\* SumFunctionOnSet as a recursive function, which takes one element at a time.
OneOf(s) == CHOOSE x \in s : TRUE
SumsUpTo(it, f, S) ==
  it = [s \in SUBSET S |-> IF s = {} THEN 0 ELSE f[OneOf(s)] + it[s \ {OneOf(s)}]]

\* Two such functions agree where both are defined.
LEMMA SumsAgree ==
  ASSUME NEW f, NEW S, NEW T, IsFiniteSet(S), NEW a, NEW b, SumsUpTo(a, f, S), SumsUpTo(b, f, T)
  PROVE  \A U \in SUBSET (S \cap T) : a[U] = b[U]
<1> DEFINE W == {U \in SUBSET (S \cap T) : a[U] # b[U]}
<1>1. SUFFICES ASSUME W # {} PROVE FALSE
  OBVIOUS
<1>2. W \in SUBSET (SUBSET S)
  OBVIOUS
<1>3. PICK U \in W : \A V \in SUBSET U : V # U => V \notin W
  <2> HIDE DEF W
  <2>. QED
    BY <1>1, <1>2, Smallest
<1>4. U \in SUBSET S /\ U \in SUBSET T
  OBVIOUS
<1> DEFINE x == OneOf(U)
<1>5. /\ a[U] = IF U = {} THEN 0 ELSE f[x] + a[U \ {x}]
      /\ b[U] = IF U = {} THEN 0 ELSE f[x] + b[U \ {x}]
  BY <1>4 DEF SumsUpTo
<1>6. CASE U = {}
  BY <1>5, <1>6
<1>7. CASE U # {}
  <2>1. x \in U
    BY <1>7 DEF OneOf
  <2>2. U \ {x} \in SUBSET U /\ U \ {x} # U
    BY <2>1
  <2> HIDE DEF x
  <2>3. U \ {x} \notin W
    BY <1>3, <2>2
  <2>4. a[U \ {x}] = b[U \ {x}]
    BY <1>4, <2>3
  <2>. QED
    BY <1>5, <1>7, <2>4
<1>. QED
  BY <1>6, <1>7

\* There is one for every finite set.
LEMMA SumsExist ==
  ASSUME NEW f, NEW S, IsFiniteSet(S)
  PROVE  \E it : SumsUpTo(it, f, S)
<1> DEFINE Summed(U) == \E it : SumsUpTo(it, f, U)
           W == {U \in SUBSET S : ~ Summed(U)}
<1>1. SUFFICES ASSUME W # {} PROVE FALSE
  OBVIOUS
<1>2. PICK U \in W : \A V \in SUBSET U : V # U => V \notin W
  <2>1. W \in SUBSET (SUBSET S)
    OBVIOUS
  <2> HIDE DEF W
  <2>. QED
    BY <1>1, <2>1, Smallest
<1> DEFINE it(V) == CHOOSE g : SumsUpTo(g, f, V)
           h == [s \in SUBSET U |-> IF s = {} THEN 0 ELSE f[OneOf(s)] + it(s \ {OneOf(s)})[s \ {OneOf(s)}]]
<1>3. \A V \in SUBSET U : V # U => SumsUpTo(it(V), f, V)
  <2>1. \A V \in SUBSET U : V # U => Summed(V)
    BY <1>2
  <2> QED
    BY <2>1
<1>4. \A s : s # {} => OneOf(s) \in s
  BY DEF OneOf
<1> HIDE DEF it
<1>5. ASSUME NEW V \in SUBSET U, V # U PROVE it(V)[V] = h[V]
  <2>1. it(V)[V] = IF V = {} THEN 0 ELSE f[OneOf(V)] + it(V)[V \ {OneOf(V)}]
    BY <1>3, <1>5 DEF SumsUpTo
  <2>2. CASE V = {}
    BY <2>1, <2>2
  <2>3. CASE V # {}
    <3> DEFINE R == V \ {OneOf(V)}
    <3>1. R \in SUBSET U /\ R # U /\ R \in SUBSET (V \cap R)
      BY <1>4, <1>5, <2>3
    <3>2. SumsUpTo(it(V), f, V) /\ SumsUpTo(it(R), f, R)
      BY <1>3, <1>5, <3>1
    <3>3. IsFiniteSet(V)
      BY <1>2, FS_Subset
    <3>4. it(V)[R] = it(R)[R]
      <4> HIDE DEF R
      <4>. QED
        BY <3>1, <3>2, <3>3, SumsAgree
    <3>. QED
      BY <2>1, <2>3, <3>4
  <2>. QED
    BY <2>2, <2>3
<1>6. ASSUME NEW s \in SUBSET U PROVE h[s] = IF s = {} THEN 0 ELSE f[OneOf(s)] + h[s \ {OneOf(s)}]
  <2>1. CASE s = {}
    BY <2>1
  <2>2. CASE s # {}
    <3>1. s \ {OneOf(s)} \in SUBSET U /\ s \ {OneOf(s)} # U
      BY <1>4, <2>2
    <3>2. it(s \ {OneOf(s)})[s \ {OneOf(s)}] = h[s \ {OneOf(s)}]
      BY <1>5, <3>1
    <3>. QED
      BY <2>2, <3>2
  <2>. QED
    BY <2>1, <2>2
<1>7. SumsUpTo(h, f, U)
  <2>1. h = [s \in SUBSET U |-> h[s]]
    OBVIOUS
  <2> HIDE DEF h
  <2>. QED
    BY <1>6, <2>1 DEF SumsUpTo
<1>. QED
  BY <1>2, <1>7

\* SumFunctionOnSet is the value at its set of a chosen such function.
LEMMA SumIsChoice ==
  ASSUME NEW f, NEW S
  PROVE SumFunctionOnSet(f, S) = (CHOOSE it : SumsUpTo(it, f, S))[S]
BY DEF SumFunctionOnSet, FoldFunctionOnSet, MapThenFoldSet, SumsUpTo, OneOf

\* The sum over a set is one value and the sum over the rest of it.
LEMMA SumUnfolds ==
  ASSUME NEW f, NEW S, IsFiniteSet(S)
  PROVE  /\ SumFunctionOnSet(f, {}) = 0
         /\ S # {} => SumFunctionOnSet(f, S) = f[OneOf(S)] + SumFunctionOnSet(f, S \ {OneOf(S)})
<1> DEFINE it(V) == CHOOSE g : SumsUpTo(g, f, V)
<1>1. ASSUME NEW V, IsFiniteSet(V) PROVE SumsUpTo(it(V), f, V)
  BY <1>1, SumsExist
<1>2. ASSUME NEW V PROVE SumFunctionOnSet(f, V) = it(V)[V]
  BY SumIsChoice
<1> HIDE DEF it
<1>3. it({})[{}] = 0
  <2>1. SumsUpTo(it({}), f, {})
    BY <1>1, FS_EmptySet
  <2>. QED
    BY <2>1 DEF SumsUpTo
<1>4. ASSUME S # {} PROVE it(S)[S] = f[OneOf(S)] + it(S \ {OneOf(S)})[S \ {OneOf(S)}]
  <2> DEFINE R == S \ {OneOf(S)}
  <2>1. IsFiniteSet(R) /\ R \in SUBSET (S \cap R)
    BY FS_Subset
  <2>2. it(S)[S] = f[OneOf(S)] + it(S)[R]
    BY <1>1, <1>4 DEF SumsUpTo
  <2> HIDE DEF R
  <2>3. it(S)[R] = it(R)[R]
    BY <1>1, <2>1, SumsAgree
  <2>. QED
    BY <2>2, <2>3 DEF R
<1>. QED
  BY <1>2, <1>3, <1>4

\* The sums below are of integers.
Ints(f, S) == \A x \in S : f[x] \in Int
Total(f, S) == SumFunctionOnSet(f, S)

\* The sum over no element is zero.
LEMMA SumOfNone == \A f : Total(f, {}) = 0
  BY SumUnfolds, FS_EmptySet DEF Total

\* A sum of integers is an integer.
LEMMA SumIsInt ==
  ASSUME NEW f, NEW S, IsFiniteSet(S), Ints(f, S)
  PROVE  Total(f, S) \in Int
<1> DEFINE W == {U \in SUBSET S : Total(f, U) \notin Int}
<1>1. SUFFICES ASSUME W # {} PROVE FALSE
  OBVIOUS
<1>2. PICK U \in W : \A V \in SUBSET U : V # U => V \notin W
  <2>1. W \in SUBSET (SUBSET S)
    OBVIOUS
  <2> HIDE DEF W
  <2>. QED
    BY <1>1, <2>1, Smallest
<1>3. IsFiniteSet(U)
  BY <1>2, FS_Subset
<1>4. U # {}
  <2>1. {} \notin W
    BY SumOfNone
  <2> HIDE DEF W
  <2>. QED
    BY <1>2, <2>1
<1>5. OneOf(U) \in U
  BY <1>4 DEF OneOf
<1>6. U \ {OneOf(U)} \in SUBSET U /\ U \ {OneOf(U)} # U
  BY <1>5
<1>7. Total(f, U \ {OneOf(U)}) \in Int
  BY <1>2, <1>6
<1>8. Total(f, U) = f[OneOf(U)] + Total(f, U \ {OneOf(U)})
  BY <1>3, <1>4, SumUnfolds DEF Total
<1>. QED
  BY <1>2, <1>5, <1>7, <1>8 DEF Ints

\* It does not matter which value is taken first.
LEMMA SumTakes ==
  ASSUME NEW f, NEW S, IsFiniteSet(S), Ints(f, S), NEW e \in S
  PROVE  Total(f, S) = f[e] + Total(f, S \ {e})
<1> DEFINE Takes(U) == \A x \in U : Total(f, U) = f[x] + Total(f, U \ {x})
           W == {U \in SUBSET S : ~ Takes(U)}
<1>1. SUFFICES ASSUME W # {} PROVE FALSE
  OBVIOUS
<1>2. PICK U \in W : \A V \in SUBSET U : V # U => V \notin W
  <2>1. W \in SUBSET (SUBSET S)
    OBVIOUS
  <2> HIDE DEF W
  <2>. QED
    BY <1>1, <2>1, Smallest
<1>3. U \in SUBSET S /\ \A V \in SUBSET U : V # U => Takes(V)
  BY <1>2
<1>4. \A V \in SUBSET S : IsFiniteSet(V) /\ Total(f, V) \in Int
  BY FS_Subset, SumIsInt DEF Ints
<1>5. PICK x \in U : Total(f, U) # f[x] + Total(f, U \ {x})
  BY <1>2
<1> DEFINE y == OneOf(U)
<1>6. y \in U
  BY <1>5 DEF OneOf
<1>7. Total(f, U) = f[y] + Total(f, U \ {y})
  BY <1>3, <1>4, <1>5, SumUnfolds DEF Total
<1> HIDE DEF y, Takes
<1>8. x # y
  BY <1>5, <1>7
<1>9. Takes(U \ {y}) /\ Takes(U \ {x})
  <2>1. U \ {y} \in SUBSET U /\ U \ {y} # U /\ U \ {x} \in SUBSET U /\ U \ {x} # U
    BY <1>5, <1>6
  <2>. QED
    BY <1>3, <2>1
<1>10. Total(f, U \ {y}) = f[x] + Total(f, (U \ {y}) \ {x})
  BY <1>8, <1>9 DEF Takes
<1>11. Total(f, U \ {x}) = f[y] + Total(f, (U \ {x}) \ {y})
  BY <1>6, <1>8, <1>9 DEF Takes
<1>12. (U \ {x}) \ {y} = (U \ {y}) \ {x} /\ (U \ {y}) \ {x} \in SUBSET S
  BY <1>3
<1>13. f[x] \in Int /\ f[y] \in Int /\ Total(f, (U \ {y}) \ {x}) \in Int
  BY <1>3, <1>4, <1>6, <1>12 DEF Ints
<1> HIDE DEF W
<1>14. Total(f, U \ {x}) = f[y] + Total(f, (U \ {y}) \ {x})
  BY <1>11, <1>12
<1>. QED
  BY <1>5, <1>7, <1>10, <1>13, <1>14

\* Functions with the same values have the same sum.
LEMMA SumSame ==
  ASSUME NEW f, NEW g, NEW S, IsFiniteSet(S), \A x \in S : f[x] = g[x]
  PROVE  Total(f, S) = Total(g, S)
<1> DEFINE W == {U \in SUBSET S : Total(f, U) # Total(g, U)}
<1>1. SUFFICES ASSUME W # {} PROVE FALSE
  OBVIOUS
<1>2. PICK U \in W : \A V \in SUBSET U : V # U => V \notin W
  <2>1. W \in SUBSET (SUBSET S)
    OBVIOUS
  <2> HIDE DEF W
  <2>. QED
    BY <1>1, <2>1, Smallest
<1>3. IsFiniteSet(U)
  BY <1>2, FS_Subset
<1>4. U # {}
  BY <1>2, <1>3, SumUnfolds DEF Total
<1>5. OneOf(U) \in U /\ f[OneOf(U)] = g[OneOf(U)]
  <2>1. OneOf(U) \in U
    BY <1>4 DEF OneOf
  <2>. QED
    BY <1>2, <2>1
<1>6. U \ {OneOf(U)} \in SUBSET U /\ U \ {OneOf(U)} # U
  BY <1>5
<1>7. Total(f, U \ {OneOf(U)}) = Total(g, U \ {OneOf(U)})
  BY <1>2, <1>6
<1>8. /\ Total(f, U) = f[OneOf(U)] + Total(f, U \ {OneOf(U)})
      /\ Total(g, U) = g[OneOf(U)] + Total(g, U \ {OneOf(U)})
  BY <1>3, <1>4, SumUnfolds DEF Total
<1>. QED
  BY <1>2, <1>5, <1>7, <1>8

\* The sum over two sets that share nothing.
LEMMA SumJoins ==
  ASSUME NEW f, NEW S, NEW T, IsFiniteSet(S), IsFiniteSet(T), S \cap T = {}, Ints(f, S \cup T)
  PROVE  /\ IsFiniteSet(S \cup T)
         /\ Total(f, S \cup T) = Total(f, S) + Total(f, T)
<1> DEFINE W == {U \in SUBSET S : Total(f, U \cup T) # Total(f, U) + Total(f, T)}
<1>1. SUFFICES ASSUME W # {} PROVE FALSE
  <2>1. S \notin W
    BY <1>1
  <2>. QED
    BY <2>1, FS_Union
<1>2. PICK U \in W : \A V \in SUBSET U : V # U => V \notin W
  <2>1. W \in SUBSET (SUBSET S)
    OBVIOUS
  <2> HIDE DEF W
  <2>. QED
    BY <1>1, <2>1, Smallest
<1>3. /\ \A V \in SUBSET U : IsFiniteSet(V) /\ Ints(f, V) /\ Total(f, V) \in Int
      /\ Ints(f, T) /\ Total(f, T) \in Int
      /\ IsFiniteSet(U \cup T) /\ Ints(f, U \cup T)
  <2>1. \A V \in SUBSET U : IsFiniteSet(V) /\ Ints(f, V)
    BY <1>2, FS_Subset DEF Ints
  <2>2. Ints(f, T) /\ Ints(f, U \cup T)
    BY <1>2 DEF Ints
  <2>3. IsFiniteSet(U \cup T)
    BY <2>1, FS_Union
  <2>. QED
    BY <2>1, <2>2, <2>3, SumIsInt
<1>4. U # {}
  <2>1. ASSUME U = {} PROVE FALSE
    <3>1. Total(f, {} \cup T) # Total(f, {}) + Total(f, T)
      BY <1>2, <2>1
    <3>2. {} \cup T = T
      OBVIOUS
    <3>. QED
      BY <1>3, <3>1, <3>2, SumOfNone
  <2>. QED
    BY <2>1
<1>5. PICK x \in U : TRUE
  BY <1>4
<1>6. Total(f, U) = f[x] + Total(f, U \ {x})
  BY <1>3, SumTakes
<1>7. Total(f, U \cup T) = f[x] + Total(f, (U \ {x}) \cup T)
  <2>1. (U \cup T) \ {x} = (U \ {x}) \cup T
    BY <1>2
  <2>2. x \in U \cup T
    BY <1>5
  <2>3. Total(f, U \cup T) = f[x] + Total(f, (U \cup T) \ {x})
    BY <1>3, <2>2, SumTakes
  <2>. QED
    BY <2>1, <2>3
<1>8. Total(f, (U \ {x}) \cup T) = Total(f, U \ {x}) + Total(f, T)
  <2>1. U \ {x} \in SUBSET U /\ U \ {x} # U
    BY <1>5
  <2>. QED
    BY <1>2, <2>1
<1>9. f[x] \in Int /\ Total(f, U \ {x}) \in Int
  BY <1>3, <1>5 DEF Ints
<1>10. Total(f, U \cup T) = Total(f, U) + Total(f, T)
  BY <1>3, <1>6, <1>7, <1>8, <1>9
<1>. QED
  BY <1>2, <1>10

\* Finitely many finite sets, no two of which share a member.
Parts(P, I) ==
  /\ IsFiniteSet(I) /\ \A i \in I : IsFiniteSet(P[i])
  /\ \A i, j \in I : i # j => P[i] \cap P[j] = {}

\* The sums over the parts of a set add up to the sum over the set.
LEMMA SumOfParts ==
  ASSUME NEW f, NEW I, NEW P, Parts(P, I), NEW g,
         \A i \in I : Ints(f, P[i]) /\ g[i] = Total(f, P[i])
  PROVE  /\ IsFiniteSet(UNION {P[i] : i \in I})
         /\ Total(g, I) = Total(f, UNION {P[i] : i \in I})
<1> DEFINE Over(J) == UNION {P[i] : i \in J}
           Adds(J) == IsFiniteSet(Over(J)) /\ Total(g, J) = Total(f, Over(J))
           W == {U \in SUBSET I : ~ Adds(U)}
<1>0. IsFiniteSet(I)
  BY DEF Parts
<1>1. SUFFICES ASSUME W # {} PROVE FALSE
  <2>1. I \notin W
    BY <1>1
  <2>. QED
    BY <2>1
<1>2. PICK U \in W : \A V \in SUBSET U : V # U => V \notin W
  <2>1. W \in SUBSET (SUBSET I)
    OBVIOUS
  <2> HIDE DEF W
  <2>. QED
    BY <1>0, <1>1, <2>1, Smallest
<1>3. U # {}
  <2>1. ASSUME U = {} PROVE FALSE
    <3>1. Over(U) = {}
      BY <2>1
    <3>. QED
      BY <1>2, <2>1, <3>1, SumOfNone, FS_EmptySet
  <2>. QED
    BY <2>1
<1>4. PICK x \in U : TRUE
  BY <1>3
<1>5. U \in SUBSET I /\ U \ {x} \in SUBSET U /\ U \ {x} # U /\ U \ {x} \in SUBSET I /\ x \in I
  BY <1>4
<1>6. Adds(U \ {x})
  <2> HIDE DEF Adds
  <2>. QED
    BY <1>2, <1>5
<1>7. Over(U) = P[x] \cup Over(U \ {x})
  BY <1>4
<1>8. P[x] \cap Over(U \ {x}) = {}
  BY <1>5 DEF Parts
<1>9. Ints(f, P[x]) /\ Ints(f, Over(U \ {x})) /\ Ints(f, P[x] \cup Over(U \ {x}))
  BY <1>5 DEF Ints
<1>10. IsFiniteSet(P[x])
  BY <1>5 DEF Parts
<1> HIDE DEF Over
<1>11. /\ IsFiniteSet(Over(U))
       /\ Total(f, Over(U)) = Total(f, P[x]) + Total(f, Over(U \ {x}))
  <2> DEFINE rest == Over(U \ {x})
             part == P[x]
  <2>1. IsFiniteSet(rest) /\ IsFiniteSet(part) /\ part \cap rest = {} /\ Ints(f, part \cup rest)
    BY <1>6, <1>8, <1>9, <1>10
  <2> HIDE DEF rest, part
  <2>2. IsFiniteSet(part \cup rest) /\ Total(f, part \cup rest) = Total(f, part) + Total(f, rest)
    BY <2>1, SumJoins
  <2>. QED
    BY <1>7, <2>2 DEF rest, part
<1>12. Ints(g, U)
  <2>1. \A i \in I : IsFiniteSet(P[i])
    BY DEF Parts
  <2>2. \A i \in I : Total(f, P[i]) \in Int
    BY <2>1, SumIsInt
  <2>. QED
    BY <1>5, <2>2 DEF Ints
<1>13. Total(g, U) = g[x] + Total(g, U \ {x})
  <2>1. IsFiniteSet(U)
    BY <1>0, <1>5, FS_Subset
  <2>. QED
    BY <1>4, <1>12, <2>1, SumTakes
<1>14. Total(g, U) = Total(f, Over(U))
  BY <1>5, <1>6, <1>11, <1>13
<1>. QED
  BY <1>2, <1>11, <1>14

\* A sum of natural numbers is one.
LEMMA SumIsNat ==
  ASSUME NEW f, NEW S, IsFiniteSet(S), \A x \in S : f[x] \in Nat
  PROVE  Total(f, S) \in Nat
<1> DEFINE W == {U \in SUBSET S : Total(f, U) \notin Nat}
<1>1. SUFFICES ASSUME W # {} PROVE FALSE
  OBVIOUS
<1>2. PICK U \in W : \A V \in SUBSET U : V # U => V \notin W
  <2>1. W \in SUBSET (SUBSET S)
    OBVIOUS
  <2> HIDE DEF W
  <2>. QED
    BY <1>1, <2>1, Smallest
<1>3. IsFiniteSet(U)
  BY <1>2, FS_Subset
<1>4. U # {}
  <2>1. {} \notin W
    BY SumOfNone
  <2> HIDE DEF W
  <2>. QED
    BY <1>2, <2>1
<1>5. OneOf(U) \in U
  BY <1>4 DEF OneOf
<1>6. U \ {OneOf(U)} \in SUBSET U /\ U \ {OneOf(U)} # U
  BY <1>5
<1>7. Total(f, U \ {OneOf(U)}) \in Nat /\ f[OneOf(U)] \in Nat
  BY <1>2, <1>5, <1>6
<1>8. Total(f, U) = f[OneOf(U)] + Total(f, U \ {OneOf(U)})
  BY <1>3, <1>4, SumUnfolds DEF Total
<1>. QED
  BY <1>2, <1>7, <1>8

\* Values that differ by at most e have sums that differ by at most e for each.
LEMMA SumsAreNear ==
  ASSUME NEW e \in Nat, NEW f, NEW g, NEW S, IsFiniteSet(S), Ints(f, S), Ints(g, S),
         \A x \in S : f[x] - g[x] \in -e..e
  PROVE  Total(f, S) - Total(g, S) \in -(e * Cardinality(S))..e * Cardinality(S)
<1> DEFINE Near(U) == Total(f, U) - Total(g, U) \in -(e * Cardinality(U))..e * Cardinality(U)
           W == {U \in SUBSET S : ~ Near(U)}
<1>1. SUFFICES ASSUME W # {} PROVE FALSE
  <2>1. S \notin W
    BY <1>1
  <2>. QED
    BY <2>1
<1>2. PICK U \in W : \A V \in SUBSET U : V # U => V \notin W
  <2>1. W \in SUBSET (SUBSET S)
    OBVIOUS
  <2> HIDE DEF W
  <2>. QED
    BY <1>1, <2>1, Smallest
<1>3. IsFiniteSet(U) /\ U \in SUBSET S
  BY <1>2, FS_Subset
<1>4. U # {}
  <2>1. Near({})
    <3>1. e * 0 = 0
      OBVIOUS
    <3>. QED
      BY <3>1, SumOfNone, FS_EmptySet
  <2>. QED
    BY <1>2, <2>1
<1>5. PICK x \in U : TRUE
  BY <1>4
<1> DEFINE R == U \ {x}
<1>6. R \in SUBSET U /\ R # U
  BY <1>5
<1>7. Near(R)
  <2> HIDE DEF R, Near
  <2>. QED
    BY <1>2, <1>6
<1>8. /\ Ints(f, U) /\ Ints(g, U) /\ Ints(f, R) /\ Ints(g, R) /\ IsFiniteSet(R)
      /\ f[x] \in Int /\ g[x] \in Int /\ f[x] - g[x] \in -e..e
  BY <1>3, <1>6, FS_Subset DEF Ints
<1>9. /\ Total(f, U) = f[x] + Total(f, R)
      /\ Total(g, U) = g[x] + Total(g, R)
  BY <1>3, <1>8, SumTakes
<1>10. Total(f, R) \in Int /\ Total(g, R) \in Int
  BY <1>8, SumIsInt
<1>11. /\ Cardinality(R) \in Nat /\ Cardinality(U) \in Nat
       /\ Cardinality(R) = Cardinality(U) - 1
  BY <1>3, <1>8, FS_RemoveElement, FS_CardinalityType
<1> DEFINE n == Cardinality(R)
           less == e * n
<1>12. Cardinality(U) = n + 1 /\ n \in Nat
  BY <1>11
<1> HIDE DEF n, R
<1>13. e * Cardinality(U) = less + e /\ less \in Int
  BY <1>12
<1>14. Total(f, R) - Total(g, R) \in -less..less
  BY <1>7 DEF n
<1> HIDE DEF less
<1>15. Near(U)
  BY <1>8, <1>9, <1>10, <1>13, <1>14
<1>. QED
  BY <1>2, <1>15

-----------------------------------------------------------------------------
(* The calendar. *)

\* The months of the calendar.
Ms == 1..Len(Months)

\* A month begins where the one before ends; the first begins with day 0.
LEMMA MonthsFollow ==
  /\ Len(Months) \in Nat \ {0} /\ DOMAIN Months = Ms /\ \A m \in Ms : Months[m] \in Nat \ {0}
  /\ MonthStart(1) = 0 /\ MonthStart(Len(Months) + 1) = DayCount
  /\ \A m \in 1..Len(Months) + 1 : MonthStart(m) \in Nat
  /\ \A m \in Ms : MonthStart(m + 1) = MonthStart(m) + Months[m]
<1>1. Len(Months) \in Nat \ {0} /\ DOMAIN Months = Ms /\ \A m \in Ms : Months[m] \in Nat \ {0}
  BY CalendarAssumption DEF Ms
<1>2. \A m : MonthStart(m) = Total(Months, 1..m - 1)
  BY DEF MonthStart, Total
<1>3. ASSUME NEW m \in 1..Len(Months) + 1
      PROVE  /\ IsFiniteSet(1..m - 1) /\ \A x \in 1..m - 1 : Months[x] \in Nat
             /\ MonthStart(m) \in Nat
  <2>1. m \in Int /\ \A x \in 1..m - 1 : x \in Ms
    BY <1>1 DEF Ms
  <2>2. IsFiniteSet(1..m - 1)
    BY <2>1, FS_Interval
  <2>. QED
    BY <1>1, <1>2, <2>1, <2>2, SumIsNat
<1>4. MonthStart(1) = 0
  <2>1. 1..1 - 1 = {}
    OBVIOUS
  <2>. QED
    BY <1>2, <2>1, SumOfNone
<1>5. MonthStart(Len(Months) + 1) = DayCount
  <2>1. 1..(Len(Months) + 1) - 1 = Ms
    BY <1>1 DEF Ms
  <2>. QED
    BY <1>1, <1>2, <2>1 DEF DayCount, SumFunction, Total
<1>6. ASSUME NEW m \in Ms PROVE MonthStart(m + 1) = MonthStart(m) + Months[m]
  <2>1. m \in Nat /\ m + 1 \in 1..Len(Months) + 1 /\ m \in 1..Len(Months) + 1
    BY <1>1 DEF Ms
  <2>2. 1..(m + 1) - 1 = 1..m /\ (1..m) \ {m} = 1..m - 1 /\ m \in 1..m
    BY <2>1, <1>6 DEF Ms
  <2>3. IsFiniteSet(1..m) /\ Ints(Months, 1..m)
    <3>1. IsFiniteSet(1..(m + 1) - 1) /\ \A x \in 1..(m + 1) - 1 : Months[x] \in Nat
      BY <1>3, <2>1
    <3>. QED
      BY <2>2, <3>1 DEF Ints
  <2>4. Total(Months, 1..m) = Months[m] + Total(Months, 1..m - 1)
    <3> DEFINE upTo == 1..m
    <3>1. IsFiniteSet(upTo) /\ Ints(Months, upTo) /\ m \in upTo
      BY <2>2, <2>3
    <3> HIDE DEF upTo
    <3>2. Total(Months, upTo) = Months[m] + Total(Months, upTo \ {m})
      BY <3>1, SumTakes
    <3>. QED
      BY <2>2, <3>2 DEF upTo
  <2>5. MonthStart(m) \in Nat /\ Months[m] \in Nat
    BY <1>1, <1>3, <2>1
  <2>. QED
    BY <1>2, <2>2, <2>4, <2>5
<1>. QED
  BY <1>1, <1>3, <1>4, <1>5, <1>6

\* Later months begin later, and not before the earlier month has ended.
LEMMA MonthsInOrder ==
  ASSUME NEW a \in Ms, NEW b \in 1..Len(Months) + 1, a < b
  PROVE  MonthStart(a) + Months[a] <= MonthStart(b)
<1> DEFINE Early == {m \in 1..Len(Months) + 1 : a < m /\ ~ (MonthStart(a) + Months[a] <= MonthStart(m))}
<1>1. SUFFICES ASSUME Early # {} PROVE FALSE
  OBVIOUS
<1>2. Early \in SUBSET Nat
  BY MonthsFollow
<1>3. PICK m \in Early : \A k \in Early : m <= k
  <2> HIDE DEF Early
  <2>. QED
    BY <1>1, <1>2, Least
<1>4. /\ a \in Nat /\ m \in Nat /\ a < m /\ m - 1 \in Ms /\ a <= m - 1 /\ m - 1 \in 1..Len(Months) + 1
      /\ ~ (MonthStart(a) + Months[a] <= MonthStart(m))
  BY <1>3, MonthsFollow DEF Ms
<1>5. MonthStart(m) = MonthStart(m - 1) + Months[m - 1]
  <2>1. (m - 1) + 1 = m
    BY <1>4
  <2>. QED
    BY <1>4, <2>1, MonthsFollow
<1>6. a # m - 1
  BY <1>4, <1>5, MonthsFollow
<1>7. m - 1 \notin Early
  <2>1. ~ (m <= m - 1)
    BY <1>4
  <2> HIDE DEF Early
  <2>. QED
    BY <1>3, <2>1
<1>8. MonthStart(a) + Months[a] <= MonthStart(m - 1)
  BY <1>4, <1>6, <1>7
<1>9. MonthStart(a) \in Nat /\ MonthStart(m - 1) \in Nat /\ Months[a] \in Nat /\ Months[m - 1] \in Nat
  <2>1. a \in 1..Len(Months) + 1
    BY MonthsFollow DEF Ms
  <2>. QED
    BY <1>4, <2>1, MonthsFollow
<1>. QED
  BY <1>4, <1>5, <1>8, <1>9

InMonth(d, m) == MonthStart(m) <= d /\ d < MonthStart(m) + Months[m]

\* Every day is in one month.
LEMMA DayHasMonth ==
  ASSUME NEW d \in Days
  PROVE  /\ MonthOf(d) \in Ms /\ InMonth(d, MonthOf(d))
         /\ \A m \in Ms : InMonth(d, m) => m = MonthOf(d)
<1>0. d \in Nat /\ d < DayCount
  BY MonthsFollow DEF Days
<1> DEFINE Begun == {m \in 1..Len(Months) + 1 : d < MonthStart(m)}
<1>1. Begun \in SUBSET Nat /\ Begun # {}
  <2>1. Len(Months) + 1 \in Begun
    BY <1>0, MonthsFollow
  <2>. QED
    BY <2>1, MonthsFollow
<1>2. PICK m \in Begun : \A k \in Begun : m <= k
  <2> HIDE DEF Begun
  <2>. QED
    BY <1>1, Least
<1>3. m # 1 /\ m \in 1..Len(Months) + 1 /\ d < MonthStart(m)
  BY <1>0, <1>2, MonthsFollow
<1>4. m - 1 \in Ms /\ m - 1 \in 1..Len(Months) + 1 /\ m \in Nat /\ (m - 1) + 1 = m
  BY <1>3, MonthsFollow DEF Ms
<1>5. ~ (d < MonthStart(m - 1))
  <2>1. ~ (m <= m - 1)
    BY <1>4
  <2>2. m - 1 \notin Begun
    <3> HIDE DEF Begun
    <3>. QED
      BY <1>2, <2>1
  <2>. QED
    BY <1>4, <2>2
<1>6. InMonth(d, m - 1)
  <2>1. MonthStart(m) = MonthStart(m - 1) + Months[m - 1]
    BY <1>4, MonthsFollow
  <2>2. MonthStart(m - 1) \in Nat
    BY <1>4, MonthsFollow
  <2>. QED
    BY <1>0, <1>3, <1>5, <2>1, <2>2 DEF InMonth
<1>7. MonthOf(d) \in Ms /\ InMonth(d, MonthOf(d))
  BY <1>4, <1>6, MonthsFollow DEF MonthOf, InMonth
<1>8. ASSUME NEW a \in Ms, NEW b \in Ms, InMonth(d, a), InMonth(d, b), a < b PROVE FALSE
  <2>1. b \in 1..Len(Months) + 1 /\ a \in 1..Len(Months) + 1
    BY MonthsFollow DEF Ms
  <2>2. MonthStart(a) + Months[a] <= MonthStart(b)
    BY <1>8, <2>1, MonthsInOrder
  <2>3. MonthStart(a) \in Nat /\ MonthStart(b) \in Nat /\ Months[a] \in Nat
    BY <2>1, MonthsFollow
  <2>. QED
    BY <1>0, <1>8, <2>2, <2>3 DEF InMonth
<1>9. \A a, b \in Ms : a < b \/ b < a \/ a = b
  BY MonthsFollow DEF Ms
<1>. QED
  BY <1>7, <1>8, <1>9

\* Later days are in the same or a later month.
LEMMA MonthsGrow ==
  ASSUME NEW d \in Days, NEW e \in Days, d <= e
  PROVE  MonthOf(d) <= MonthOf(e)
<1> DEFINE a == MonthOf(d)
           b == MonthOf(e)
<1>1. a \in Ms /\ b \in Ms /\ InMonth(d, a) /\ InMonth(e, b)
  BY DayHasMonth
<1> HIDE DEF a, b
<1>2. SUFFICES ASSUME b < a PROVE FALSE
  BY <1>1, MonthsFollow DEF a, b, Ms
<1>3. a \in 1..Len(Months) + 1 /\ b \in 1..Len(Months) + 1
  BY <1>1, MonthsFollow DEF Ms
<1>4. MonthStart(b) + Months[b] <= MonthStart(a)
  BY <1>1, <1>2, <1>3, MonthsInOrder
<1>5. MonthStart(a) \in Nat /\ MonthStart(b) \in Nat /\ Months[b] \in Nat /\ d \in Int /\ e \in Int
  BY <1>1, <1>3, MonthsFollow DEF Days
<1>. QED
  BY <1>1, <1>4, <1>5 DEF InMonth

\* The day before is in the same month, unless a month begins.
LEMMA DayBefore ==
  ASSUME NEW d \in Days, d - 1 \in Days
  PROVE  MonthOf(d - 1) = MonthOf(d) - (IF MonthStart(MonthOf(d)) = d THEN 1 ELSE 0)
<1> DEFINE m == MonthOf(d)
<1>1. /\ m \in Ms /\ InMonth(d, m) /\ m \in Nat /\ MonthStart(m) \in Nat
      /\ \A x \in Ms : InMonth(d - 1, x) => MonthOf(d - 1) = x
  <2>1. m \in Ms /\ InMonth(d, m)
    BY DayHasMonth
  <2>2. m \in 1..Len(Months) + 1
    BY <2>1, MonthsFollow DEF Ms
  <2>3. \A x \in Ms : InMonth(d - 1, x) => MonthOf(d - 1) = x
    BY DayHasMonth
  <2> HIDE DEF m
  <2>. QED
    BY <2>1, <2>2, <2>3, MonthsFollow DEF Ms
<1>2. d \in Int /\ d - 1 >= 0 /\ \A x \in Ms : Months[x] \in Nat \ {0}
  BY MonthsFollow DEF Days
<1> HIDE DEF m
<1>3. CASE MonthStart(m) # d
  <2>1. InMonth(d - 1, m)
    BY <1>1, <1>2, <1>3 DEF InMonth
  <2>. QED
    BY <1>1, <1>3, <2>1 DEF m
<1>4. CASE MonthStart(m) = d
  <2>1. m # 1
    BY <1>2, <1>4, MonthsFollow
  <2>2. m - 1 \in Ms /\ (m - 1) + 1 = m /\ m - 1 \in 1..Len(Months) + 1
    BY <1>1, <2>1, MonthsFollow DEF Ms
  <2>3. MonthStart(m) = MonthStart(m - 1) + Months[m - 1] /\ MonthStart(m - 1) \in Nat
    BY <2>2, MonthsFollow
  <2>4. InMonth(d - 1, m - 1)
    BY <1>2, <1>4, <2>2, <2>3 DEF InMonth
  <2>. QED
    BY <1>1, <1>4, <2>2, <2>4 DEF m
<1>. QED
  BY <1>3, <1>4

\* The lesser of two integers, and the greater.
LEMMA MinMaxOfTwo ==
  ASSUME NEW a \in Int, NEW b \in Int
  PROVE  /\ Min({a, b}) = IF a <= b THEN a ELSE b
         /\ Max({a, b}) = IF a >= b THEN a ELSE b
<1> DEFINE m == IF a <= b THEN a ELSE b
           n == IF a >= b THEN a ELSE b
<1>1. /\ m \in {a, b} /\ \A y \in {a, b} : m <= y
      /\ n \in {a, b} /\ \A y \in {a, b} : n >= y
  OBVIOUS
<1>2. /\ \A x \in {a, b} : (\A y \in {a, b} : x <= y) => x = m
      /\ \A x \in {a, b} : (\A y \in {a, b} : x >= y) => x = n
  OBVIOUS
<1> HIDE DEF m, n
<1>3. Min({a, b}) \in {a, b} /\ \A y \in {a, b} : Min({a, b}) <= y
  BY <1>1 DEF Min
<1>4. Max({a, b}) \in {a, b} /\ \A y \in {a, b} : Max({a, b}) >= y
  BY <1>1 DEF Max
<1>5. Min({a, b}) = m /\ Max({a, b}) = n
  BY <1>2, <1>3, <1>4
<1>. QED
  BY <1>5 DEF m, n

\* Some months earlier is a day of that month.
LEMMA MonthsEarlier ==
  ASSUME NEW d \in Days, NEW k \in Nat, k < MonthOf(d)
  PROVE  MinusMonths(d, k) \in Days /\ MonthOf(MinusMonths(d, k)) = MonthOf(d) - k
<1> DEFINE m == MonthOf(d) - k
           into == d - MonthStart(MonthOf(d))
           last == Months[m] - 1
           e == MinusMonths(d, k)
<1>1. MonthOf(d) \in Ms /\ InMonth(d, MonthOf(d)) /\ MonthOf(d) \in 1..Len(Months) + 1
  BY DayHasMonth, MonthsFollow DEF Ms
<1>2. m \in Ms /\ m \in 1..Len(Months) + 1
  BY <1>1, MonthsFollow DEF Ms
<1>3. /\ into \in Nat /\ last \in Nat /\ MonthStart(m) \in Nat
      /\ e = MonthStart(m) + Min({into, last})
  <2>1. MonthStart(MonthOf(d)) \in Nat /\ MonthStart(m) \in Nat /\ Months[m] \in Nat \ {0} /\ d \in Int
    BY <1>1, <1>2, MonthsFollow DEF Days
  <2>2. into \in Nat
    BY <1>1, <2>1 DEF InMonth
  <2>3. last \in Nat
    BY <2>1
  <2>4. e = MonthStart(m) + Min({into, last})
    BY DEF MinusMonths
  <2>. QED
    BY <2>1, <2>2, <2>3, <2>4
<1>4. e = MonthStart(m) + (IF into <= last THEN into ELSE last)
  <2> HIDE DEF into, last, e, m
  <2>. QED
    BY <1>3, MinMaxOfTwo
<1>5. InMonth(e, m) /\ e \in Nat
  <2>1. Months[m] \in Nat /\ last = Months[m] - 1
    BY <1>2, MonthsFollow
  <2> DEFINE len == Months[m]
             start == MonthStart(m)
  <2>2. len \in Nat /\ last = len - 1 /\ start \in Nat /\ into \in Nat /\ last \in Nat
    BY <1>3, <2>1
  <2>3. e = start + (IF into <= last THEN into ELSE last)
    BY <1>4
  <2> HIDE DEF into, last, e, m, len, start
  <2>4. start <= e /\ e < start + len /\ e \in Nat
    BY <2>2, <2>3
  <2>. QED
    BY <2>4 DEF InMonth, len, start
<1> HIDE DEF e, m
<1>6. e < DayCount
  <2>1. m < Len(Months) + 1 /\ Len(Months) + 1 \in 1..Len(Months) + 1
    BY <1>2, MonthsFollow DEF Ms
  <2>2. MonthStart(m) + Months[m] <= MonthStart(Len(Months) + 1)
    BY <1>2, <2>1, MonthsInOrder
  <2>3. MonthStart(Len(Months) + 1) = DayCount /\ DayCount \in Nat /\ MonthStart(m) \in Nat /\ Months[m] \in Nat
    BY <1>2, <2>1, MonthsFollow
  <2>. QED
    BY <1>5, <2>2, <2>3 DEF InMonth
<1>7. e \in Days
  <2>1. Len(Months) + 1 \in 1..Len(Months) + 1
    BY MonthsFollow
  <2>. QED
    BY <1>5, <1>6, <2>1, MonthsFollow DEF Days
<1>. QED
  BY <1>2, <1>5, <1>7, DayHasMonth DEF e, m

-----------------------------------------------------------------------------
(* Cost Explorer's results. *)

\* The least of a set is in it.
LEMMA MinIsIn == ASSUME NEW T \in SUBSET Nat, T # {} PROVE Min(T) \in T
  BY Least DEF Min

\* A table of n sets is a sequence of n.
LEMMA TableIsSeq ==
  ASSUME NEW n \in Nat, NEW S, NEW f \in [1..n -> S]
  PROVE  f \in Seq(S) /\ Len(f) = n /\ DOMAIN f = 1..n
  OBVIOUS

\* The period is cut into results, each of some days, in some order.
Division(bs, p) ==
  /\ bs \in Seq(SUBSET Nat) /\ Len(bs) \in Nat \ {0} /\ DOMAIN bs = 1..Len(bs)
  /\ \A i \in 1..Len(bs) : bs[i] # {} /\ IsFiniteSet(bs[i])
  /\ \A i, j \in 1..Len(bs) : i # j => bs[i] \cap bs[j] = {}
  /\ UNION {bs[i] : i \in 1..Len(bs)} = Asked(p)

\* A period that Cost Explorer takes.
Proper(p) == p.from \in Days /\ p.to \in Nat /\ p.to - 1 \in Days /\ p.from < p.to

\* Days divide a period, as many as it has.
LEMMA DaysDivide ==
  ASSUME NEW p, Proper(p)
  PROVE  /\ Division(Buckets(p, "DAILY"), p) /\ Len(Buckets(p, "DAILY")) = p.to - p.from
         /\ \A i \in 1..p.to - p.from : Buckets(p, "DAILY")[i] = {p.from + i - 1}
<1> DEFINE n == p.to - p.from
           bs == Buckets(p, "DAILY")
<1>1. n \in Nat \ {0} /\ p.from \in Nat /\ p.to = p.from + n
  BY DEF Proper, Days
<1>2. bs = [i \in 1..n |-> {p.from + i - 1}]
  BY DEF Buckets
<1>3. \A i \in 1..n : p.from + i - 1 \in Nat /\ p.from + i - 1 \in Asked(p)
  <2> HIDE DEF n
  <2>. QED
    BY <1>1 DEF Asked
<1>4. \A d \in Asked(p) : d - p.from + 1 \in 1..n /\ d = p.from + (d - p.from + 1) - 1
  <2> HIDE DEF n
  <2>. QED
    BY <1>1 DEF Asked
<1> HIDE DEF n, bs
<1>5. bs \in [1..n -> SUBSET Nat]
  BY <1>2, <1>3
<1>6. bs \in Seq(SUBSET Nat) /\ Len(bs) = n /\ DOMAIN bs = 1..n
  BY <1>1, <1>5, TableIsSeq
<1>7. \A i \in 1..n : bs[i] = {p.from + i - 1}
  BY <1>2
<1>8. \A i \in 1..n : bs[i] # {} /\ IsFiniteSet(bs[i])
  BY <1>7, FS_Singleton
<1>9. \A i, j \in 1..n : i # j => bs[i] \cap bs[j] = {}
  <2>1. \A i, j \in 1..n : i # j => p.from + i - 1 # p.from + j - 1
    BY <1>1
  <2>. QED
    BY <1>7, <2>1
<1>10. UNION {bs[i] : i \in 1..n} = Asked(p)
  <2>1. ASSUME NEW d \in Asked(p) PROVE d \in UNION {bs[i] : i \in 1..n}
    BY <1>4, <1>7
  <2>2. \A i \in 1..n : bs[i] \subseteq Asked(p)
    BY <1>3, <1>7
  <2>. QED
    BY <2>1, <2>2
<1>. QED
  BY <1>1, <1>6, <1>7, <1>8, <1>9, <1>10 DEF Division, n, bs

\* Months divide a period, each of them with some of its days.
LEMMA MonthsDivide ==
  ASSUME NEW p, Proper(p)
  PROVE  /\ Division(Buckets(p, "MONTHLY"), p)
         /\ Len(Buckets(p, "MONTHLY")) = MonthOf(p.to - 1) - MonthOf(p.from) + 1
         /\ \A i \in 1..Len(Buckets(p, "MONTHLY")) :
              \A d \in Buckets(p, "MONTHLY")[i] : MonthOf(d) = MonthOf(p.from) + i - 1
<1> DEFINE first == MonthOf(p.from)
           last == MonthOf(p.to - 1)
           n == last - first + 1
           bs == Buckets(p, "MONTHLY")
<1>1. p.from \in Nat /\ p.to \in Nat /\ p.from <= p.to - 1 /\ p.to - 1 <= DayCount - 1
  BY DEF Proper, Days
<1>2. first \in Ms /\ last \in Ms /\ first <= last
  BY <1>1, DayHasMonth, MonthsGrow DEF Proper
<1>3. n \in Nat \ {0} /\ first \in Nat /\ last \in Nat
  BY <1>2, MonthsFollow DEF Ms
<1>4. bs = [i \in 1..n |-> {d \in Asked(p) : MonthOf(d) = first + i - 1}]
  BY DEF Buckets
<1>5. ASSUME NEW d \in Asked(p)
      PROVE  d \in Days /\ d \in Nat /\ MonthOf(d) - first + 1 \in 1..n /\ MonthOf(d) \in Nat
  <2>1. d \in Days /\ d \in Nat /\ p.from <= d /\ d <= p.to - 1
    BY <1>1, MonthsFollow DEF Asked, Days
  <2>2. first <= MonthOf(d) /\ MonthOf(d) <= last /\ MonthOf(d) \in Ms
    BY <2>1, MonthsGrow, DayHasMonth DEF Proper
  <2> HIDE DEF first, last
  <2>. QED
    BY <1>3, <2>1, <2>2, MonthsFollow DEF Ms
<1>6. ASSUME NEW m \in Ms, first <= m, m <= last PROVE \E d \in Asked(p) : MonthOf(d) = m
  <2>1. /\ InMonth(p.from, first) /\ InMonth(p.to - 1, last)
        /\ \A x \in Days : InMonth(x, m) => MonthOf(x) = m
    BY DayHasMonth DEF Proper
  <2>2. CASE m = first
    BY <1>1, <2>2 DEF Asked
  <2>3. CASE first < m
    <3> DEFINE d == MonthStart(m)
    <3>1. \A x \in {first, m, last} : x \in 1..Len(Months) + 1 /\ MonthStart(x) \in Nat
      BY <1>2, MonthsFollow DEF Ms
    <3>2. MonthStart(first) + Months[first] <= d
      BY <1>2, <2>3, <3>1, MonthsInOrder
    <3>3. d <= MonthStart(last)
      <4>1. CASE m = last
        BY <3>1, <4>1
      <4>2. CASE m < last
        <5>1. d + Months[m] <= MonthStart(last)
          BY <3>1, <4>2, MonthsInOrder
        <5>. QED
          BY <3>1, <5>1, MonthsFollow
      <4>. QED
        BY <1>3, <1>6, <4>1, <4>2, MonthsFollow DEF Ms
    <3>4. d \in Nat /\ p.from < d /\ d <= p.to - 1
      <4>1. d \in Nat /\ MonthStart(last) \in Nat /\ MonthStart(first) \in Nat /\ Months[first] \in Nat
        BY <1>2, <3>1, MonthsFollow
      <4> HIDE DEF d, first, last
      <4>. QED
        BY <1>1, <2>1, <3>2, <3>3, <4>1 DEF InMonth
    <3>5. d \in Asked(p) /\ InMonth(d, m)
      <4>1. Months[m] \in Nat \ {0}
        BY MonthsFollow
      <4>. QED
        BY <1>1, <3>4, <4>1 DEF Asked, InMonth
    <3>. QED
      BY <1>5, <2>1, <3>5
  <2>. QED
    BY <1>3, <1>6, <2>2, <2>3, MonthsFollow DEF Ms
<1> HIDE DEF n, bs, first, last
<1>7. bs \in [1..n -> SUBSET Nat]
  BY <1>4, <1>5
<1>8. bs \in Seq(SUBSET Nat) /\ Len(bs) = n /\ DOMAIN bs = 1..n
  BY <1>3, <1>7, TableIsSeq
<1>9. \A i \in 1..n : bs[i] = {d \in Asked(p) : MonthOf(d) = first + i - 1}
  BY <1>4
<1>10. ASSUME NEW i \in 1..n PROVE bs[i] # {} /\ IsFiniteSet(bs[i])
  <2>1. first + i - 1 \in Ms /\ first <= first + i - 1 /\ first + i - 1 <= last
    BY <1>2, <1>3, MonthsFollow DEF Ms, n
  <2>2. bs[i] # {}
    BY <1>6, <1>9, <2>1
  <2>3. IsFiniteSet(Asked(p))
    <3>1. p.from \in Int /\ p.to - 1 \in Int
      BY <1>1
    <3>. QED
      BY <3>1, FS_Interval DEF Asked
  <2>4. bs[i] \in SUBSET Asked(p)
    BY <1>9
  <2>. QED
    BY <2>2, <2>3, <2>4, FS_Subset
<1>11. \A i, j \in 1..n : i # j => bs[i] \cap bs[j] = {}
  <2>1. \A i, j \in 1..n : i # j => first + i - 1 # first + j - 1
    BY <1>3
  <2>. QED
    BY <1>9, <2>1
<1>12. UNION {bs[i] : i \in 1..n} = Asked(p)
  <2>1. ASSUME NEW d \in Asked(p) PROVE d \in UNION {bs[i] : i \in 1..n}
    <3>1. first + (MonthOf(d) - first + 1) - 1 = MonthOf(d) /\ MonthOf(d) - first + 1 \in 1..n
      BY <1>3, <1>5
    <3>. QED
      BY <1>9, <3>1
  <2>. QED
    BY <1>9, <2>1
<1>. QED
  BY <1>3, <1>8, <1>9, <1>10, <1>11, <1>12 DEF Division, n, bs, first, last

-----------------------------------------------------------------------------
(* Requests. *)

\* The period of a request.
PeriodOf(q) == [from |-> q.from, to |-> q.to]

\* An interval of the page ends on a day and repeats a number of days.
LEMMA IntervalsAreDays ==
  ASSUME NEW today \in Days, NEW i \in Intervals(today)
  PROVE  i.end \in Days /\ i.repeat \in Nat
<1>1. CASE i \in {Preset(n, today) : n \in Presets}
  BY <1>1, CalendarAssumption DEF Preset
<1>2. CASE i \in UNION {{Custom(start, end) : start \in 0..end} : end \in Days}
  <2>0. PICK end \in Days : \E start \in 0..end : i = Custom(start, end)
    BY <1>2
  <2>1. PICK start \in 0..end : i = Custom(start, end)
    BY <2>0
  <2>2. end \in Nat /\ start \in Nat /\ end - start \in Int
    BY <2>1 DEF Days
  <2>3. i.end = end /\ i.repeat = Max({1, end - start})
    BY <2>1 DEF Custom
  <2>4. \A k \in Int : Max({1, k}) \in Nat
    <3>1. \A k \in Int : Max({1, k}) = IF 1 >= k THEN 1 ELSE k
      BY MinMaxOfTwo
    <3>. QED
      BY <3>1
  <2>. QED
    BY <2>2, <2>3, <2>4
<1>. QED
  BY <1>1, <1>2 DEF Intervals

\* A request that Cost Explorer takes asks for a period of the calendar that ends
\* with the date it starts from: of as many days as its count says, or from the month
\* that many months back, its own counted.
Asks(q) ==
  /\ Proper(PeriodOf(q)) /\ q.by \in {"DAILY", "MONTHLY"} /\ q.count \in Nat
  /\ q.to \in Days /\ q.to = Local(q.end, q.shift)
  /\ q.by = "DAILY" => q.to - q.from = q.count
  /\ q.by = "MONTHLY" => MonthOf(q.from) = MonthOf(q.to) - q.count + 1

\* Every request is for such a period, or for an empty one.
LEMMA RequestsAreProper ==
  ASSUME NEW q \in FigureRequests
  PROVE  /\ q.op \in {"entity", "trailing", "project", "org", "projects"}
         /\ q.op # "projects" /\ q.from < q.to => Asks(q)
<1>0. DayCount \in Nat /\ \A d \in Days : d \in Nat
  <2>1. Len(Months) + 1 \in 1..Len(Months) + 1
    BY MonthsFollow
  <2>. QED
    BY <2>1, MonthsFollow DEF Days
<1>1. ASSUME NEW from \in Nat, NEW to \in Days, from < to
      PROVE  Proper([from |-> from, to |-> to])
  BY <1>0, <1>1 DEF Proper, Days
<1>2. ASSUME q \in ByInterval
      PROVE  /\ q.op \in {"entity", "project", "org"}
             /\ q.from < q.to => Asks(q)
  <2> DEFINE Offer == {i \in UNION {Intervals(t) : t \in Days} : ParseInterval(i).from >= 0}
             Ask(op, e, i) == Request(op, e, ParseInterval(i), "DAILY", i.repeat, i.end, 0)
  <2>1. \E op \in {"entity", "project", "org"} : \E e : \E i \in Offer : q = Ask(op, e, i)
    <3>1. \/ q \in {Ask(op, NoEntity, i) : op \in {"project", "org"}, i \in Offer}
          \/ q \in {Ask("entity", e, i) : e \in Entities, i \in Offer}
      BY <1>2 DEF ByInterval
    <3>2. ASSUME q \in {Ask(op, NoEntity, i) : op \in {"project", "org"}, i \in Offer}
          PROVE  \E op \in {"project", "org"} : \E i \in Offer : q = Ask(op, NoEntity, i)
      BY <3>2
    <3>3. ASSUME q \in {Ask("entity", e, i) : e \in Entities, i \in Offer}
          PROVE  \E e \in Entities : \E i \in Offer : q = Ask("entity", e, i)
      BY <3>3
    <3> HIDE DEF Offer, Ask
    <3>. QED
      BY <3>1, <3>2, <3>3
  <2>2. PICK op \in {"entity", "project", "org"} : \E e : \E i \in Offer : q = Ask(op, e, i)
    BY <2>1
  <2>3. PICK e : \E i \in Offer : q = Ask(op, e, i)
    BY <2>2
  <2>4. PICK i \in Offer : q = Ask(op, e, i)
    BY <2>3
  <2>5. PICK today \in Days : i \in Intervals(today)
    OBVIOUS
  <2>6. i.end \in Days /\ i.repeat \in Nat /\ i.end \in Nat
    BY <1>0, <2>5, IntervalsAreDays
  <2>7. /\ q.op = op /\ q.by = "DAILY" /\ q.count = i.repeat /\ q.end = i.end /\ q.shift = 0
        /\ q.from = i.end - i.repeat /\ q.to = i.end /\ q.from >= 0
    BY <2>4 DEF Request, ParseInterval
  <2> HIDE DEF Offer, Ask
  <2>8. q.from \in Nat /\ q.to \in Days /\ q.to - q.from = q.count /\ q.to = Local(q.end, q.shift)
    BY <2>6, <2>7 DEF Local
  <2>. QED
    BY <1>1, <2>6, <2>7, <2>8 DEF PeriodOf, Asks
<1>3. ASSUME q \in ByAction PROVE q.op = "trailing" /\ (q.from < q.to => Asks(q))
  <2> DEFINE From(x) == Local(x[2][1], x[2][2])
             Ask(e, p, by, x) == Request("trailing", e, p, by, x[1], x[2][1], x[2][2])
             DayAsks == {x \in Counts \X DayStarts : From(x) - x[1] >= 0}
             MonthAsks == {x \in Counts \X MonthStarts : From(x) >= 0 /\ x[1] <= MonthOf(From(x))}
  <2>0. \/ \E e : \E x \in DayAsks : q = Ask(e, TrailingDays(x[1], From(x)), "DAILY", x)
        \/ \E e : \E x \in MonthAsks : q = Ask(e, TrailingMonths(x[1], From(x)), "MONTHLY", x)
    BY <1>3 DEF ByAction
  <2>a. ASSUME NEW x \in DayAsks \cup MonthAsks
        PROVE  x[1] \in Nat \ {0} /\ From(x) \in Days /\ From(x) \in Nat
    <3>1. x[1] \in Counts /\ x[2] \in DayStarts \cup MonthStarts
      OBVIOUS
    <3>2. x[1] \in Nat \ {0}
      BY <3>1, CalendarAssumption
    <3>3. x[2][1] \in Days /\ x[2][2] \in {0, 1}
      <4>1. ASSUME NEW m \in DOMAIN Months PROVE MonthStart(m) + Months[m] - 1 \in Days
        <5>1. m \in Ms /\ m \in 1..Len(Months) + 1 /\ Len(Months) + 1 \in 1..Len(Months) + 1 /\ m < Len(Months) + 1
          BY MonthsFollow DEF Ms
        <5>2. MonthStart(m) + Months[m] <= MonthStart(Len(Months) + 1)
          BY <5>1, MonthsInOrder
        <5>3. MonthStart(m) \in Nat /\ Months[m] \in Nat \ {0} /\ MonthStart(Len(Months) + 1) = DayCount
          BY <5>1, MonthsFollow
        <5>. QED
          BY <1>0, <5>2, <5>3 DEF Days
      <4>2. \A s \in DayStarts : s[1] \in Days /\ s[2] \in {0, 1}
        BY CalendarAssumption DEF DayStarts
      <4>3. \A s \in MonthStarts : s[1] \in Days /\ s[2] \in {0, 1}
        BY <4>1, CalendarAssumption DEF MonthStarts
      <4>. QED
        BY <3>1, <4>2, <4>3
    <3>4. From(x) = x[2][1] - x[2][2] /\ x[2][1] \in Nat /\ x[2][1] <= DayCount - 1
      BY <1>0, <3>3 DEF Local, Days
    <3>5. From(x) >= 0
      <4>1. CASE x \in DayAsks
        <5>1. From(x) - x[1] >= 0
          BY <4>1
        <5> HIDE DEF From, DayAsks, MonthAsks
        <5>2. From(x) \in Int
          BY <3>3, <3>4
        <5>. QED
          BY <3>2, <5>1, <5>2
      <4>2. CASE x \in MonthAsks
        BY <4>2
      <4>. QED
        BY <4>1, <4>2
    <3> HIDE DEF From, DayAsks, MonthAsks
    <3>. QED
      BY <1>0, <3>2, <3>3, <3>4, <3>5 DEF Days
  <2>1. ASSUME NEW e, NEW x \in DayAsks, q = Ask(e, TrailingDays(x[1], From(x)), "DAILY", x)
        PROVE  q.op = "trailing" /\ (q.from < q.to => Asks(q))
    <3>1. /\ q.op = "trailing" /\ q.by = "DAILY" /\ q.count = x[1]
          /\ q.from = From(x) - x[1] /\ q.to = From(x) /\ From(x) = Local(q.end, q.shift)
          /\ From(x) - x[1] >= 0
      BY <2>1 DEF Request, TrailingDays
    <3>2. x[1] \in Nat \ {0} /\ From(x) \in Days /\ From(x) \in Nat
      BY <2>a
    <3> HIDE DEF From, DayAsks, MonthAsks, Ask
    <3>3. q.from \in Nat /\ q.to \in Days /\ q.to - q.from = q.count
      BY <3>1, <3>2
    <3>. QED
      BY <1>1, <3>1, <3>2, <3>3 DEF PeriodOf, Asks
  <2>2. ASSUME NEW e, NEW x \in MonthAsks, q = Ask(e, TrailingMonths(x[1], From(x)), "MONTHLY", x)
        PROVE  q.op = "trailing" /\ (q.from < q.to => Asks(q))
    <3>1. /\ q.op = "trailing" /\ q.by = "MONTHLY" /\ q.count = x[1]
          /\ q.from = MinusMonths(From(x), x[1] - 1) /\ q.to = From(x) /\ From(x) = Local(q.end, q.shift)
          /\ x[1] <= MonthOf(From(x))
      BY <2>2 DEF Request, TrailingMonths
    <3>2. x[1] \in Nat \ {0} /\ From(x) \in Days /\ From(x) \in Nat
      BY <2>a
    <3> HIDE DEF From, DayAsks, MonthAsks, Ask
    <3>3. MonthOf(From(x)) \in Nat
      BY <3>2, DayHasMonth, MonthsFollow DEF Ms
    <3>4. x[1] - 1 \in Nat /\ x[1] - 1 < MonthOf(From(x))
      BY <3>1, <3>2, <3>3
    <3>5. q.from \in Days /\ MonthOf(q.from) = MonthOf(From(x)) - (x[1] - 1)
      BY <3>1, <3>2, <3>4, MonthsEarlier
    <3>6. q.from < q.to => Proper(PeriodOf(q))
      BY <1>0, <1>1, <3>1, <3>2, <3>5 DEF PeriodOf
    <3>. QED
      BY <3>1, <3>2, <3>3, <3>5, <3>6 DEF Asks
  <2>. QED
    BY <2>0, <2>1, <2>2
<1>4. ASSUME q \notin ByInterval, q \notin ByAction PROVE q.op = "projects"
  BY <1>4 DEF FigureRequests, Request
<1>. QED
  BY <1>2, <1>3, <1>4

-----------------------------------------------------------------------------
(* Answers. *)

\* One page of results is all of them, or the first ones.
LEMMA PageOfResults ==
  ASSUME NEW S, NEW s \in Seq(S), Len(s) # 0
  PROVE  /\ OnePage(s) \in Seq(S) /\ DOMAIN OnePage(s) = 1..Len(OnePage(s))
         /\ Len(OnePage(s)) \in 1..Len(s)
         /\ \A i \in 1..Len(OnePage(s)) : OnePage(s)[i] = s[i]
         /\ ~ Cut(s) => OnePage(s) = s
<1> DEFINE n == Min({PageSize, Len(s)})
<1>1. Len(s) \in Nat \ {0} /\ PageSize \in Nat \ {0} /\ Len(s) \in Int /\ PageSize \in Int
  BY BillsAssumption
<1>2. n = IF PageSize <= Len(s) THEN PageSize ELSE Len(s)
  BY <1>1, MinMaxOfTwo
<1>3. OnePage(s) = SubSeq(s, 1, n)
  BY DEF OnePage
<1> HIDE DEF n
<1>4. n \in 1..Len(s) /\ (~ Cut(s) => n = Len(s))
  BY <1>1, <1>2 DEF Cut
<1>5. /\ SubSeq(s, 1, n) \in Seq(S) /\ Len(SubSeq(s, 1, n)) = n
      /\ DOMAIN SubSeq(s, 1, n) = 1..n
      /\ \A i \in 1..n : SubSeq(s, 1, n)[i] = s[i]
  BY <1>1, <1>4
<1>6. SubSeq(s, 1, Len(s)) = s
  BY <1>1
<1>. QED
  BY <1>3, <1>4, <1>5, <1>6

\* The results of the period of the request, one page of them.
Results == OnePage(Buckets(Period, request.by))

\* The state of a request.
Underway ==
  /\ request \in FigureRequests /\ groups \in Groupings /\ bill \in Bills /\ restated \in BOOLEAN
  /\ IF request.op = "projects" THEN pc \in {"list", "answered", "failed"}
     ELSE pc \in {"entity", "total", "groups", "answered", "failed"}

\* Once there is a total it is of the results of the period.
HasTotal == request.op # "projects" /\ pc \in {"groups", "answered"}
TotalCovers ==
  HasTotal =>
    /\ request.from < request.to
    /\ Len(root.aggregation) = Len(Results) /\ DOMAIN root.aggregation = DOMAIN Results
    /\ \A i \in DOMAIN Results : root.aggregation[i].date = Min(Results[i])

AnswerInv == Underway /\ TotalCovers

\* The results of a request that Cost Explorer takes.
LEMMA ResultsDivide ==
  ASSUME request \in FigureRequests, request.op # "projects", request.from < request.to
  PROVE  LET bs == Buckets(Period, request.by) IN
         /\ Proper(Period) /\ Division(bs, Period) /\ Asks(request)
         /\ Len(Results) \in 1..Len(bs) /\ DOMAIN Results = 1..Len(Results)
         /\ \A i \in 1..Len(Results) : Results[i] = bs[i]
         /\ Whole => Results = bs
         /\ request.by = "DAILY" =>
              /\ Len(bs) = request.count
              /\ \A i \in 1..Len(bs) : bs[i] = {request.from + i - 1}
         /\ request.by = "MONTHLY" =>
              /\ Len(bs) = MonthOf(request.to - 1) - MonthOf(request.from) + 1
              /\ \A i \in 1..Len(bs) : \A d \in bs[i] : MonthOf(d) = MonthOf(request.from) + i - 1
<1> DEFINE bs == Buckets(Period, request.by)
<1>1. Period = PeriodOf(request) /\ Period.from = request.from /\ Period.to = request.to
  BY DEF Period, PeriodOf
<1>2. /\ Proper(Period) /\ request.by \in {"DAILY", "MONTHLY"} /\ Asks(request)
      /\ request.by = "DAILY" => request.to - request.from = request.count
  BY <1>1, RequestsAreProper DEF Asks
<1>3. /\ Division(bs, Period)
      /\ request.by = "DAILY" =>
              /\ Len(bs) = request.count
              /\ \A i \in 1..Len(bs) : bs[i] = {request.from + i - 1}
      /\ request.by = "MONTHLY" =>
              /\ Len(bs) = MonthOf(request.to - 1) - MonthOf(request.from) + 1
              /\ \A i \in 1..Len(bs) : \A d \in bs[i] : MonthOf(d) = MonthOf(request.from) + i - 1
  <2>1. CASE request.by = "DAILY"
    BY <1>1, <1>2, <2>1, DaysDivide
  <2>2. CASE request.by = "MONTHLY"
    BY <1>1, <1>2, <2>2, MonthsDivide
  <2>. QED
    BY <1>2, <2>1, <2>2
<1> HIDE DEF bs
<1>4. bs \in Seq(SUBSET Nat) /\ Len(bs) # 0
  BY <1>3 DEF Division
<1>5. /\ DOMAIN OnePage(bs) = 1..Len(OnePage(bs))
      /\ Len(OnePage(bs)) \in 1..Len(bs)
      /\ \A i \in 1..Len(OnePage(bs)) : OnePage(bs)[i] = bs[i]
      /\ ~ Cut(bs) => OnePage(bs) = bs
  BY <1>4, PageOfResults
<1>6. Results = OnePage(bs) /\ (Whole <=> ~ Cut(bs))
  BY DEF Results, Whole, bs
<1>. QED
  BY <1>2, <1>3, <1>5, <1>6 DEF bs

\* A request that goes on stays what it is.
LEMMA Same ==
  ASSUME UNCHANGED <<request, root>>
  PROVE  /\ Results' = Results /\ Period' = Period
         /\ HasTotal' /\ HasTotal => (TotalCovers => TotalCovers')
<1>1. request' = request /\ root' = root
  OBVIOUS
<1>2. Period' = Period
  BY <1>1 DEF Period
<1>3. Results' = Results
  BY <1>1, <1>2 DEF Results
<1>4. root'.aggregation = root.aggregation /\ request'.from = request.from /\ request'.to = request.to
  BY <1>1
<1>. QED
  BY <1>2, <1>3, <1>4 DEF TotalCovers

\* A total is a figure for each result.
LEMMA AskTotalCovers ==
  ASSUME Underway, AskTotal PROVE TotalCovers'
<1>1. SUFFICES ASSUME pc' = "groups" PROVE TotalCovers'
  BY DEF AskTotal, Reject, TotalCovers, HasTotal
<1>2. /\ request.op # "projects" /\ request.from < request.to /\ request' = request
      /\ root'.aggregation = Aggregations(Filter(request))
  BY <1>1 DEF AskTotal, Reject, Idle, Underway
<1> DEFINE total == Aggregations(Filter(request))
           figure(i) == [date |-> Min(Results[i]), amount |-> Billed(RowsOf(Filter(request)), Results[i])]
           n == Len(Results)
<1>3. n \in Nat /\ DOMAIN Results = 1..n
  BY <1>2, ResultsDivide DEF Underway, Division
<1>4. total = [i \in 1..n |-> figure(i)]
  BY <1>3 DEF Aggregations, Results
<1>5. total \in [1..n -> {figure(i) : i \in 1..n}]
  <2> HIDE DEF n, figure, total
  <2>. QED
    BY <1>4
<1>6. Len(total) = n /\ DOMAIN total = 1..n
  <2> HIDE DEF n, figure, total
  <2>. QED
    BY <1>3, <1>5, TableIsSeq
<1>7. \A i \in 1..n : total[i].date = Min(Results[i])
  <2> HIDE DEF n, total
  <2>. QED
    BY <1>4
<1>8. Results' = Results /\ root'.aggregation = total /\ request' = request
  BY <1>2 DEF Results, Period
<1> HIDE DEF total
<1>. QED
  BY <1>2, <1>3, <1>6, <1>7, <1>8 DEF TotalCovers

\* Nothing is answered at the start.
LEMMA AnswerInit == FiguresInit => AnswerInv
<1> SUFFICES ASSUME FiguresInit PROVE AnswerInv
  OBVIOUS
<1>1. request \in FigureRequests /\ groups \in Groupings /\ bill \in Bills /\ restated = FALSE
  BY DEF FiguresInit
<1>2. pc = FirstStep(request) /\ request.op \in {"entity", "trailing", "project", "org", "projects"}
  BY <1>1, RequestsAreProper DEF FiguresInit
<1>3. IF request.op = "projects" THEN pc = "list" ELSE pc \in {"entity", "total"}
  BY <1>2 DEF FirstStep
<1>. QED
  BY <1>1, <1>3 DEF AnswerInv, Underway, TotalCovers, HasTotal

\* Each step keeps the request what it is and takes it on.
LEMMA AnswerStep == AnswerInv /\ [FiguresNext]_figuresVars => AnswerInv'
<1> SUFFICES ASSUME AnswerInv, [FiguresNext]_figuresVars PROVE AnswerInv'
  OBVIOUS
<1> USE DEF AnswerInv, HasTotal
<1>1. CASE ReadEntity
  <2>1. Underway'
    BY <1>1 DEF ReadEntity, Reject, Idle, Underway
  <2>2. TotalCovers'
    BY <1>1 DEF ReadEntity, Reject, TotalCovers
  <2>. QED
    BY <2>1, <2>2
<1>2. CASE AskTotal
  <2>1. Underway'
    BY <1>2 DEF AskTotal, Reject, Idle, Underway
  <2>. QED
    BY <1>2, <2>1, AskTotalCovers
<1>3. ASSUME NEW i \in DOMAIN calls, AnswerGroup(i) PROVE AnswerInv'
  <2>1. Underway'
    BY <1>3 DEF AnswerGroup, Reject, Idle, Underway
  <2>2. UNCHANGED <<request, root>> /\ (HasTotal' => HasTotal)
    BY <1>3 DEF AnswerGroup, Reject, Idle, Underway
  <2>3. TotalCovers'
    BY <2>2, Same DEF TotalCovers
  <2>. QED
    BY <2>1, <2>3
<1>4. CASE CollectGroups
  <2>1. Underway'
    BY <1>4 DEF CollectGroups, Idle, Underway
  <2>2. UNCHANGED <<request, root>> /\ (HasTotal' => HasTotal)
    BY <1>4 DEF CollectGroups, Idle, Underway
  <2>3. TotalCovers'
    BY <2>2, Same DEF TotalCovers
  <2>. QED
    BY <2>1, <2>3
<1>5. CASE ListPage
  <2>1. Underway'
    BY <1>5 DEF ListPage, Reject, Idle, Underway
  <2>2. request'.op = "projects"
    BY <1>5 DEF ListPage, Reject, Idle, Underway
  <2>3. TotalCovers'
    BY <2>2 DEF TotalCovers
  <2>. QED
    BY <2>1, <2>3
<1>6. CASE Restate
  <2>1. Underway'
    BY <1>6 DEF Restate, Underway
  <2>2. UNCHANGED <<request, root>> /\ (HasTotal' => HasTotal)
    BY <1>6 DEF Restate
  <2>3. TotalCovers'
    BY <2>2, Same DEF TotalCovers
  <2>. QED
    BY <2>1, <2>3
<1>7. CASE UNCHANGED figuresVars
  <2>1. Underway'
    BY <1>7 DEF figuresVars, Underway
  <2>2. UNCHANGED <<request, root>> /\ (HasTotal' => HasTotal)
    BY <1>7 DEF figuresVars
  <2>3. TotalCovers'
    BY <2>2, Same DEF TotalCovers
  <2>. QED
    BY <2>1, <2>3
<1>. QED
  BY <1>1, <1>2, <1>3, <1>4, <1>5, <1>6, <1>7 DEF FiguresNext

\* In every reachable state the handler of the figures is where AnswerInv says.
THEOREM AnswerInvariant == FiguresSpec => []AnswerInv
<1>1. FiguresInit => AnswerInv
  BY AnswerInit
<1>2. AnswerInv /\ [FiguresNext]_figuresVars => AnswerInv'
  BY AnswerStep
<1>. QED
  BY <1>1, <1>2, PTL DEF FiguresSpec

\* An answer covers what was asked for: the days of the preset, period or count, or
\* the months, each once and in order up to the date the code starts from, and as many
\* as asked for but for the month left out when that date is the first of one, as far
\* as one page of Cost Explorer goes, for any calendar.
THEOREM AnswersAreWhole == FiguresSpec => []RepliesAreWhole
<1>1. AnswerInv => RepliesAreWhole
  <2> DEFINE start == Local(request.end, request.shift)
             Date(i) == root.aggregation[i].date
             First == MonthStart(MonthOf(start)) = start
             bs == Buckets(Period, request.by)
             n == Len(root.aggregation)
  <2> SUFFICES ASSUME AnswerInv, Answered, request.op # "projects", Whole
               PROVE  IF request.by = "DAILY"
                      THEN /\ n = request.count
                           /\ \A i \in DOMAIN root.aggregation : Date(i) = start - request.count + i - 1
                      ELSE /\ n = request.count - (IF First THEN 1 ELSE 0)
                           /\ \A i \in DOMAIN root.aggregation :
                                MonthOf(Date(i)) = MonthOf(start) - request.count + i
    BY DEF RepliesAreWhole
  <2>1. /\ request \in FigureRequests /\ request.from < request.to
        /\ n = Len(Results) /\ DOMAIN root.aggregation = DOMAIN Results
        /\ \A i \in DOMAIN Results : Date(i) = Min(Results[i])
    BY DEF AnswerInv, Underway, TotalCovers, HasTotal, Answered
  <2>2. /\ Proper(Period) /\ Division(bs, Period) /\ Asks(request) /\ Results = bs
        /\ request.by = "DAILY" =>
             /\ Len(bs) = request.count
             /\ \A i \in 1..Len(bs) : bs[i] = {request.from + i - 1}
        /\ request.by = "MONTHLY" =>
             /\ Len(bs) = MonthOf(request.to - 1) - MonthOf(request.from) + 1
             /\ \A i \in 1..Len(bs) : \A d \in bs[i] : MonthOf(d) = MonthOf(request.from) + i - 1
    BY <2>1, ResultsDivide
  <2>3. /\ n = Len(bs) /\ n \in Nat /\ DOMAIN root.aggregation = 1..n
        /\ \A i \in 1..n : Date(i) = Min(bs[i]) /\ bs[i] # {} /\ bs[i] \in SUBSET Nat
    BY <2>1, <2>2 DEF Division
  <2>4. /\ start \in Days /\ request.to = start /\ request.from \in Days /\ request.count \in Nat
        /\ request.by \in {"DAILY", "MONTHLY"} /\ start - 1 \in Days
    BY <2>2 DEF Asks, Proper, Period
  <2>5. start \in Int /\ request.from \in Int
    BY <2>4 DEF Days
  <2> HIDE DEF bs, n, start, Date, First
  <2>6. CASE request.by = "DAILY"
    <3>1. n = request.count /\ request.from = start - request.count
      BY <2>2, <2>3, <2>4, <2>5, <2>6 DEF Asks
    <3>2. ASSUME NEW i \in 1..n PROVE Date(i) = start - request.count + i - 1
      <4>1. Date(i) = Min({request.from + i - 1})
        BY <2>2, <2>3, <2>6
      <4>2. request.from + i - 1 \in Int
        BY <2>3, <2>5
      <4>3. \A k \in Int : Min({k}) = k
        <5>1. \A k \in Int : {k, k} = {k} /\ Min({k, k}) = k
          BY MinMaxOfTwo
        <5>. QED
          BY <5>1
      <4>. QED
        BY <3>1, <4>1, <4>2, <4>3
    <3>. QED
      BY <2>3, <2>6, <3>1, <3>2
  <2>7. CASE request.by = "MONTHLY"
    <3>1. MonthOf(start) \in Nat /\ MonthOf(request.from) = MonthOf(start) - request.count + 1
      <4>1. MonthOf(start) \in Nat
        BY <2>4, DayHasMonth, MonthsFollow DEF Ms
      <4>. QED
        BY <2>2, <2>4, <2>7, <4>1 DEF Asks
    <3>2. MonthOf(start - 1) = MonthOf(start) - (IF First THEN 1 ELSE 0)
      BY <2>4, DayBefore DEF First
    <3>3. n = MonthOf(start - 1) - MonthOf(request.from) + 1
      BY <2>2, <2>3, <2>4, <2>7
    <3>4. n = request.count - (IF First THEN 1 ELSE 0)
      BY <2>4, <3>1, <3>2, <3>3
    <3>5. ASSUME NEW i \in 1..n PROVE MonthOf(Date(i)) = MonthOf(start) - request.count + i
      <4>1. Date(i) \in bs[i]
        BY <2>3, MinIsIn
      <4>2. MonthOf(Date(i)) = MonthOf(request.from) + i - 1
        BY <2>2, <2>3, <2>7, <4>1
      <4>. QED
        BY <2>3, <2>4, <3>1, <4>2
    <3>. QED
      BY <2>3, <2>7, <3>4, <3>5
  <2>. QED
    BY <2>4, <2>6, <2>7
<1>. QED
  BY <1>1, AnswerInvariant, PTL

-----------------------------------------------------------------------------
(* Sums of the bill.  Every figure is a sum over some rows and some days, so  *)
(* figures whose rows and days make up those of another add up to it.         *)

\* What each row costs on each day.
Costs == [x \in Rows \X Days |-> bill[x[1]][x[2]]]

\* The sum over one element is its value.
LEMMA SumOfOne ==
  ASSUME NEW f, NEW x, f[x] \in Int
  PROVE  Total(f, {x}) = f[x]
<1>1. IsFiniteSet({x}) /\ Ints(f, {x}) /\ x \in {x} /\ {x} \ {x} = {}
  BY FS_Singleton DEF Ints
<1> DEFINE one == {x}
<1>2. IsFiniteSet(one) /\ Ints(f, one) /\ x \in one
  BY <1>1
<1> HIDE DEF one
<1>3. Total(f, one) = f[x] + Total(f, one \ {x})
  BY <1>2, SumTakes
<1>4. Total(f, one) = f[x] + Total(f, {})
  BY <1>1, <1>3 DEF one
<1>. QED
  BY <1>4, SumOfNone DEF one

\* The costs of rows over days are a sum over both.
LEMMA BilledIsSum ==
  ASSUME bill \in Bills, NEW rs \in SUBSET Rows, NEW ds \in SUBSET Days, IsFiniteSet(ds)
  PROVE  /\ Billed(rs, ds) = Total(Costs, rs \X ds) /\ Billed(rs, ds) \in Nat
         /\ IsFiniteSet(rs \X ds) /\ Ints(Costs, rs \X ds)
<1>1. \A r \in Rows : \A d \in Days : bill[r][d] \in Nat
  BY BillsAssumption
<1>2. IsFiniteSet(rs) /\ IsFiniteSet(rs \X ds)
  BY BillsAssumption, FS_Subset, FS_Product
<1>3. \A x \in rs \X ds : x \in Rows \X Days /\ Costs[x] = bill[x[1]][x[2]] /\ Costs[x] \in Nat
  BY <1>1 DEF Costs
<1>4. \A r \in rs : \A d \in ds : <<r, d>> \in rs \X ds /\ Costs[<<r, d>>] = bill[r][d]
  BY <1>3
<1>5. ASSUME NEW r \in rs
      PROVE  Cost(r, ds) = Total(Costs, {r} \X ds) /\ IsFiniteSet({r} \X ds) /\ Ints(Costs, {r} \X ds)
  <2> DEFINE P == [d \in ds |-> {<<r, d>>}]
             g == bill[r]
  <2>1. Parts(P, ds)
    <3>1. \A d \in ds : IsFiniteSet(P[d])
      BY FS_Singleton
    <3>. QED
      BY <3>1 DEF Parts
  <2>2. \A d \in ds : Ints(Costs, P[d]) /\ g[d] = Total(Costs, P[d])
    <3>1. \A d \in ds : Costs[<<r, d>>] = g[d] /\ Costs[<<r, d>>] \in Int /\ P[d] = {<<r, d>>}
      BY <1>1, <1>4
    <3> HIDE DEF P, g
    <3>2. \A d \in ds : Total(Costs, {<<r, d>>}) = Costs[<<r, d>>]
      BY <3>1, SumOfOne
    <3>. QED
      BY <3>1, <3>2 DEF Ints
  <2>3. UNION {P[d] : d \in ds} = {r} \X ds
    OBVIOUS
  <2> HIDE DEF P, g
  <2>4. Total(g, ds) = Total(Costs, {r} \X ds) /\ IsFiniteSet({r} \X ds)
    BY <2>1, <2>2, <2>3, SumOfParts
  <2>. QED
    BY <1>3, <2>4 DEF Cost, Total, g, Ints
<1>6. Billed(rs, ds) = Total(Costs, rs \X ds)
  <2> DEFINE P == [r \in rs |-> {r} \X ds]
             g == [r \in rs |-> Cost(r, ds)]
  <2>1. Parts(P, rs)
    BY <1>2, <1>5 DEF Parts
  <2>2. \A r \in rs : Ints(Costs, P[r]) /\ g[r] = Total(Costs, P[r])
    BY <1>5
  <2>3. UNION {P[r] : r \in rs} = rs \X ds
    OBVIOUS
  <2>4. Billed(rs, ds) = Total(g, rs)
    BY DEF Billed, SumFunction, Total
  <2> HIDE DEF P, g
  <2>. QED
    BY <2>1, <2>2, <2>3, <2>4, SumOfParts
<1>7. Total(Costs, rs \X ds) \in Nat
  BY <1>2, <1>3, SumIsNat
<1>. QED
  BY <1>2, <1>3, <1>6, <1>7 DEF Ints

\* Cells of rows and days that make up all of rs and ds, none of it twice.
Tiled(I, R, D, rs, ds) ==
  /\ IsFiniteSet(I)
  /\ \A c \in I : R[c] \in SUBSET rs /\ D[c] \in SUBSET ds
  /\ \A c, e \in I : c # e => (R[c] \cap R[e] = {} \/ D[c] \cap D[e] = {})
  /\ \A r \in rs : \A d \in ds : \E c \in I : r \in R[c] /\ d \in D[c]

\* The costs of the cells add up to the costs of the whole.
LEMMA CellsAddUp ==
  ASSUME bill \in Bills, NEW rs \in SUBSET Rows, NEW ds \in SUBSET Days, IsFiniteSet(ds),
         NEW I, NEW R, NEW D, Tiled(I, R, D, rs, ds),
         NEW g, \A c \in I : g[c] = Billed(R[c], D[c])
  PROVE  Total(g, I) = Billed(rs, ds)
<1> DEFINE P == [c \in I |-> R[c] \X D[c]]
<1>1. ASSUME NEW c \in I
      PROVE  g[c] = Total(Costs, P[c]) /\ IsFiniteSet(P[c]) /\ Ints(Costs, P[c])
  <2>1. R[c] \in SUBSET Rows /\ D[c] \in SUBSET Days /\ IsFiniteSet(D[c])
    BY FS_Subset DEF Tiled
  <2>. QED
    BY <2>1, BilledIsSum
<1>2. Parts(P, I)
  <2>1. \A c, e \in I : c # e => P[c] \cap P[e] = {}
    BY DEF Tiled
  <2>. QED
    BY <1>1, <2>1 DEF Parts, Tiled
<1>3. UNION {P[c] : c \in I} = rs \X ds
  <2>1. \A c \in I : P[c] \subseteq rs \X ds
    BY DEF Tiled
  <2>2. ASSUME NEW r \in rs, NEW d \in ds PROVE \E c \in I : <<r, d>> \in P[c]
    BY DEF Tiled
  <2>. QED
    BY <2>1, <2>2
<1> HIDE DEF P
<1>4. Total(g, I) = Total(Costs, rs \X ds)
  BY <1>1, <1>2, <1>3, SumOfParts
<1>. QED
  BY <1>4, BilledIsSum

\* The results of a whole answer, and whose rows a filter selects.
Counted(filter) ==
  /\ bill \in Bills /\ Proper(Period) /\ Division(Results, Period)
  /\ RowsOf(filter) \in SUBSET Rows /\ Asked(Period) \in SUBSET Days /\ IsFiniteSet(Asked(Period))
  /\ \A i \in DOMAIN Results : Results[i] \in SUBSET Asked(Period)

\* What the figures of a proper request count, the rows and the results, is as
\* the sums need it.
LEMMA CountedHolds ==
  ASSUME request \in FigureRequests, request.op # "projects", request.from < request.to,
         bill \in Bills, Whole, NEW filter
  PROVE  Counted(filter)
<1>1. Proper(Period) /\ Division(Results, Period)
  BY ResultsDivide
<1>2. /\ Period.from \in Nat /\ Period.to \in Nat /\ Period.to - 1 <= DayCount - 1
      /\ Period.from \in Int /\ Period.to - 1 \in Int
  BY <1>1 DEF Proper, Days
<1>3. Asked(Period) \in SUBSET Days
  <2>1. Len(Months) + 1 \in 1..Len(Months) + 1
    BY MonthsFollow
  <2>. QED
    BY <1>2, <2>1, MonthsFollow DEF Asked, Days
<1>4. IsFiniteSet(Asked(Period))
  BY <1>2, FS_Interval DEF Asked
<1>5. \A i \in DOMAIN Results : Results[i] \in SUBSET Asked(Period)
  BY <1>1 DEF Division
<1>. QED
  BY <1>1, <1>3, <1>4, <1>5 DEF Counted, RowsOf

\* The page's total is what the bill says of the whole period.
LEMMA PageAddsUp ==
  ASSUME NEW filter, Counted(filter), root.aggregation = Aggregations(filter)
  PROVE  PageTotal = Billed(RowsOf(filter), Asked(Period))
<1> DEFINE n == Len(Results)
           rs == RowsOf(filter)
           g == [i \in DOMAIN root.aggregation |-> root.aggregation[i].amount]
           R == [i \in 1..n |-> rs]
<1>1. DOMAIN Results = 1..n
  BY DEF Counted, Division
<1>2. /\ root.aggregation =
           [i \in 1..n |-> [date |-> Min(Results[i]), amount |-> Billed(rs, Results[i])]]
  BY <1>1 DEF Aggregations, Results
<1>3. DOMAIN g = 1..n /\ \A i \in 1..n : g[i] = Billed(rs, Results[i]) /\ R[i] = rs
  BY <1>2
<1>4. PageTotal = Total(g, 1..n)
  <2>1. PageTotal = Total(g, DOMAIN g)
    BY DEF PageTotal, SumFunction, Total
  <2> HIDE DEF g
  <2>. QED
    BY <1>3, <2>1
<1>5. Tiled(1..n, R, Results, rs, Asked(Period))
  <2>1. IsFiniteSet(1..n)
    BY FS_Interval DEF Counted, Division
  <2>2. \A i \in 1..n : R[i] = rs /\ Results[i] \in SUBSET Asked(Period)
    BY <1>1 DEF Counted
  <2>3. \A i, j \in 1..n : i # j => Results[i] \cap Results[j] = {}
    BY DEF Counted, Division
  <2>4. \A d \in Asked(Period) : \E i \in 1..n : d \in Results[i]
    BY DEF Counted, Division
  <2> HIDE DEF R, rs, n
  <2>. QED
    BY <2>1, <2>2, <2>3, <2>4 DEF Tiled
<1>6. bill \in Bills /\ rs \in SUBSET Rows /\ Asked(Period) \in SUBSET Days /\ IsFiniteSet(Asked(Period))
  BY DEF Counted
<1>7. \A i \in 1..n : g[i] = Billed(R[i], Results[i])
  BY <1>3
<1>8. Total(g, 1..n) = Billed(rs, Asked(Period))
  <2> DEFINE I == 1..n
             ds == Asked(Period)
  <2>1. /\ Tiled(I, R, Results, rs, ds) /\ rs \in SUBSET Rows /\ ds \in SUBSET Days
        /\ IsFiniteSet(ds) /\ \A i \in I : g[i] = Billed(R[i], Results[i])
    BY <1>5, <1>6, <1>7
  <2> HIDE DEF g, R, rs, n, I, ds
  <2>2. Total(g, I) = Billed(rs, ds)
    BY <1>6, <2>1, CellsAddUp
  <2>. QED
    BY <2>2 DEF I, ds
<1>. QED
  BY <1>4, <1>8 DEF rs

\* Rounding to a cent moves an amount by half a cent at most.
LEMMA HalfUpIsNear == \A x \in Nat : HalfUp(x) \in Int /\ HalfUp(x) - x \in -5..5
  BY DEF HalfUp

\* What comes of a finite set is finite.
LEMMA ImageIsFinite ==
  ASSUME NEW S, IsFiniteSet(S), NEW f
  PROVE  IsFiniteSet({f[x] : x \in S})
<1> DEFINE T == {f[x] : x \in S}
           g == [x \in S |-> f[x]]
<1>1. g \in Surjection(S, T)
  BY DEF Surjection
<1> HIDE DEF T, g
<1>2. IsFiniteSet(T)
  BY <1>1, FS_Surjection
<1>. QED
  BY <1>2 DEF T

\* The points of the card, of each key and each result in which it has costs, are
\* the costs of cells of the bill.
LEMMA PointsAddUp ==
  ASSUME NEW filter, NEW key, Counted(filter), ServiceGroups = GroupedAggregations(filter, key)
  PROVE  LET amt == [q \in ServicePoints |-> q[2].amount] IN
         /\ IsFiniteSet(ServicePoints)
         /\ \A q \in ServicePoints : q[2].amount \in Nat
         /\ Total(amt, ServicePoints) = Billed(RowsOf(filter), Asked(Period))
<1> DEFINE n == Len(Results)
           rs == RowsOf(filter)
           ds == Asked(Period)
           K == {r[key] : r \in Rows}
           Under(k) == {r \in rs : r[key] = k}
           B(k, i) == Billed(Under(k), Results[i])
           Listed(k) == {i \in 1..n : B(k, i) > 0}
           Point(k, i) == <<k, [date |-> Min(Results[i]), amount |-> B(k, i)]>>
           I == K \X (1..n)
           amt == [q \in ServicePoints |-> q[2].amount]
           g == [c \in I |-> B(c[1], c[2])]
           R == [c \in I |-> Under(c[1])]
           D == [c \in I |-> Results[c[2]]]
           P == [c \in I |-> {Point(k, i) : k \in {c[1]}, i \in {c[2]} \cap Listed(c[1])}]
<1>1. /\ DOMAIN Results = 1..n /\ n \in Nat /\ bill \in Bills /\ rs \in SUBSET Rows
      /\ ds \in SUBSET Days /\ IsFiniteSet(ds)
      /\ \A i \in 1..n : Results[i] \in SUBSET ds /\ Results[i] \in SUBSET Nat /\ Results[i] # {}
      /\ \A i, j \in 1..n : i # j => Results[i] \cap Results[j] = {}
      /\ \A d \in ds : \E i \in 1..n : d \in Results[i]
  BY DEF Counted, Division
<1>2. ServiceGroups = [k \in {x \in K : Listed(x) # {}} |->
        {[date |-> Min(Results[i]), amount |-> B(k, i)] : i \in Listed(k)}]
  <2>1. DOMAIN OnePage(Buckets(Period, request.by)) = 1..n
    BY <1>1 DEF Results
  <2>. QED
    BY <2>1 DEF GroupedAggregations, Results
<1> HIDE DEF n, ds, K, B
<1>3. /\ \A k \in K : \A i \in Listed(k) : Point(k, i) \in ServicePoints
      /\ \A q \in ServicePoints : \E k \in K : \E i \in Listed(k) : q = Point(k, i)
  <2> DEFINE Dated(k) == {[date |-> Min(Results[i]), amount |-> B(k, i)] : i \in Listed(k)}
  <2>1. /\ DOMAIN ServiceGroups = {x \in K : Listed(x) # {}}
        /\ \A k \in DOMAIN ServiceGroups : ServiceGroups[k] = Dated(k)
    BY <1>2
  <2>2. ASSUME NEW k \in K, NEW i \in Listed(k) PROVE Point(k, i) \in ServicePoints
    <3>1. [date |-> Min(Results[i]), amount |-> B(k, i)] \in Dated(k)
      OBVIOUS
    <3>2. k \in DOMAIN ServiceGroups
      BY <2>1
    <3> HIDE DEF Dated, Listed
    <3>. QED
      BY <2>1, <3>1, <3>2 DEF ServicePoints
  <2>3. ASSUME NEW q \in ServicePoints PROVE \E k \in K : \E i \in Listed(k) : q = Point(k, i)
    <3> HIDE DEF Dated, Listed, Point
    <3>1. PICK k \in DOMAIN ServiceGroups : q \in {<<k, p>> : p \in ServiceGroups[k]}
      BY DEF ServicePoints
    <3>2. PICK p \in Dated(k) : q = <<k, p>>
      BY <2>1, <3>1
    <3>3. PICK i \in Listed(k) : p = [date |-> Min(Results[i]), amount |-> B(k, i)]
      BY <3>2 DEF Dated
    <3>. QED
      BY <2>1, <3>2, <3>3 DEF Point
  <2>. QED
    BY <2>2, <2>3
<1>4. \A k \in K : \A i \in 1..n : B(k, i) \in Nat
  <2>1. ASSUME NEW k \in K, NEW i \in 1..n PROVE B(k, i) \in Nat
    <3>1. Under(k) \in SUBSET Rows /\ Results[i] \in SUBSET Days /\ IsFiniteSet(Results[i])
      BY <1>1, FS_Subset
    <3> HIDE DEF Under
    <3>. QED
      BY <1>1, <3>1, BilledIsSum DEF B
  <2>. QED
    BY <2>1
<1>5. IsFiniteSet(I)
  <2>1. IsFiniteSet(K)
    <3> DEFINE f == [r \in Rows |-> r[key]]
    <3>1. K = {f[r] : r \in Rows}
      BY DEF K
    <3> HIDE DEF f
    <3>. QED
      BY <3>1, ImageIsFinite, BillsAssumption
  <2>2. IsFiniteSet(1..n)
    BY <1>1, FS_Interval
  <2>. QED
    BY <2>1, <2>2, FS_Product
<1>6. \A c \in I : c[1] \in K /\ c[2] \in 1..n /\ c = <<c[1], c[2]>>
  OBVIOUS
<1>7. Total(g, I) = Billed(rs, ds)
  <2>1. Tiled(I, R, D, rs, ds)
    <3>1. \A c \in I : R[c] = Under(c[1]) /\ D[c] = Results[c[2]]
      OBVIOUS
    <3>2. \A c \in I : R[c] \in SUBSET rs /\ D[c] \in SUBSET ds
      BY <1>1, <1>6, <3>1
    <3>3. ASSUME NEW c \in I, NEW e \in I, c # e
          PROVE  R[c] \cap R[e] = {} \/ D[c] \cap D[e] = {}
      <4>1. CASE c[1] # e[1]
        <5>1. Under(c[1]) \cap Under(e[1]) = {}
          BY <4>1
        <5>. QED
          BY <3>1, <5>1
      <4>2. CASE c[1] = e[1]
        <5>1. c[2] # e[2]
          BY <1>6, <3>3, <4>2
        <5>. QED
          BY <1>1, <1>6, <3>1, <5>1
      <4>. QED
        BY <4>1, <4>2
    <3>4. ASSUME NEW r \in rs, NEW d \in ds PROVE \E c \in I : r \in R[c] /\ d \in D[c]
      <4>1. PICK i \in 1..n : d \in Results[i]
        BY <1>1
      <4>2. r[key] \in K
        BY <1>1 DEF K
      <4>3. <<r[key], i>> \in I
        BY <4>2
      <4>4. r \in R[<<r[key], i>>] /\ d \in D[<<r[key], i>>]
        BY <3>1, <4>1, <4>3
      <4>. QED
        BY <4>3, <4>4
    <3> HIDE DEF R, D, I
    <3>. QED
      BY <1>5, <3>2, <3>3, <3>4 DEF Tiled
  <2>2. \A c \in I : g[c] = Billed(R[c], D[c])
    BY DEF B
  <2> HIDE DEF g, R, D, I, rs
  <2>. QED
    BY <1>1, <2>1, <2>2, CellsAddUp
<1>8. \A k, l \in K : \A i, j \in 1..n : Point(k, i) = Point(l, j) => k = l /\ i = j
  <2>1. ASSUME NEW k \in K, NEW l \in K, NEW i \in 1..n, NEW j \in 1..n, Point(k, i) = Point(l, j)
        PROVE  k = l /\ i = j
    <3>1. k = l /\ Min(Results[i]) = Min(Results[j])
      BY <2>1
    <3>2. Min(Results[i]) \in Results[i] /\ Min(Results[j]) \in Results[j]
      BY <1>1, MinIsIn
    <3>. QED
      BY <1>1, <3>1, <3>2
  <2>. QED
    BY <2>1
<1>9. Parts(P, I)
  <2>1. ASSUME NEW c \in I PROVE IsFiniteSet(P[c])
    <3>1. P[c] \in SUBSET {Point(c[1], c[2])}
      OBVIOUS
    <3>2. IsFiniteSet({Point(c[1], c[2])})
      BY FS_Singleton
    <3> HIDE DEF P, Point
    <3>. QED
      BY <3>1, <3>2, FS_Subset
  <2>2. ASSUME NEW c \in I, NEW e \in I, c # e PROVE P[c] \cap P[e] = {}
    <3>1. \A x \in P[c] : x = Point(c[1], c[2])
      OBVIOUS
    <3>2. \A x \in P[e] : x = Point(e[1], e[2])
      OBVIOUS
    <3> HIDE DEF P, Point
    <3>. QED
      BY <1>6, <1>8, <2>2, <3>1, <3>2
  <2> HIDE DEF P, I
  <2>. QED
    BY <1>5, <2>1, <2>2 DEF Parts
<1>10. UNION {P[c] : c \in I} = ServicePoints
  <2>1. ASSUME NEW q \in ServicePoints PROVE \E c \in I : q \in P[c]
    <3>1. PICK k \in K, i \in 1..n : i \in Listed(k) /\ q = Point(k, i)
      BY <1>3
    <3>2. <<k, i>> \in I /\ P[<<k, i>>] = {Point(a, b) : a \in {k}, b \in {i} \cap Listed(k)}
      OBVIOUS
    <3> HIDE DEF P, Point, Listed, I
    <3>. QED
      BY <3>1, <3>2
  <2>2. ASSUME NEW c \in I PROVE P[c] \in SUBSET ServicePoints
    <3>1. P[c] = {Point(a, b) : a \in {c[1]}, b \in {c[2]} \cap Listed(c[1])}
      OBVIOUS
    <3> HIDE DEF P, Point, Listed
    <3>. QED
      BY <1>3, <1>6, <3>1
  <2> HIDE DEF P, I
  <2>. QED
    BY <2>1, <2>2
<1>11. \A q \in ServicePoints : q[2].amount \in Nat /\ amt[q] = q[2].amount
  BY <1>3, <1>4
<1>12. ASSUME NEW c \in I PROVE Ints(amt, P[c]) /\ g[c] = Total(amt, P[c])
  <2>1. c[1] \in K /\ c[2] \in 1..n /\ g[c] = B(c[1], c[2]) /\ B(c[1], c[2]) \in Nat
    BY <1>4, <1>6
  <2>2. CASE c[2] \in Listed(c[1])
    <3>1. P[c] = {Point(c[1], c[2])}
      BY <2>2
    <3>2. Point(c[1], c[2]) \in ServicePoints
      BY <1>3, <2>1, <2>2
    <3>3. amt[Point(c[1], c[2])] = B(c[1], c[2])
      <4>1. amt[Point(c[1], c[2])] = Point(c[1], c[2])[2].amount
        BY <3>2
      <4>. QED
        BY <4>1
    <3> HIDE DEF P, Point, amt, g
    <3>4. Total(amt, {Point(c[1], c[2])}) = B(c[1], c[2])
      BY <2>1, <3>3, SumOfOne
    <3>. QED
      BY <2>1, <3>1, <3>3, <3>4 DEF Ints
  <2>3. CASE c[2] \notin Listed(c[1])
    <3>1. P[c] = {}
      BY <2>3
    <3>2. B(c[1], c[2]) = 0
      BY <2>1, <2>3
    <3> HIDE DEF P, amt, g
    <3>. QED
      BY <2>1, <3>1, <3>2, SumOfNone DEF Ints
  <2>. QED
    BY <2>2, <2>3
<1> HIDE DEF P, amt, g, I
<1>13. IsFiniteSet(ServicePoints) /\ Total(g, I) = Total(amt, ServicePoints)
  BY <1>9, <1>10, <1>12, SumOfParts
<1>. QED
  BY <1>7, <1>11, <1>13 DEF amt, ds

\* The card adds up its points, date by date, each rounded to a cent.
LEMMA CardAddsUp ==
  ASSUME NEW filter, NEW key, Counted(filter), ServiceGroups = GroupedAggregations(filter, key)
  PROVE  LET error == 5 * Cardinality(ServicePoints) IN
         CardTotal - Billed(RowsOf(filter), Asked(Period)) \in -error..error
<1> DEFINE amt == [q \in ServicePoints |-> q[2].amount]
           cents == [q \in ServicePoints |-> HalfUp(q[2].amount)]
           At(date) == {p \in ServicePoints : p[2].date = date}
           g == [date \in CardDates |-> CardTotalOf(date)]
           P == [date \in CardDates |-> At(date)]
           due == Billed(RowsOf(filter), Asked(Period))
<1>1. /\ IsFiniteSet(ServicePoints) /\ \A q \in ServicePoints : q[2].amount \in Nat
      /\ Total(amt, ServicePoints) = due
  BY PointsAddUp
<1>2. /\ Ints(amt, ServicePoints) /\ Ints(cents, ServicePoints)
      /\ \A q \in ServicePoints : cents[q] - amt[q] \in -5..5
  BY <1>1, HalfUpIsNear DEF Ints
<1>3. ASSUME NEW date PROVE CardTotalOf(date) = Total(cents, At(date)) /\ IsFiniteSet(At(date))
  <2> DEFINE h == [q \in At(date) |-> HalfUp(q[2].amount)]
  <2>1. At(date) \in SUBSET ServicePoints /\ \A q \in At(date) : h[q] = cents[q]
    OBVIOUS
  <2>2. CardTotalOf(date) = Total(h, At(date))
    BY DEF CardTotalOf, SumFunction, Total
  <2> HIDE DEF h, At, cents
  <2>3. IsFiniteSet(At(date))
    BY <1>1, <2>1, FS_Subset
  <2>4. Total(h, At(date)) = Total(cents, At(date))
    BY <2>1, <2>3, SumSame
  <2>. QED
    BY <2>2, <2>3, <2>4
<1>4. IsFiniteSet(CardDates)
  <2> DEFINE f == [q \in ServicePoints |-> q[2].date]
  <2>1. CardDates = {f[q] : q \in ServicePoints}
    BY DEF CardDates
  <2> HIDE DEF f
  <2>. QED
    BY <1>1, <2>1, ImageIsFinite
<1>5. Parts(P, CardDates)
  <2>1. \A date \in CardDates : P[date] = At(date)
    OBVIOUS
  <2>2. \A d, e \in CardDates : d # e => At(d) \cap At(e) = {}
    OBVIOUS
  <2> HIDE DEF P, At
  <2>. QED
    BY <1>3, <1>4, <2>1, <2>2 DEF Parts
<1>6. UNION {P[date] : date \in CardDates} = ServicePoints
  <2>1. \A q \in ServicePoints : q[2].date \in CardDates /\ q \in P[q[2].date]
    BY DEF CardDates
  <2>2. \A date \in CardDates : P[date] \in SUBSET ServicePoints
    OBVIOUS
  <2> HIDE DEF P
  <2>. QED
    BY <2>1, <2>2
<1>7. \A date \in CardDates : Ints(cents, P[date]) /\ g[date] = Total(cents, P[date])
  <2>1. \A date \in CardDates : P[date] = At(date) /\ g[date] = CardTotalOf(date)
    OBVIOUS
  <2>2. \A date \in CardDates : At(date) \in SUBSET ServicePoints
    OBVIOUS
  <2> HIDE DEF P, At, g, cents
  <2>. QED
    BY <1>2, <1>3, <2>1, <2>2 DEF Ints
<1>8. CardTotal = Total(g, CardDates)
  BY DEF CardTotal, SumFunction, Total
<1> HIDE DEF P, At, g, cents, amt, due
<1>9. Total(g, CardDates) = Total(cents, ServicePoints)
  BY <1>5, <1>6, <1>7, SumOfParts
<1>10. LET error == 5 * Cardinality(ServicePoints) IN
       Total(cents, ServicePoints) - Total(amt, ServicePoints) \in -error..error
  BY <1>1, <1>2, SumsAreNear
<1>. QED
  BY <1>1, <1>8, <1>9, <1>10 DEF due

\* Of positions in a sequence the last is one of them.
LEMMA MaxIsIn ==
  ASSUME NEW n \in Nat, NEW T \in SUBSET (1..n), T # {}
  PROVE  Max(T) \in T
<1> DEFINE U == {n - t : t \in T}
<1>1. U \in SUBSET Nat /\ U # {}
  <2>1. \A t \in T : t \in 1..n /\ n - t \in Nat
    OBVIOUS
  <2>. QED
    BY <2>1
<1>2. PICK u \in U : \A v \in U : u <= v
  <2> HIDE DEF U
  <2>. QED
    BY <1>1, Least
<1>3. PICK t \in T : u = n - t
  OBVIOUS
<1>4. \A s \in T : n - t <= n - s
  BY <1>2, <1>3
<1>5. \A s \in T : t >= s
  BY <1>3, <1>4
<1>. QED
  BY <1>5 DEF Max

\* What came of one bill, unless it was restated since: the total and each group
\* are figures of that bill, collected under the names of the groups.
OneBill ==
  HasTotal /\ ~ restated =>
    /\ root.aggregation = Aggregations(Filter(request))
    /\ DOMAIN calls = DOMAIN groups
    /\ \A i \in DOMAIN groups :
         calls[i] # Nothing => calls[i] = GroupedAggregations(Filter(request), groups[i].key)
    /\ pc = "answered" =>
         /\ \A i \in DOMAIN groups : calls[i] # Nothing
         /\ grouped = [name \in {groups[i].name : i \in DOMAIN groups} |->
              calls[Max({i \in DOMAIN groups : groups[i].name = name})]]

BillInv == AnswerInv /\ OneBill

\* Figures of a bill that stands still stay what they are.
LEMMA FiguresStay ==
  ASSUME request' = request, bill' = bill
  PROVE  /\ Aggregations(Filter(request))' = Aggregations(Filter(request))
         /\ \A key : GroupedAggregations(Filter(request), key)' = GroupedAggregations(Filter(request), key)
<1>1. Period' = Period
  BY DEF Period
<1>2. \A rs, ds : Billed(rs, ds)' = Billed(rs, ds)
  BY DEF Billed, Cost
<1>3. Aggregations(Filter(request))' = Aggregations(Filter(request))
  BY <1>1, <1>2 DEF Aggregations
<1>4. \A key : GroupedAggregations(Filter(request), key)' = GroupedAggregations(Filter(request), key)
  BY <1>1, <1>2 DEF GroupedAggregations
<1>. QED
  BY <1>3, <1>4

\* Each step asks the bill that was asked before, or the bill was restated.
LEMMA OneBillStep == BillInv /\ [FiguresNext]_figuresVars => OneBill'
<1> SUFFICES ASSUME BillInv, [FiguresNext]_figuresVars PROVE OneBill'
  OBVIOUS
<1> DEFINE F == Filter(request)
           TotalNow == Aggregations(F)
           Group(key) == GroupedAggregations(F, key)
<1>0. ASSUME request' = request, bill' = bill
      PROVE  /\ Aggregations(Filter(request))' = TotalNow
             /\ \A key : GroupedAggregations(Filter(request), key)' = Group(key)
  BY <1>0, FiguresStay
<1>1. CASE ReadEntity
  BY <1>1 DEF ReadEntity, Reject, OneBill, HasTotal
<1>2. CASE AskTotal
  <2>1. SUFFICES ASSUME pc' = "groups" PROVE OneBill'
    BY <1>2 DEF AskTotal, Reject, OneBill, HasTotal
  <2>2. /\ request' = request /\ bill' = bill /\ groups' = groups
        /\ root'.aggregation = TotalNow /\ calls' = [i \in DOMAIN groups |-> Nothing]
    BY <1>2, <2>1 DEF AskTotal, Reject, Idle
  <2>. QED
    BY <1>0, <2>1, <2>2 DEF OneBill
<1>3. ASSUME NEW i \in DOMAIN calls, AnswerGroup(i) PROVE OneBill'
  <2>1. SUFFICES ASSUME HasTotal', ~ restated' PROVE OneBill'
    BY DEF OneBill
  <2>2. /\ UNCHANGED <<request, groups, bill, restated, pc, root, grouped>> /\ pc = "groups"
        /\ calls' = [calls EXCEPT ![i] = Group(groups[i].key)]
    BY <1>3, <2>1 DEF AnswerGroup, Reject, Idle, HasTotal
  <2>3. /\ root.aggregation = TotalNow /\ DOMAIN calls = DOMAIN groups
        /\ \A k \in DOMAIN groups : calls[k] # Nothing => calls[k] = Group(groups[k].key)
    BY <2>1, <2>2 DEF BillInv, OneBill, HasTotal
  <2> HIDE DEF TotalNow, Group
  <2>4. /\ DOMAIN calls' = DOMAIN groups
        /\ \A k \in DOMAIN groups : calls'[k] # Nothing => calls'[k] = Group(groups[k].key)
    BY <2>2, <2>3
  <2>. QED
    BY <1>0, <2>2, <2>3, <2>4 DEF OneBill
<1>4. CASE CollectGroups
  <2>1. SUFFICES ASSUME HasTotal', ~ restated' PROVE OneBill'
    BY DEF OneBill
  <2>2. /\ UNCHANGED <<request, groups, bill, restated, root, calls>> /\ pc = "groups"
        /\ \A i \in DOMAIN calls : calls[i] # Nothing
        /\ grouped' = [name \in {groups[i].name : i \in DOMAIN groups} |->
              calls[Max({i \in DOMAIN groups : groups[i].name = name})]]
    BY <1>4 DEF CollectGroups, Idle
  <2>3. /\ root.aggregation = TotalNow /\ DOMAIN calls = DOMAIN groups
        /\ \A k \in DOMAIN groups : calls[k] # Nothing => calls[k] = Group(groups[k].key)
    BY <2>1, <2>2 DEF BillInv, OneBill, HasTotal
  <2> HIDE DEF TotalNow, Group
  <2>. QED
    BY <1>0, <2>2, <2>3 DEF OneBill
<1>5. CASE ListPage
  <2>1. ~ HasTotal'
    BY <1>5 DEF ListPage, Reject, Idle, HasTotal, BillInv, AnswerInv, Underway
  <2>. QED
    BY <2>1 DEF OneBill
<1>6. CASE Restate
  BY <1>6 DEF Restate, OneBill
<1>7. CASE UNCHANGED figuresVars
  <2>1. UNCHANGED <<request, groups, bill, restated, pc, root, calls, grouped>>
    BY <1>7 DEF figuresVars
  <2>2. HasTotal' <=> HasTotal
    BY <2>1 DEF HasTotal
  <2> HIDE DEF TotalNow, Group
  <2>. QED
    BY <1>0, <2>1, <2>2 DEF BillInv, OneBill, TotalNow, Group
<1>. QED
  BY <1>1, <1>2, <1>3, <1>4, <1>5, <1>6, <1>7 DEF FiguresNext

\* In every reachable state the figures computed so far are those of one bill,
\* until Cost Explorer restates it.
THEOREM BillInvariant == FiguresSpec => []BillInv
<1>1. FiguresInit => BillInv
  <2> SUFFICES ASSUME FiguresInit PROVE BillInv
    OBVIOUS
  <2>1. AnswerInv
    BY AnswerInit
  <2>2. pc \notin {"groups", "answered"}
    BY RequestsAreProper DEF FiguresInit, FirstStep
  <2>. QED
    BY <2>1, <2>2 DEF BillInv, OneBill, HasTotal
<1>2. BillInv /\ [FiguresNext]_figuresVars => BillInv'
  BY AnswerStep, OneBillStep DEF BillInv
<1>. QED
  BY <1>1, <1>2, PTL DEF FiguresSpec

\* The rows a request's filter selects are those it is about.
LEMMA FilterOwns ==
  ASSUME request \in FigureRequests, request.op # "projects"
  PROVE  RowsOf(Filter(request)) = OwnRows
<1>1. request.op \in {"entity", "trailing", "project", "org"}
  BY RequestsAreProper
<1>2. CASE request.op \in {"entity", "trailing"}
  <2>1. Filter(request) = FilterOf(request.entity)
    BY <1>2 DEF Filter
  <2>2. \A r \in Rows : Filter(request) \subseteq r.meets <=>
          /\ request.entity.pairs \subseteq r.meets
          /\ request.entity.account = "valid" => "account" \in r.meets
    BY <2>1 DEF FilterOf
  <2>. QED
    BY <1>2, <2>2 DEF RowsOf, OwnRows
<1>3. CASE request.op = "project"
  BY <1>3 DEF Filter, RowsOf, OwnRows
<1>4. CASE request.op = "org"
  BY <1>4 DEF Filter, RowsOf, OwnRows
<1>. QED
  BY <1>1, <1>2, <1>3, <1>4

\* The cost page's total is the bill of the request's own rows and days, and the
\* entity card's, a sum of rounded services, is within half a cent an amount of
\* it, for any bill, filters, groups and calendar, while the bill stands still.
THEOREM CardAndPageAgree == FiguresSpec => []FiguresAgree
<1>1. BillInv => FiguresAgree
  <2> SUFFICES ASSUME BillInv, Answered, request.op # "projects", Whole, ~ restated
               PROVE  /\ PageTotal = Billed(OwnRows, Asked(Period))
                      /\ "service" \in DOMAIN grouped =>
                           CardTotal - Billed(OwnRows, Asked(Period))
                             \in -(5 * Cardinality(ServicePoints))..5 * Cardinality(ServicePoints)
    BY DEF FiguresAgree
  <2> DEFINE F == Filter(request)
  <2>1. /\ HasTotal /\ pc = "answered" /\ request \in FigureRequests /\ request.from < request.to
        /\ bill \in Bills /\ groups \in Groupings
    BY DEF BillInv, AnswerInv, Underway, TotalCovers, HasTotal, Answered
  <2>2. Counted(F) /\ RowsOf(F) = OwnRows
    BY <2>1, CountedHolds, FilterOwns
  <2>3. /\ root.aggregation = Aggregations(F)
        /\ \A i \in DOMAIN groups :
             calls[i] # Nothing /\ calls[i] = GroupedAggregations(F, groups[i].key)
        /\ grouped = [name \in {groups[i].name : i \in DOMAIN groups} |->
              calls[Max({i \in DOMAIN groups : groups[i].name = name})]]
    BY <2>1 DEF BillInv, OneBill
  <2> HIDE DEF F
  <2>4. PageTotal = Billed(OwnRows, Asked(Period))
    BY <2>2, <2>3, PageAddsUp
  <2>5. ASSUME "service" \in DOMAIN grouped
        PROVE  CardTotal - Billed(OwnRows, Asked(Period))
                 \in -(5 * Cardinality(ServicePoints))..5 * Cardinality(ServicePoints)
    <3> DEFINE Named == {i \in DOMAIN groups : groups[i].name = "service"}
    <3>1. Len(groups) \in Nat /\ DOMAIN groups = 1..Len(groups)
      BY <2>1, CalendarAssumption
    <3>2. Named \in SUBSET (1..Len(groups)) /\ Named # {}
      BY <2>3, <2>5, <3>1
    <3>3. Max(Named) \in Named
      <4> HIDE DEF Named
      <4>. QED
        BY <3>1, <3>2, MaxIsIn
    <3>4. ServiceGroups = calls[Max(Named)]
      BY <2>3, <2>5 DEF ServiceGroups
    <3>5. \E key : ServiceGroups = GroupedAggregations(F, key)
      BY <2>3, <3>3, <3>4
    <3>. QED
      BY <2>2, <3>5, CardAddsUp
  <2>. QED
    BY <2>4, <2>5
<1>. QED
  BY <1>1, BillInvariant, PTL
====
