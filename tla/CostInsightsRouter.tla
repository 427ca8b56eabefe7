------------------------- MODULE CostInsightsRouter -------------------------
(***************************************************************************)
(* The backend of the cost insights plugin as its callers see it: the      *)
(* permission gate in front of /v1, the response cache behind the gate,    *)
(* and the handlers behind the cache, with requests running concurrently   *)
(* while permissions and the catalog's visibility change.                  *)
(*                                                                         *)
(* A response body is abstracted to what it is and to the URL it was       *)
(* computed for; costs themselves are not modelled.                        *)
(***************************************************************************)
EXTENDS Naturals

CONSTANTS
  Callers,      \* who calls the API
  Requests,     \* the requests made, each made once
  EntityUrls,   \* /v1/entity/... : the costs of a catalog entity
  CostUrls,     \* /v1/projects, /v1/project/<account>/..., /v1/org/...
  InvalidUrls,  \* /v1/project/... with anything but a 12-digit account id
  HealthUrls,   \* /health
  CacheEnabled, \* aws.costInsights.cache.enable
  None          \* no caller, no URL, no body, no reply

Urls == EntityUrls \cup CostUrls \cup InvalidUrls \cup HealthUrls
Body == [kind : {"cost", "ok", "error", "denied"}, url : Urls]
Status == {200, 400, 403, 500}
Reply == [status : Status, body : Body]

ASSUME UrlsAssumption ==
  /\ EntityUrls \cap (CostUrls \cup InvalidUrls \cup HealthUrls) = {}
  /\ CostUrls \cap (InvalidUrls \cup HealthUrls) = {}
  /\ InvalidUrls \cap HealthUrls = {}
  /\ CacheEnabled \in BOOLEAN
  /\ None \notin Callers \cup Urls \cup Body \cup Reply

VARIABLES
  stage,    \* the middleware or part of the handler each request has reached
  caller,   \* who makes each request
  url,      \* req.originalUrl
  decision, \* what the permission framework said of each request
  shown,    \* the catalog has shown the request's entity to its caller at some
            \* time since the request came (of no effect: what replies rest on)
  patched,  \* res.json of the request also writes to the cache
  reply,    \* the response of each request, or None
  cache,    \* the stored body of each URL, or None
  writes,   \* cache writes on their way: nobody awaits them
  allowed,  \* callers who have cost-insights-aws.cost.read
  visible   \* entity URLs whose entity each caller may read in the catalog

vars == <<stage, caller, url, decision, shown, patched, reply, cache, writes, allowed, visible>>

-----------------------------------------------------------------------------
\* Mutant: the cache is registered before the gate.
AfterCacheFirst(here, u) ==
  IF here = "received" /\ CacheEnabled THEN "lookup"
  ELSE IF here \in {"received", "lookup"} /\ u \notin HealthUrls THEN "gate"
  ELSE IF here = "find" THEN "answer" ELSE "find"

\* The middlewares and the handler a request passes, in the order of registration.
After(here, u) ==
  IF here = "received" /\ u \notin HealthUrls THEN "gate"
  ELSE IF here \in {"received", "gate"} /\ CacheEnabled THEN "lookup"
  ELSE IF here = "find" THEN "answer" ELSE "find"

In(r, here) == stage[r] = here /\ reply[r] = None

Pass(r) == stage' = [stage EXCEPT ![r] = After(@, url[r])]

\* Mutant: one key for all URLs.
SharedKey(u) == CHOOSE v \in Urls : TRUE

\* The cache key: the original URL, whoever calls.
Key(u) == u

\* response.json, patched or not: the body is sent and, if patched, written to
\* the cache whatever the status.
Json(r, status, kind) ==
  LET body == [kind |-> kind, url |-> url[r]] IN
  /\ reply' = [reply EXCEPT ![r] = [status |-> status, body |-> body]]
  /\ writes' = IF patched[r] THEN writes \cup {<<Key(url[r]), body>>} ELSE writes

Init ==
  /\ stage = [r \in Requests |-> "none"]
  /\ caller = [r \in Requests |-> None]
  /\ url = [r \in Requests |-> None]
  /\ decision = [r \in Requests |-> "NONE"]
  /\ shown = [r \in Requests |-> FALSE]
  /\ patched = [r \in Requests |-> FALSE]
  /\ reply = [r \in Requests |-> None]
  /\ cache = [u \in Urls |-> None]
  /\ writes = {}
  /\ allowed \in SUBSET Callers
  /\ visible \in [Callers -> SUBSET EntityUrls]

Receive(r, c, u) ==
  /\ url[r] = None
  /\ url' = [url EXCEPT ![r] = u]
  /\ caller' = [caller EXCEPT ![r] = c]
  /\ stage' = [stage EXCEPT ![r] = After("received", u)]
  /\ shown' = [shown EXCEPT ![r] = u \in visible[c]]
  /\ UNCHANGED <<decision, patched, reply, cache, writes, allowed, visible>>

\* The gate lets the request through.
Allow(r) ==
  /\ In(r, "gate") /\ caller[r] \in allowed
  /\ decision' = [decision EXCEPT ![r] = "ALLOW"]
  /\ Pass(r)
  /\ UNCHANGED <<caller, url, shown, patched, reply, cache, writes, allowed, visible>>

\* DENY: NotAllowedError goes to the error middleware, which answers 403.
Deny(r) ==
  /\ In(r, "gate") /\ caller[r] \notin allowed
  /\ decision' = [decision EXCEPT ![r] = "DENY"]
  /\ Json(r, 403, "denied")
  /\ UNCHANGED <<stage, caller, url, shown, patched, cache, allowed, visible>>

\* Mutant: what the cache answered is not tested.
HitUntested(r) ==
  /\ In(r, "lookup")
  /\ reply' = [reply EXCEPT ![r] = [status |-> 200, body |-> cache[Key(url[r])]]]
  /\ UNCHANGED <<stage, caller, url, decision, shown, patched, cache, writes, allowed, visible>>

\* A hit: the stored body is sent, with the default status.
Hit(r) ==
  /\ In(r, "lookup") /\ cache[Key(url[r])] # None
  /\ reply' = [reply EXCEPT ![r] = [status |-> 200, body |-> cache[Key(url[r])]]]
  /\ UNCHANGED <<stage, caller, url, decision, shown, patched, cache, writes, allowed, visible>>

\* Mutant: without readTimeout, a store busy with a write is waited for.
MissAbsent(r) ==
  /\ In(r, "lookup") /\ cache[Key(url[r])] = None /\ writes = {}
  /\ patched' = [patched EXCEPT ![r] = TRUE]
  /\ Pass(r)
  /\ UNCHANGED <<caller, url, decision, shown, reply, cache, writes, allowed, visible>>

\* A miss: nothing is stored, or the store fails or does not answer within
\* readTimeout.
Miss(r) ==
  /\ In(r, "lookup")
  /\ patched' = [patched EXCEPT ![r] = TRUE]
  /\ Pass(r)
  /\ UNCHANGED <<caller, url, decision, shown, reply, cache, writes, allowed, visible>>

\* The catalog shows the request's entity to its caller.
Readable(r) == url[r] \in visible[caller[r]]

\* Mutant: the entity is read with the plugin's own credentials.
FindAsPlugin(r) ==
  /\ In(r, "find")
  /\ IF url[r] \in InvalidUrls
     THEN Json(r, 400, "error") /\ UNCHANGED stage
     ELSE Pass(r) /\ UNCHANGED <<reply, writes>>
  /\ UNCHANGED <<caller, url, decision, shown, patched, cache, allowed, visible>>

\* What a handler does before it asks Cost Explorer: an entity is read from the
\* catalog with the caller's credentials, a project id must have 12 digits.
Find(r) ==
  /\ In(r, "find")
  /\ \/ url[r] \in InvalidUrls /\ Json(r, 400, "error") /\ UNCHANGED stage
     \/ url[r] \in EntityUrls /\ ~ Readable(r) /\ Json(r, 500, "error") /\ UNCHANGED stage
     \/ /\ url[r] \notin InvalidUrls /\ (url[r] \in EntityUrls => Readable(r))
        /\ Pass(r) /\ UNCHANGED <<reply, writes>>
  /\ UNCHANGED <<caller, url, decision, shown, patched, cache, allowed, visible>>

Answer(r) ==
  /\ In(r, "answer")
  /\ Json(r, 200, IF url[r] \in HealthUrls THEN "ok" ELSE "cost")
  /\ UNCHANGED <<stage, caller, url, decision, shown, patched, cache, allowed, visible>>

\* Credentials, permissions, the catalog or Cost Explorer fail: the error
\* middleware answers with response.json too.
Fail(r) ==
  /\ url[r] \notin HealthUrls
  /\ In(r, "gate") \/ In(r, "find") \/ In(r, "answer")
  /\ Json(r, 500, "error")
  /\ UNCHANGED <<stage, caller, url, decision, shown, patched, cache, allowed, visible>>

\* A write reaches the cache, later than any other request's if it must be.
Land(w) ==
  /\ w \in writes
  /\ writes' = writes \ {w}
  /\ cache' = [cache EXCEPT ![w[1]] = w[2]]
  /\ UNCHANGED <<stage, caller, url, decision, shown, patched, reply, allowed, visible>>

\* Or it fails, which is logged.
Lose(w) ==
  /\ w \in writes
  /\ writes' = writes \ {w}
  /\ UNCHANGED <<stage, caller, url, decision, shown, patched, reply, cache, allowed, visible>>

\* defaultTtl has passed.
Expire(u) ==
  /\ cache[u] # None
  /\ cache' = [cache EXCEPT ![u] = None]
  /\ UNCHANGED <<stage, caller, url, decision, shown, patched, reply, writes, allowed, visible>>

\* The permission policy or the catalog changes.
ChangePolicy ==
  /\ \/ allowed' \in SUBSET Callers /\ UNCHANGED visible
     \/ visible' \in [Callers -> SUBSET EntityUrls] /\ UNCHANGED allowed
  /\ UNCHANGED <<stage, caller, url, decision, patched, reply, cache, writes>>
  /\ shown' = [r \in Requests |->
                shown[r] \/ (url[r] # None /\ reply[r] = None /\ Readable(r)')]

Serve(r) ==
  Allow(r) \/ Deny(r) \/ Hit(r) \/ Miss(r) \/ Find(r) \/ Answer(r) \/ Fail(r)

Next ==
  \/ \E r \in Requests, c \in Callers, u \in Urls : Receive(r, c, u)
  \/ \E r \in Requests : Serve(r)
  \/ \E w \in writes : Land(w) \/ Lose(w)
  \/ \E u \in Urls : Expire(u)
  \/ ChangePolicy

Spec == Init /\ [][Next]_vars

\* What a request awaits settles; readTimeout bounds the cache's answer.
FairSpec == Spec /\ \A r \in Requests : WF_vars(Serve(r))

-----------------------------------------------------------------------------
TypeOK ==
  /\ stage \in [Requests -> {"none", "gate", "lookup", "find", "answer"}]
  /\ caller \in [Requests -> Callers \cup {None}]
  /\ url \in [Requests -> Urls \cup {None}]
  /\ decision \in [Requests -> {"NONE", "ALLOW", "DENY"}]
  /\ shown \in [Requests -> BOOLEAN]
  /\ patched \in [Requests -> BOOLEAN]
  /\ reply \in [Requests -> Reply \cup {None}]
  /\ cache \in [Urls -> Body \cup {None}]
  /\ writes \in SUBSET (Urls \X Body)
  /\ allowed \in SUBSET Callers
  /\ visible \in [Callers -> SUBSET EntityUrls]

\* router.ts:57-62, a cache hit must never bypass authorization: costs go only to
\* a request the gate allowed, whatever the cache holds by then.
CostsOnlyIfAllowed ==
  \A r \in Requests :
    reply[r] # None /\ reply[r].body.kind = "cost" => decision[r] = "ALLOW"

\* One caller's denial is never served to another: what the gate answers is not
\* written to the cache.
DenialsAreOwn ==
  \A r \in Requests :
    reply[r] # None /\ reply[r].body.kind = "denied" => decision[r] = "DENY"

\* A reply, cached or not, was computed for the URL that was asked.
AnswersItsUrl ==
  \A r \in Requests : reply[r] # None => reply[r].body.url = url[r]

\* The reply was computed by the request's own handler.
Computed(r) == reply[r] # None /\ (patched[r] \/ ~ CacheEnabled)

\* Costs of an entity are computed only for a caller the catalog was showing that
\* entity to at some time of the request, whatever the catalog shows by the time
\* Cost Explorer has answered (getCatalogEntityRangeCost).
ComputedCostsNeedEntity ==
  \A r \in Requests :
    Computed(r) /\ reply[r].body.kind = "cost" /\ url[r] \in EntityUrls => shown[r]

\* Costs of an entity go only to a caller who could read that entity in the
\* catalog at some time of the request: the authorization of
\* getCatalogEntityDailyCost, which the comment at router.ts:57-62 says no cache
\* hit bypasses.  A hit for a caller who may read the entity is no violation.
EntityCostsNeedEntity ==
  \A r \in Requests :
    reply[r] # None /\ reply[r].body.kind = "cost" /\ url[r] \in EntityUrls => shown[r]

\* router.ts:137-138, anything but an AWS account id is rejected: no allowed
\* request for one ends well.
InvalidProjectsRejected ==
  \A r \in Requests :
    reply[r] # None /\ url[r] \in InvalidUrls => reply[r].status # 200

\* Every request is answered, although the cache may never answer
\* (CostInsightsCache.get races it with readTimeout).
RequestsAreAnswered == \A r \in Requests : url[r] # None ~> reply[r] # None
=============================================================================
