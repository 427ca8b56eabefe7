# Verification of the AWS plugins for Backstage

TLA+ models of the parts of this repository where steps of several actors
interleave, the TLC configurations that check them on small instances, and
proofs, checked by the TLA+ proof system, of what matters most for every
instance. Paths below are relative to `src/plugins/`.

## 1. The system

The repository holds Backstage plugins: backends that serve HTTP from a Node
process, frontends that run in the browser, and libraries between them.
JavaScript runs a handler to its next `await`; everything hard in this code
comes from what may happen at an `await`, at a callback, in a failure, or
between two processes that hold copies of one state.

| Component | State it keeps | Operations | Talks to | Hard because | Modelled by |
|---|---|---|---|---|---|
| GenAI agent service (`genai/backend`: `DefaultAgentService`, `DatabaseSessionStore`, `Agent`) | `chat_sessions` rows | stream, generate, createSession, getUserSession, endSession | chat route, database, agent type, user info, actions service | concurrent calls on one session; failure between row and conversation; restart | `AgentService` |
| LangGraph agent type (`genai/agent-langgraph`) | checkpointed conversation of each session; the state of running graphs | stream, generate, checkpointer | agent service, model, tools | rows and conversations live in different stores; recursion limit; abort | `AgentService`, `ChatStream` |
| Chat route and event stream (`router.ts`, `util/transform.ts`) | two stream buffers, the response | POST /v1/chat, close | agent type, browser | errors discard buffers; abort; headers already sent | `ChatStream`, `ChatContract` |
| Chat page (`genai/frontend`) | messages, session id, isLoading, abort controller; local storage | load, send, cancel, clear, unmount, reload | chat route, session route | handlers that cut across each other; several tabs on one storage | `ChatPage` |
| Cost insights router (`cost-insights/backend`: `router.ts`, `cache/`) | response cache | gate, cache, five handlers | permissions, catalog, Cost Explorer, cache service | cached bodies and changing authorization; unawaited writes; a cache that does not answer | `CostInsightsRouter` |
| Cost figures (`CostExplorerCostInsightsAwsService`, `actions/trailing.ts`) | none | intervals, filters, total, groups, change, list of accounts | Cost Explorer, catalog | one page of many; a period that travels as count and end; two totals of one period | `CostFigures` |
| AWS Config provider (`core/catalog-config`) | none; its cursor is kept by the ingestion engine | next | AWS Config, ingestion engine | pages of a set that changes; what a round does not tell is removed | `ConfigIngestion` |
| Resource locators (`core/node`), ECS, ECR, CodePipeline, CodeBuild, Security Hub services | none | find the ARNs of an entity, describe them | catalog, AWS APIs | pages, chunks, truncation; a catalog and an account that change between two calls | `EntityReads` |
| Cards and pages (`*/frontend`, `packages/app`) | React state of each card | open, navigate, choose, answers and failures of effects | the backends | answers of runs that are no longer the last; a card kept for another entity | `EntityCards` |
| Security Hub assistant (`securityhub`) | analysis cache; filters, drawer and modal | assistant route, the modal's hook | GenAI backend, cache service | unawaited writes, answers of closed modals, double runs | `FindingAssistant` |
| Scaffolder actions (`core/scaffolder-actions`) | none of their own | create resource, publish, upload, put event | AWS APIs, task worker | half-done steps and repeats | `ScaffolderSteps` |
| GenAI peers, sync, MCP, tools | none | a call of an agent by an agent | agent service | unbounded chains | not modelled (section 7) |

How they interact: a page sends `POST /v1/chat`; the route asks the agent
service for a stream; the service finds or inserts the session row and starts a
graph on the thread of that id; the graph's events go through the transform
stream and a `ReadableStream` into the response, from which the page's
generator reads them into the last message. `AgentService` is the backend
across many calls, `ChatStream` is one call from graph to response,
`ChatContract` is what the page may rely on of one call, and `ChatPage` is the
browser. The three meet at `ChatContract`: `ChatStream` is shown to implement
it, and the events `ChatPage` lets arrive (`Respond`, `Event`, `End`,
`NetworkFails`) are those it allows.

What makes each component correct:

- agent service: a call works on a session of its own principal and agent, at
  every `await`; conversations of two users never mix; rows never change hands;
  the system prompt is in front of every turn; answered turns stay; calls end.
- event stream: a response that ends normally is the whole answer; what is
  written is written in order; the session id comes first and an error last.
- chat page: answers go to their own message; the page can be cancelled exactly
  while its call runs; clear forgets; storage holds one conversation with the
  session it runs on; the input comes back.
- cost insights: nobody gets costs without their own permission, nor somebody
  else's denial; a reply belongs to the URL that was asked; requests are
  answered even when the cache is not.
- AWS Config provider: a round that ends has told every resource that stayed,
  and leaves no entity of one that was gone; rounds end when they can.
- reads: nothing is described that is not the entity's; a list has each resource
  once; a page is the page asked for.
- cards: what is shown is of the entity and period on the page, or is said not to
  be; loading ends; an analysis is of the finding it is shown under.
- cost figures: an answer covers the days asked for, and the card, the page and
  the bill agree.
- scaffolder actions: an attempt that is reported as done has done its own work,
  and does not work on what another attempt made.

PROJECT.json lists the hazards of the code line by line, with the properties
that would catch each one, and a note where none does yet.

## 2. Modules

### AgentService

One `Calls` element per call of the service; `pc` walks through the awaits of
its operation: `identify` (getUserEntityRef), `session` (the row), `actions`
(Agent.getAgentActions), `load`, `save`, `model`, `tool` (the graph), then
`done`, `rejected`, `failed` or `lost`.

| Code | Model |
|---|---|
| `chat_sessions` | `rows`: principal, agent and ended of each id. The primary key is the id. |
| `thread_id = sessionId` of the checkpointer | `thread`: messages by kind and by the call that added them |
| `options.newSession` | `fresh` |
| state of a running graph | `local`, `steps` |
| `getUserEntityRef` | `Principal`: users are themselves, services share one literal |
| `WHERE session_id AND agent AND principal` | `Matches` |
| `createCheckpointer` | `Volatile`: only `memory: backstage` on Postgres survives a restart |

A superstep of the graph appends a message and writes a checkpoint; that is the
library's behaviour and marked external. `Interrupt` and `Reject` are a failure
or an abort at each await. `Restart` replaces the process.

`disturbed` is a history variable: sessions on which two calls ran at once,
whose opening call died before its first checkpoint, that were made by
`createSession` or `generate`, or whose state was lost by a restart. On those
the code gives no system prompt or may drop a turn; the properties about
conversations are stated for the other sessions, and `prompt_lost` shows one
of the ways a session gets there.

### ChatStream and ChatContract

`ChatStream` follows one request: `graph` is the run, `pipe` the events held by
the `ResponseTransformStream` (at most two: high-water marks 1 and 0 plus the
one `start` enqueued), `copier` the loop in `start()` of the `ReadableStream`,
`out` its queue, `router` and `wire` the route and the response. `produced` is
history: all chat events of the run. `status` is the response as the client
sees it. `CloseRequest` may happen at any time, because `request.on('close')`
is attached after the body was read and means different things in different
versions of Node: never fired, fired at once, or fired on a disconnect.
`RequestEnds` says how a request the service answered comes to an end, and
that there is one other way: a run that throws 'Abort' leaves the
`ReadableStream` neither closed nor errored, and the route waits for a `read()`
that never settles.

`ChatContract` is the abstract specification: announce the session, tell
events, end, tell an error and end, or cut before anything was said. Without
`ErrorEvent` before the announcement it would be wrong: `controller.error`
discards a queued ResponseEvent too. It promises no end.

### ChatPage

A page is one mount of the component. `Send`, `Fetch`, `Respond`, `Event`,
`End`, `NetworkFails` are `onUserMessage`, `sendUserMessage` and `chatSync` up
to each await; `Mount`, `LoadFound`, `LoadMissing`, `LoadFails` are the effect
and `loadFromStorage`; `Cancel`, `Clear`, `Leave`, `Close` the user. `Finish`
is what both `finally` blocks do, whichever call the page is busy with by then.
`Hang` is a run the backend has aborted while the page still reads: the call goes
on to no end, and the page stays busy with it until the user cancels.
`stored` is the local storage all pages share, written key by key as
`saveToStorage` does.

Two history variables name the situations in which the code makes no promise,
so that everything else can be stated without exceptions: `tangled` (pages on
which the user sent or cleared while a load, or a call cancelled before it went
out, was under way, or on which a load failed) and `shared` (two pages used the
storage at once). `OwnAnswers` and the storage properties fail without them;
the hazards in PROJECT.json describe each failure.

### CostInsightsRouter

`stage` is the middleware or the part of the handler a request has reached;
`After` is the order of registration: gate, cache, handler. `patched` says that
`response.json` of the request writes to the cache; `writes` are the writes
nobody awaits, which land later in any order or get lost. `allowed` and
`visible`, the permission policy and the catalog, change at any time. `shown` is
history: whether the catalog has shown the request's entity to its caller at
some time of the request, so that a hit for a caller who may read the entity
counts as no violation. A body is its kind and the URL it was computed for;
amounts are not modelled. `Miss` is always possible: the cache client is raced
with `readTimeout`.

### ConfigIngestion

`account` is what AWS Config holds of each ARN that the provider's query
selects: a name, the name a transform gives it, and whether the transforms and
the validator accept it. `Query` is `next` up to the answer of AWS Config, a page
of at most `Limit` results behind the token; `Deliver` the rest of `next`, with
what the engine does with the result (`Mark`, external); `RoundFails` a result that
throws, for which `Promise.all` rejects the page. `QueryFails`, `Crash`, `Retry`
and `NextRound` are a rejected call, a process that ends with a page in hand, the
backoff and the rest of the engine. `Change` may come anywhere, between `Query` and
`Deliver` too. The engine removes, after the last page, all it was not told of in
the round.

`kept` and `seen` are history: the versions of resources that were there all
through the round, and those that were there at some time of it. The catalog
after a round lies between the two. One consequence is not obvious: a resource
that makes no valid entity must hold up its page. If it were skipped, its
entity would be removed (that is the mutant `DeliverTheValid`). It is also why
one bad resource keeps all that follow it out of the catalog until it is mended,
and why `RoundsEnd` has the premise it has.

### EntityReads

A behaviour is one request of one of the five AWS backends (`request.op`: every
route and every action that reads). `ReadEntity` is the catalog and
`getOneOfEntityAnnotations`; `Locate` the search of one of the three locators and
the test that a named ARN is the entity's; `Plans` how the operation splits its
ARNs into calls, each a job of `jobs`; then one action per kind of call, each job
at its own pace, as `Promise.all` runs them. `Split` is the slicing loop of
`getServices`: the ARNs of a cluster in the order of the locator's list (any
order, `Ranks`), cut by `slice`. `Slice` is JavaScript's, with negative bounds
counted from the end, because the schemas of the actions admit any number for
page and size; `PagesAreWindows` speaks of positive ones. `ReadEntityAgain` and
`LocateAgain` are CodePipeline's, which looks entity and tags up once more for
every ARN. `LeaveTasks` is the action asked for tasks, which starts
`getServiceTasksByEntityWithArn` and answers without awaiting it; `loose` is that
call, which reads the entity, searches and lists by itself, before or after the
action has answered, and may be rejected with nobody to handle it.

`Annotate`, `Retag` and `Remove` change catalog and account between any two
calls. `ever` is history: what the entity was annotated with and what carried its
tags since the request began; `lately` the same since the request was last told
which ARNs are the entity's; together with `Owned` they say what was the
entity's. The content of a resource is a list known by its positions, so a page
or a limit is a set of numbers.

### EntityCards

Every card is one machine: an effect, what it watches (`Watched`: the hooks of
the AWS plugins watch nothing, the cost cards entity and period), the requests
its runs have in flight (`runs`), and `loading`, `failed` and `value` as React or
the hook keeps them. `Open`, `Navigate`, `Leave`, `ChoosePeriod` are the viewer's
steps; `Mounts` is the entity page of `packages/app`, so navigation keeps, drops
or mounts a card as its routes do. The cost components are content the cost plugin
exports for any app's pages (`CostContent`): the app of this repository imports
the community plugin's of the same names (`App.tsx:39`, `EntityPage.tsx:71`).
`offered` says whether the app's `CostInsightsApi` has the optional
`getCatalogEntityDailyCost`; without it the effect of the entity card returns
before it asks and before it ends the loading (`CleanEntityCostCard.tsx:63`), which
is the run whose request is `"none"`. The client of this plugin has the method.
`Settle(i)` is the answer or failure of run i,
which counts only if it is the newest run of a mounted card (`Current`: the
call id of `useAsyncFn`, the `cancelled` flag of the cost effects). `View` is what a
render makes of the state.

### FindingAssistant

Extends `EntityCards` with what the Security Hub card leads to: filters, drawer,
modal, the request behind "Ask AI", and the route with its cache and agent. A
request is `sent`, `missed`, `answered` or `refused`; `writes` is the `cache.set`
nobody awaits, `waits` the answer on its way to the browser. `CardStep` composes
the two: the modal lives in the content of the card, so a step of the card that
renders other content closes it.

### CostFigures

One request behind the router, over a calendar of days in months: `Intervals` and
`TrailingDays`/`TrailingMonths` are the periods the selector and the action
make, `ParseInterval` what the backend makes of them, `Buckets` what Cost Explorer
returns, `Aggregations` and `GroupedAggregations` the sums. The action's
`startDate` is coerced to midnight UTC, while luxon and `formatDate` read local
fields: `Local` is that date, `shift` days early, one west of Greenwich. Months
count back from it as luxon's `minus` does, by one less than was asked for.
`AskTotal` comes first, `AnswerGroup` side by side after it. `CardTotal` and
`PageTotal` are what the two frontends add up. `Restate` changes the bill at any
time.

### ScaffolderSteps

A step of a template with one of the four actions, attempted up to `MaxAttempts`
times. A call succeeds, fails, or takes effect and fails all the same;
`WorkerDies` is the end of the worker, `Again` the template run anew. `requests`,
`repo`, `objects` and `posted` are what is in AWS and survives; `posted` and
`refused` say of which attempt an event is and which attempt was told that its
entry was refused, an answer the handler takes for success. Cloud Control's client
token, the waiter and its limit, the directory walk of the upload with its hidden
files and links are in the guards. The publish action's `sourcePath` is an input
(`input.source`) no action reads, as in the code.

### MC modules

The MC modules give names to the small sets the `.cfg` files assign. Four of them
put two components that stand on the two sides of one interface, or under one
kind of driver, into one run: `MCChat` (`ChatStream`, `ChatPage`), `MCCostInsights`
(`CostInsightsRouter`, `CostFigures`), `MCEngines` (`ConfigIngestion`,
`ScaffolderSteps`) and `MCEntityPages` (`FindingAssistant` with `EntityCards`, and
`EntityReads`). They share no variable, so their product would only multiply the
states and show nothing more: a variable chosen in the initial state (`side`,
`part`, `driver`) says which of the two this behaviour is about, the other stays
at one of its starts, and the fairness is that of the component, step by step.
What really ties the two sides is stated elsewhere: `KeepsContract` for the chat,
and the cards take any answer or failure for a request. `MCCostInsightsRouter`,
`MCCostFigures`, `MCEntityReads` and `MCScaffolderSteps` hold the sets of one
component and are used by its violated runs too, `MCAgentService` those of the
agent service.

Definitions whose comment starts with "Mutant" are not part of the
specifications. Each is a plausible bug in the operator that follows it; with it
in that operator's place TLC finds the named property violated, which shows
that the property speaks about the code.

## 3. Runs

| Run | Checks | Bounds, and why they are enough |
|---|---|---|
| `sessions` | `TypeOK`, `PromptOnEveryTurn`, `HistoryIsKept`, `WorksOnOwnSession`, `ConversationsArePrivate`, `RowsOnlyEnd`, `EveryCallEnds` | two users, two services, two ids, two calls of any operation, one restart (177,442 states): each pair of principals meets on one id, an end or a second stream comes at every await of a stream, and a turn is followed by another |
| `chat` | stream: `StreamTypeOK`, `WholeOrTold`, `WrittenInOrder`, `RequestEnds`, `KeepsContract`; page: `OwnAnswers`, `BusyWithItsCall`, `ClearedIsForgotten`, `StoredTogether`, `AnswersAreStored`, `InputComesBack` | four graph events: the transform stream (two) is full and both buffers hold something when the run throws; two pages on one storage, two sends: a cancelled call and one after it, or one on each page (1,040,650 states) |
| `cost_insights` | router: `TypeOK`, `CostsOnlyIfAllowed`, `DenialsAreOwn`, `AnswersItsUrl`, `ComputedCostsNeedEntity`, `RequestsAreAnswered`; figures: `RepliesAreWhole`, `FiguresAgree` | two callers, two requests, one URL of each kind, cache on: one request fills what the other reads, the policy and the catalog change in between; eight days in three months, west of Greenwich and not, two restated bills, groups that share a name, pages of four results: months of different length, a last month that lacks the day, a start on and off the first of a month, a period longer than a page (372,306 states) |
| `engines` | provider: `TypeOK`, `ResourcesAreListed`, `EntitiesAreCurrent`, `RoundsEnd`; actions: `DoneIsDone`, `AttemptsDoNotMeet` | three ARNs in pages of at most two, four kinds of records, two of one name, two changes: a resource behind the cursor, one in the page in hand and one ahead of it; each action with every input that steers it, up to four attempts, a workspace with a directory, a hidden file, a link and files in and out of the pattern and of the source path (738,158 states) |
| `entity_pages` | cards: `ShownIsCurrent`, `StaleIsTold`, `AnalysisIsOfFinding`, `CachedWasAnswered`, `LoadingEnds`; reads: `OnlyOwnResources`, `WholeEntity`, `PagesAreWindows` | three entities (two pages that keep their cards, one that drops them), two periods, two runs, two findings, two requests: a late answer meets the next run, the next modal and the next page; four services, three of one cluster in chunks of two (a full chunk and a rest) and one in a cluster of that name elsewhere, resources of 0 to 5 things, limits of 2 and 3, pages at, before and beyond the end, negative pages and sizes, one change (1,506,199 states) |
| `prompt_lost` | `SystemPromptApplied` (violated) | one client, one call at a time, `memory: backstage` on better-sqlite3, one restart |
| `cost_entity_hidden` | `EntityCostsNeedEntity` (violated) | with the cache, one URL of an entity |
| `cost_reject_replayed` | `InvalidProjectsRejected` (violated) | with the cache, one URL of an invalid project |
| `history_short` | `HistoryIsAsLong` (violated) | the calendar above, two intervals, no shift |
| `one_page` | `AllTaggedAreListed` (violated) | the account above, locators' answers of two, nothing changes |
| `tasks_lost` | `TasksAreRetrieved` (violated) | the account above, nothing changes |
| `source_path` | `SourcePathIsRoot` (violated) | the workspace above, one attempt |

Bounds in guards: `MaxChanges` (changes of account and catalog), `MaxRestarts`
(restarts), `MaxEvents` (events of a run), `RecursionLimit` (a parameter of the
code, small here), `MaxRuns` (runs of an effect), `MaxRequests` (to the assistant),
`MaxAttempts` (of a step). Calls, pages, requests and ids are used once each, so
the sets bound them. All runs switch deadlock checking off: an instance in which
every call was made has nothing left to do. Where a component goes on for ever, or
must come to an end, a liveness property says so (`RoundsEnd`, `EveryCallEnds`).

The violated runs are disagreements between the code and what its comments,
schemas and documents say; PROJECT.json quotes both sides:

1. `SystemPromptApplied`. The prompt is added only when the session row is new
   (`LangGraphReactAgentType.ts:275`). Rows outlive the default in-memory
   conversation, so after a restart the sessions that exist run without it.
   The same run has `memory: backstage`: on sqlite it opens `:memory:`
   (`LangGraphReactAgentType.ts:167`), so the state is not stored either.
2. `EntityCostsNeedEntity`. The cache key is the URL alone and a hit is answered
   before the catalog is read with the caller's credentials (`router.ts:86`): in the
   trace the second caller is one to whom the catalog shows the entity at no time.
3. `InvalidProjectsRejected`. The patched `response.json` stores the body of a 400
   and a hit replays it as a 200 (`router.ts:94`).
4. `HistoryIsAsLong`. "Number of intervals to retrieve" of `trailing.ts:60` is n-1
   months before a date that is the first of one (`:73`), while n days are n days.
5. `AllTaggedAreListed`. Resource Explorer and the tagging API are asked for one page
   (`resource-explorer-locator.ts:94`), and `ecs/README.md:104` promises all services
   with the tags.
6. `TasksAreRetrieved`. The action for a service's resources does not await the tasks
   (`resources.ts:94`) that its description says it can be used to retrieve.
7. `SourcePathIsRoot`. The publish action reads the whole workspace
   (`publish.ts:129`), whatever `sourcePath` its schema (`:53`) lets a template give.

### What the code does where nothing says what it should

Met while modelling, with no document, comment or test of the repository to hold
it against, so no run claims a violation; the properties name the exception or
the model shows it.

- Cards: the AWS hooks depend on nothing, so a card kept by navigation shows the
  resources of the entity it was mounted with (`useImages.ts:32`), and its modal
  asks under the new entity's name. The Kubernetes share of the cost card is
  never reset (`CleanEntityCostCard.tsx:110`). The cluster card's second run does not mark
  loading and its failure keeps the old costs. An entity with two of the
  annotations a plugin takes counts as having none.
- Cost pages: the cost page gives `getUserGroups` a whole reference, whose filter
  prefixes it again, so its group is the first of the catalog; a custom period
  ends before the day chosen as its end; the entity card shows nothing unless a
  group named `service` is configured.
- `trailing.ts:73`: a history of one month from the first of a month is an empty
  period, which Cost Explorer refuses. West of Greenwich a history ends a day
  before the date given, and one from the first of a month begins a month earlier.
- Aggregations read one page of Cost Explorer; ECR images are cut before they are
  sorted by time; an invalid account id on an entity is ignored and its costs are
  the whole bill's.
- A rejection of the task listing nobody awaits is handled by nobody. Negative pages
  and sizes are admitted by the actions' schemas and cut as `slice` cuts them.
- Assistant: the key of the cache has no version of the finding; an empty analysis
  is kept like any other; the modal's test for 501 is never reached, since the
  client turns it into an error.
- Scaffolder: a refused event entry is no error (`eventbridge.ts:95`); a repository
  left by a failed first commit blocks the repetition; `cp.ts:85` reads files as
  text; the wait for a resource ends while the resource goes on.

## 4. Fairness

- `AgentService!FairSpec`: weak fairness of each call's `Proceed`: promises of
  the database, the services and the model settle. `Reject`, `Interrupt` and
  `Restart` are never owed. `EveryCallEnds` needs no luck of the model: one that
  calls tools for ever meets the recursion limit.
- `ChatStream!FairStreamSpec`: a run is answered and ends (it has a recursion limit),
  and the loops of `start()` and of the route go on whenever `read()` can settle.
  `Throw`, `Refuse` and `CloseRequest` are not owed. `RequestEnds` therefore has two
  ends: the route's, or a run aborted by the client's signal, after which no step
  of the route is enabled.
- `ChatPage!FairSpec`: loads are answered, and a call goes on to its end unless the
  backend has left its response without one (`c \notin hung`), which is all the
  stream guarantees. `InputComesBack` says so: an input that does not come back
  waits for such a call. The user owes nothing.
- `CostInsightsRouter!FairSpec`: what a request awaits settles; the cache need
  not, because of `readTimeout`. Writes, expiry and policy are not owed.
- `ConfigIngestion!FairSpec`: the engine goes on (`RoundFails`, `Retry`, `NextRound`), and
  strong fairness of `Query` and `Deliver`: AWS Config does not reject every call
  for ever, and the process does not end each time before a page is done. The
  account owes nothing but what `RoundsEnd` assumes of it.
- `FindingAssistant!PagesFairness`: each run of an effect and each request to the
  assistant is answered or fails, which the network owes; a cache write need not
  land and nobody has to click. `LoadingEnds` is about the newest run, so it needs
  the fairness of every run, not of one; a run that makes no request, for want of
  the client's optional method, ends nothing and is named in the property.
- `EntityReads`, `CostFigures` and `ScaffolderSteps` state safety only: a request is
  a finite sequence of calls, any of which may fail, so that it ends is not in
  question.

## 5. Proofs

`AgentServiceProofs` proves, for every value of the constants,

- `TypeCorrect`: `Spec => []TypeOK`;
- `RowsAreStable`: `RowsOnlyEnd`;
- `SessionsAreOwned`: `Spec => []WorksOnOwnSession`;
- `Privacy`: `Spec => []ConversationsArePrivate`;
- `PromptIsApplied`: `Spec => []PromptOnEveryTurn`;
- `ConversationIsKept`: `Spec => []HistoryIsKept`.

The row test of `getSession` is made once and relied on at every later await.
That is sound because a row, once inserted, keeps its principal and agent (ids
are fresh and the only UPDATE sets `ended`); the first invariant says that a
call past the test has a row that still matches. Privacy is not inductive by
itself: a running graph writes its whole local state over the thread, so the
strengthening also says that what a graph holds, and what a thread holds, was
added by calls whose principal is that of the session's row, and it follows
that two authors of one thread are the same user or two services.

The two properties of conversations rest on a third invariant, `HistoryInv`,
which says what a session is like that nothing has disturbed. `OneGraph`: at
most one graph runs on it. `LocalsInStep`: what that graph holds is the thread,
plus the input while it is not yet saved; it begins with the system prompt and
holds what its caller said. `ThreadsPrompted`: a thread that has begun begins
with the prompt, and one that has not has a row only while the call that opened
the session is on its way to save its input. The argument then is that every
step either disturbs the session or appends to its thread (`ThreadGrows`), and
that a second call which finds a row finds either a prompted thread or an opener
at work, and in the second case disturbs the session by joining it
(`RowAppears`, `OpenerStep`). Without `OneGraph` the theorem is false, since a
graph writes its whole state over the thread; that is what `disturbed` names.

`ChatPageProofs` proves, for any number of pages and calls,

- `PageInvariant` and from it `TypeCorrect`;
- `StreamsIntoItsAnswer` (`OwnAnswers`), `CancelIsForItsCall`
  (`BusyWithItsCall`);
- `NothingForgottenGoesOn` (`ClearedIsForgotten`), `StorageIsOneConversation`
  (`StoredTogether`), `ShownIsStored` (`AnswersAreStored`).

The handlers of the page never ask whose message is the last one or whose
controller is in the ref; that it is their own is an invariant of the order in
which handlers can run. `OneThing` is that invariant: a page that is not tangled
waits for a load or for one call, and the last message is that call's answer.
`Typed` adds to the types that a call has been sent before it is under way and
that a session id is only told by a call. `AllOwned` extends `OwnAnswers` to the
storage, from where messages come back. For the storage, `Alone` says that a page
not sharing it is the only one that reads or writes it, now or later, and
`InStep` that the storage holds one conversation with every answer that is over,
and that the page in use has the same session, and the same messages unless its
call is under way. The three storage properties are parts of `InStep`. Which of a
handler's writes may come between those of another is what makes the case of each
action worth a proof; `tangled` and `shared` are exactly the orders in which it
fails.

`CostInsightsProofs` proves, of `CostInsightsRouter` for every set of callers,
requests and URLs, with or without the cache,

- `TypeCorrect`, `Gate` (`CostsOnlyIfAllowed`), `OwnDenials` (`DenialsAreOwn`),
  `RightUrl` (`AnswersItsUrl`);
- `ShownEntities` (`ComputedCostsNeedEntity`).

The strengthening has three parts besides types. `StoreClean`: a stored body,
or one on its way to the store, is under the key it was computed for and is no
denial. `BehindGate`: a request that is past the gate was allowed, unless its
URL is not gated, and only a request past the gate has a patched response.
`RepliesRight`: the three properties of the replies themselves. Together they
are inductive whatever order the writes land in. `ShownEntities` needs none of
them: its invariant `Shown` says that a request for an entity's costs gets past
the catalog only when it was shown the entity, and carries that to its reply.

Of `CostFigures` it proves, for every calendar, bill, entity, configuration of
groups, page size and distance from Greenwich,

- `AnswersAreWhole` (`RepliesAreWhole`), `CardAndPageAgree` (`FiguresAgree`).

`RepliesAreWhole` is exact for days and for months: the results are as many as the
count says, the last is that of the date the code starts from, each is followed
by the next, and of months there is one less exactly when that date is the first
of a month. That this is not what the schema says is `HistoryIsAsLong`, which is
violated.

The state has little to say here: `AnswerInv`, that a total once there has a
figure for each result of the period, and `BillInv`, that what was collected so
far is of the one bill unless it was restated. The work is in the operators. For
the periods, every day is in one month (`DayHasMonth`), luxon's minus of
months lands on a day of the month it should (`MonthsEarlier`), the day before a day
is in another month exactly if that day begins one (`DayBefore`), every request the
selector or the action can make is a proper period (`RequestsAreProper`), and
the results of Cost Explorer divide it (`DaysDivide`, `MonthsDivide`). For the
figures, everything is a sum over cells of the bill, rows by days: each cell is in
one result and, on the card, in one service of it (`CellsAddUp`, `PageAddsUp`,
`CardAddsUp`), and a sum of values each rounded to the cent is
within half a cent times their number of the sum of the values (`SumsAreNear`).

Sums are folds, recursive functions about which the library states nothing. What
is needed of them (a sum takes out any one element, `SumTakes`; the sums of the
parts of a set add up, `SumOfParts`) rests on the existence and uniqueness of
the recursive function, `SumsExist` and `SumsAgree`. Both are inductions over
finite sets, and each is done as the search for a smallest set that fails
(`Smallest`), which needs no induction theorem.

`ChatStreamProofs` proves, for every `MaxEvents`,

- `TypeCorrect`, `InOrder` (`WrittenInOrder`), `NothingInSilence`
  (`WholeOrTold`);
- `Implements` (`KeepsContract`, the safety of `ChatContract`): every step of
  the stream is a step of the contract or a stutter.

The strengthening says where each event is: `wire`, then `out`, then `pipe`
hold consecutive stretches of `produced`, unless an error has discarded a
buffer, and `Phases` relates the state of the graph, of the copy loop and of
the response, so that a response that ended normally can only be one whose
buffers were drained. That the session id comes first is a part of its own.

`ConfigIngestionProofs` proves, for any number of resources, page size and
changes,

- `TypeCorrect`, `NothingIsMissed` (`ResourcesAreListed`), `NothingIsStale`
  (`EntitiesAreCurrent`).

Neither property is inductive, since both speak of the end of a round only. The
invariant says what holds in the middle of one: what stayed is marked up to the
cursor, the page in hand holds what stayed from the cursor to its end, and every
marked name has an entity of a version of this round.

`FindingAssistantProofs` proves, for any entities, periods, findings, runs and
requests,

- `TypeCorrect` (`PagesTypeOK`), `CardsShowThePage` (`ShownIsCurrent`),
  `StaleFiguresAreTold` (`StaleIsTold`);
- `AnalysesAreOwn` (`AnalysisIsOfFinding`), `CacheIsTrue` (`CachedWasAnswered`).

The card properties speak of a newest run that was answered; the invariant says
what holds of it before. `RunOfPage`: the newest run was made for the entity and
period on the page, as far as the effect watches them. `RunIsTold`: while it is
under way no error of an earlier run is left, and a cost card is loading; once
failed there is an error. `RunIsShown`: once answered, the value is its own. Runs
other than the newest change nothing, which is one lemma (`RunSettled`).
`Unasked` says that a card without its method has no run that asked, so nothing
can be shown of one. `HookHasValue` is the reason the non-null assertions of the
cards hold. For the assistant, `AnsweredWithOwn` says that an answered request has
the analysis of its own finding and that only those write, and `WaitsForLast` that
a modal that waits made the last request of all: so a late answer finds a modal
that does not wait, or waits for another.

`EntityReadsProofs` proves, for any account, locator answers, limits and pages,

- `OnlyTheEntitys` (`OnlyOwnResources`), `PagesFit` (`PagesAreWindows`);
- `ListsAreWhole` (`WholeEntity`).

An annotation read once was the entity's (`FoundWasRead`), what was the entity's
since the request began only grows, and every plan is made of ARNs found for such
an annotation (`PlansAreOwn`). Where the entity is looked up again, the statement
is the sharper one of `lately`, what it was since it was last looked up
(`JobsAreOwn`, and `LooseInv` for the call nobody awaits). For the pages, what a
call got is what is due of the resource (`GotIsDue`): a page cut by `slice` is the
window of its number and size if those are positive (`PageIsWindow`), and a page
cut from a prefix that is long enough is the page of the whole list. Pages and
sizes are any integers.

For `WholeEntity` the invariant is that the calls divide what was found: every
resource is asked for by one call, by no other, and a call that is done has what
it asked for. It holds from the plan on (`PlansDivide`), and for services, which
are asked for by cluster in chunks of ten, that is a statement about the slicing
loop: every place of a list is in a chunk, because there are enough of them
(`ChunkCount`, `SomeChunk`), and in one only (`OneChunk`); places and ARNs of a
cluster correspond, whatever the locator's order (`PositionIs`); so the chunks
divide each cluster, and the clusters divide the list (`SplitDivides`).

`ScaffolderStepsProofs` proves, for any workspace and number of attempts,

- `TypeCorrect`, `WorkIsDone` (`DoneIsDone`), `AttemptsApart`
  (`AttemptsDoNotMeet`).

What an attempt has done is told apart from what an earlier one has left: the event
posted is this attempt's, unless the bus was seen to refuse it, and so is the
repository, with the workspace and nothing else in it. The invariant says that
what is not yet uploaded is on its way, that all requests carry the input's token
and one token makes one request, that a handler waits for a request that exists,
and that the repository committed to is this attempt's. A `sourcePath` is outside
the theorem, which says so: it is ignored, and `SourcePathIsRoot` is violated.

The theorems rest only on the ASSUMEs of the modules: `MaxEvents`, `N`, the limits
and the bounds are natural numbers, the limits and page sizes of the AWS APIs are
not 0, users, services and the service literal are told apart, the kinds of URLs
are disjoint, and the values for "absent" are not members of the sets they are
absent from.

Every invariant and every action property of the runs that pass is stated by a
theorem. Only model-checked: all liveness (`EveryCallEnds`, `RequestsAreAnswered` and
the others under a `FairSpec`), since fairness and ENABLED are out of the prover's
reach, and the seven properties of the runs that expect a violation. No module
declares a RECURSIVE operator: sums are folds of the community modules.

## 6. What is abstracted

Texts, prompts, tool arguments, formatting, layout and logging. The model and
the tools answer anything at any time. LangGraph, the streams of Node, the
browser's fetch and storage, React's rendering, the permission framework, the
catalog, the AWS APIs, the incremental ingestion engine and the cache service are
modelled by what the code relies on; what has no source in `src/` is marked
external. `messageModifier`, which trims what the model is shown, is not in
`AgentService`: `PromptOnEveryTurn` speaks of the state of the graph. One agent
is modelled on the chat page. In `EntityReads` the order of a list is kept only
as far as pages and cuts need it. In `CostFigures` amounts are tenths of a
cent and not negative (no credits or refunds), and of the trend only the change is
modelled. In `EntityCards` a value is the
entity and period it was computed for and a number of resources.

## 7. Not modelled, and plan

Not modelled:

- peer agents: a chain of `generate` calls keeps no state but the calls
  themselves and has no bound a model could check; `generate` itself is in
  `AgentService`;
- `sync`, which has no caller; `McpService`, an adapter without state;
  `messageModifier`, two lines around `trimMessages` of LangChain, whose rules are
  not in the repository;
- the trendline of the cost service, a regression neither card shows;
- registration of plugins, routes and services, configuration that is read once,
  the CDK example, dev pages, mocks and translations.

Next: the safety half of further abstract specifications, as `ChatContract` is one of
`ChatStream`.

## 8. Running

`tlc -config MCSessions.cfg MCAgentService` and so on, each configuration with the
module PROJECT.json names; `tlapm AgentServiceProofs.tla` and the same for
`ChatPageProofs`, `ChatStreamProofs`, `ConfigIngestionProofs`, `CostInsightsProofs`,
`EntityReadsProofs`, `FindingAssistantProofs` and `ScaffolderStepsProofs`. Every
run ends within about two minutes on two workers, each proof within a few
minutes.
