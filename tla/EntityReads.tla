------------------------------ MODULE EntityReads ------------------------------
(***************************************************************************)
(* The reads of the ECS, ECR, CodePipeline, CodeBuild and Security Hub     *)
(* backends: a request names a catalog entity, the entity's annotation     *)
(* names AWS resources by ARN or by tags, one of three resource locators   *)
(* turns tags into ARNs, and each service describes its resources with     *)
(* calls that are batched, run side by side, or paged.                     *)
(*                                                                         *)
(* A behaviour is one request.  The services keep nothing between requests,*)
(* so requests do not meet; what each awaited call does meet is a catalog  *)
(* and an account that change.  What is in a resource (tasks, images,      *)
(* executions, builds, findings) is its position in the list AWS answers.  *)
(***************************************************************************)
EXTENDS Integers, FiniteSets, FiniteSetsExt

CONSTANTS
  Arns,           \* records [name, kind, cluster, place, items]: kind the type of
                  \* resource, place an account and region, cluster ECS's, items the
                  \* number of things inside
  Hub,            \* Security Hub, as a record of the same fields
  Instances,         \* the accounts and regions the tagging locator is configured with
  LocatorPage,    \* ARNs in one answer of a locator's API
  DescribeLimit,  \* services in one DescribeServices: 10
  BuildLimit,     \* builds shown of a project: 5
  MaxImages,      \* aws.ecr.maxImages
  MaxFindings,    \* aws.ecr.maxScanFindings
  ApiPage,        \* what one page of an AWS API holds at most
  Asks,           \* records [page, size]: the pages a caller may ask for
  MaxChanges      \* bound on the changes of catalog and account

Limits == {LocatorPage, DescribeLimit, BuildLimit, MaxImages, MaxFindings, ApiPage}
ASSUME LimitsAssumption ==
  /\ Limits \subseteq Nat \ {0} /\ Asks \subseteq [page : Int, size : Int]
  /\ MaxChanges \in Nat

Kinds == {"service", "repository", "pipeline", "project", "findings"}
ASSUME ArnsAssumption ==
  /\ IsFiniteSet(Arns) /\ Arns # {} /\ Hub \notin Arns
  /\ \A a \in Arns \cup {Hub} : a.items \in Nat /\ a.kind \in Kinds

Locators == {"resourceExplorer", "resourceTaggingApi", "awsConfig"}

VARIABLES
  locator,  \* aws.locator.type of this deployment
  annotated,\* the annotations of the entity: [names, arn], arn the value of an ARN annotation
  tagged,   \* the ARNs with the tags of a tag annotation
  alive,    \* the ARNs that exist
  request,  \* [op, arn, page, size]
  stage,    \* where the request is
  found,    \* what getOneOfEntityAnnotations gave, as [names, arn]
  jobs,     \* the calls of the request, by key: [arns, at, found, read, got]
  loose,    \* the call an action started and did not await: [at, found, got]
  located,  \* history: the ARNs the request listed
  ever,     \* history: [had, carried], the annotations the entity had and the ARNs
            \* that carried the tags since the request began
  lately,   \* history: the same since the request, or what it left running, was last
            \* told which ARNs are the entity's
  changes   \* history: the number of changes

world == <<locator, annotated, tagged, alive, ever, changes>>
readsVars == <<world, request, stage, found, jobs, loose, located, lately>>

-----------------------------------------------------------------------------
(* Requests: what the routers and the actions of the plugins ask for. *)

\* The routes and actions of each backend.  "events" and "tasks" are the action
\* get-amazon-ecs-resources, "finding" that of one Security Hub finding.
EcsOps == {"services", "summary", "service", "events", "tasks"}
EcrOps == {"images", "scanResults"}
PipelineOps == {"pipelines", "executions", "executionsOf", "state"}
BuildOps == {"projects"}
HubOps == {"findings", "finding"}
Ops == EcsOps \cup EcrOps \cup PipelineOps \cup BuildOps \cup HubOps

\* Those that name an ARN, those for all resources of the entity, and those with pages.
ArnOps == {"service", "events", "tasks", "scanResults", "executionsOf"}
ListOps == Ops \ (ArnOps \cup HubOps)
PagedOps == {"events", "tasks", "executions", "executionsOf", "finding"}

\* The annotations each backend takes, of which the entity must have exactly one.
EcsAnnotations == {"arn", "tags"}
EcrAnnotations == {"arn", "tags"}
PipelineAnnotations == {"arn", "tags", "legacy"}
BuildAnnotations == {"arn", "tags", "legacy"}
HubAnnotations == {"tags"}

Targets(op) ==
  CASE op \in EcsOps -> EcsAnnotations
    [] op \in EcrOps -> EcrAnnotations
    [] op \in PipelineOps -> PipelineAnnotations
    [] op \in BuildOps -> BuildAnnotations
    [] op \in HubOps -> HubAnnotations

\* The resource type given to the locator.
KindOf(op) ==
  CASE op \in EcsOps -> "service"
    [] op \in EcrOps -> "repository"
    [] op \in PipelineOps -> "pipeline"
    [] op \in BuildOps -> "project"
    [] op \in HubOps -> "findings"

OfKind(op) == {a \in Arns : a.kind = KindOf(op)}
AnArn == CHOOSE a \in Arns : TRUE

Undefined == [names |-> {}]

\* getOneOfEntityAnnotations: the one target the entity has; no names is undefined.
OneOfAnnotations(e, targets) ==
  LET hits == e.names \cap targets IN
  [names |-> IF Cardinality(hits) = 1 THEN hits ELSE {}, arn |-> e.arn]

\* slice(from, to) of a list of n, as the positions it takes: what is negative
\* counts from the end, what is beyond an end is at that end.
Bound(n, x) == IF x < 0 THEN (IF n + x < 0 THEN 0 ELSE n + x) ELSE IF x < n THEN x ELSE n
Slice(n, from, to) == Bound(n, from) + 1 .. Bound(n, to)

Positive == request.page > 0 /\ request.size > 0
PageStart == (request.page - 1) * request.size
PageOf(n) == Slice(n, PageStart, PageStart + request.size)

\* A page of executions is asked for at once if it fits.
ExecutionsPage == IF request.size < ApiPage THEN request.size ELSE ApiPage

-----------------------------------------------------------------------------
(* Locators: what a search for the tags answers now. *)

AnswersOf(tags, limit) == {s \in SUBSET tags : Cardinality(s) = Min({limit, Cardinality(tags)})}

TaggedIn(p) == {a \in tagged : a.place = p}

\* One SearchCommand, one answer.
ExplorerArns == AnswersOf(tagged, LocatorPage)

\* One GetResources in each account and region, put together.
TaggingArns ==
  {UNION {pick[p] : p \in Instances} :
     pick \in {f \in [Instances -> SUBSET tagged] :
                 \A p \in Instances : f[p] \in AnswersOf(TaggedIn(p), LocatorPage)}}

\* The paginator of SelectResourceConfig, to the end.
ConfigArns == {tagged}

LocatedArns ==
  CASE locator = "resourceExplorer" -> ExplorerArns
    [] locator = "awsConfig" -> ConfigArns
    [] OTHER -> TaggingArns

\* The resources of an annotation: those with the tags, or the one it names.
Named(annotation, a, tags) ==
  IF annotation.names = {"tags"} THEN a \in tags ELSE annotation.names # {} /\ a = annotation.arn

ArnsOf(annotation) == IF annotation.names = {"tags"} THEN LocatedArns ELSE {{annotation.arn}}

-----------------------------------------------------------------------------
(* The calls of an operation. *)

Job(as, at) == [arns |-> as, at |-> at, found |-> Undefined, read |-> 0, got |-> <<>>]

\* getServicesByEntity groups by account and region, getServices by cluster and
\* then in chunks; a key is an account and region, a cluster and a chunk.
Clusters(as) == {[p |-> a.place, c |-> a.cluster] : a \in as}

InCluster(as, k) == {a \in as : a.place = k.p /\ a.cluster = k.c}

\* The grouping keeps the order of the list: where in the list of its cluster an
\* ARN is, when rank says where it is in the locator's.
Position(rank, as, k, a) == Cardinality({b \in InCluster(as, k) : rank[b] <= rank[a]})

\* Mutant: a chunk begins with the last of the one before.
ChunkFrom(n, i) == Slice(n, i * DescribeLimit - 1, i * DescribeLimit + DescribeLimit)

\* slice(i * 10, i * 10 + 10), for i from 0.
Chunk(n, i) == Slice(n, i * DescribeLimit, i * DescribeLimit + DescribeLimit)
Chunks(n) == 0 .. ((n + DescribeLimit - 1) \div DescribeLimit) - 1

ChunkKeys(as) ==
  {x \in [k : Clusters(as), i : 0..Cardinality(as)] :
     x.i \in Chunks(Cardinality(InCluster(as, x.k)))}

\* The ARNs of each chunk, when the locator lists as in the order of rank.
Split(as, rank) ==
  [x \in ChunkKeys(as) |->
     {a \in InCluster(as, x.k) :
        Position(rank, as, x.k, a) \in Chunk(Cardinality(InCluster(as, x.k)), x.i)}]
Ranks(as) == {f \in [as -> 1..Cardinality(as)] : \A a, b \in as : f[a] = f[b] => a = b}

\* A request for one ARN makes one call, the findings are one list, the pipelines
\* none at all; the others make one call or loop of calls for each ARN.
Plans(as) ==
  LET op == request.op IN
  CASE op \in ArnOps -> {[x \in {request.arn} |-> Job({x}, "call")]}
    [] op \in HubOps -> {[x \in {Hub} |-> Job({x}, "call")]}
    [] op = "services" ->
         {[x \in ChunkKeys(as) |-> Job(Split(as, rank)[x], "call")] : rank \in Ranks(as)}
    [] op \in {"executions", "state"} -> {[a \in as |-> Job({a}, "entity")]}
    [] OTHER -> {[a \in as |-> Job({a}, "call")]}

-----------------------------------------------------------------------------
(* Steps of a request: each awaits one answer. *)

Now == [had |-> {annotated}, carried |-> tagged]
ByTheWay == UNCHANGED <<loose, located, lately>>

\* Any call may fail, and takes the request with it: the error middleware answers.
Throw ==
  /\ stage \in {"entity", "locate", "calls"} /\ stage' = "failed"
  /\ UNCHANGED <<world, request, found, jobs>> /\ ByTheWay

\* The catalog; without the entity or its annotation the request fails.
ReadEntity ==
  /\ stage = "entity"
  /\ found' = OneOfAnnotations(annotated, Targets(request.op))
  /\ stage' = IF found'.names = {} THEN "failed" ELSE "locate"
  /\ UNCHANGED <<world, request, jobs>> /\ ByTheWay

\* The ARN asked for must be the entity's; then the page is looked at.
Accepted(as) ==
  /\ request.op \in ArnOps => request.arn \in as
  /\ request.op = "executionsOf" => Positive

\* The value of the annotation is the one read before, the tags are those of now.
Locate ==
  /\ stage = "locate"
  /\ \E as \in ArnsOf(found) :
       IF request.op \in HubOps \/ Accepted(as)
       THEN stage' = "calls" /\ jobs' \in Plans(as) /\ located' = as /\ lately' = Now
       ELSE stage' = "failed" /\ UNCHANGED <<jobs, located, lately>>
  /\ UNCHANGED <<world, request, found, loose>>

Set(j, job) == jobs' = [jobs EXCEPT ![j] = job]
Got(job, r) == [job EXCEPT !.at = "done", !.got = r]
The(job) == CHOOSE a \in job.arns : TRUE
Whole(a) == 1..a.items
FirstPage(a) == 1..Min({ApiPage, a.items})

InCalls(j, ops) ==
  stage = "calls" /\ request.op \in ops /\ jobs[j].at = "call"
    /\ UNCHANGED <<world, request, found, located>>

\* AWS knows no such resource: describe and list calls throw.
Unknown(j) ==
  /\ InCalls(j, Ops \ (HubOps \cup {"services", "pipelines"}))
  /\ The(jobs[j]) \notin alive
  /\ stage' = "failed" /\ UNCHANGED <<jobs, loose, lately>>

Answers(j, ops) == InCalls(j, ops) /\ stage' = stage /\ UNCHANGED <<loose, lately>>
Reached(j, ops) == Answers(j, ops) /\ The(jobs[j]) \in alive

\* getPipelineExecutionsByEntity and getPipelineStateByEntity call their public
\* sibling for every ARN: the entity is read and the tags are searched again.
ReadEntityAgain(j) ==
  LET again == OneOfAnnotations(annotated, Targets(request.op)) IN
  /\ stage = "calls" /\ jobs[j].at = "entity"
  /\ IF again.names = {} THEN stage' = "failed" /\ jobs' = jobs
     ELSE stage' = stage /\ Set(j, [jobs[j] EXCEPT !.at = "locate", !.found = again])
  /\ UNCHANGED <<world, request, found>> /\ ByTheWay

\* Mutant: the second answer is not looked at.
LocateAnew(j) ==
  /\ stage = "calls" /\ jobs[j].at = "locate"
  /\ stage' = stage /\ Set(j, [jobs[j] EXCEPT !.at = "call"])
  /\ UNCHANGED <<world, request, found>> /\ ByTheWay

LocateAgain(j) ==
  /\ stage = "calls" /\ jobs[j].at = "locate"
  /\ \E as \in ArnsOf(jobs[j].found) :
       IF The(jobs[j]) \in as
       THEN stage' = stage /\ Set(j, [jobs[j] EXCEPT !.at = "call"])
       ELSE stage' = "failed" /\ jobs' = jobs
  /\ UNCHANGED <<world, request, found>> /\ ByTheWay

\* A chunk: what is gone is missing from the answer; the tasks are a first page.
DescribeServices(j) ==
  /\ Answers(j, {"services"})
  /\ Set(j, Got(jobs[j], [a \in jobs[j].arns \cap alive |-> FirstPage(a)]))

\* The action deletes events, deployments and task sets from what it hands out.
SummaryOf(a) == {}

\* DescribeServices of one service of the list.
SummarizeService(j) ==
  /\ Reached(j, {"summary"})
  /\ Set(j, Got(jobs[j], [a \in jobs[j].arns |-> SummaryOf(a)]))

\* The action's page of events or deployments.
ResourcesOf(a) == IF request.op = "events" THEN PageOf(a.items) ELSE Whole(a)

\* DescribeServices of the service asked for.
DescribeService(j) ==
  /\ Reached(j, {"service", "events"})
  /\ Set(j, Got(jobs[j], [a \in jobs[j].arns |-> ResourcesOf(a)]))

\* The action asked for tasks goes on to getServiceTasksByEntityWithArn and does
\* not await it: it answers with a promise, and no task is in it.
LeaveTasks(j) ==
  /\ InCalls(j, {"tasks"}) /\ The(jobs[j]) \in alive /\ stage' = stage
  /\ Set(j, Got(jobs[j], [a \in jobs[j].arns |-> {}]))
  /\ loose' = [loose EXCEPT !.at = "entity"] /\ lately' = Now

\* A page of images, cut at maxImages; the images of a repository are sorted by
\* the time they were pushed after the cut.
PageOfImages(j) ==
  LET a == The(jobs[j])
      n == Min({jobs[j].read + ApiPage, a.items, MaxImages}) IN
  /\ Reached(j, {"images"})
  /\ IF n \in {a.items, MaxImages} THEN Set(j, Got(jobs[j], [x \in {a} |-> 1..n]))
     ELSE Set(j, [jobs[j] EXCEPT !.read = n])

ScanFindings(j) ==
  /\ Reached(j, {"scanResults"})
  /\ Set(j, Got(jobs[j], [a \in jobs[j].arns |-> 1..Min({MaxFindings, a.items})]))

\* Mutant: a page less than is needed is read.
TooFew(n, a) == n >= a.items \/ n + request.size > request.page * request.size
Enough(n, a) == n >= a.items \/ n >= request.page * request.size

\* Executions are read from the newest until the page asked for is in, then cut.
PageOfExecutions(j) ==
  LET a == The(jobs[j])
      n == Min({jobs[j].read + ExecutionsPage, a.items}) IN
  /\ Reached(j, {"executions", "executionsOf"})
  /\ IF Enough(n, a)
     THEN Set(j, Got(jobs[j], [x \in {a} |->
            PageOf(n)]))
     ELSE Set(j, [jobs[j] EXCEPT !.read = n])

PipelineState(j) ==
  /\ Reached(j, {"state"})
  /\ Set(j, Got(jobs[j], [a \in jobs[j].arns |-> Whole(a)]))

\* The names of the pipelines are in their ARNs: nothing is called.
NamePipeline(j) ==
  /\ Answers(j, {"pipelines"})
  /\ Set(j, Got(jobs[j], [a \in jobs[j].arns |-> {}]))

\* The project, the first page of its build ids, the first builds of them.
BuildsOfProject(j) ==
  /\ Reached(j, {"projects"})
  /\ Set(j, Got(jobs[j], [a \in jobs[j].arns |-> 1..Min({BuildLimit, a.items})]))

\* The action keeps the finding asked for, here the one of the request's number.
FindingsOf(n) == IF request.op = "finding" THEN (1..n) \cap {request.page} ELSE 1..n

\* The findings with the entity's tags, all pages of them.
PageOfFindings(j) ==
  LET n == Min({jobs[j].read + ApiPage, Hub.items}) IN
  /\ Answers(j, HubOps)
  /\ IF n = Hub.items THEN Set(j, Got(jobs[j], [x \in {Hub} |-> FindingsOf(n)]))
     ELSE Set(j, [jobs[j] EXCEPT !.read = n])

Call(j) ==
  \/ ReadEntityAgain(j) \/ LocateAgain(j) \/ Unknown(j)
  \/ DescribeServices(j) \/ SummarizeService(j) \/ DescribeService(j) \/ LeaveTasks(j)
  \/ PageOfImages(j) \/ ScanFindings(j)
  \/ PageOfExecutions(j) \/ PipelineState(j) \/ NamePipeline(j)
  \/ BuildsOfProject(j) \/ PageOfFindings(j)

Respond ==
  /\ stage = "calls" /\ \A j \in DOMAIN jobs : jobs[j].at = "done"
  /\ stage' = "answered"
  /\ UNCHANGED <<world, request, found, jobs>> /\ ByTheWay

-----------------------------------------------------------------------------
(* The promise nobody awaits: it goes on while the action answers and after. *)

Loosely(at) == loose.at = at /\ UNCHANGED <<world, request, stage, found, jobs, located, lately>>
Drops(at) == loose' = [loose EXCEPT !.at = at]

\* Its rejection is handled by nobody.
LooseThrow == \E at \in {"entity", "locate", "call"} : Loosely(at) /\ Drops("rejected")

ReadEntityLoosely ==
  LET again == OneOfAnnotations(annotated, Targets(request.op)) IN
  /\ Loosely("entity")
  /\ IF again.names = {} THEN Drops("rejected")
     ELSE loose' = [loose EXCEPT !.at = "locate", !.found = again]

\* The ARN must be the entity's still, then the page is looked at.
LocateLoosely ==
  /\ Loosely("locate")
  /\ \E as \in ArnsOf(loose.found) :
       Drops(IF request.arn \in as /\ Positive THEN "call" ELSE "rejected")

\* One ListTasks, a slice of its ARNs, DescribeTasks of the slice.
ListTasks ==
  /\ Loosely("call") /\ request.arn \in alive
  /\ loose' = [loose EXCEPT !.at = "done", !.got = PageOf(Min({ApiPage, request.arn.items}))]

Loose == LooseThrow \/ ReadEntityLoosely \/ LocateLoosely \/ ListTasks

-----------------------------------------------------------------------------
(* Meanwhile, in the catalog and in the account: what is there when the catalog  *)
(* is first read is in the initial states.                                      *)

UnderWay == stage \in {"locate", "calls"} \/ loose.at \in {"entity", "locate", "call"}
Active == UnderWay /\ changes < MaxChanges

With(history) ==
  [had |-> history.had \cup {annotated'}, carried |-> history.carried \cup tagged']
Changed ==
  /\ changes' = changes + 1
  /\ ever' = With(ever) /\ lately' = With(lately)
  /\ UNCHANGED <<locator, request, stage, found, jobs, loose, located>>

\* With no one ARN annotation, or tags beside it, which ARN it is does not matter.
EntityAnnotations ==
  [names : {{"arn"}, {"legacy"}}, arn : OfKind(request.op)] \cup
  [names : {{"tags"}, {"arn", "tags"}, {}}, arn : {AnArn}]

Annotate ==
  Active /\ annotated' \in EntityAnnotations \ {annotated} /\ UNCHANGED <<tagged, alive>> /\ Changed
Retag ==
  /\ Active
  /\ \E a \in alive : tagged' = IF a \in tagged THEN tagged \ {a} ELSE tagged \cup {a}
  /\ UNCHANGED <<annotated, alive>> /\ Changed
Remove ==
  /\ Active
  /\ \E a \in alive : alive' = alive \ {a} /\ tagged' = tagged \ {a}
  /\ UNCHANGED annotated /\ Changed

\* The route of the executions asks for the first page of the default size.
ReadsInit ==
  /\ locator \in Locators
  /\ \E op \in Ops :
       \E a \in IF op \in ArnOps THEN OfKind(op) ELSE {AnArn},
          ask \in IF op \in PagedOps THEN Asks ELSE {[page |-> 1, size |-> 1]} :
         request = [op |-> op, arn |-> a, page |-> ask.page, size |-> ask.size]
  /\ request.op = "executions" => Positive /\ request.page = 1
  /\ annotated \in EntityAnnotations
  /\ alive = OfKind(request.op) /\ tagged \in SUBSET alive
  /\ stage = "entity" /\ found = Undefined /\ jobs = <<>>
  /\ loose = [at |-> "no", found |-> Undefined, got |-> {}]
  /\ located = {} /\ ever = Now /\ lately = Now /\ changes = 0

ReadsNext ==
  \/ ReadEntity \/ Locate \/ Throw \/ Respond
  \/ \E j \in DOMAIN jobs : Call(j)
  \/ Loose
  \/ Annotate \/ Retag \/ Remove

ReadsSpec == ReadsInit /\ [][ReadsNext]_readsVars

-----------------------------------------------------------------------------
(* Properties. *)

\* The resources that were the entity's by a history: named by an annotation it
\* had, by tags they carried.
Owned(history) ==
  {a \in Arns : \E e \in history.had :
     Named(OneOfAnnotations(e, Targets(request.op)), a, history.carried)}

\* The operations that look for the entity's resources twice.
Repeats == {"executions", "state"}

\* No AWS resource is described that was not the entity's during the request,
\* whichever ARN the caller names and whatever is annotated and tagged
\* meanwhile.  What looks for the entity's resources a second time, the tasks
\* nobody awaits too, describes none that ceased to be the entity's before.
OnlyOwnResources ==
  /\ \A j \in DOMAIN jobs : jobs[j].at \in {"call", "done"} =>
       jobs[j].arns \subseteq Owned(IF request.op \in Repeats THEN lately ELSE ever) \cup {Hub}
  /\ loose.at \in {"call", "done"} => request.arn \in Owned(lately)

\* One answer of the locator has room for all that carries the tags.
Fits ==
  CASE locator = "resourceExplorer" -> Cardinality(tagged) <= LocatorPage
    [] locator = "awsConfig" -> TRUE
    [] OTHER -> /\ \A a \in tagged : a.place \in Instances
                /\ \A p \in Instances : Cardinality(TaggedIn(p)) <= LocatorPage

\* A list of an entity's resources has each ARN that was located, once: grouping
\* by account, region and cluster, chunks and the requests made side by side lose
\* none, repeat none and add none; only a service that is gone is left out.  With
\* nothing changed, all that carries the tags was located if it fits.
WholeEntity ==
  stage = "answered" /\ request.op \in ListOps =>
    /\ \A a \in located :
         \E j \in DOMAIN jobs : /\ a \in jobs[j].arns /\ (a \in alive => a \in DOMAIN jobs[j].got)
                                /\ \A k \in DOMAIN jobs \ {j} : a \notin jobs[k].arns
    /\ \A j \in DOMAIN jobs : jobs[j].arns \subseteq located
    /\ changes = 0 /\ found.names = {"tags"} /\ Fits => located = tagged

\* All ECS services with the matching tags are listed, as the plugin's README says.
AllTaggedAreListed ==
  stage = "answered" /\ request.op = "services" /\ changes = 0 /\ found.names = {"tags"} =>
    \A a \in tagged : \E j \in DOMAIN jobs : a \in DOMAIN jobs[j].got

\* A page is the window of the list its number and size say: windows of
\* successive pages neither overlap nor leave a gap, however many answers of AWS
\* are put together and cut.
PageIs(n) == {i \in 1..n : PageStart < i /\ i <= PageStart + request.size}
PagesAreWindows ==
  stage = "answered" =>
    /\ \A j \in DOMAIN jobs : \A a \in DOMAIN jobs[j].got :
         /\ request.op \in {"events", "executions", "executionsOf"} /\ Positive =>
              jobs[j].got[a] = PageIs(a.items)
         /\ request.op = "images" => jobs[j].got[a] = 1..Min({MaxImages, a.items})
         /\ request.op = "findings" => jobs[j].got[a] = Whole(a)
    /\ loose.at = "done" => loose.got = PageIs(Min({ApiPage, request.arn.items}))

\* The action that can be used to retrieve tasks, as its description says, answers
\* with the page of tasks asked for.
TasksAreRetrieved ==
  stage = "answered" /\ request.op = "tasks" /\ Positive =>
    \A j \in DOMAIN jobs : \A a \in DOMAIN jobs[j].got :
      jobs[j].got[a] = PageIs(Min({ApiPage, a.items}))
=============================================================================
