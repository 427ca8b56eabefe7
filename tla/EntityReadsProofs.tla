---------------------------- MODULE EntityReadsProofs ----------------------------
(* Proofs of the safety of EntityReads, for any account, locator pages and limits. *)
EXTENDS EntityReads, FiniteSetTheorems, TLAPS

\* Annotations with an ARN of the account.
Marks == [names : SUBSET {"arn", "legacy", "tags"}, arn : Arns]

\* A history that goes up to now.
Reaches(h) == annotated \in h.had /\ h.had \subseteq Marks /\ tagged \subseteq h.carried

\* The deployment, the catalog, the account and the request.
WorldType ==
  /\ locator \in Locators /\ alive \subseteq Arns /\ tagged \subseteq Arns
  /\ request \in [op : Ops, arn : Arns, page : Int, size : Int]
  /\ Reaches(ever) /\ Reaches(lately)

\* An annotation that was read is one the entity had, by a history.
WasRead(f, h, op) == f.names # {} /\ \E e \in h.had : f = OneOfAnnotations(e, Targets(op))
FoundWasRead == stage = "locate" => WasRead(found, ever, request.op)

\* What was the entity's, by a history.
Theirs(h, op) ==
  {a \in Arns : \E e \in h.had : Named(OneOfAnnotations(e, Targets(op)), a, h.carried)}

IsJob(x) ==
  /\ x = [arns |-> x.arns, at |-> x.at, found |-> x.found, read |-> x.read, got |-> x.got]
  /\ x.read \in Int

\* Whatever is described, or about to be, is the entity's or Security Hub; where the
\* entity is looked at a second time, it is the entity's lately.
IsOwn(x, s, l, op) ==
  /\ x.arns \subseteq Theirs(s, op) \cup {Hub}
  /\ op \in Repeats /\ x.at \in {"call", "done"} => x.arns \subseteq Theirs(l, op) \cup {Hub}
  /\ x.at \in {"entity", "locate"} => op \in Repeats
  /\ op \in Repeats => \E a : x.arns = {a}
  /\ x.at = "locate" => WasRead(x.found, l, op)
JobsAreOwn ==
  \A j \in DOMAIN jobs : IsJob(jobs[j]) /\ IsOwn(jobs[j], ever, lately, request.op)

\* What came of a resource is what is due of it, where PagesAreWindows says what is.
Judged ==
  \/ request.op \in {"images", "findings"}
  \/ request.op \in {"events", "executions", "executionsOf"} /\ Positive
Due(a) ==
  CASE request.op = "images" -> 1..Min({MaxImages, a.items})
    [] request.op = "findings" -> Whole(a)
    [] OTHER -> PageIs(a.items)
GotIsDue ==
  Judged => \A j \in DOMAIN jobs : \A a \in DOMAIN jobs[j].got : jobs[j].got[a] = Due(a)

\* The call that nobody awaits.
LooseIs(x, l, r) ==
  /\ x = [at |-> x.at, found |-> x.found, got |-> x.got]
  /\ x.at = "locate" => WasRead(x.found, l, r.op)
  /\ x.at \in {"call", "done"} => r.arn \in Theirs(l, r.op) /\ r.page > 0 /\ r.size > 0
LooseGot == loose.at = "done" => loose.got = PageIs(Min({ApiPage, request.arn.items}))
LooseInv == LooseIs(loose, lately, request) /\ LooseGot

NotYetLoose == stage \in {"entity", "locate"} => loose.at = "no"

Inv == WorldType /\ FoundWasRead /\ JobsAreOwn /\ GotIsDue /\ LooseInv /\ NotYetLoose

-----------------------------------------------------------------------------
(* Numbers. *)

\* The least of two numbers.
LEMMA MinOfTwo ==
  ASSUME NEW a \in Int, NEW b \in Int
  PROVE  Min({a, b}) = IF a <= b THEN a ELSE b
<1> DEFINE m == IF a <= b THEN a ELSE b
<1>1. m \in {a, b} /\ \A y \in {a, b} : m <= y
  OBVIOUS
<1>2. \A x \in {a, b} : (\A y \in {a, b} : x <= y) => x = m
  OBVIOUS
<1> HIDE DEF m
<1>3. Min({a, b}) \in {a, b} /\ \A y \in {a, b} : Min({a, b}) <= y
  BY <1>1 DEF Min
<1>4. Min({a, b}) = m
  BY <1>2, <1>3
<1>. QED
  BY <1>4 DEF m

\* The least of three numbers is one of them.
LEMMA MinOfThree ==
  ASSUME NEW a \in Int, NEW b \in Int, NEW c \in Int
  PROVE  /\ Min({a, b, c}) \in {a, b, c}
         /\ Min({a, b, c}) <= a /\ Min({a, b, c}) <= b /\ Min({a, b, c}) <= c
<1>1. \E x \in {a, b, c} : \A y \in {a, b, c} : x <= y
  <2>1. CASE a <= b /\ a <= c
    BY <2>1
  <2>2. CASE b <= a /\ b <= c
    BY <2>2
  <2>3. CASE c <= a /\ c <= b
    BY <2>3
  <2>. QED
    BY <2>1, <2>2, <2>3
<1>2. Min({a, b, c}) \in {a, b, c} /\ \A y \in {a, b, c} : Min({a, b, c}) <= y
  BY <1>1 DEF Min
<1>. QED
  BY <1>2

\* The limits and the numbers of things inside are natural numbers.
LEMMA LimitsAreNat ==
  /\ MaxImages \in Nat /\ MaxFindings \in Nat /\ BuildLimit \in Nat /\ ApiPage \in Nat
  /\ \A a \in Arns \cup {Hub} : a.items \in Nat
  BY LimitsAssumption, ArnsAssumption DEF Limits

\* A product grows with its factor.
LEMMA TimesGrows ==
  ASSUME NEW x \in Nat, NEW y \in Nat, NEW z \in Nat, x <= y
  PROVE  z * x <= z * y /\ z * x \in Nat /\ z * y \in Nat
<1>1. z * (y - x) >= 0 /\ z * (y - x) = z * y - z * x
  OBVIOUS
<1>2. z * x \in Int /\ z * y \in Int
  OBVIOUS
<1>. QED
  BY <1>1, <1>2

\* The number of chunks: all but the last of them full.
LEMMA ChunkCount ==
  ASSUME NEW n \in Nat \ {0}, NEW l \in Nat \ {0}
  PROVE  LET m == (n + l - 1) \div l IN
         m \in 1..n /\ l * (m - 1) < n /\ n <= l * m
<1> DEFINE m == (n + l - 1) \div l
<1>1. m \in Int /\ l * m <= n + l - 1 /\ n + l - 1 < l * (m + 1)
  OBVIOUS
<1> HIDE DEF m
<1>2. l * (m - 1) = l * m - l /\ l * (m + 1) = l * m + l /\ l * m \in Int /\ l * (m - 1) \in Int
  BY <1>1
<1>3. l * (m - 1) < n /\ n <= l * m
  BY <1>1, <1>2
<1>4. m >= 1
  <2>1. SUFFICES ASSUME m <= 0 PROVE FALSE
    BY <1>1
  <2>2. l * m <= 0
    BY <1>1, <2>1
  <2>. QED
    BY <1>2, <1>3, <2>2
<1>5. m <= n
  <2>1. SUFFICES ASSUME n <= m - 1 PROVE FALSE
    BY <1>1
  <2>2. l * n <= l * (m - 1)
    BY <1>4, <1>1, <2>1, TimesGrows
  <2>3. n <= l * n
    BY TimesGrows
  <2>. QED
    BY <1>2, <1>3, <2>2, <2>3
<1>. QED
  BY <1>1, <1>3, <1>4, <1>5 DEF m

\* The page of a list as slice takes it is the window its number and size say.
LEMMA PageIsWindow ==
  ASSUME NEW n \in Nat, Positive, request.page \in Int, request.size \in Int
  PROVE  PageOf(n) = PageIs(n) /\ PageStart \in Nat /\ request.size \in Nat \ {0}
<1>1. request.page - 1 \in Nat /\ request.size \in Nat \ {0} /\ 0 \in Nat
  BY DEF Positive
<1>2. PageStart \in Nat
  <2> DEFINE p == request.page - 1
             s == request.size
  <2>1. p \in Nat /\ s \in Nat
    BY <1>1
  <2> HIDE DEF p, s
  <2>2. p * s \in Nat
    BY <2>1, TimesGrows
  <2>. QED
    BY <2>2 DEF PageStart, p, s
<1> DEFINE from == PageStart
           to == PageStart + request.size
<1>3. from \in Nat /\ to \in Nat
  BY <1>1, <1>2
<1>4. PageOf(n) = Slice(n, from, to) /\ PageIs(n) = {i \in 1..n : from < i /\ i <= to}
  BY DEF PageOf, PageIs
<1> HIDE DEF from, to
<1>5. Slice(n, from, to) = {i \in 1..n : from < i /\ i <= to}
  BY <1>3 DEF Slice, Bound
<1>. QED
  BY <1>1, <1>2, <1>4, <1>5

-----------------------------------------------------------------------------
(* What is the entity's. *)

Grows(h, k) == h.had \subseteq k.had /\ h.carried \subseteq k.carried

\* Owned, by a history.
LEMMA OwnedIs == ASSUME NEW h PROVE Owned(h) = Theirs(h, request.op)
  BY DEF Owned, Theirs

\* What was the entity's stays so as the history grows, and what was read was read.
LEMMA TheirsGrow ==
  ASSUME NEW h, NEW k, Grows(h, k), NEW op
  PROVE  /\ Theirs(h, op) \subseteq Theirs(k, op)
         /\ \A f : WasRead(f, h, op) => WasRead(f, k, op)
<1>1. ASSUME NEW a \in Arns, NEW e \in h.had, Named(OneOfAnnotations(e, Targets(op)), a, h.carried)
      PROVE  Named(OneOfAnnotations(e, Targets(op)), a, k.carried)
  BY <1>1 DEF Named, Grows
<1>2. Theirs(h, op) \subseteq Theirs(k, op)
  BY <1>1 DEF Theirs, Grows
<1>3. \A f : WasRead(f, h, op) => WasRead(f, k, op)
  BY DEF WasRead, Grows
<1>. QED
  BY <1>2, <1>3

\* So a call keeps to what is the entity's.
LEMMA OwnStays ==
  ASSUME NEW s, NEW t, Grows(s, t), NEW l, NEW m, Grows(l, m), NEW op, NEW x, IsOwn(x, s, l, op)
  PROVE  IsOwn(x, t, m, op)
<1>1. Theirs(s, op) \subseteq Theirs(t, op) /\ Theirs(l, op) \subseteq Theirs(m, op)
  BY TheirsGrow
<1>2. WasRead(x.found, l, op) => WasRead(x.found, m, op)
  BY TheirsGrow
<1>. QED
  BY <1>1, <1>2 DEF IsOwn

\* No locator answers an ARN without the tags.
LEMMA LocatedAreTagged ==
  ASSUME NEW as \in LocatedArns, locator \in Locators
  PROVE  as \subseteq tagged
<1>1. CASE locator = "resourceExplorer"
  BY <1>1 DEF LocatedArns, ExplorerArns, AnswersOf
<1>2. CASE locator = "awsConfig"
  BY <1>2 DEF LocatedArns, ConfigArns
<1>3. CASE locator = "resourceTaggingApi"
  <2>1. as \in TaggingArns
    BY <1>3 DEF LocatedArns
  <2>2. PICK pick \in [Instances -> SUBSET tagged] : as = UNION {pick[p] : p \in Instances}
    BY <2>1 DEF TaggingArns
  <2>. QED
    BY <2>2
<1>. QED
  BY <1>1, <1>2, <1>3 DEF Locators

\* What a search for an annotation that was read finds is the entity's.
LEMMA LocatedAreOwned ==
  ASSUME WorldType, NEW h, Reaches(h), NEW f, WasRead(f, h, request.op), NEW as \in ArnsOf(f)
  PROVE  as \subseteq Theirs(h, request.op)
<1>1. PICK e \in h.had : f = OneOfAnnotations(e, Targets(request.op))
  BY DEF WasRead
<1>2. e.arn \in Arns /\ f.arn = e.arn
  BY <1>1 DEF Reaches, Marks, OneOfAnnotations
<1>3. CASE f.names = {"tags"}
  <2>1. as \subseteq tagged
    BY <1>3, LocatedAreTagged DEF ArnsOf, WorldType
  <2>2. \A a \in as : a \in Arns /\ Named(f, a, h.carried)
    BY <1>3, <2>1 DEF WorldType, Reaches, Named
  <2>. QED
    BY <1>1, <2>2 DEF Theirs
<1>4. CASE f.names # {"tags"}
  <2>1. as = {f.arn}
    BY <1>4 DEF ArnsOf
  <2>2. \A a \in as : a \in Arns /\ Named(f, a, h.carried)
    BY <1>2, <1>4, <2>1 DEF Named, WasRead
  <2>. QED
    BY <1>1, <2>2 DEF Theirs
<1>. QED
  BY <1>3, <1>4

\* Every plan calls for what was found and nothing else, and has nothing yet.
LEMMA PlansAreOwn ==
  ASSUME NEW s, NEW l, NEW op, op = request.op, op \in Ops,
         NEW as \in SUBSET Theirs(s, op),
         op \in ArnOps => request.arn \in as, NEW p \in Plans(as)
  PROVE  \A j \in DOMAIN p : IsJob(p[j]) /\ IsOwn(p[j], s, l, op) /\ DOMAIN p[j].got = {}
<1> DEFINE Fine(x) == IsJob(x) /\ IsOwn(x, s, l, op) /\ DOMAIN x.got = {}
<1>1. ASSUME NEW xs \in SUBSET (as \cup {Hub}),
             NEW at \in {"call", "entity"}, at = "entity" <=> op \in Repeats,
             op \in Repeats => \E a : xs = {a}
      PROVE  Fine(Job(xs, at))
  <2> DEFINE x == Job(xs, at)
  <2>1. /\ x.arns = xs /\ x.at = at /\ x.read = 0 /\ x.got = <<>>
        /\ x = [arns |-> x.arns, at |-> x.at, found |-> x.found, read |-> x.read, got |-> x.got]
    BY DEF Job
  <2>2. DOMAIN <<>> = {}
    OBVIOUS
  <2> HIDE DEF x
  <2>3. IsOwn(x, s, l, op)
    BY <1>1, <2>1 DEF IsOwn
  <2>4. IsJob(x) /\ DOMAIN x.got = {}
    BY <2>1, <2>2 DEF IsJob
  <2>. QED
    BY <2>3, <2>4 DEF x
<1> HIDE DEF Fine
<1>2. \A a \in as : {a} \in SUBSET (as \cup {Hub})
  OBVIOUS
<1>3. CASE op \in ArnOps
  <2>1. p = [x \in {request.arn} |-> Job({x}, "call")] /\ request.arn \in as /\ op \notin Repeats
    BY <1>3 DEF Plans, ArnOps, HubOps, Repeats
  <2>. QED
    BY <1>1, <1>2, <2>1 DEF Fine
<1>4. CASE op \in HubOps
  <2>1. p = [x \in {Hub} |-> Job({x}, "call")] /\ {Hub} \in SUBSET (as \cup {Hub}) /\ op \notin Repeats
    BY <1>4 DEF Plans, ArnOps, HubOps, Repeats
  <2>. QED
    BY <1>1, <2>1 DEF Fine
<1>5. CASE op = "services"
  <2>1. PICK rank \in Ranks(as) : p = [x \in ChunkKeys(as) |-> Job(Split(as, rank)[x], "call")]
    BY <1>5 DEF Plans, ArnOps, HubOps
  <2>3. op \notin Repeats
    BY <1>5 DEF Repeats
  <2>2. \A x \in ChunkKeys(as) : Split(as, rank)[x] \in SUBSET (as \cup {Hub})
    BY DEF Split, InCluster
  <2>. QED
    BY <1>1, <2>1, <2>2, <2>3 DEF Fine
<1>6. CASE op \in {"executions", "state"}
  <2>1. p = [a \in as |-> Job({a}, "entity")] /\ op \in Repeats
    BY <1>6 DEF Plans, ArnOps, HubOps, Repeats
  <2>. QED
    BY <1>1, <1>2, <2>1 DEF Fine
<1>7. CASE op \notin ArnOps \cup HubOps \cup {"services", "executions", "state"}
  <2>1. p = [a \in as |-> Job({a}, "call")] /\ op \notin Repeats
    BY <1>7 DEF Plans, Repeats
  <2>. QED
    BY <1>1, <1>2, <2>1 DEF Fine
<1>. QED
  BY <1>3, <1>4, <1>5, <1>6, <1>7 DEF Fine

-----------------------------------------------------------------------------
(* Steps. *)

\* The annotations of the initial states and of Annotate.
LEMMA AnnotationsAreMarks == EntityAnnotations \subseteq Marks
<1>1. AnArn \in Arns
  BY ArnsAssumption DEF AnArn
<1>. QED
  BY <1>1 DEF EntityAnnotations, Marks, OfKind

\* A request begins with nothing planned.
LEMMA InitInv == ReadsInit => Inv
<1>. SUFFICES ASSUME ReadsInit PROVE Inv
  OBVIOUS
<1>1. request \in [op : Ops, arn : Arns, page : Int, size : Int]
  <2>1. PICK op \in Ops :
          \E a \in IF op \in ArnOps THEN OfKind(op) ELSE {AnArn} :
            \E ask \in IF op \in PagedOps THEN Asks ELSE {[page |-> 1, size |-> 1]} :
              request = [op |-> op, arn |-> a, page |-> ask.page, size |-> ask.size]
    BY DEF ReadsInit
  <2>2. PICK a \in IF op \in ArnOps THEN OfKind(op) ELSE {AnArn} :
          \E ask \in IF op \in PagedOps THEN Asks ELSE {[page |-> 1, size |-> 1]} :
            request = [op |-> op, arn |-> a, page |-> ask.page, size |-> ask.size]
    BY <2>1
  <2>3. PICK ask \in IF op \in PagedOps THEN Asks ELSE {[page |-> 1, size |-> 1]} :
          request = [op |-> op, arn |-> a, page |-> ask.page, size |-> ask.size]
    BY <2>2
  <2>4. a \in Arns
    BY ArnsAssumption DEF OfKind, AnArn
  <2>5. ask.page \in Int /\ ask.size \in Int
    BY LimitsAssumption
  <2>. QED
    BY <2>3, <2>4, <2>5
<1>2. alive \subseteq Arns /\ tagged \subseteq Arns /\ locator \in Locators
  BY DEF ReadsInit, OfKind
<1>3. Reaches(ever) /\ Reaches(lately)
  BY AnnotationsAreMarks DEF ReadsInit, Now, Reaches
<1>4. WorldType
  BY <1>1, <1>2, <1>3 DEF WorldType
<1>5. DOMAIN jobs = {} /\ stage = "entity"
  BY DEF ReadsInit
<1>6. LooseInv
  BY DEF ReadsInit, LooseInv, LooseIs, LooseGot
<1>7. NotYetLoose
  BY DEF ReadsInit, NotYetLoose
<1>. QED
  BY <1>4, <1>5, <1>6, <1>7 DEF Inv, FoundWasRead, JobsAreOwn, GotIsDue

\* What is due depends on the request alone.
LEMMA DueStays ==
  ASSUME request' = request
  PROVE  (Judged' <=> Judged) /\ \A a : Due(a)' = Due(a)
<1>1. ASSUME NEW a PROVE Due(a)' = Due(a)
  BY DEF Due, Whole, PageIs, PageStart
<1>. QED
  BY <1>1 DEF Judged, Positive

\* Calls stay what they are while histories grow,
LEMMA JobsStay ==
  ASSUME JobsAreOwn, GotIsDue, Grows(ever, ever'), Grows(lately, lately'),
         UNCHANGED <<request, jobs>>
  PROVE  JobsAreOwn' /\ GotIsDue'
<1>1. ASSUME NEW j \in DOMAIN jobs
      PROVE  IsJob(jobs[j]) /\ IsOwn(jobs[j], ever', lately', request.op)
  BY OwnStays DEF JobsAreOwn
<1>2. JobsAreOwn'
  BY <1>1 DEF JobsAreOwn
<1>3. GotIsDue'
  BY DueStays DEF GotIsDue
<1>. QED
  BY <1>2, <1>3

\* and so does the call nobody awaits.
LEMMA LooseStays ==
  ASSUME LooseInv, Grows(lately, lately'), UNCHANGED <<request, loose>>
  PROVE  LooseInv'
<1>1. LooseIs(loose, lately', request)
  <2>1. Theirs(lately, request.op) \subseteq Theirs(lately', request.op)
        /\ \A f : WasRead(f, lately, request.op) => WasRead(f, lately', request.op)
    BY TheirsGrow
  <2>. QED
    BY <2>1 DEF LooseInv, LooseIs
<1>2. LooseGot'
  BY DEF LooseInv, LooseGot, PageIs, PageStart
<1>. QED
  BY <1>1, <1>2 DEF LooseInv

Same == UNCHANGED <<locator, annotated, tagged, alive, ever, lately, request>>

\* A step that leaves the world alone keeps its types.
LEMMA Kept ==
  ASSUME Inv, Same
  PROVE  /\ WorldType' /\ Grows(ever, ever') /\ Grows(lately, lately')
         /\ (jobs' = jobs => JobsAreOwn' /\ GotIsDue')
         /\ (loose' = loose => LooseInv')
         /\ (stage' # "locate" => FoundWasRead')
<1>1. WorldType' /\ Grows(ever, ever') /\ Grows(lately, lately')
  BY DEF Same, Inv, WorldType, Reaches, Grows
<1>2. jobs' = jobs => JobsAreOwn' /\ GotIsDue'
  BY <1>1, JobsStay DEF Same, Inv
<1>3. loose' = loose => LooseInv'
  BY <1>1, LooseStays DEF Same, Inv
<1>4. stage' # "locate" => FoundWasRead'
  BY DEF FoundWasRead
<1>. QED
  BY <1>1, <1>2, <1>3, <1>4

\* So does one that leaves the calls alone too: it keeps the whole invariant.
LEMMA Unmoved ==
  ASSUME Inv, Same, UNCHANGED <<jobs, loose>>, stage' \in {"calls", "answered", "failed"}
  PROVE  Inv'
<1>1. NotYetLoose'
  BY DEF NotYetLoose
<1>. QED
  BY <1>1, Kept DEF Inv

\* A failed call ends the request.
LEMMA ThrowInv == Inv /\ Throw => Inv'
  BY Unmoved DEF Throw, ByTheWay, world, Same

\* The answer is what the calls brought.
LEMMA RespondInv == Inv /\ Respond => Inv'
  BY Unmoved DEF Respond, ByTheWay, world, Same

\* The annotation that is read is one the entity has.
LEMMA ReadEntityInv == Inv /\ ReadEntity => Inv'
<1>. SUFFICES ASSUME Inv, ReadEntity PROVE Inv'
  OBVIOUS
<1>1. /\ Same /\ UNCHANGED <<jobs, loose>>
      /\ found' = OneOfAnnotations(annotated, Targets(request.op))
      /\ stage' = "locate" => found'.names # {}
  BY DEF ReadEntity, ByTheWay, world, Same
<1>2. stage' = "locate" => WasRead(found', ever, request.op)
  BY <1>1 DEF WasRead, Inv, WorldType, Reaches
<1>3. FoundWasRead'
  BY <1>1, <1>2 DEF FoundWasRead, Same
<1>4. NotYetLoose'
  BY <1>1 DEF ReadEntity, Inv, NotYetLoose
<1>. QED
  BY <1>1, <1>3, <1>4, Kept DEF Inv

\* What is located with it is the entity's, and nothing else is planned.
LEMMA LocateInv == Inv /\ Locate => Inv'
<1>. SUFFICES ASSUME Inv, Locate PROVE Inv'
  OBVIOUS
<1>1. PICK as \in ArnsOf(found) :
        IF request.op \in HubOps \/ Accepted(as)
        THEN stage' = "calls" /\ jobs' \in Plans(as) /\ located' = as /\ lately' = Now
        ELSE stage' = "failed" /\ UNCHANGED <<jobs, located, lately>>
  BY DEF Locate
<1>2. /\ stage = "locate" /\ stage' \in {"calls", "failed"}
      /\ UNCHANGED <<locator, annotated, tagged, alive, ever, request, loose>>
  BY <1>1 DEF Locate, world
<1>3. CASE UNCHANGED <<jobs, lately>>
  BY <1>2, <1>3, Unmoved DEF Same
<1>4. CASE jobs' \in Plans(as) /\ lately' = Now /\ (request.op \in HubOps \/ Accepted(as))
  <2>1. WasRead(found, ever, request.op) /\ request.op \in Ops
    BY <1>2 DEF Inv, FoundWasRead, WorldType
  <2>2. as \subseteq Theirs(ever, request.op)
    BY <2>1, LocatedAreOwned DEF Inv, WorldType
  <2>3. request.op \in ArnOps => request.arn \in as
    BY <1>4 DEF Accepted, HubOps, ArnOps
  <2>4. \A j \in DOMAIN jobs' :
          IsJob(jobs'[j]) /\ IsOwn(jobs'[j], ever, Now, request.op) /\ DOMAIN jobs'[j].got = {}
    BY <1>4, <2>1, <2>2, <2>3, PlansAreOwn
  <2>5. JobsAreOwn'
    BY <1>2, <1>4, <2>4 DEF JobsAreOwn
  <2>6. GotIsDue'
    BY <2>4 DEF GotIsDue
  <2>7. WorldType'
    BY <1>2, <1>4 DEF Inv, WorldType, Reaches, Now
  <2>8. loose.at = "no" /\ LooseInv
    BY <1>2 DEF Inv, NotYetLoose
  <2>9. LooseInv' /\ NotYetLoose'
    BY <1>2, <2>8 DEF LooseInv, LooseIs, LooseGot, NotYetLoose
  <2>10. FoundWasRead'
    BY <1>2 DEF FoundWasRead
  <2>. QED
    BY <2>5, <2>6, <2>7, <2>9, <2>10 DEF Inv
<1>. QED
  BY <1>1, <1>3, <1>4

Untouched == Same /\ UNCHANGED <<found, loose>>

\* The resource of a call that is for one.
LEMMA TheOne ==
  ASSUME NEW job, \E x : job.arns = {x}
  PROVE  {The(job)} = job.arns
BY DEF The

\* A call changes its own job: where it is, what it has read, what it got.
LEMMA JobSet ==
  ASSUME Inv, stage = "calls", stage' = stage, Untouched,
         NEW j \in DOMAIN jobs, NEW q, Set(j, q), IsJob(q), IsOwn(q, ever, lately, request.op),
         Judged => \A a \in DOMAIN q.got : q.got[a] = Due(a)
  PROVE  Inv'
<1>1. /\ DOMAIN jobs' = DOMAIN jobs /\ jobs'[j] = q
      /\ \A k \in DOMAIN jobs \ {j} : jobs'[k] = jobs[k]
  BY DEF Set
<1>2. UNCHANGED <<ever, lately, request, loose>>
  BY DEF Untouched, Same
<1>3. WorldType' /\ FoundWasRead' /\ LooseInv' /\ NotYetLoose'
  BY Kept DEF Untouched, NotYetLoose
<1>5. JobsAreOwn'
  <2>. SUFFICES ASSUME NEW k \in DOMAIN jobs'
                PROVE  IsJob(jobs'[k]) /\ IsOwn(jobs'[k], ever, lately, request.op)
    BY <1>2 DEF JobsAreOwn
  <2>1. CASE k = j
    BY <1>1, <2>1
  <2>2. CASE k # j
    BY <1>1, <2>2 DEF Inv, JobsAreOwn
  <2>. QED
    BY <2>1, <2>2
<1>6. GotIsDue'
  <2>. SUFFICES ASSUME Judged', NEW k \in DOMAIN jobs', NEW a \in DOMAIN jobs'[k].got
                PROVE  jobs'[k].got[a] = Due(a)'
    BY DEF GotIsDue
  <2>0. Judged /\ Due(a)' = Due(a)
    BY <1>2, DueStays
  <2>1. CASE k = j
    BY <1>1, <2>0, <2>1
  <2>2. CASE k # j
    BY <1>1, <2>0, <2>2 DEF Inv, GotIsDue
  <2>. QED
    BY <2>1, <2>2
<1>. QED
  BY <1>3, <1>5, <1>6 DEF Inv

\* A job at another place.
LEMMA JobAt ==
  ASSUME NEW x, IsJob(x), NEW s
  PROVE  LET y == [x EXCEPT !.at = s] IN
         IsJob(y) /\ y.arns = x.arns /\ y.got = x.got /\ y.at = s /\ y.found = x.found
  BY DEF IsJob

\* A job that is done.
LEMMA GotIs ==
  ASSUME NEW x, IsJob(x), NEW r
  PROVE  LET y == Got(x, r) IN IsJob(y) /\ y.arns = x.arns /\ y.got = r /\ y.at = "done"
<1> DEFINE y == Got(x, r)
           z == [x EXCEPT !.at = "done"]
<1>1. y = [z EXCEPT !.got = r]
  BY DEF Got
<1>2. IsJob(z) /\ z.arns = x.arns /\ z.at = "done"
  BY JobAt
<1> HIDE DEF y, z
<1>3. IsJob(y) /\ y.arns = z.arns /\ y.got = r /\ y.at = z.at
  BY <1>1, <1>2 DEF IsJob
<1>. QED
  BY <1>2, <1>3 DEF y

\* A call that is done.
LEMMA JobDone ==
  ASSUME Inv, stage = "calls", stage' = stage, Untouched,
         NEW j \in DOMAIN jobs, jobs[j].at = "call", NEW r, Set(j, Got(jobs[j], r)),
         Judged => \A a \in DOMAIN r : r[a] = Due(a)
  PROVE  Inv'
<1> DEFINE x == jobs[j]
           y == Got(x, r)
<1>1. IsJob(x) /\ IsOwn(x, ever, lately, request.op) /\ x.at = "call"
  BY DEF Inv, JobsAreOwn
<1> HIDE DEF x
<1>2. IsJob(y) /\ y.arns = x.arns /\ y.got = r /\ y.at = "done"
  BY <1>1, GotIs
<1> HIDE DEF y
<1>3. IsOwn(y, ever, lately, request.op)
  BY <1>1, <1>2 DEF IsOwn
<1>. QED
  BY <1>2, <1>3, JobSet DEF x, y

\* A call that goes on, with more read.
LEMMA JobGoesOn ==
  ASSUME Inv, stage = "calls", stage' = stage, Untouched,
         NEW j \in DOMAIN jobs, NEW n \in Int, Set(j, [jobs[j] EXCEPT !.read = n])
  PROVE  Inv'
<1> DEFINE q == [jobs[j] EXCEPT !.read = n]
<1>1. /\ IsJob(jobs[j]) /\ IsOwn(jobs[j], ever, lately, request.op)
      /\ Judged => \A a \in DOMAIN jobs[j].got : jobs[j].got[a] = Due(a)
  BY DEF Inv, JobsAreOwn, GotIsDue
<1>2. /\ IsJob(q) /\ q.arns = jobs[j].arns /\ q.got = jobs[j].got
      /\ q.at = jobs[j].at /\ q.found = jobs[j].found
  BY <1>1 DEF IsJob
<1> HIDE DEF q
<1>3. IsOwn(q, ever, lately, request.op)
  BY <1>1, <1>2 DEF IsOwn
<1>. QED
  BY <1>1, <1>2, <1>3, JobSet DEF q

\* A second read of the entity is for a resource already found.
LEMMA ReadEntityAgainInv == ASSUME Inv, NEW j \in DOMAIN jobs, ReadEntityAgain(j) PROVE Inv'
<1> DEFINE again == OneOfAnnotations(annotated, Targets(request.op))
           x == jobs[j]
<1>1. stage = "calls" /\ Untouched /\ x.at = "entity"
  BY DEF ReadEntityAgain, Untouched, Same, world, ByTheWay
<1>2. CASE stage' = "failed" /\ jobs' = jobs
  BY <1>1, <1>2, Unmoved DEF Untouched
<1>3. CASE again.names # {} /\ stage' = stage
           /\ Set(j, [x EXCEPT !.at = "locate", !.found = again])
  <2>1. WasRead(again, lately, request.op)
    BY <1>3 DEF Inv, WorldType, Reaches, WasRead
  <2> HIDE DEF again
  <2> DEFINE q == [x EXCEPT !.at = "locate", !.found = again]
             z == [x EXCEPT !.at = "locate"]
  <2>2. /\ IsJob(x) /\ IsOwn(x, ever, lately, request.op)
        /\ Judged => \A a \in DOMAIN x.got : x.got[a] = Due(a)
    BY DEF Inv, JobsAreOwn, GotIsDue
  <2> HIDE DEF x
  <2>4. q = [z EXCEPT !.found = again]
    OBVIOUS
  <2>5. IsJob(z) /\ z.arns = x.arns /\ z.got = x.got /\ z.at = "locate"
    BY <2>2, JobAt
  <2> HIDE DEF q, z
  <2>6. IsJob(q) /\ q.arns = z.arns /\ q.got = z.got /\ q.at = z.at /\ q.found = again
    BY <2>4, <2>5 DEF IsJob
  <2>7. IsOwn(q, ever, lately, request.op)
    BY <1>1, <2>1, <2>2, <2>5, <2>6 DEF IsOwn
  <2>8. Judged => \A a \in DOMAIN q.got : q.got[a] = Due(a)
    BY <2>2, <2>5, <2>6
  <2>9. Set(j, q)
    BY <1>3 DEF q
  <2>. QED
    BY <1>1, <1>3, <2>6, <2>7, <2>8, <2>9, <2>5, JobSet
<1>. QED
  BY <1>1, <1>2, <1>3 DEF ReadEntityAgain

\* The second search finds what is the entity's lately.
LEMMA LocateAgainInv == ASSUME Inv, NEW j \in DOMAIN jobs, LocateAgain(j) PROVE Inv'
<1> DEFINE x == jobs[j]
<1>1. stage = "calls" /\ Untouched /\ x.at = "locate"
  BY DEF LocateAgain, Untouched, Same, world, ByTheWay
<1>2. PICK as \in ArnsOf(x.found) :
        IF The(x) \in as THEN stage' = stage /\ Set(j, [x EXCEPT !.at = "call"])
        ELSE stage' = "failed" /\ jobs' = jobs
  BY DEF LocateAgain
<1>3. CASE stage' = "failed" /\ jobs' = jobs
  BY <1>1, <1>3, Unmoved DEF Untouched
<1>4. CASE The(x) \in as /\ stage' = stage /\ Set(j, [x EXCEPT !.at = "call"])
  <2> DEFINE q == [x EXCEPT !.at = "call"]
  <2>1. /\ IsJob(x) /\ IsOwn(x, ever, lately, request.op)
        /\ Judged => \A a \in DOMAIN x.got : x.got[a] = Due(a)
    BY DEF Inv, JobsAreOwn, GotIsDue
  <2>2. WasRead(x.found, lately, request.op) /\ request.op \in Repeats
    BY <1>1, <2>1 DEF IsOwn
  <2>3. as \subseteq Theirs(lately, request.op)
    BY <1>2, <2>2, LocatedAreOwned DEF Inv, WorldType
  <2>4. x.arns = {The(x)}
    BY <2>1, <2>2, TheOne DEF IsOwn
  <2> HIDE DEF x
  <2>5. IsJob(q) /\ q.arns = x.arns /\ q.got = x.got /\ q.at = "call"
    BY <2>1, JobAt
  <2> HIDE DEF q
  <2>6. IsOwn(q, ever, lately, request.op)
    BY <1>4, <2>1, <2>3, <2>4, <2>5 DEF IsOwn
  <2>7. Judged => \A a \in DOMAIN q.got : q.got[a] = Due(a)
    BY <2>1, <2>5
  <2>8. Set(j, q)
    BY <1>4 DEF q
  <2>. QED
    BY <1>1, <1>4, <2>5, <2>6, <2>7, <2>8, JobSet
<1>. QED
  BY <1>2, <1>3, <1>4

\* A resource AWS does not know ends the request.
LEMMA UnknownInv == ASSUME Inv, NEW j \in DOMAIN jobs, Unknown(j) PROVE Inv'
  BY Unmoved DEF Unknown, InCalls, world, Same

\* A call that answers leaves all but its job alone.
LEMMA AnswersUntouched ==
  ASSUME NEW j, NEW ops, Answers(j, ops)
  PROVE  /\ stage = "calls" /\ stage' = stage /\ Untouched
         /\ request.op \in ops /\ jobs[j].at = "call"
  BY DEF Answers, InCalls, world, Untouched, Same

\* The number of things in what a call is for.
LEMMA ItemsAreNat ==
  ASSUME Inv, NEW j \in DOMAIN jobs, NEW a \in jobs[j].arns
  PROVE  a.items \in Nat
<1>1. a \in Arns \cup {Hub}
  BY DEF Inv, JobsAreOwn, IsOwn, Theirs
<1>. QED
  BY <1>1, LimitsAreNat

\* The calls that answer at once.
LEMMA OneAnswerInv ==
  ASSUME Inv, NEW j \in DOMAIN jobs,
         \/ DescribeServices(j) \/ SummarizeService(j) \/ DescribeService(j)
         \/ ScanFindings(j) \/ PipelineState(j) \/ NamePipeline(j) \/ BuildsOfProject(j)
  PROVE  Inv'
<1> DEFINE Ends(r) ==
      /\ stage = "calls" /\ stage' = stage /\ Untouched /\ jobs[j].at = "call"
      /\ Set(j, Got(jobs[j], r))
<1>0. ASSUME NEW r, Ends(r), Judged => \A a \in DOMAIN r : r[a] = Due(a) PROVE Inv'
  BY <1>0, JobDone
<1>1. CASE \/ DescribeServices(j) \/ SummarizeService(j) \/ ScanFindings(j) \/ PipelineState(j)
           \/ NamePipeline(j) \/ BuildsOfProject(j)
  <2>1. /\ \E ops : Answers(j, ops)
        /\ request.op \in {"services", "summary", "scanResults", "state", "pipelines", "projects"}
        /\ \E r : Set(j, Got(jobs[j], r))
    <3>1. CASE DescribeServices(j)
      BY <3>1 DEF DescribeServices, Answers, InCalls
    <3>2. CASE SummarizeService(j)
      BY <3>2 DEF SummarizeService, Reached, Answers, InCalls
    <3>3. CASE ScanFindings(j)
      BY <3>3 DEF ScanFindings, Reached, Answers, InCalls
    <3>4. CASE PipelineState(j)
      BY <3>4 DEF PipelineState, Reached, Answers, InCalls
    <3>5. CASE NamePipeline(j)
      BY <3>5 DEF NamePipeline, Answers, InCalls
    <3>6. CASE BuildsOfProject(j)
      BY <3>6 DEF BuildsOfProject, Reached, Answers, InCalls
    <3>. QED
      BY <1>1, <3>1, <3>2, <3>3, <3>4, <3>5, <3>6
  <2>2. PICK r : Ends(r)
    BY <2>1, AnswersUntouched
  <2>3. ~ Judged
    BY <2>1 DEF Judged
  <2> HIDE DEF Ends
  <2>. QED
    BY <1>0, <2>2, <2>3
<1>2. CASE DescribeService(j)
  <2> DEFINE r == [a \in jobs[j].arns |-> ResourcesOf(a)]
  <2>1. Ends(r) /\ request.op \in {"service", "events"}
    BY <1>2, AnswersUntouched DEF DescribeService, Reached
  <2>2. ASSUME Judged, NEW a \in jobs[j].arns PROVE ResourcesOf(a) = Due(a)
    <3>1. request.op = "events" /\ Positive
      BY <2>1, <2>2 DEF Judged
    <3>2. a.items \in Nat
      BY <2>2, ItemsAreNat
    <3>3. PageOf(a.items) = PageIs(a.items)
      BY <3>1, <3>2, PageIsWindow DEF Inv, WorldType
    <3>. QED
      BY <3>1, <3>3 DEF ResourcesOf, Due
  <2>3. Judged => \A a \in DOMAIN r : r[a] = Due(a)
    BY <2>2
  <2> HIDE DEF Ends, r
  <2>. QED
    BY <1>0, <2>1, <2>3
<1>. QED
  BY <1>1, <1>2

\* The action that leaves its call behind: what is the entity's counts from now on.
LEMMA LeaveTasksInv == ASSUME Inv, NEW j \in DOMAIN jobs, LeaveTasks(j) PROVE Inv'
<1> DEFINE x == jobs[j]
           r == [a \in x.arns |-> {}]
           q == Got(x, r)
<1>1. /\ stage = "calls" /\ stage' = stage /\ request.op = "tasks" /\ Set(j, q)
      /\ UNCHANGED <<locator, annotated, tagged, alive, ever, request, found>>
      /\ lately' = Now /\ loose' = [loose EXCEPT !.at = "entity"]
  BY DEF LeaveTasks, InCalls, world
<1>2. /\ DOMAIN jobs' = DOMAIN jobs /\ jobs'[j] = q
      /\ \A k \in DOMAIN jobs \ {j} : jobs'[k] = jobs[k]
  BY <1>1 DEF Set
<1>3. request.op \notin Repeats /\ ~ Judged
  BY <1>1 DEF Repeats, Judged
<1>4. ASSUME NEW k \in DOMAIN jobs
      PROVE  IsJob(jobs[k]) /\ IsOwn(jobs[k], ever, Now, request.op)
  BY <1>3 DEF Inv, JobsAreOwn, IsOwn
<1>5. IsJob(q) /\ q.arns = x.arns /\ q.at = "done"
  <2>1. IsJob(x)
    BY <1>4
  <2> HIDE DEF x, r
  <2>. QED
    BY <2>1, GotIs
<1>6. IsOwn(x, ever, Now, request.op)
  BY <1>4
<1> HIDE DEF x, q
<1>7. IsOwn(q, ever, Now, request.op)
  BY <1>3, <1>5, <1>6 DEF IsOwn
<1>8. JobsAreOwn'
  BY <1>1, <1>2, <1>4, <1>5, <1>7 DEF JobsAreOwn
<1>9. GotIsDue'
  BY <1>1, <1>3, DueStays DEF GotIsDue
<1>10. WorldType'
  BY <1>1 DEF Inv, WorldType, Reaches, Now
<1>11. LooseInv'
  <2>1. loose = [at |-> loose.at, found |-> loose.found, got |-> loose.got]
    BY DEF Inv, LooseInv, LooseIs
  <2>2. loose' = [at |-> "entity", found |-> loose.found, got |-> loose.got]
    BY <1>1, <2>1
  <2>. QED
    BY <2>2 DEF LooseInv, LooseIs, LooseGot
<1>12. FoundWasRead' /\ NotYetLoose'
  BY <1>1 DEF FoundWasRead, NotYetLoose
<1>. QED
  BY <1>8, <1>9, <1>10, <1>11, <1>12 DEF Inv

\* Images are read up to the limit or to the end, whichever comes first.
LEMMA PageOfImagesInv == ASSUME Inv, NEW j \in DOMAIN jobs, PageOfImages(j) PROVE Inv'
<1> DEFINE a == The(jobs[j])
           n == Min({jobs[j].read + ApiPage, a.items, MaxImages})
<1>1. /\ stage = "calls" /\ stage' = stage /\ Untouched /\ a \in alive /\ jobs[j].at = "call"
      /\ request.op = "images"
      /\ IF n \in {a.items, MaxImages} THEN Set(j, Got(jobs[j], [x \in {a} |-> 1..n]))
         ELSE Set(j, [jobs[j] EXCEPT !.read = n])
  BY AnswersUntouched DEF PageOfImages, Reached
<1>2. a.items \in Nat /\ jobs[j].read \in Int /\ MaxImages \in Nat /\ ApiPage \in Nat
  BY <1>1, LimitsAreNat DEF Inv, WorldType, JobsAreOwn, IsJob
<1>3. n \in {jobs[j].read + ApiPage, a.items, MaxImages} /\ n <= a.items /\ n <= MaxImages
  <2> DEFINE m == jobs[j].read + ApiPage
  <2>1. m \in Int /\ a.items \in Int /\ MaxImages \in Int
    BY <1>2
  <2> HIDE DEF m, a
  <2>. QED
    BY <2>1, MinOfThree DEF m
<1> HIDE DEF n, a
<1>4. n \in Int
  BY <1>2, <1>3
<1>5. CASE n \in {a.items, MaxImages} /\ Set(j, Got(jobs[j], [x \in {a} |-> 1..n]))
  <2>1. Min({MaxImages, a.items}) = n
    BY <1>2, <1>3, <1>5, MinOfTwo
  <2>2. Due(a) = 1..n
    BY <1>1, <2>1 DEF Due
  <2>. QED
    BY <1>1, <1>5, <2>2, JobDone
<1>6. CASE Set(j, [jobs[j] EXCEPT !.read = n])
  BY <1>1, <1>4, <1>6, JobGoesOn
<1>. QED
  BY <1>1, <1>5, <1>6

\* Executions are read until they hold the page, so the cut is the page of the
\* whole list.
LEMMA PageOfExecutionsInv == ASSUME Inv, NEW j \in DOMAIN jobs, PageOfExecutions(j) PROVE Inv'
<1> DEFINE a == The(jobs[j])
           n == Min({jobs[j].read + ExecutionsPage, a.items})
<1>1. /\ stage = "calls" /\ stage' = stage /\ Untouched /\ a \in alive /\ jobs[j].at = "call"
      /\ request.op \in {"executions", "executionsOf"}
      /\ IF Enough(n, a) THEN Set(j, Got(jobs[j], [x \in {a} |-> PageOf(n)]))
         ELSE Set(j, [jobs[j] EXCEPT !.read = n])
  BY AnswersUntouched DEF PageOfExecutions, Reached
<1>2. /\ a.items \in Nat /\ jobs[j].read \in Int /\ ApiPage \in Nat
      /\ request.page \in Int /\ request.size \in Int
  BY <1>1, LimitsAreNat DEF Inv, WorldType, JobsAreOwn, IsJob
<1>3. n \in Int /\ n <= a.items
  <2>1. ExecutionsPage \in Int
    BY <1>2 DEF ExecutionsPage
  <2>. QED
    BY <1>2, <2>1, MinOfTwo
<1> HIDE DEF n, a
<1>4. CASE Enough(n, a) /\ Set(j, Got(jobs[j], [x \in {a} |-> PageOf(n)]))
  <2>1. ASSUME Judged PROVE Due(a) = PageOf(n)
    <3>1. Positive
      BY <1>1, <2>1 DEF Judged
    <3>2. PageStart \in Nat /\ request.size \in Nat
      BY <1>2, <3>1, PageIsWindow
    <3>3. request.page * request.size = PageStart + request.size
      BY <1>2 DEF PageStart
    <3>4. n \in Nat /\ (n = a.items \/ n >= PageStart + request.size)
      BY <1>2, <1>3, <1>4, <3>2, <3>3 DEF Enough
    <3>5. PageOf(n) = PageIs(n)
      BY <1>2, <3>1, <3>4, PageIsWindow
    <3>6. PageIs(n) = PageIs(a.items)
      BY <1>2, <1>3, <3>2, <3>4 DEF PageIs
    <3>. QED
      BY <1>1, <3>5, <3>6 DEF Due
  <2>. QED
    BY <1>1, <1>4, <2>1, JobDone
<1>5. CASE Set(j, [jobs[j] EXCEPT !.read = n])
  BY <1>1, <1>3, <1>5, JobGoesOn
<1>. QED
  BY <1>1, <1>4, <1>5

\* Findings are read to the end.
LEMMA PageOfFindingsInv == ASSUME Inv, NEW j \in DOMAIN jobs, PageOfFindings(j) PROVE Inv'
<1> DEFINE n == Min({jobs[j].read + ApiPage, Hub.items})
<1>1. /\ stage = "calls" /\ stage' = stage /\ Untouched /\ jobs[j].at = "call"
      /\ request.op \in HubOps
      /\ IF n = Hub.items THEN Set(j, Got(jobs[j], [x \in {Hub} |-> FindingsOf(n)]))
         ELSE Set(j, [jobs[j] EXCEPT !.read = n])
  BY AnswersUntouched DEF PageOfFindings
<1>2. Hub.items \in Nat /\ jobs[j].read \in Int /\ ApiPage \in Nat
  BY LimitsAreNat DEF Inv, JobsAreOwn, IsJob
<1>3. n \in Int
  BY <1>2, MinOfTwo
<1> HIDE DEF n
<1>4. CASE n = Hub.items /\ Set(j, Got(jobs[j], [x \in {Hub} |-> FindingsOf(n)]))
  <2>1. Judged => Due(Hub) = FindingsOf(n)
    BY <1>1, <1>4 DEF Judged, Due, FindingsOf, Whole, HubOps
  <2>. QED
    BY <1>1, <1>4, <2>1, JobDone
<1>5. CASE Set(j, [jobs[j] EXCEPT !.read = n])
  BY <1>1, <1>3, <1>5, JobGoesOn
<1>. QED
  BY <1>1, <1>4, <1>5

\* What nobody awaits lists only tasks of what is the entity's lately.
LEMMA LooseStepInv == Inv /\ Loose => Inv'
<1>. SUFFICES ASSUME Inv, Loose PROVE Inv'
  OBVIOUS
<1>1. /\ Same /\ UNCHANGED <<stage, found, jobs>> /\ loose.at # "no"
  BY DEF Loose, LooseThrow, ReadEntityLoosely, LocateLoosely, ListTasks, Loosely, world, Same
<1>2. stage \notin {"entity", "locate"}
  BY <1>1 DEF Inv, NotYetLoose
<1>3. loose = [at |-> loose.at, found |-> loose.found, got |-> loose.got]
  BY DEF Inv, LooseInv, LooseIs
<1>4. LooseIs(loose', lately, request) /\ LooseGot'
  <2>1. CASE LooseThrow
    <3>1. loose' = [at |-> "rejected", found |-> loose.found, got |-> loose.got]
      BY <1>3, <2>1 DEF LooseThrow, Drops
    <3>. QED
      BY <3>1 DEF LooseIs, LooseGot
  <2>2. CASE ReadEntityLoosely
    <3> DEFINE again == OneOfAnnotations(annotated, Targets(request.op))
    <3>1. CASE again.names = {}
      <4>1. loose' = [at |-> "rejected", found |-> loose.found, got |-> loose.got]
        BY <1>3, <2>2, <3>1 DEF ReadEntityLoosely, Drops
      <4>. QED
        BY <4>1 DEF LooseIs, LooseGot
    <3>2. CASE again.names # {}
      <4>1. loose' = [at |-> "locate", found |-> again, got |-> loose.got]
        BY <1>3, <2>2, <3>2 DEF ReadEntityLoosely
      <4>2. WasRead(again, lately, request.op)
        BY <3>2 DEF Inv, WorldType, Reaches, WasRead
      <4> HIDE DEF again
      <4>. QED
        BY <4>1, <4>2 DEF LooseIs, LooseGot
    <3>. QED
      BY <3>1, <3>2
  <2>3. CASE LocateLoosely
    <3>1. loose.at = "locate" /\ WasRead(loose.found, lately, request.op)
      BY <2>3 DEF LocateLoosely, Loosely, Inv, LooseInv, LooseIs
    <3>2. PICK as \in ArnsOf(loose.found) :
            Drops(IF request.arn \in as /\ Positive THEN "call" ELSE "rejected")
      BY <2>3 DEF LocateLoosely
    <3>3. as \subseteq Theirs(lately, request.op)
      BY <3>1, LocatedAreOwned DEF Inv, WorldType
    <3> DEFINE at == IF request.arn \in as /\ Positive THEN "call" ELSE "rejected"
    <3>4. loose' = [at |-> at, found |-> loose.found, got |-> loose.got]
      BY <1>3, <3>2 DEF Drops
    <3>5. at \in {"call", "rejected"} /\ (at = "call" => request.arn \in as /\ Positive)
      OBVIOUS
    <3> HIDE DEF at
    <3>. QED
      BY <3>3, <3>4, <3>5 DEF LooseIs, LooseGot, Positive
  <2>4. CASE ListTasks
    <3> DEFINE n == Min({ApiPage, request.arn.items})
    <3>1. /\ loose.at = "call" /\ loose' = [at |-> "done", found |-> loose.found, got |-> PageOf(n)]
      BY <1>3, <2>4 DEF ListTasks, Loosely
    <3>2. request.arn \in Theirs(lately, request.op) /\ request.page > 0 /\ request.size > 0
      BY <3>1 DEF Inv, LooseInv, LooseIs
    <3>3. n \in Nat
      <4>1. request.arn.items \in Nat /\ ApiPage \in Nat
        BY LimitsAreNat DEF Inv, WorldType
      <4>. QED
        BY <4>1, MinOfTwo
    <3>4. PageOf(n) = PageIs(n)
      <4> HIDE DEF n
      <4>. QED
        BY <3>2, <3>3, PageIsWindow DEF Positive, Inv, WorldType
    <3>5. PageIs(n)' = PageIs(n)
      BY <1>1 DEF Same, PageIs, PageStart
    <3>6. LooseIs(loose', lately, request)
      BY <3>1, <3>2 DEF LooseIs
    <3>7. LooseGot'
      BY <3>1, <3>4, <3>5 DEF LooseGot
    <3>. QED
      BY <3>6, <3>7
  <2>. QED
    BY <2>1, <2>2, <2>3, <2>4 DEF Loose
<1>5. LooseInv'
  BY <1>1, <1>4 DEF LooseInv, Same
<1>6. NotYetLoose' /\ FoundWasRead'
  BY <1>1, <1>2 DEF NotYetLoose, FoundWasRead
<1>. QED
  BY <1>1, <1>5, <1>6, Kept DEF Inv

\* Catalog and account: what the entity had and what carried the tags only grows.
LEMMA ChangeInv == ASSUME Inv, Annotate \/ Retag \/ Remove PROVE Inv'
<1>1. /\ UNCHANGED <<locator, request, stage, found, jobs, loose>>
      /\ ever' = With(ever) /\ lately' = With(lately)
  BY DEF Annotate, Retag, Remove, Changed
<1>2. annotated' \in Marks /\ alive' \subseteq Arns /\ tagged' \subseteq Arns
  BY AnnotationsAreMarks DEF Annotate, Retag, Remove, Inv, WorldType, Reaches
<1>3. Grows(ever, ever') /\ Grows(lately, lately')
  BY <1>1 DEF With, Grows
<1>4. Reaches(ever)' /\ Reaches(lately)'
  BY <1>1, <1>2 DEF With, Reaches, Inv, WorldType
<1>5. WorldType'
  BY <1>1, <1>2, <1>4 DEF Inv, WorldType
<1>6. JobsAreOwn' /\ GotIsDue'
  BY <1>1, <1>3, JobsStay DEF Inv
<1>7. LooseInv'
  BY <1>1, <1>3, LooseStays DEF Inv
<1>8. stage = "locate" => WasRead(found, ever', request.op)
  <2>1. WasRead(found, ever, request.op) => WasRead(found, ever', request.op)
    BY <1>3, TheirsGrow
  <2>. QED
    BY <2>1 DEF Inv, FoundWasRead
<1>9. FoundWasRead' /\ NotYetLoose'
  BY <1>1, <1>8 DEF Inv, FoundWasRead, NotYetLoose
<1>. QED
  BY <1>5, <1>6, <1>7, <1>9 DEF Inv

\* The invariant behind OnlyOwnResources and PagesAreWindows.
THEOREM ReadsInvariant == ReadsSpec => []Inv
<1>1. Inv /\ [ReadsNext]_readsVars => Inv'
  <2>. SUFFICES ASSUME Inv, [ReadsNext]_readsVars PROVE Inv'
    OBVIOUS
  <2>1. CASE ReadEntity \/ Locate \/ Throw \/ Respond
    BY <2>1, ReadEntityInv, LocateInv, ThrowInv, RespondInv
  <2>2. CASE \E j \in DOMAIN jobs : Call(j)
    BY <2>2, ReadEntityAgainInv, LocateAgainInv, UnknownInv, OneAnswerInv, LeaveTasksInv,
       PageOfImagesInv, PageOfExecutionsInv, PageOfFindingsInv DEF Call
  <2>3. CASE Loose
    BY <2>3, LooseStepInv
  <2>4. CASE Annotate \/ Retag \/ Remove
    BY <2>4, ChangeInv
  <2>5. CASE UNCHANGED readsVars
    <3>1. Same /\ UNCHANGED <<found, jobs, loose, stage>>
      BY <2>5 DEF readsVars, world, Same
    <3>2. FoundWasRead' /\ NotYetLoose'
      BY <3>1 DEF Inv, FoundWasRead, NotYetLoose, Same
    <3>. QED
      BY <3>1, <3>2, Kept DEF Inv
  <2>. QED
    BY <2>1, <2>2, <2>3, <2>4, <2>5 DEF ReadsNext
<1>. QED
  BY <1>1, InitInv, PTL DEF ReadsSpec

-----------------------------------------------------------------------------
(* What follows. *)

\* No resource is described that was not the entity's, nor looked for a second time
\* and described when it had ceased to be.
THEOREM OnlyTheEntitys == ReadsSpec => []OnlyOwnResources
<1>1. ASSUME Inv PROVE OnlyOwnResources
  <2>1. Owned(ever) = Theirs(ever, request.op) /\ Owned(lately) = Theirs(lately, request.op)
    BY OwnedIs
  <2>2. \A j \in DOMAIN jobs : jobs[j].at \in {"call", "done"} =>
          jobs[j].arns \subseteq Owned(IF request.op \in Repeats THEN lately ELSE ever) \cup {Hub}
    <3>1. CASE request.op \in Repeats
      BY <1>1, <2>1, <3>1 DEF Inv, JobsAreOwn, IsOwn
    <3>2. CASE request.op \notin Repeats
      BY <1>1, <2>1, <3>2 DEF Inv, JobsAreOwn, IsOwn
    <3>. QED
      BY <3>1, <3>2
  <2>3. loose.at \in {"call", "done"} => request.arn \in Owned(lately)
    BY <1>1, <2>1 DEF Inv, LooseInv, LooseIs
  <2>. QED
    BY <2>2, <2>3 DEF OnlyOwnResources
<1>. QED
  BY <1>1, ReadsInvariant, PTL

\* Pages are windows of the whole list, as far as the limits go.
THEOREM PagesFit == ReadsSpec => []PagesAreWindows
<1>1. ASSUME Inv PROVE PagesAreWindows
  <2>1. SUFFICES ASSUME NEW j \in DOMAIN jobs, NEW a \in DOMAIN jobs[j].got
                 PROVE  /\ request.op \in {"events", "executions", "executionsOf"} /\ Positive =>
                             jobs[j].got[a] = PageIs(a.items)
                        /\ request.op = "images" => jobs[j].got[a] = 1..Min({MaxImages, a.items})
                        /\ request.op = "findings" => jobs[j].got[a] = Whole(a)
    BY <1>1 DEF PagesAreWindows, Inv, LooseInv, LooseGot
  <2>2. Judged => jobs[j].got[a] = Due(a)
    BY <1>1 DEF Inv, GotIsDue
  <2>. QED
    BY <2>2 DEF Judged, Due
<1>. QED
  BY <1>1, ReadsInvariant, PTL

-----------------------------------------------------------------------------
(* Chunks: every place of a list is in one of them, and in no other. *)

\* The i-th chunk is the places from i times the limit on.
LEMMA ChunkHolds ==
  ASSUME NEW n \in Nat \ {0}, NEW i \in Chunks(n), NEW p \in 1..n
  PROVE  /\ i \in Nat /\ i < n
         /\ p \in Chunk(n, i) <=> DescribeLimit * i < p /\ p <= DescribeLimit * i + DescribeLimit
<1> DEFINE l == DescribeLimit
           m == (n + l - 1) \div l
<1>1. l \in Nat \ {0}
  BY LimitsAssumption DEF Limits
<1>2. Chunks(n) = 0..m - 1 /\ Chunk(n, i) = Slice(n, i * l, i * l + l)
  BY DEF Chunks, Chunk
<1> HIDE DEF l
<1>3. m \in 1..n /\ l * (m - 1) < n
  BY <1>1, ChunkCount
<1> HIDE DEF m
<1>4. i \in Nat /\ i <= m - 1 /\ i < n /\ m - 1 \in Nat
  BY <1>2, <1>3
<1>5. l * i <= l * (m - 1) /\ l * i \in Nat
  BY <1>1, <1>4, TimesGrows
<1>6. i * l = l * i
  BY <1>1, <1>4
<1> DEFINE q == l * i
<1>7. q \in Nat /\ q < n
  <2>1. l * (m - 1) \in Int
    BY <1>1, <1>3
  <2>. QED
    BY <1>3, <1>5, <2>1
<1> HIDE DEF q
<1>8. p \in Slice(n, q, q + l) <=> q < p /\ p <= q + l
  BY <1>1, <1>7 DEF Slice, Bound
<1>. QED
  BY <1>2, <1>4, <1>6, <1>8 DEF q, l

\* A place is in a chunk,
LEMMA SomeChunk ==
  ASSUME NEW n \in Nat \ {0}, NEW p \in 1..n
  PROVE  \E i \in Chunks(n) : p \in Chunk(n, i)
<1> DEFINE l == DescribeLimit
           m == (n + l - 1) \div l
           i == (p - 1) \div l
<1>1. l \in Nat \ {0} /\ p - 1 \in Nat
  BY LimitsAssumption DEF Limits
<1>2. Chunks(n) = 0..m - 1
  BY DEF Chunks
<1> HIDE DEF l
<1>3. m \in 1..n /\ n <= l * m
  BY <1>1, ChunkCount
<1>4. i \in Int /\ l * i <= p - 1 /\ p - 1 < l * (i + 1)
  BY <1>1
<1> HIDE DEF m, i
<1>5. l * (i + 1) = l * i + l /\ l * i \in Int /\ l * m \in Int
  BY <1>1, <1>3, <1>4
<1>6. i >= 0
  <2>1. SUFFICES ASSUME i + 1 <= 0 PROVE FALSE
    BY <1>4
  <2>2. l * (i + 1) <= 0
    BY <1>1, <1>4, <2>1
  <2>. QED
    BY <1>1, <1>4, <1>5, <2>2
<1>7. i <= m - 1
  <2>1. SUFFICES ASSUME m <= i PROVE FALSE
    BY <1>3, <1>4
  <2>2. l * m <= l * i
    BY <1>1, <1>3, <1>4, <1>6, <2>1, TimesGrows
  <2>. QED
    BY <1>3, <1>4, <1>5, <2>2
<1>8. i \in Chunks(n)
  BY <1>2, <1>3, <1>4, <1>6, <1>7
<1>9. l * i < p /\ p <= l * i + l
  <2> DEFINE q == l * i
  <2>1. q \in Int /\ q <= p - 1 /\ p - 1 < q + l /\ p \in Int
    BY <1>4, <1>5
  <2> HIDE DEF q
  <2>2. q < p /\ p <= q + l
    BY <1>1, <2>1
  <2>. QED
    BY <2>2 DEF q
<1>10. p \in Chunk(n, i)
  BY <1>8, <1>9, ChunkHolds DEF l
<1>. QED
  BY <1>8, <1>10

\* and in one only.
LEMMA OneChunk ==
  ASSUME NEW n \in Nat \ {0}, NEW p \in 1..n, NEW i \in Chunks(n), NEW j \in Chunks(n),
         p \in Chunk(n, i), p \in Chunk(n, j)
  PROVE  i = j
<1> DEFINE l == DescribeLimit
<1>1. l \in Nat \ {0}
  BY LimitsAssumption DEF Limits
<1>2. /\ i \in Nat /\ l * i < p /\ p <= l * i + l
      /\ j \in Nat /\ l * j < p /\ p <= l * j + l
  BY ChunkHolds
<1> HIDE DEF l
<1>3. ASSUME NEW x \in Nat, NEW y \in Nat, x < y, l * y < p, p <= l * x + l PROVE FALSE
  <2>1. x + 1 \in Nat /\ x + 1 <= y
    BY <1>3
  <2>2. l * (x + 1) <= l * y
    BY <1>1, <2>1, TimesGrows
  <2>3. l * (x + 1) = l * x + l /\ l * x \in Int /\ l * y \in Int
    BY <1>1
  <2>. QED
    BY <1>1, <1>3, <2>2, <2>3
<1>. QED
  BY <1>2, <1>3

\* Where in its cluster an ARN is.
LEMMA PositionIs ==
  ASSUME NEW as, IsFiniteSet(as), NEW rank \in Ranks(as), NEW k, NEW a \in InCluster(as, k)
  PROVE  /\ Cardinality(InCluster(as, k)) \in Nat \ {0}
         /\ Cardinality(InCluster(as, k)) <= Cardinality(as) /\ Cardinality(as) \in Nat
         /\ Position(rank, as, k, a) \in 1..Cardinality(InCluster(as, k))
<1> DEFINE S == InCluster(as, k)
           T == {b \in S : rank[b] <= rank[a]}
<1>1. S \in SUBSET as /\ T \in SUBSET S /\ a \in S
  BY DEF InCluster
<1>2. a \in T
  <2>1. rank[a] \in Int
    <3>1. a \in as /\ rank \in [as -> 1..Cardinality(as)]
      BY <1>1 DEF Ranks
    <3>2. rank[a] \in 1..Cardinality(as) /\ Cardinality(as) \in Nat
      BY <3>1, FS_CardinalityType
    <3> DEFINE q == rank[a]
               c == Cardinality(as)
    <3>3. q \in 1..c /\ c \in Nat
      BY <3>2
    <3> HIDE DEF q, c
    <3>4. q \in Int
      BY <3>3
    <3>. QED
      BY <3>4 DEF q
  <2>2. rank[a] <= rank[a]
    BY <2>1
  <2>. QED
    BY <1>1, <2>2
<1>3. Position(rank, as, k, a) = Cardinality(T)
  BY DEF Position
<1> HIDE DEF S, T
<1>4. IsFiniteSet(S) /\ Cardinality(S) <= Cardinality(as)
  BY <1>1, FS_Subset
<1>5. IsFiniteSet(T) /\ Cardinality(T) <= Cardinality(S)
  BY <1>1, <1>4, FS_Subset
<1>6. Cardinality(as) \in Nat /\ Cardinality(S) \in Nat /\ Cardinality(T) \in Nat
  BY <1>4, <1>5, FS_CardinalityType
<1>7. Cardinality(T) # 0
  BY <1>2, <1>5, FS_EmptySet
<1>8. Cardinality(T) \in 1..Cardinality(S) /\ Cardinality(S) \in Nat \ {0}
  BY <1>5, <1>6, <1>7
<1>. QED
  BY <1>3, <1>4, <1>6, <1>8 DEF S

\* The chunks of all clusters have every ARN, and no two of them have the same.
LEMMA SplitDivides ==
  ASSUME NEW as, IsFiniteSet(as), NEW rank \in Ranks(as)
  PROVE  /\ \A x \in ChunkKeys(as) : Split(as, rank)[x] \subseteq as
         /\ \A a \in as : \E x \in ChunkKeys(as) : a \in Split(as, rank)[x]
         /\ \A x, y \in ChunkKeys(as) : x # y => Split(as, rank)[x] \cap Split(as, rank)[y] = {}
<1> DEFINE N(k) == Cardinality(InCluster(as, k))
           P(k, a) == Position(rank, as, k, a)
<1>1. ASSUME NEW x \in ChunkKeys(as)
      PROVE  Split(as, rank)[x] = {a \in InCluster(as, x.k) : P(x.k, a) \in Chunk(N(x.k), x.i)}
  BY DEF Split
<1>2. \A x \in ChunkKeys(as) : Split(as, rank)[x] \subseteq as
  BY <1>1 DEF InCluster
<1>3. ASSUME NEW a \in as PROVE \E x \in ChunkKeys(as) : a \in Split(as, rank)[x]
  <2> DEFINE k == [p |-> a.place, c |-> a.cluster]
  <2>1. k \in Clusters(as) /\ a \in InCluster(as, k)
    BY DEF Clusters, InCluster
  <2> HIDE DEF k
  <2>2. N(k) \in Nat \ {0} /\ N(k) <= Cardinality(as) /\ Cardinality(as) \in Nat /\ P(k, a) \in 1..N(k)
    BY <2>1, PositionIs
  <2> HIDE DEF N, P
  <2>3. PICK i \in Chunks(N(k)) : P(k, a) \in Chunk(N(k), i)
    BY <2>2, SomeChunk
  <2>4. i \in Nat /\ i < N(k)
    BY <2>2, ChunkHolds
  <2> DEFINE x == [k |-> k, i |-> i]
  <2>5. x.k = k /\ x.i = i /\ x \in [k : Clusters(as), i : 0..Cardinality(as)]
    <3> DEFINE c == Cardinality(as)
               m == N(k)
    <3>1. m \in Nat /\ m <= c /\ c \in Nat /\ i \in Nat /\ i < m
      BY <2>2, <2>4
    <3> HIDE DEF c, m
    <3>2. i \in 0..c
      BY <3>1
    <3>. QED
      BY <2>1, <3>2 DEF c
  <2> HIDE DEF x
  <2>6. x \in ChunkKeys(as)
    BY <2>3, <2>5 DEF ChunkKeys, N
  <2>7. a \in Split(as, rank)[x]
    BY <1>1, <2>1, <2>3, <2>5, <2>6 DEF N, P
  <2>. QED
    BY <2>6, <2>7
<1>4. ASSUME NEW x \in ChunkKeys(as), NEW y \in ChunkKeys(as), NEW a,
             a \in Split(as, rank)[x], a \in Split(as, rank)[y]
      PROVE  x = y
  <2>1. /\ a \in InCluster(as, x.k) /\ P(x.k, a) \in Chunk(N(x.k), x.i)
        /\ a \in InCluster(as, y.k) /\ P(y.k, a) \in Chunk(N(y.k), y.i)
    BY <1>1, <1>4
  <2>2. /\ x \in [k : Clusters(as), i : 0..Cardinality(as)] /\ x.i \in Chunks(N(x.k))
        /\ y \in [k : Clusters(as), i : 0..Cardinality(as)] /\ y.i \in Chunks(N(y.k))
    BY DEF ChunkKeys
  <2>3. x.k = y.k
    <3>1. x.k \in Clusters(as) /\ y.k \in Clusters(as)
      BY <2>2
    <3>2. ASSUME NEW z \in Clusters(as) PROVE z = [p |-> z.p, c |-> z.c]
      <4>1. PICK b \in as : z = [p |-> b.place, c |-> b.cluster]
        BY DEF Clusters
      <4>2. z.p = b.place /\ z.c = b.cluster
        BY <4>1
      <4>. QED
        BY <4>1, <4>2
    <3>3. x.k.p = y.k.p /\ x.k.c = y.k.c
      BY <2>1 DEF InCluster
    <3>. QED
      BY <3>1, <3>2, <3>3
  <2> DEFINE k == x.k
  <2>4. N(k) \in Nat \ {0} /\ P(k, a) \in 1..N(k)
    BY <2>1, PositionIs
  <2>5. /\ P(k, a) \in Chunk(N(k), x.i) /\ x.i \in Chunks(N(k))
        /\ P(k, a) \in Chunk(N(k), y.i) /\ y.i \in Chunks(N(k))
    BY <2>1, <2>2, <2>3
  <2> HIDE DEF N, P, k
  <2>6. x.i = y.i
    BY <2>4, <2>5, OneChunk
  <2>. QED
    BY <2>2, <2>3, <2>6
<1>. QED
  BY <1>2, <1>3, <1>4

-----------------------------------------------------------------------------
(* The strengthening behind WholeEntity: the calls of a list divide what was    *)
(* located among them, and what one of them brings is all of its share that is  *)
(* there still.                                                                 *)

Divides(js, ours) ==
  /\ \A j \in DOMAIN js : js[j].arns \subseteq ours
  /\ \A a \in ours : \E j \in DOMAIN js : a \in js[j].arns
  /\ \A j, k \in DOMAIN js : j # k => js[j].arns \cap js[k].arns = {}

\* All calls but those for a chunk are for one resource.
Singly(js, op) == op # "services" => \A j \in DOMAIN js : \E x : js[j].arns = {x}

Shares(js, living) ==
  \A j \in DOMAIN js : js[j].at = "done" => js[j].arns \cap living \subseteq DOMAIN js[j].got

Listing == stage \in {"calls", "answered"} /\ request.op \in ListOps
ListInv ==
  Listing => Divides(jobs, located) /\ Singly(jobs, request.op) /\ Shares(jobs, alive)

\* Before the first change, all that carries the tags was located if it fits.
Search == found.names = {"tags"} /\ Fits
LocatedAll == Listing /\ changes = 0 /\ Search => located = tagged

\* An answer waits for every call.
AllDone == stage = "answered" => \A j \in DOMAIN jobs : jobs[j].at = "done"

WholeInv == Inv /\ changes \in Nat /\ AllDone /\ ListInv /\ LocatedAll

\* The plan of a list divides what was found.
LEMMA PlansDivide ==
  ASSUME NEW ours, IsFiniteSet(ours), request.op \in ListOps, NEW p \in Plans(ours), NEW living
  PROVE  Divides(p, ours) /\ Singly(p, request.op) /\ Shares(p, living)
<1> USE DEF Divides, Singly, Shares
<1>0. ASSUME NEW xs, NEW at \in {"call", "entity"}
      PROVE  Job(xs, at).arns = xs /\ Job(xs, at).at # "done"
  BY <1>0 DEF Job
<1>1. request.op \in Ops \ (ArnOps \cup HubOps)
  BY DEF ListOps
<1>2. CASE request.op = "services"
  <2>1. PICK rank \in Ranks(ours) :
          p = [x \in ChunkKeys(ours) |-> Job(Split(ours, rank)[x], "call")]
    BY <1>1, <1>2 DEF Plans
  <2>2. DOMAIN p = ChunkKeys(ours)
        /\ \A x \in ChunkKeys(ours) : p[x].arns = Split(ours, rank)[x] /\ p[x].at # "done"
    BY <1>0, <2>1
  <2>. QED
    BY <1>2, <2>2, SplitDivides
<1>3. CASE request.op # "services"
  <2>1. PICK at \in {"call", "entity"} : p = [a \in ours |-> Job({a}, at)]
    BY <1>1, <1>3 DEF Plans
  <2>2. DOMAIN p = ours /\ \A a \in ours : p[a].arns = {a} /\ p[a].at # "done"
    BY <1>0, <2>1
  <2>3. Divides(p, ours)
    <3>1. \A a \in ours : a \in p[a].arns
      BY <2>2
    <3>2. \A a, b \in ours : a # b => p[a].arns \cap p[b].arns = {}
      BY <2>2
    <3>. QED
      BY <2>2, <3>1, <3>2
  <2>4. Singly(p, request.op) /\ Shares(p, living)
    BY <2>2
  <2>. QED
    BY <2>3, <2>4
<1>. QED
  BY <1>2, <1>3

\* One answer has all there is, if it has room.
LEMMA AnswerHasAll ==
  ASSUME NEW tags, IsFiniteSet(tags), NEW limit \in Nat, Cardinality(tags) <= limit,
         NEW as \in AnswersOf(tags, limit)
  PROVE  as = tags
<1>1. Cardinality(tags) \in Nat
  BY FS_CardinalityType
<1>2. Min({limit, Cardinality(tags)}) = Cardinality(tags)
  <2> DEFINE c == Cardinality(tags)
  <2>1. c \in Int /\ limit \in Int /\ c <= limit
    BY <1>1
  <2> HIDE DEF c
  <2>2. Min({limit, c}) = c
    BY <2>1, MinOfTwo
  <2>. QED
    BY <2>2 DEF c
<1>3. as \in SUBSET tags /\ Cardinality(as) = Cardinality(tags)
  BY <1>2 DEF AnswersOf
<1>. QED
  BY <1>3, FS_Subset

\* So a search finds all that carries the tags, if it fits; what it finds is finite.
LEMMA FindsAll ==
  ASSUME WorldType, NEW as \in ArnsOf(found)
  PROVE  IsFiniteSet(as) /\ (Search => as = tagged)
<1>1. IsFiniteSet(tagged)
  BY ArnsAssumption, FS_Subset DEF WorldType
<1>2. IsFiniteSet(as)
  <2>1. CASE found.names = {"tags"}
    BY <1>1, <2>1, LocatedAreTagged, FS_Subset DEF ArnsOf, WorldType
  <2>2. CASE found.names # {"tags"}
    BY <2>2, FS_Singleton DEF ArnsOf
  <2>. QED
    BY <2>1, <2>2
<1>3. ASSUME Search PROVE as = tagged
  <2>0. as \in LocatedArns /\ LocatorPage \in Nat
    BY <1>3, LimitsAssumption DEF Search, ArnsOf, Limits
  <2>1. CASE locator = "resourceExplorer"
    <3>1. as \in AnswersOf(tagged, LocatorPage) /\ Cardinality(tagged) <= LocatorPage
      BY <1>3, <2>0, <2>1 DEF Search, Fits, LocatedArns, ExplorerArns
    <3>. QED
      BY <1>1, <2>0, <3>1, AnswerHasAll
  <2>2. CASE locator = "awsConfig"
    BY <2>0, <2>2 DEF LocatedArns, ConfigArns
  <2>3. CASE locator = "resourceTaggingApi"
    <3>1. as \in TaggingArns
      BY <2>0, <2>3 DEF LocatedArns
    <3>2. PICK pick \in [Instances -> SUBSET tagged] :
            /\ as = UNION {pick[p] : p \in Instances}
            /\ \A p \in Instances : pick[p] \in AnswersOf(TaggedIn(p), LocatorPage)
      BY <3>1 DEF TaggingArns
    <3>3. /\ \A a \in tagged : a.place \in Instances
          /\ \A p \in Instances : Cardinality(TaggedIn(p)) <= LocatorPage
      BY <1>3, <2>3 DEF Search, Fits
    <3>4. ASSUME NEW p \in Instances PROVE pick[p] = TaggedIn(p)
      <4>1. TaggedIn(p) \in SUBSET tagged
        BY DEF TaggedIn
      <4>2. IsFiniteSet(TaggedIn(p))
        BY <1>1, <4>1, FS_Subset
      <4>3. pick[p] \in AnswersOf(TaggedIn(p), LocatorPage) /\ Cardinality(TaggedIn(p)) <= LocatorPage
        BY <3>2, <3>3
      <4>. QED
        BY <2>0, <4>2, <4>3, AnswerHasAll
    <3>5. \A a : a \in as <=> \E p \in Instances : a \in TaggedIn(p)
      BY <3>2, <3>4
    <3>. QED
      BY <3>3, <3>5 DEF TaggedIn
  <2>. QED
    BY <2>1, <2>2, <2>3 DEF WorldType, Locators
<1>. QED
  BY <1>2, <1>3

\* Nothing is planned, nothing has changed, at the start.
LEMMA WholeInit == ReadsInit => WholeInv
<1> SUFFICES ASSUME ReadsInit PROVE WholeInv
  OBVIOUS
<1>1. stage = "entity" /\ changes = 0
  BY DEF ReadsInit
<1>. QED
  BY <1>1, InitInv DEF WholeInv, AllDone, ListInv, LocatedAll, Listing

\* A call that is done has brought its share of what is there, any other has changed
\* its place only.
Fair(q, job, living) ==
  q.arns = job.arns /\ (q.at = "done" => q.arns \cap living \subseteq DOMAIN q.got)

\* A call that got something of each of its resources is fair.
LEMMA FairGot ==
  ASSUME NEW job, IsJob(job), NEW living, NEW r, job.arns \cap living \subseteq DOMAIN r
  PROVE  Fair(Got(job, r), job, living)
<1> DEFINE y == Got(job, r)
<1>1. y.arns = job.arns /\ y.got = r
  BY GotIs
<1> HIDE DEF y
<1>2. Fair(y, job, living)
  BY <1>1 DEF Fair
<1>. QED
  BY <1>2 DEF y

\* So is one that read another page,
LEMMA FairRead ==
  ASSUME NEW job, IsJob(job), NEW living, job.at # "done", NEW n
  PROVE  Fair([job EXCEPT !.read = n], job, living)
<1> DEFINE y == [job EXCEPT !.read = n]
<1>1. y.arns = job.arns /\ y.at = job.at
  BY DEF IsJob
<1>. QED
  BY <1>1 DEF Fair

\* and one that moved on to its next await.
LEMMA FairAt ==
  ASSUME NEW job, IsJob(job), NEW living, NEW s, s # "done"
  PROVE  /\ Fair([job EXCEPT !.at = s], job, living)
         /\ \A g : Fair([job EXCEPT !.at = s, !.found = g], job, living)
<1> DEFINE z == [job EXCEPT !.at = s]
<1>1. IsJob(z) /\ z.arns = job.arns /\ z.at = s
  BY JobAt DEF IsJob
<1>2. ASSUME NEW g PROVE Fair([job EXCEPT !.at = s, !.found = g], job, living)
  <2> DEFINE y == [job EXCEPT !.at = s, !.found = g]
  <2>1. y = [z EXCEPT !.found = g]
    OBVIOUS
  <2> HIDE DEF y, z
  <2>2. y.arns = z.arns /\ y.at = z.at
    BY <1>1, <2>1 DEF IsJob
  <2>3. Fair(y, job, living)
    BY <1>1, <2>2 DEF Fair
  <2>. QED
    BY <2>3 DEF y
<1>3. Fair(z, job, living)
  <2> HIDE DEF z
  <2>. QED
    BY <1>1 DEF Fair
<1>. QED
  BY <1>2, <1>3

\* Every call of a list is fair, or fails the request.
LEMMA CallIsFair ==
  ASSUME WholeInv, Listing, NEW j \in DOMAIN jobs, Call(j)
  PROVE  \/ stage' = "failed"
         \/ stage' = "calls" /\ \E q : Set(j, q) /\ Fair(q, jobs[j], alive)
<1> DEFINE Moves == stage' = "calls" /\ \E q : Set(j, q) /\ Fair(q, jobs[j], alive)
<1>0. IsJob(jobs[j]) /\ request.op \in ListOps
  BY DEF WholeInv, Inv, JobsAreOwn, Listing
<1>1. \A r : DOMAIN r = jobs[j].arns => Fair(Got(jobs[j], r), jobs[j], alive)
  BY <1>0, FairGot
<1>2. request.op # "services" => {The(jobs[j])} = jobs[j].arns
  BY TheOne DEF WholeInv, ListInv, Singly
<1>3. request.op \notin ArnOps \cup HubOps
  BY <1>0 DEF ListOps
<1>4. CASE ReadEntityAgain(j)
  <2>1. \/ stage' = "failed"
        \/ stage' = "calls" /\ \E g : Set(j, [jobs[j] EXCEPT !.at = "locate", !.found = g])
    BY <1>4 DEF ReadEntityAgain
  <2>. QED
    BY <1>0, <2>1, FairAt
<1>5. CASE LocateAgain(j)
  <2>1. \/ stage' = "failed"
        \/ stage' = "calls" /\ Set(j, [jobs[j] EXCEPT !.at = "call"])
    BY <1>5 DEF LocateAgain
  <2>. QED
    BY <1>0, <2>1, FairAt
<1>6. CASE DescribeServices(j)
  <2> DEFINE r == [a \in jobs[j].arns \cap alive |-> FirstPage(a)]
  <2>1. stage' = "calls" /\ Set(j, Got(jobs[j], r))
    BY <1>6 DEF DescribeServices, Answers, InCalls
  <2>2. jobs[j].arns \cap alive \subseteq DOMAIN r
    OBVIOUS
  <2> HIDE DEF r
  <2>. QED
    BY <1>0, <2>1, <2>2, FairGot
<1>7. CASE \/ SummarizeService(j) \/ PipelineState(j) \/ NamePipeline(j) \/ BuildsOfProject(j)
  <2>1. stage' = "calls" /\ \E r : DOMAIN r = jobs[j].arns /\ Set(j, Got(jobs[j], r))
    <3>1. CASE SummarizeService(j)
      <4> DEFINE r == [a \in jobs[j].arns |-> SummaryOf(a)]
      <4>1. DOMAIN r = jobs[j].arns
        OBVIOUS
      <4>. QED
        BY <3>1, <4>1 DEF SummarizeService, Reached, Answers, InCalls
    <3>2. CASE PipelineState(j)
      <4> DEFINE r == [a \in jobs[j].arns |-> Whole(a)]
      <4>1. DOMAIN r = jobs[j].arns
        OBVIOUS
      <4>. QED
        BY <3>2, <4>1 DEF PipelineState, Reached, Answers, InCalls
    <3>3. CASE NamePipeline(j)
      <4> DEFINE r == [a \in jobs[j].arns |-> {}]
      <4>1. DOMAIN r = jobs[j].arns
        OBVIOUS
      <4>. QED
        BY <3>3, <4>1 DEF NamePipeline, Answers, InCalls
    <3>4. CASE BuildsOfProject(j)
      <4> DEFINE r == [a \in jobs[j].arns |-> 1..Min({BuildLimit, a.items})]
      <4>1. DOMAIN r = jobs[j].arns
        OBVIOUS
      <4>. QED
        BY <3>4, <4>1 DEF BuildsOfProject, Reached, Answers, InCalls
    <3>. QED
      BY <1>7, <3>1, <3>2, <3>3, <3>4
  <2>. QED
    BY <1>1, <2>1
<1>8. CASE PageOfImages(j)
  <2> DEFINE a == The(jobs[j])
             n == Min({jobs[j].read + ApiPage, a.items, MaxImages})
             r == [x \in {a} |-> 1..n]
  <2>1. /\ stage' = "calls" /\ jobs[j].at # "done" /\ request.op = "images"
        /\ \/ Set(j, Got(jobs[j], r))
           \/ Set(j, [jobs[j] EXCEPT !.read = n])
    BY <1>8 DEF PageOfImages, Reached, Answers, InCalls
  <2>2. DOMAIN r = jobs[j].arns
    BY <1>2, <2>1
  <2> HIDE DEF n, r
  <2>. QED
    BY <1>0, <1>1, <2>1, <2>2, FairRead
<1>9. CASE PageOfExecutions(j)
  <2> DEFINE a == The(jobs[j])
             n == Min({jobs[j].read + ExecutionsPage, a.items})
             r == [x \in {a} |-> PageOf(n)]
  <2>1. /\ stage' = "calls" /\ jobs[j].at # "done" /\ request.op \in {"executions", "executionsOf"}
        /\ \/ Set(j, Got(jobs[j], r))
           \/ Set(j, [jobs[j] EXCEPT !.read = n])
    BY <1>9 DEF PageOfExecutions, Reached, Answers, InCalls
  <2>2. DOMAIN r = jobs[j].arns
    BY <1>2, <2>1
  <2> HIDE DEF n, r
  <2>. QED
    BY <1>0, <1>1, <2>1, <2>2, FairRead
<1>10. CASE Unknown(j)
  BY <1>10 DEF Unknown
<1>11. ~ (DescribeService(j) \/ LeaveTasks(j) \/ ScanFindings(j) \/ PageOfFindings(j))
  <2>1. request.op \notin {"service", "events", "tasks", "scanResults"} \cup HubOps
    BY <1>3 DEF ArnOps
  <2>. QED
    BY <2>1 DEF DescribeService, LeaveTasks, ScanFindings, PageOfFindings, Reached, Answers, InCalls
<1>. QED
  BY <1>4, <1>5, <1>6, <1>7, <1>8, <1>9, <1>10, <1>11 DEF Call

\* A fair step of one call leaves the division as it is.
LEMMA FairKeeps ==
  ASSUME NEW j \in DOMAIN jobs, NEW q, Set(j, q), NEW living, Fair(q, jobs[j], living), NEW ours,
         NEW op, Divides(jobs, ours), Singly(jobs, op), Shares(jobs, living)
  PROVE  Divides(jobs', ours) /\ Singly(jobs', op) /\ Shares(jobs', living)
<1>1. /\ DOMAIN jobs' = DOMAIN jobs /\ jobs'[j] = q
      /\ \A k \in DOMAIN jobs \ {j} : jobs'[k] = jobs[k]
  BY DEF Set
<1>2. \A k \in DOMAIN jobs : jobs'[k].arns = jobs[k].arns
  BY <1>1 DEF Fair
<1>3. Divides(jobs', ours)
  BY <1>1, <1>2 DEF Divides
<1>4. Singly(jobs', op)
  BY <1>1, <1>2 DEF Singly
<1>5. Shares(jobs', living)
  BY <1>1 DEF Shares, Fair
<1>. QED
  BY <1>3, <1>4, <1>5

\* Whether the tags fit in one answer depends on the deployment and the tags.
LEMMA SearchStays == UNCHANGED <<locator, tagged, found>> => (Search' <=> Search)
  BY DEF Search, Fits, TaggedIn

\* A call keeps the division.
LEMMA CallWhole ==
  ASSUME WholeInv, NEW j \in DOMAIN jobs, Call(j)
  PROVE  (changes \in Nat /\ AllDone /\ ListInv /\ LocatedAll)'
<1>1. /\ UNCHANGED <<locator, tagged, alive, changes, request, found, located>>
      /\ stage = "calls" /\ stage' \in {"calls", "failed"}
  BY DEF Call, ReadEntityAgain, LocateAgain, Unknown, DescribeServices,
     SummarizeService, DescribeService, LeaveTasks, PageOfImages, ScanFindings,
     PageOfExecutions, PipelineState, NamePipeline, BuildsOfProject, PageOfFindings,
     Reached, Answers, InCalls, ByTheWay, world
<1>2. changes' \in Nat /\ AllDone'
  BY <1>1 DEF WholeInv, AllDone
<1>3. ListInv'
  <2>1. SUFFICES ASSUME Listing'
                 PROVE  Divides(jobs', located) /\ Singly(jobs', request.op) /\ Shares(jobs', alive)
    BY <1>1 DEF ListInv
  <2>2. Listing /\ stage' = "calls"
    BY <1>1, <2>1 DEF Listing
  <2>3. PICK q : Set(j, q) /\ Fair(q, jobs[j], alive)
    BY <2>2, CallIsFair
  <2>. QED
    BY <2>2, <2>3, FairKeeps DEF WholeInv, ListInv
<1>4. LocatedAll'
  BY <1>1, SearchStays DEF WholeInv, LocatedAll, Listing
<1>. QED
  BY <1>2, <1>3, <1>4

\* The plan makes it.
LEMMA LocateWhole ==
  ASSUME WholeInv, Locate PROVE (changes \in Nat /\ AllDone /\ ListInv /\ LocatedAll)'
<1>1. /\ UNCHANGED <<locator, tagged, alive, changes, request, found>>
      /\ stage = "locate"
  BY DEF Locate, world
<1>2. PICK ours \in ArnsOf(found) :
        \/ stage' = "calls" /\ jobs' \in Plans(ours) /\ located' = ours
        \/ stage' = "failed"
  BY DEF Locate
<1>3. changes' \in Nat /\ AllDone'
  BY <1>1, <1>2 DEF WholeInv, AllDone
<1>4. IsFiniteSet(ours) /\ (Search => ours = tagged)
  BY FindsAll DEF WholeInv, Inv
<1>5. ListInv'
  <2>1. SUFFICES ASSUME Listing'
                 PROVE  /\ Divides(jobs', located') /\ Singly(jobs', request.op)
                        /\ Shares(jobs', alive)
    BY <1>1 DEF ListInv
  <2>2. request.op \in ListOps /\ jobs' \in Plans(ours) /\ located' = ours
    BY <1>1, <1>2, <2>1 DEF Listing
  <2>. QED
    BY <1>4, <2>2, PlansDivide
<1>6. LocatedAll'
  <2>1. Listing' => located' = ours
    BY <1>2 DEF Listing
  <2>. QED
    BY <1>1, <1>4, <2>1, SearchStays DEF LocatedAll
<1>. QED
  BY <1>3, <1>5, <1>6

\* After a change, what is there still is a part of what was.
LEMMA ChangeWhole ==
  ASSUME WholeInv, Annotate \/ Retag \/ Remove
  PROVE  (changes \in Nat /\ AllDone /\ ListInv /\ LocatedAll)'
<1>1. /\ changes' = changes + 1 /\ changes \in Nat /\ alive' \subseteq alive
      /\ UNCHANGED <<stage, jobs, request, located>>
  BY DEF WholeInv, Annotate, Retag, Remove, Changed
<1>2. changes' \in Nat /\ changes' # 0
  BY <1>1
<1>3. ListInv'
  <2>1. Shares(jobs, alive) => Shares(jobs, alive')
    BY <1>1 DEF Shares
  <2>. QED
    BY <1>1, <2>1 DEF WholeInv, ListInv, Listing
<1>4. AllDone' /\ LocatedAll'
  BY <1>1, <1>2 DEF WholeInv, AllDone, LocatedAll
<1>. QED
  BY <1>2, <1>3, <1>4

\* The steps between the plan and the calls, and after them, and those of the call
\* nobody awaits.
LEMMA OtherWhole ==
  ASSUME WholeInv, ReadEntity \/ Throw \/ Respond \/ Loose \/ UNCHANGED readsVars
  PROVE  (changes \in Nat /\ AllDone /\ ListInv /\ LocatedAll)'
<1>1. UNCHANGED <<locator, tagged, alive, changes, request, jobs, located>>
  BY DEF ReadEntity, Throw, Respond, Loose, LooseThrow, ReadEntityLoosely, LocateLoosely,
     ListTasks, Loosely, ByTheWay, readsVars, world
<1>2. AllDone'
  BY DEF WholeInv, AllDone, ReadEntity, Throw, Respond, Loose, LooseThrow, ReadEntityLoosely,
     LocateLoosely, ListTasks, Loosely, readsVars, world
<1>3. Listing' => Listing /\ found' = found
  BY <1>1 DEF Listing, ReadEntity, Throw, Respond, Loose, LooseThrow, ReadEntityLoosely,
     LocateLoosely, ListTasks, Loosely, readsVars, world
<1>4. ListInv'
  BY <1>1, <1>3 DEF WholeInv, ListInv
<1>5. LocatedAll'
  BY <1>1, <1>3, SearchStays DEF WholeInv, LocatedAll
<1>. QED
  BY <1>1, <1>2, <1>4, <1>5 DEF WholeInv

\* The calls of a list divide what was located.
THEOREM ListInvariant == ReadsSpec => []WholeInv
<1>1. WholeInv /\ Inv' /\ [ReadsNext]_readsVars => WholeInv'
  BY ChangeWhole, CallWhole, LocateWhole, OtherWhole DEF WholeInv, ReadsNext
<1>. QED
  BY <1>1, WholeInit, ReadsInvariant, PTL DEF ReadsSpec

\* A list of an entity's resources has each that was located once, whatever the
\* chunks, the locator and what changes meanwhile.
THEOREM ListsAreWhole == ReadsSpec => []WholeEntity
<1>1. ASSUME WholeInv PROVE WholeEntity
  <2>1. SUFFICES ASSUME stage = "answered", request.op \in ListOps
                 PROVE  /\ \A a \in located :
                             \E j \in DOMAIN jobs :
                               /\ a \in jobs[j].arns /\ (a \in alive => a \in DOMAIN jobs[j].got)
                               /\ \A k \in DOMAIN jobs \ {j} : a \notin jobs[k].arns
                        /\ \A j \in DOMAIN jobs : jobs[j].arns \subseteq located
                        /\ changes = 0 /\ Search => located = tagged
    BY DEF WholeEntity, Search
  <2>2. Divides(jobs, located)
    BY <1>1, <2>1 DEF WholeInv, ListInv, Listing
  <2>3. \A j \in DOMAIN jobs : jobs[j].arns \cap alive \subseteq DOMAIN jobs[j].got
    BY <1>1, <2>1 DEF WholeInv, ListInv, Listing, AllDone, Shares
  <2>4. changes = 0 /\ Search => located = tagged
    BY <1>1, <2>1 DEF WholeInv, LocatedAll, Listing
  <2>. QED
    BY <2>2, <2>3, <2>4 DEF Divides
<1>. QED
  BY <1>1, ListInvariant, PTL
=============================================================================
