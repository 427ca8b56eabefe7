------------------------------ MODULE CostFigures ------------------------------
(***************************************************************************)
(* What the cost figures are: the period a viewer or an agent asks for, the*)
(* calls to Cost Explorer the backend makes of it, the sums it answers     *)
(* with, and what the entity card and the cost page make of those.         *)
(*                                                                         *)
(* A behaviour is one request behind the router of CostInsightsRouter.  The*)
(* days are those of a short calendar, an amount is in tenths of a cent,   *)
(* and the bill is what Cost Explorer knows; it is restated while requests *)
(* are under way, as the bill of the last days always is.                  *)
(***************************************************************************)
EXTENDS Integers, FiniteSets, FiniteSetsExt, Sequences, SequencesExt

CONSTANTS
  Months,    \* lengths of the months of the calendar, which begins with day 0
  Presets,   \* the numbers of days the presets of RichPeriodSelect stand for
  Counts,    \* the intervalCount an agent may ask for
  Shifts,    \* by how many days the backend's local date of a midnight UTC may be
             \* behind its date UTC: 1 west of Greenwich, 0 elsewhere
  Rows,      \* the rows of the bill: [service, region, meets], meets the
             \* conditions of a filter the row meets
  Bills,     \* bills: [Rows -> [Days -> amounts]]
  Groupings, \* values of aws.costInsights.entityGroups for the kind asked:
             \* sequences of [name, key]
  Entities,  \* [found, annotations, pairs, account] of the entity asked about
  Accounts,  \* the linked accounts with usage
  PageSize,  \* what one page of a Cost Explorer answer holds
  Nothing    \* undefined

DayCount == SumFunction(Months)
Days == 0..DayCount - 1

ASSUME CalendarAssumption ==
  /\ Months \in Seq(Nat \ {0}) /\ Months # <<>>
  /\ Presets \subseteq Nat /\ Counts \subseteq Nat \ {0} /\ Shifts \subseteq {0, 1}
  /\ \A g \in Groupings : g \in Seq([name : STRING, key : STRING])
ASSUME BillsAssumption ==
  /\ PageSize \in Nat \ {0} /\ IsFiniteSet(Accounts) /\ IsFiniteSet(Rows)
  /\ \A b \in Bills : b \in [Rows -> [Days -> Nat]]

VARIABLES
  request,   \* [op, entity, from, to, by, count, end, shift]: a period [from, to) by
             \* day or month, for count of them before end, read shift days early
  groups,    \* the groups configured for the kind asked about
  bill,      \* Cost Explorer's figures
  restated,  \* history: the bill changed since the request began
  pc,        \* where the request is
  root,      \* the answer of getAggregations
  calls,     \* the grouped calls, in the order they were made: Nothing or what came
  grouped,   \* groupedCosts
  listed     \* the accounts listed so far

figuresVars == <<request, groups, bill, restated, pc, root, calls, grouped, listed>>

-----------------------------------------------------------------------------
(* The calendar. *)

MonthStart(m) == SumFunctionOnSet(Months, 1..m - 1)
MonthOf(d) == CHOOSE m \in DOMAIN Months : MonthStart(m) <= d /\ d < MonthStart(m) + Months[m]

\* luxon's minus: the same day of an earlier month, its last if it has no such day.
MinusMonths(d, k) ==
  LET m == MonthOf(d) - k IN
  MonthStart(m) + Min({d - MonthStart(MonthOf(d)), Months[m] - 1})

-----------------------------------------------------------------------------
(* Periods. *)

\* handlePresetSelect: the repetitions and the end of an interval R<n>/P1D/<end>.
Preset(n, today) == [repeat |-> n, end |-> today]

\* handleApplyCustom: of the days between two dates, one at least.
Custom(start, end) == [repeat |-> Max({1, end - start}), end |-> end]

Intervals(today) ==
  {Preset(n, today) : n \in Presets}
    \cup UNION {{Custom(start, end) : start \in 0..end} : end \in Days}

\* Mutant: the last repetition is dropped.
ParseShort(i) == [from |-> i.end - (i.repeat - 1), to |-> i.end]

\* parseInterval; what it calls startDate is the end of the period.
ParseInterval(i) == [from |-> i.end - i.repeat, to |-> i.end]

\* The startDate of the action get-cost-insights-aws-history is coerced to midnight
\* UTC of the date given; luxon and formatDate read it in local time, behind UTC as
\* a time of the day before.
Local(date, shift) == date - shift

\* The action works backwards from there: by the days asked for, or by one month
\* less than asked for, which leaves out a month when the date is the first of one.
TrailingDays(count, start) == [from |-> start - count, to |-> start]
TrailingMonths(count, start) == [from |-> MinusMonths(start, count - 1), to |-> start]

\* A period as TimePeriod, of local dates: its end is not part of it.
Asked(p) == p.from..p.to - 1

-----------------------------------------------------------------------------
(* Cost Explorer. *)

\* Results in order of time: days, or the parts of the period in one month.
Buckets(p, by) ==
  IF by = "DAILY" THEN [i \in 1..p.to - p.from |-> {p.from + i - 1}]
  ELSE LET first == MonthOf(p.from)
           last == MonthOf(p.to - 1)
       IN [i \in 1..last - first + 1 |->
             {d \in Asked(p) : MonthOf(d) = first + i - 1}]

OnePage(s) == SubSeq(s, 1, Min({PageSize, Len(s)}))
Cut(s) == Len(s) > PageSize

Cost(r, ds) == SumFunctionOnSet(bill[r], ds)
Billed(rows, ds) == SumFunction([r \in rows |-> Cost(r, ds)])

\* Filter: an And of conditions, or none.
RowsOf(filter) == {r \in Rows : filter \subseteq r.meets}

-----------------------------------------------------------------------------
(* What the service asks and answers. *)

\* Mutant: the account of the annotation is left out.
FilterUnscoped(e) == e.pairs

\* One condition for each pair of the annotation, one for a valid account id; an
\* invalid id is logged and left out.
FilterOf(e) == e.pairs \cup (IF e.account = "valid" THEN {"account"} ELSE {})

\* The account of the project, or no filter at all for the org.
Filter(q) ==
  CASE q.op \in {"entity", "trailing"} -> FilterOf(q.entity)
    [] q.op = "project" -> {"account"}
    [] q.op = "org" -> {}

Period == [from |-> request.from, to |-> request.to]

\* getAggregations: amounts by the first day of their bucket, of one page.
Aggregations(filter) ==
  LET results == OnePage(Buckets(Period, request.by)) IN
  [i \in DOMAIN results |->
     [date |-> Min(results[i]), amount |-> Billed(RowsOf(filter), results[i])]]

\* changeOf: no ratio when an end is zero.
ChangeOf(aggregation) ==
  LET first == IF aggregation = <<>> THEN 0 ELSE aggregation[1].amount
      last == IF aggregation = <<>> THEN 0 ELSE Last(aggregation).amount
  IN [amount |-> last - first,
      ratio |-> IF first = 0 \/ last = 0 THEN Nothing ELSE <<last - first, first>>]

\* Mutant: a key starts a new list in each result.
GroupedAnew(filter, key) ==
  LET results == OnePage(Buckets(Period, request.by))
      Under(k) == {r \in RowsOf(filter) : r[key] = k}
      Listed(k) == {i \in DOMAIN results : Billed(Under(k), results[i]) > 0}
  IN [k \in {x \in {r[key] : r \in Rows} : Listed(x) # {}} |->
        {[date |-> Min(results[i]), amount |-> Billed(Under(k), results[i])] : i \in {Max(Listed(k))}}]

\* getGroupedAggregations: for each key that occurs in a result, its amounts by date.
\* Cost Explorer lists no key without costs.
GroupedAggregations(filter, key) ==
  LET results == OnePage(Buckets(Period, request.by))
      Under(k) == {r \in RowsOf(filter) : r[key] = k}
      Listed(k) == {i \in DOMAIN results : Billed(Under(k), results[i]) > 0}
  IN [k \in {x \in {r[key] : r \in Rows} : Listed(x) # {}} |->
        {[date |-> Min(results[i]), amount |-> Billed(Under(k), results[i])] : i \in Listed(k)}]

-----------------------------------------------------------------------------
(* Steps of a request. *)

Idle == UNCHANGED <<request, groups, bill, restated>>
Reject == pc' = "failed" /\ UNCHANGED <<root, calls, grouped, listed>> /\ Idle

\* The entity is found and carries exactly one of the two cost annotations.
ReadEntity ==
  /\ pc = "entity"
  /\ \/ ~(request.entity.found /\ Cardinality(request.entity.annotations) = 1) /\ Reject
     \/ /\ request.entity.found /\ Cardinality(request.entity.annotations) = 1
        /\ pc' = "total" /\ UNCHANGED <<root, calls, grouped, listed>> /\ Idle

\* The total comes first; Cost Explorer refuses a period that is empty.
AskTotal ==
  /\ pc = "total"
  /\ \/ Reject
     \/ /\ request.from < request.to
        /\ LET aggregation == Aggregations(Filter(request)) IN
           root' = [aggregation |-> aggregation, change |-> ChangeOf(aggregation)]
        /\ calls' = [i \in DOMAIN groups |-> Nothing]
        /\ pc' = "groups" /\ UNCHANGED <<grouped, listed>> /\ Idle

\* Then all groups at once, their answers in any order; one failure fails all.
AnswerGroup(i) ==
  /\ pc = "groups" /\ calls[i] = Nothing
  /\ \/ Reject
     \/ /\ calls' = [calls EXCEPT ![i] = GroupedAggregations(Filter(request), groups[i].key)]
        /\ UNCHANGED <<pc, root, grouped, listed>> /\ Idle

\* By name, in the order configured: the last of two with one name stays.
CollectGroups ==
  /\ pc = "groups" /\ \A i \in DOMAIN calls : calls[i] # Nothing
  /\ grouped' = [name \in {groups[i].name : i \in DOMAIN groups} |->
       calls[Max({i \in DOMAIN groups : groups[i].name = name})]]
  /\ pc' = "answered" /\ UNCHANGED <<root, calls, listed>> /\ Idle

\* listProjects: page after page of the accounts.
ListPage ==
  /\ pc = "list"
  /\ \/ Reject
     \/ \E page \in kSubset(Min({PageSize, Cardinality(Accounts \ listed)}), Accounts \ listed) :
          /\ listed' = listed \cup page
          /\ pc' = IF listed' = Accounts THEN "answered" ELSE "list"
          /\ UNCHANGED <<root, calls, grouped>> /\ Idle

\* The bill of the last days is estimated until it is final.
Restate ==
  /\ ~restated /\ pc \notin {"answered", "failed"}
  /\ bill' \in Bills \ {bill} /\ restated' = TRUE
  /\ UNCHANGED <<request, groups, pc, root, calls, grouped, listed>>

-----------------------------------------------------------------------------
(* Requests. *)

NoEntity == [found |-> FALSE, annotations |-> {}, pairs |-> {}, account |-> "none"]
Request(op, e, p, by, count, end, shift) ==
  [op |-> op, entity |-> e, from |-> p.from, to |-> p.to, by |-> by, count |-> count,
   end |-> end, shift |-> shift]

\* The card and the page ask by interval, for an entity, a project or the org; the
\* group of the cost page is an entity like any other.
ByInterval ==
  LET Shown == {i \in UNION {Intervals(t) : t \in Days} : ParseInterval(i).from >= 0}
      Ask(op, e, i) == Request(op, e, ParseInterval(i), "DAILY", i.repeat, i.end, 0)
  IN {Ask(op, NoEntity, i) : op \in {"project", "org"}, i \in Shown}
       \cup {Ask("entity", e, i) : e \in Entities, i \in Shown}

\* Where the action may start: a date given, read in local time, or, without one,
\* the end of the day or of the month.
DayStarts == (Days \X Shifts) \cup (Days \X {0})
MonthStarts == (Days \X Shifts) \cup ({MonthStart(m) + Months[m] - 1 : m \in DOMAIN Months} \X {0})

\* The action: days or months before its start.
ByAction ==
  LET From(x) == Local(x[2][1], x[2][2])
      Ask(e, p, by, x) == Request("trailing", e, p, by, x[1], x[2][1], x[2][2])
  IN {Ask(e, TrailingDays(x[1], From(x)), "DAILY", x) : e \in Entities,
        x \in {y \in Counts \X DayStarts : From(y) - y[1] >= 0}}
     \cup
     {Ask(e, TrailingMonths(x[1], From(x)), "MONTHLY", x) : e \in Entities,
        x \in {y \in Counts \X MonthStarts : From(y) >= 0 /\ y[1] <= MonthOf(From(y))}}

FigureRequests == ByInterval \cup ByAction
  \cup {Request("projects", NoEntity, [from |-> 0, to |-> 0], "DAILY", 0, 0, 0)}

FirstStep(q) ==
  CASE q.op \in {"entity", "trailing"} -> "entity"
    [] q.op \in {"project", "org"} -> "total"
    [] q.op = "projects" -> "list"

FiguresInit ==
  /\ request \in FigureRequests /\ groups \in Groupings /\ bill \in Bills
  /\ restated = FALSE /\ pc = FirstStep(request)
  /\ root = Nothing /\ calls = <<>> /\ grouped = Nothing /\ listed = {}

FiguresNext ==
  \/ ReadEntity \/ AskTotal \/ CollectGroups \/ ListPage \/ Restate
  \/ \E i \in DOMAIN calls : AnswerGroup(i)

FiguresSpec == FiguresInit /\ [][FiguresNext]_figuresVars

-----------------------------------------------------------------------------
(* What the frontends make of an answer. *)

HalfUp(x) == ((x + 5) \div 10) * 10   \* toFixed(2) of an amount in tenths of a cent

\* The entity card adds up the group named service: by date, each amount rounded.
ServiceGroups == IF "service" \in DOMAIN grouped THEN grouped["service"] ELSE <<>>
ServicePoints == UNION {{<<k, p>> : p \in ServiceGroups[k]} : k \in DOMAIN ServiceGroups}
CardDates == {q[2].date : q \in ServicePoints}
CardTotalOf(date) ==
  SumFunction([q \in {p \in ServicePoints : p[2].date = date} |-> HalfUp(q[2].amount)])
CardTotal == SumFunction([date \in CardDates |-> CardTotalOf(date)])

\* The cost page adds up the aggregation, every day of it.
PageTotal == SumFunction([i \in DOMAIN root.aggregation |-> root.aggregation[i].amount])

-----------------------------------------------------------------------------
(* Properties. *)

Answered == pc = "answered"
Whole == ~Cut(Buckets(Period, request.by))

\* An answer covers what was asked for, as the code reads it: the days of a preset,
\* a custom period or an agent's request, or an agent's months, as many as its count
\* says, once and in order up to the date the code starts from, as far as one page
\* goes.  Of months that is one less when the date is the first of a month.
RepliesAreWhole ==
  Answered /\ request.op # "projects" /\ Whole =>
    LET start == Local(request.end, request.shift)
        Date(i) == root.aggregation[i].date
        \* The date is the first of its month.
        First == MonthStart(MonthOf(start)) = start
    IN IF request.by = "DAILY"
       THEN /\ Len(root.aggregation) = request.count
            /\ \A i \in DOMAIN root.aggregation : Date(i) = start - request.count + i - 1
       ELSE /\ Len(root.aggregation) = request.count - (IF First THEN 1 ELSE 0)
            /\ \A i \in DOMAIN root.aggregation :
                 MonthOf(Date(i)) = MonthOf(start) - request.count + i

\* The action's intervalCount is, by its description at trailing.ts:57-61, the number
\* of intervals to retrieve before the start date, of months as of days.
HistoryIsAsLong ==
  Answered /\ request.op = "trailing" /\ Whole => Len(root.aggregation) = request.count

\* The rows of the bill that are the entity's, the project's or, for the org, all.
OwnRows ==
  LET Owns(r) ==
        CASE request.op = "org" -> TRUE
          [] request.op = "project" -> "account" \in r.meets
          [] OTHER -> /\ request.entity.pairs \subseteq r.meets
                      /\ request.entity.account = "valid" => "account" \in r.meets
  IN {r \in Rows : Owns(r)}

\* The total of the cost page is what the bill says of the period and of whose it
\* is, and that of the entity card, which adds up rounded services instead, agrees
\* to half a cent an amount: when a group named service is configured, the answers
\* were whole and the bill stood still.
FiguresAgree ==
  Answered /\ request.op # "projects" /\ Whole /\ ~restated =>
    LET due == Billed(OwnRows, Asked(Period))
        error == 5 * Cardinality(ServicePoints)
    IN /\ PageTotal = due
       /\ "service" \in DOMAIN grouped => CardTotal - due \in -error..error
=============================================================================
