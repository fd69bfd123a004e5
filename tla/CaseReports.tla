----------------------------- MODULE CaseReports ------------------------------
(***************************************************************************)
(* Who sees which cases, and the figures of the reports: the dashboard     *)
(* (getCaseStatus), and the age of the cases with how long the closed ones *)
(* took (getCaseAgeing).                                                   *)
(*                                                                         *)
(* A dashboard is a dozen queries sent at the same time and read without a *)
(* transaction: each sees a table of its own moment.  The figures compared *)
(* by the other reports come from one query, so they are functions of the  *)
(* table.  Days stand for instants, and MonthDays of them for a month.     *)
(***************************************************************************)
EXTENDS CaseTable, FiniteSetsExt

CONSTANTS
    Everyone,    \* the view of a supervisor or administrator
    Windows,     \* the lengths, in days, of the date ranges looked at
    Ends,        \* how many days ago they end
    MonthDays,   \* the days of a month
    MaxBuckets   \* MAX_TREND_BUCKETS

ASSUME ReportAssumption ==
    /\ Everyone \notin Users \union {NoUser}
    /\ Windows \subseteq Nat /\ Ends \subseteq Nat
    /\ {MonthDays, MaxBuckets} \subseteq Nat \ {0}

VARIABLE report  \* the dashboard being put together

vars == <<cases, today, changes, report>>
-----------------------------------------------------------------------------
(***************************************************************************)
(* Which cases a user sees.                                                *)
(***************************************************************************)
Unassigned(c) == cases[c].owner = NoUser
Own(c, u) == u \in {Everyone, cases[c].owner} \union cases[c].workers

\* The Cases page, and the link that an alert offers to its case.
Listed(c, u) == Own(c, u) \/ Unassigned(c) \/ cases[c].status \in {"DRAFT", "READY"}
LinkOpens(c, u) == Own(c, u) \/ Unassigned(c) \/ cases[c].status = "READY"

\* Mutant: pending cases whoever owns them.
InScopeAllPending(c, u) == Own(c, u) \/ cases[c].status \in {"DRAFT", "READY", "PENDING"}

\* What the dashboard counts for an investigator.
InScope(c, u) ==
    \/ Own(c, u)
    \/ cases[c].status \in {"DRAFT", "READY"}
    \/ cases[c].status = "PENDING" /\ Unassigned(c)

\* No report counts a container, except before its split, or an abandoned case.
Counted(c) ==
    /\ cases[c].type = "FRAUD_AND_AML" => cases[c].status \in {"DRAFT", "PENDING"}
    /\ cases[c].status # "ABANDONED"

IsClosed(c) == cases[c].status \in Closed

\* getDateRange: most ranges end now, "yesterday" and "last year" before.
Ranges == [length : Windows, end : Ends]
Within(day, w) == day \in today - w.end - w.length..today - w.end

\* The cases whose age is reported: an unowned draft ages for nobody.
Backlog(u) ==
    {c \in CaseIds : /\ Counted(c) /\ Own(c, u) /\ ~IsClosed(c)
                     /\ ~(cases[c].status = "DRAFT" /\ Unassigned(c))}
ClosedIn(u, w) == {c \in CaseIds : Counted(c) /\ Own(c, u) /\ IsClosed(c) /\ Within(cases[c].updated, w)}

\* getUserWorkloadStats: what a user has on the desk.
Active(u) == {c \in CaseIds : Own(c, u) /\ cases[c].status \notin Outcomes \union {"ABANDONED"}}
-----------------------------------------------------------------------------
(***************************************************************************)
(* getCaseStatus.                                                          *)
(***************************************************************************)
Month(day) == day \div MonthDays
ThisMonth(day) == Month(day) = Month(today)

\* What each query selects for the viewer u and the date range w.
Selects(q, c, u, w) ==
    LET scoped == Counted(c) /\ InScope(c, u)
        created == Within(cases[c].created, w)
    IN  CASE q \in {"byStatus", "total"} -> scoped /\ created
          [] q \in {"open", "byType"} -> scoped /\ created /\ ~IsClosed(c)
          [] q = "openAssigned" -> scoped /\ created /\ ~IsClosed(c) /\ cases[c].status # "DRAFT"
          [] q = "available" -> Counted(c) /\ created /\ cases[c].status = "READY"
          [] q \in {"closed", "outcomes"} -> scoped /\ IsClosed(c) /\ Within(cases[c].updated, w)
          [] q \in {"resolved", "trend"} -> scoped /\ IsClosed(c) /\ ThisMonth(cases[c].updated)

Queries == {"byStatus", "total", "open", "byType", "openAssigned", "available",
            "closed", "outcomes", "resolved", "trend"}

\* The queries whose figures are compared with each other.
Pairs ==
    {<<"total", "byStatus">>, <<"open", "byStatus">>, <<"available", "byStatus">>,
     <<"open", "byType">>, <<"open", "openAssigned">>, <<"closed", "outcomes">>,
     <<"resolved", "trend">>}

Unread == {[case |-> 0]}
Quiet == [viewer |-> NoUser, window |-> [length |-> 0, end |-> 0], pair |-> <<>>,
          answers |-> <<>>, drift |-> 0]

\* Mutant: the counts of the other investigators' cases, too.
AnswerUnscoped(q) ==
    {[case |-> c, status |-> cases[c].status, type |-> cases[c].type] :
        c \in {d \in CaseIds : Selects(q, d, IF q = "total" THEN Everyone ELSE report.viewer,
                                       report.window)}}

Answer(q) ==
    {[case |-> c, status |-> cases[c].status, type |-> cases[c].type] :
        c \in {d \in CaseIds : Selects(q, d, report.viewer, report.window)}}

\* Of the queries sent together, two are followed: the others decide nothing.
StartReport(u, w, p) ==
    /\ report = Quiet
    /\ report' = [viewer |-> u, window |-> w, pair |-> p, answers |-> <<Unread, Unread>>, drift |-> 0]
    /\ UNCHANGED <<cases, today, changes>>

Read(i) ==
    /\ report # Quiet /\ report.answers[i] = Unread
    /\ report' = [report EXCEPT !.answers[i] = Answer(report.pair[i])]
    /\ UNCHANGED <<cases, today, changes>>

Answered == report # Quiet /\ Unread \notin {report.answers[1], report.answers[2]}

Respond ==
    /\ Answered
    /\ report' = Quiet
    /\ UNCHANGED <<cases, today, changes>>

StatusDistribution(answer) == [s \in Statuses |-> Cardinality({a \in answer : a.status = s})]
OutcomeChart(answer) ==
    LET n == StatusDistribution(answer)
    IN  [confirmed |-> n["CONFIRMED"] + n["AUTO_CONFIRMED"],
         refuted |-> n["REFUTED"] + n["AUTO_REFUTED"], inconclusive |-> n["INCONCLUSIVE"]]
TypeChart(answer) == [t \in CaseTypes |-> Cardinality({a \in answer : a.type = t})]

\* A sum of counts: how many things are counted, the i-th of x for each i up to n[x].
SumOver(n, S) == Cardinality(UNION {{x} \X (1..n[x]) : x \in S})

\* What the first figure of a pair is compared with.
Counterpart(p, answers) ==
    LET n == StatusDistribution(answers[2])
        outcome == OutcomeChart(answers[2])
    IN  CASE p = <<"total", "byStatus">> -> SumOver(n, Statuses)
          [] p = <<"open", "byStatus">> -> SumOver(n, Statuses \ Closed)
          [] p = <<"available", "byStatus">> -> n["READY"]
          [] p = <<"open", "byType">> ->
                 SumOver(TypeChart(answers[2]), CaseTypes)
                     + Cardinality({a \in answers[2] : a.type = NoType})
          [] p = <<"closed", "outcomes">> ->
                 outcome.confirmed + outcome.refuted + outcome.inconclusive
          [] OTHER -> Cardinality(answers[2])

\* The priority chart leaves the drafts among the open cases out.
Figure(p, answers) ==
    Cardinality(IF p = <<"open", "openAssigned">> THEN {a \in answers[1] : a.status # "DRAFT"}
                ELSE answers[1])
-----------------------------------------------------------------------------
(***************************************************************************)
(* getCaseAgeing.                                                          *)
(***************************************************************************)
Age(c) == today - cases[c].created
Bands == 1..4

\* Mutant: a case 30 days old is in two tiers.
InBandUpTo30(b, age) ==
    CASE b = 1 -> age <= 7 [] b = 2 -> age > 7 /\ age <= 15
      [] b = 3 -> age > 15 /\ age <= 30 [] b = 4 -> age >= 30

InBand(b, age) ==
    CASE b = 1 -> age <= 7 [] b = 2 -> age > 7 /\ age <= 15
      [] b = 3 -> age > 15 /\ age < 30 [] b = 4 -> age >= 30

AgeBuckets(S) == [b \in Bands |-> Cardinality({c \in S : InBand(b, Age(c))})]
AgeingByStatus(u) ==
    [s \in Statuses \ (Closed \union {"ABANDONED"}) |->
        AgeBuckets({c \in Backlog(u) : cases[c].status = s})]

\* reconcilePercentages: the shares are rounded down, and what is missing to 100
\* goes to those with the largest remainders, one point each.
Percentages(n) ==
    LET total == SumOver(n, Bands)
        floor == [b \in Bands |-> (100 * n[b]) \div total]
        rest == [b \in Bands |-> (100 * n[b]) % total]
        before(b) == {a \in Bands : rest[a] > rest[b] \/ (rest[a] = rest[b] /\ a < b)}
    IN  IF total = 0 THEN [b \in Bands |-> 0]
        ELSE [b \in Bands |->
                 floor[b] + IF Cardinality(before(b)) < 100 - SumOver(floor, Bands) THEN 1 ELSE 0]

\* percentile at k quarters of the sorted values, interpolated and rounded.
Percentile(values, k) ==
    LET at == k * (Len(values) - 1)
        past == at % 4
        low == values[(at \div 4) + 1]
        high == IF past = 0 THEN low ELSE values[(at \div 4) + 2]
    IN  (2 * (low * (4 - past) + high * past) + 4) \div 8

LastDay(w) == IF today - w.end < 0 THEN 0 ELSE today - w.end
FirstDay(w) == IF LastDay(w) - w.length < 0 THEN 0 ELSE LastDay(w) - w.length
MonthsSpan(w) == Month(LastDay(w)) - Month(FirstDay(w)) + 1

\* Mutant: the last month is not shown.
TrendMonthsBefore(w) ==
    LET count == IF MonthsSpan(w) < MaxBuckets THEN MonthsSpan(w) ELSE MaxBuckets
    IN  Month(LastDay(w)) - count..Month(LastDay(w)) - 1

\* The calendar months of the window, the last MaxBuckets of them.
TrendMonths(w) ==
    LET count == IF MonthsSpan(w) < MaxBuckets THEN MonthsSpan(w) ELSE MaxBuckets
    IN  Month(LastDay(w)) - count + 1..Month(LastDay(w))

\* When the window starts before the first month shown, the cases are read again.
TrendCases(u, w) ==
    LET first == Min(TrendMonths(w)) * MonthDays
    IN  IF first > FirstDay(w) THEN {c \in ClosedIn(u, w) : cases[c].updated >= first}
        ELSE ClosedIn(u, w)

Days(c) == cases[c].updated - cases[c].created

\* The durations of a month, sorted: what its n, median and quartiles come from.
Sample(u, w, m) ==
    LET inMonth == {c \in TrendCases(u, w) : Month(cases[c].updated) = m}
        upTo(d) == Cardinality({c \in inMonth : Days(c) <= d})
    IN  [i \in 1..Cardinality(inMonth) |->
            CHOOSE d \in {Days(c) : c \in inMonth} : upTo(d - 1) < i /\ i <= upTo(d)]
-----------------------------------------------------------------------------
Init ==
    /\ cases = <<>> /\ today = 0 /\ changes = 0
    /\ report = Quiet

\* A change may commit while a dashboard is put together.
Written ==
    Cardinality({c \in 1..Len(cases') : c \notin CaseIds \/ cases'[c] # cases[c]})
ChangeBeside ==
    /\ Change
    /\ report' = IF report = Quiet THEN Quiet ELSE [report EXCEPT !.drift = @ + Written]

Next ==
    \/ ChangeBeside
    \/ \E n \in Jumps : report = Quiet /\ DaysPass(n) /\ UNCHANGED report
    \/ \E u \in Investigators \union {Everyone}, w \in Ranges, p \in Pairs : StartReport(u, w, p)
    \/ \E i \in {1, 2} : Read(i)
    \/ Respond

Spec == Init /\ [][Next]_vars
-----------------------------------------------------------------------------
\* The figures of a dashboard agree (the total with the status chart, the open
\* cases with their charts, the closed ones with their outcomes, the resolved ones
\* with the trend) up to the rows written while it was put together.
DashboardAddsUp ==
    Answered =>
        LET a == Figure(report.pair, report.answers)
            b == Counterpart(report.pair, report.answers)
        IN  a - b <= report.drift /\ b - a <= report.drift

\* Over every count per band up to 4, the percentages of the donut are within a point
\* of their shares and sum to 100; over every sample of up to 4 durations, the
\* quartiles are ordered and within the sample.
SharesReconcile ==
    \A n \in [Bands -> 0..4] :
        LET total == SumOver(n, Bands)  p == Percentages(n)
        IN  /\ \A b \in Bands : 100 * n[b] - total <= p[b] * total /\ p[b] * total <= 100 * n[b] + total
            /\ SumOver(p, Bands) = IF total = 0 THEN 0 ELSE 100
QuartilesOrdered ==
    \A size \in 1..4 : \A days \in [1..size -> 0..5] :
        (\A i \in 1..size - 1 : days[i] <= days[i + 1]) =>
            /\ days[1] <= Percentile(days, 1) /\ Percentile(days, 1) <= Percentile(days, 2)
            /\ Percentile(days, 2) <= Percentile(days, 3) /\ Percentile(days, 3) <= days[size]

OneBandPerAge == \A age \in 0..40 : Cardinality({b \in Bands : InBand(b, age)}) = 1

\* Every case of the backlog is in one age band, so that the bars add up to the
\* donut, whose percentages add up to 100.
AgeingAddsUp ==
    /\ OneBandPerAge /\ SharesReconcile
    /\ report = Quiet => \A u \in Investigators \union {Everyone} :
          LET n == AgeBuckets(Backlog(u))  bars == AgeingByStatus(u) IN
          /\ SumOver(n, Bands) = Cardinality(Backlog(u))
          /\ \A b \in Bands : n[b] = SumOver([s \in DOMAIN bars |-> bars[s][b]], DOMAIN bars)

\* The months of a trend show every case closed in them once, whether or not the
\* window has more months than are shown, and their quartiles are ordered.
TrendsAddUp ==
    /\ QuartilesOrdered
    /\ report = Quiet => \A u \in Investigators \union {Everyone}, w \in Ranges :
          LET shown == {c \in ClosedIn(u, w) : Month(cases[c].updated) \in TrendMonths(w)}
          IN  /\ SumOver([m \in TrendMonths(w) |-> Len(Sample(u, w, m))], TrendMonths(w)) = Cardinality(shown)
              /\ MonthsSpan(w) <= MaxBuckets => shown = ClosedIn(u, w)

\* What is counted for an investigator is listed for that investigator, and what is
\* listed can be opened from its alert, drafts of other people aside; the ageing
\* report and the desk of an investigator call the same cases open, but for those
\* that triage closed as confirmed and rejected drafts that nobody owns.
ScopesNest ==
    report = Quiet => \A u \in Investigators :
        /\ \A c \in CaseIds :
              /\ Counted(c) /\ InScope(c, u) => Listed(c, u)
              /\ LinkOpens(c, u) => Listed(c, u)
              /\ Listed(c, u) /\ ~LinkOpens(c, u) => cases[c].status = "DRAFT"
        /\ Backlog(u) \subseteq Active(u)
        /\ \A c \in Active(u) \ Backlog(u) :
              cases[c].status = "AUTO_CONFIRMED" \/ (cases[c].status = "DRAFT" /\ Unassigned(c))
=============================================================================
