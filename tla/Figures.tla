------------------------------- MODULE Figures -------------------------------
(***************************************************************************)
(* The figures of attendance.  Four pages count the same marks with code   *)
(* of their own: the analytics (summary, report, dashboard), the history,  *)
(* and the absenteeism page with its rules.  The only state is the marks,  *)
(* in the order their rows were inserted, and the day.                     *)
(*                                                                         *)
(* Dates are days counted from 1, rates are whole numbers: percent * 100   *)
(* in the analytics, percent * 10 in the history and the rules.            *)
(***************************************************************************)
EXTENDS Attendance, FiniteSetsExt

CONSTANTS
  Lessons,    \* [id, date, group, subject, teacher]: the classes of the term
  Rosters,    \* group -> its students (a student is in one group of a year)
  Queries,    \* filters asked for: [from, to, group, subject, status], None for "any"
  LastLesson, \* bound: the last day
  MonthDays, PeriodDays,       \* a month, and the months the rules look at
  WindowDays,                  \* the days a page shows when none are asked for
  MonthHigh, MonthMedium, PercentMin, RunHigh, PeriodHigh,  \* absenteeism_alert_rules
  CriticalRate, CriticalAbsences                            \* of the dashboard

Classmates == UNION {Rosters[g] : g \in DOMAIN Rosters}
Teachers == {l.teacher : l \in Lessons}

\* The pages ask for "all" teachers or for one.
ASSUME TermAssumption ==
  /\ LastLesson \in Nat \ {0} /\ IsFiniteSet(Lessons) /\ IsFiniteSet(Classmates)
  /\ \A l \in Lessons : l.group \in DOMAIN Rosters
  /\ \A g, k \in DOMAIN Rosters : g # k => Rosters[g] \cap Rosters[k] = {}
  /\ "all" \notin Teachers /\ None \notin Int

\* The rules are no stricter than the dashboard (updateRule takes them from 1 on).
ASSUME FiguresAssumption ==
  /\ {MonthDays, WindowDays, PeriodDays, CriticalAbsences} \subseteq Nat \ {0}
  /\ {MonthHigh, MonthMedium, RunHigh, PeriodHigh, PercentMin, CriticalRate} \subseteq Nat
  /\ MonthDays <= WindowDays /\ WindowDays <= PeriodDays
  /\ CriticalAbsences <= MonthHigh /\ CriticalAbsences <= RunHigh
  /\ CriticalAbsences <= PeriodHigh /\ PercentMin <= 100 - CriticalRate

\* A rate has two decimals: of 20000 students, one may be missing from 100 %.
ASSUME SchoolAssumption == Cardinality(Classmates) < 20000

VARIABLES
  day,
  started,     \* lessons with a session
  register     \* marks: [lesson, learner, status], in order of id

figureVars == <<day, started, register>>

FiguresInit == day = 1 /\ started = {} /\ register = <<>>

\* createSession, createSessionFromSchedule: the session is of today.
StartLesson ==
  \E l \in Lessons :
    /\ l.date = day /\ l \notin started
    /\ started' = started \cup {l}
    /\ UNCHANGED <<day, register>>

MarkOf(l, p) == {i \in DOMAIN register : register[i].lesson = l /\ register[i].learner = p}

\* A list or a code marks a student of the roster (on the day, a bound) ...
MarkLearner ==
  \E l \in started : \E p \in Rosters[l.group], s \in MarkStatus :
    /\ l.date = day /\ MarkOf(l, p) = {}
    /\ register' = Append(register, [lesson |-> l, learner |-> p, status |-> s])
    /\ UNCHANGED <<day, started>>

\* ... and lists, codes and reviews change the mark later.
ChangeMark ==
  \E i \in DOMAIN register, s \in MarkStatus :
    /\ register' = [register EXCEPT ![i].status = s]
    /\ UNCHANGED <<day, started>>

DayPasses == day < LastLesson /\ day' = day + 1 /\ UNCHANGED <<started, register>>

FiguresNext == StartLesson \/ MarkLearner \/ ChangeMark \/ DayPasses

\* A mark is of a lesson that started.
FiguresTypeOK ==
  /\ day \in 1..LastLesson /\ started \subseteq Lessons
  /\ register \in Seq([lesson : started, learner : Classmates, status : MarkStatus])

-----------------------------------------------------------------------------
(* Counting rows, as the GROUP BY queries do.                              *)

Asked(value, wanted) == wanted = None \/ value = wanted

Count(rows) == [s \in MarkStatus |-> Cardinality({i \in rows : register[i].status = s})]
Total(c)    == c["PRESENT"] + c["ABSENT"] + c["LATE"] + c["JUSTIFIED"]

\* GROUP BY: one row of figures for each key, given the key of every row.
GroupedBy(key) ==
  [k \in {key[i] : i \in DOMAIN key} |-> Count({i \in DOMAIN key : key[i] = k})]

SumOf(f) == MapThenSumSet(LAMBDA x : f[x], DOMAIN f)

Tally(grouped) == [s \in MarkStatus |-> SumOf([k \in DOMAIN grouped |-> grouped[k][s]])]

Rounded(part, whole, scale) ==
  IF whole = 0 THEN 0 ELSE (2 * part * scale + whole) \div (2 * whole)

-----------------------------------------------------------------------------
(* Analytics: an administrator ("all") or a teacher.                       *)

\* resolveDateWindow: no date asked for means the last WindowDays.  (A period asked
\* for only supplies the dates that are missing.)
Window(q) ==
  IF q.from = None /\ q.to = None THEN [q EXCEPT !.from = day - (WindowDays - 1), !.to = day] ELSE q

Within(date, q) == (q.from = None \/ q.from <= date) /\ (q.to = None \/ date <= q.to)

\* baseQb, applyFilters.
Scoped(actor, q) ==
  {i \in DOMAIN register : LET r == register[i] IN
     /\ actor = "all" \/ r.lesson.teacher = actor
     /\ Within(r.lesson.date, q)
     /\ Asked(r.lesson.group, q.group) /\ Asked(r.lesson.subject, q.subject)
     /\ Asked(r.status, q.status)}

StatusCounts(actor, q) == Count(Scoped(actor, q))
GroupRates(actor, q)   == GroupedBy([i \in Scoped(actor, q) |-> register[i].lesson.group])
MonthOf(date)          == (date - 1) \div MonthDays
Trend(actor, q)        == GroupedBy([i \in Scoped(actor, q) |-> MonthOf(register[i].lesson.date)])

SessionCount(actor, q) ==
  Cardinality({l \in started : /\ actor = "all" \/ l.teacher = actor
                               /\ Within(l.date, q)
                               /\ Asked(l.group, q.group) /\ Asked(l.subject, q.subject)})

Summary(actor, asked) ==
  LET q == Window(asked) IN
  [ counts |-> StatusCounts(actor, q), byGroup |-> GroupRates(actor, q),
    trend |-> Trend(actor, q), totalSessions |-> SessionCount(actor, q) ]

StudentReportRows(actor, asked) ==
  GroupedBy([i \in Scoped(actor, Window(asked)) |-> LET r == register[i] IN
               <<r.learner, r.lesson.group, r.lesson.subject, r.lesson.teacher>>])

PresentismoRate(c, whole) == Rounded(c["PRESENT"] + c["LATE"], whole, 10000)

-----------------------------------------------------------------------------
(* The dashboard.                                                          *)

Anything == [from |-> None, to |-> None, group |-> None, subject |-> None, status |-> None]
Today    == [Anything EXCEPT !.from = day, !.to = day]

ExpectedToday(actor) ==
  Cardinality(UNION {Rosters[l.group] :
    l \in {k \in started : k.date = day /\ (actor = "all" \/ k.teacher = actor)}})

RegisteredToday(actor) == Cardinality({register[i].learner : i \in Scoped(actor, Today)})

MaxOf(a, b) == IF a >= b THEN a ELSE b

TodayRate(actor) ==
  LET c == StatusCounts(actor, Today) IN PresentismoRate(c, MaxOf(Total(c), ExpectedToday(actor)))

\* Rows in the order of the streak query: by date, then by id.
Follows(i, j) ==
  \/ register[i].lesson.date < register[j].lesson.date
  \/ register[i].lesson.date = register[j].lesson.date /\ i < j

\* The longest run of absences of a student with no other mark between them.
ConsecutiveMarks(actor, q, p) ==
  LET rows == {i \in Scoped(actor, q) : register[i].learner = p}
      absent(i) == register[i].status = "ABSENT"
      runs == {run \in SUBSET {i \in rows : absent(i)} :
                 \A i, j \in run : \A k \in rows :
                   Follows(i, k) /\ Follows(k, j) => k \in run}
  IN  Max({Cardinality(run) : run \in runs})

\* queryAlerts: one row per student and group (the ten worst are shown, and there
\* are fewer students than that here).
DashboardAlerts(actor, asked) ==
  LET q == Window(asked)
      rates == GroupedBy([i \in Scoped(actor, q) |-> <<register[i].learner, register[i].lesson.group>>])
  IN  {k \in DOMAIN rates : LET absent == rates[k]["ABSENT"] IN
         /\ absent > 0
         /\ \/ Rounded(absent, Total(rates[k]), 10000) >= 100 * CriticalRate
            \/ ConsecutiveMarks(actor, q, k[1]) >= CriticalAbsences
            \/ absent >= CriticalAbsences}

-----------------------------------------------------------------------------
(* The history: what each kind of reader reaches.                          *)

HistoryScope(kind, who) ==
  {i \in DOMAIN register : LET r == register[i] IN
     \/ kind = "unrestricted"
     \/ kind = "own" /\ r.learner = who
     \/ kind = "represented" /\ r.learner \in who
     \/ kind = "teacher" /\ r.lesson.teacher = who}

HistoryFilters(rows, q) ==
  {i \in rows : LET r == register[i] IN
     Within(r.lesson.date, q) /\ Asked(r.lesson.group, q.group) /\ Asked(r.status, q.status)}

Summarize(kind, who, q) ==
  LET c == Count(HistoryFilters(HistoryScope(kind, who), q)) IN
  [ counts |-> c,
    attendancePercent |-> Rounded(c["PRESENT"] + c["LATE"] + c["JUSTIFIED"], Total(c), 1000) ]

-----------------------------------------------------------------------------
(* The rules of absenteeism.                                               *)

InMonth(date) == MonthOf(date) = MonthOf(day)

\* Who an actor evaluates: everybody enrolled, or the groups of a teacher.
ScopedStudents(actor) ==
  IF actor = "all" THEN Classmates
  ELSE UNION {Rosters[g] : g \in {l.group : l \in {k \in Lessons : k.teacher = actor}}}

EvaluatedMarks(p) ==
  {i \in DOMAIN register : register[i].learner = p /\ register[i].lesson.date >= day - PeriodDays}

AbsentDates(rows) ==
  {register[i].lesson.date : i \in {j \in rows : register[j].status = "ABSENT"}}

\* Slip: a gap does not end the run.
CountAbsentDates(rows) == Cardinality(AbsentDates(rows))

\* countConsecutiveAbsences: absent on one calendar day after the other.
CountConsecutiveAbsences(rows) ==
  LET dates == AbsentDates(rows)
      runs  == {run \in SUBSET dates :
                  \A a, b \in run : \A d \in 1..LastLesson : a < d /\ d < b => d \in run}
  IN  Max({Cardinality(run) : run \in runs})

UnjustifiedMonth(rows) ==
  Cardinality({i \in rows : register[i].status = "ABSENT" /\ InMonth(register[i].lesson.date)})

AttendancePercent(c) ==
  IF Total(c) = 0 THEN 1000
  ELSE Rounded(c["PRESENT"] + c["LATE"] + c["JUSTIFIED"], Total(c), 1000)

RiskLevel(p) ==
  LET rows == EvaluatedMarks(p)  c == Count(rows) IN
  CASE \/ UnjustifiedMonth(rows) >= MonthHigh
       \/ Total(c) > 0 /\ AttendancePercent(c) < 10 * PercentMin
       \/ CountConsecutiveAbsences(rows) >= RunHigh
       \/ c["ABSENT"] >= PeriodHigh                -> 3
    [] OTHER -> IF UnjustifiedMonth(rows) >= MonthMedium THEN 2 ELSE 1

AbsencesThisMonth(actor) ==
  SumOf([p \in ScopedStudents(actor) |-> UnjustifiedMonth(EvaluatedMarks(p))])

-----------------------------------------------------------------------------
(* Every breakdown of the analytics adds up to its counts, the history of  *)
(* the same days and group counts the same marks, and the parts of the     *)
(* school (teachers, students of a family) add up to the whole.            *)
TotalsAgree ==
  \A q \in Queries :
    /\ \A a \in Teachers \cup {"all"} :
         LET s == Summary(a, q) IN
         /\ Tally(s.byGroup) = s.counts /\ Tally(s.trend) = s.counts
         /\ Tally(StudentReportRows(a, q)) = s.counts
         /\ Cardinality({register[i].lesson : i \in Scoped(a, Window(q))}) <= s.totalSessions
         /\ q.subject = None =>
              s.counts = Summarize(IF a = "all" THEN "unrestricted" ELSE "teacher", a, Window(q)).counts
    /\ Total(Summary("all", q).counts) =
         SumOf([t \in Teachers |-> Total(Summary(t, q).counts)])
    /\ \A wards \in SUBSET Classmates :
         Total(Summarize("represented", wards, q).counts) =
           SumOf([p \in wards |-> Total(Summarize("own", p, q).counts)])

(* The absences of the month on the absenteeism page are those the history *)
(* of the month shows; a teacher's page, which follows the students of his *)
(* groups through every lesson, shows no fewer than his own lessons.       *)
MonthAgrees ==
  LET month == [Anything EXCEPT !.from = MonthOf(day) * MonthDays + 1,
                                !.to = (MonthOf(day) + 1) * MonthDays] IN
  /\ AbsencesThisMonth("all") = Summarize("unrestricted", None, month).counts["ABSENT"]
  /\ \A t \in Teachers : AbsencesThisMonth(t) >= StatusCounts(t, month)["ABSENT"]

(* With no more than one lesson a day for each student, today's rate is    *)
(* full only when everybody expected was marked (with more, the marks of   *)
(* one student make up for another).                                       *)
FullMeansEverybody ==
  (\A k, l \in started : k.date = day /\ l.date = day /\ k.group = l.group => k = l) =>
    (TodayRate("all") = 10000 => RegisteredToday("all") = ExpectedToday("all"))

(* A student without absent and other marks on the same day: the run of    *)
(* absent days of the rules is never longer than the run of absent marks   *)
(* of the dashboard.                                                       *)
RunsCompare ==
  \A p \in Classmates :
    LET rows == EvaluatedMarks(p) IN
    (\A i, j \in rows : register[i].lesson.date = register[j].lesson.date =>
       (register[i].status = "ABSENT" <=> register[j].status = "ABSENT"))
    => CountConsecutiveAbsences(rows)
         <= ConsecutiveMarks("all", [Anything EXCEPT !.from = day - PeriodDays], p)

(* Whoever the rules find at high risk is among the alerts of the          *)
(* dashboard, if his marks are of the days the dashboard shows.            *)
RiskShown ==
  \A g \in DOMAIN Rosters : \A p \in Rosters[g] :
    /\ RiskLevel(p) = 3
    /\ \A i \in EvaluatedMarks(p) : Within(register[i].lesson.date, Window(Anything))
    => <<p, g>> \in DashboardAlerts("all", Anything)

(* On one day, one more absence never lowers the risk of a student, and    *)
(* excusing one never raises it.                                           *)
RiskFollows ==
  \A p \in Classmates :
    /\ day' = day /\ Len(register') > Len(register) /\ register'[Len(register')].status = "ABSENT"
       => RiskLevel(p)' >= RiskLevel(p)
    /\ /\ day' = day /\ Len(register') = Len(register)
       /\ \A i \in DOMAIN register : register'[i] # register[i] =>
            register[i].status = "ABSENT" /\ register'[i].status = "JUSTIFIED"
       => RiskLevel(p)' <= RiskLevel(p)

(* The pages of attendance agree on the marks they all count.              *)
FiguresAgree ==
  TotalsAgree /\ MonthAgrees /\ FullMeansEverybody /\ RunsCompare /\ RiskShown
=============================================================================
