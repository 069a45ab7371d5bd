----------------------------- MODULE ConductRecord -----------------------------
(***************************************************************************)
(* The conduct of a student over all his cases: the history with its grade *)
(* by period, the alerts of low conduct and recidivism, and the board.     *)
(* Each adds the points up with code of its own; the alerts of a guide     *)
(* teacher do it over the cases he reaches.                                *)
(***************************************************************************)
EXTENDS Naturals, Sequences, FiniteSetsExt, DisciplinaryWorkflow

CONSTANTS
  Enrollments,     \* [group, period]: where the student may be
  Severities,      \* bound: the severities cases have
  Reporters,       \* who may report: guides, named by their group, and others
  Thresholds,      \* disciplinary_settings: [recidivism, conduct]
  MaxRecords       \* bound: cases of the student

Rules ==
  [ VERY_MINOR        |-> [deduction |-> 5,  track |-> "DIRECT"],
    MINOR             |-> [deduction |-> 10, track |-> "DIRECT"],
    SERIOUS           |-> [deduction |-> 20, track |-> "DUE_PROCESS"],
    VERY_SERIOUS      |-> [deduction |-> 35, track |-> "DUE_PROCESS"],
    EXTREMELY_SERIOUS |-> [deduction |-> 50, track |-> "DUE_PROCESS"] ]

ASSUME RecordAssumption ==
  /\ Severities \subseteq DOMAIN Rules /\ MaxRecords \in Nat
  /\ IsFiniteSet(Enrollments) /\ \A e \in Enrollments : e.group # "all"
  /\ Thresholds \subseteq [recidivism : Nat, conduct : Nat]

Groups  == {e.group : e \in Enrollments}
Periods == {e.period : e \in Enrollments}

VARIABLES
  enrolled,    \* the student's active enrollment
  records,     \* his cases: [group, period, track, status, severity, reporter]
  settings

conductVars == <<enrolled, records, settings>>

ConductInit == enrolled \in Enrollments /\ records = <<>> /\ settings \in Thresholds

Record ==
  [ group : Groups, period : Periods, track : Tracks, status : Statuses,
    severity : Severities, reporter : Reporters ]

ConductTypeOK ==
  enrolled \in Enrollments /\ settings \in Thresholds /\ records \in Seq(Record)

\* create: group and period of the enrollment, which began before the fact and is
\* still active.
OpenRecord ==
  \E s \in Severities, r \in Reporters :
    /\ Len(records) < MaxRecords
    /\ records' = Append(records,
         [ group |-> enrolled.group, period |-> enrolled.period, track |-> Rules[s].track,
           status |-> OpeningStatus(Rules[s].track), severity |-> s, reporter |-> r ])
    /\ UNCHANGED <<enrolled, settings>>

\* The handlers and the deadlines of DisciplinaryCase; the resolution and an answer
\* to a recurso may change the severity, the track stays.
MoveRecord ==
  \E i \in DOMAIN records, to \in Statuses, s \in Severities :
    /\ CanTransition(records[i].track, records[i].status, to)
    /\ s # records[i].severity =>
         to = "RESOLVED" \/ (records[i].status = "IN_APPEAL" /\ to = "FIRM")
    /\ records' = [records EXCEPT ![i].status = to, ![i].severity = s]
    /\ UNCHANGED <<enrolled, settings>>

ChangeGroup ==
  \E e \in Enrollments :
    /\ e.period >= enrolled.period /\ enrolled' = e /\ UNCHANGED <<records, settings>>

UpdateSettings == settings' \in Thresholds /\ UNCHANGED <<enrolled, records>>

ConductNext == OpenRecord \/ MoveRecord \/ ChangeGroup \/ UpdateSettings

-----------------------------------------------------------------------------
Floor(points) == IF points > 100 THEN 0 ELSE 100 - points

Points(rows) == MapThenSumSet(LAMBDA i : Rules[records[i].severity].deduction, rows)

\* deductionOf.
Applied(rows) == {i \in rows : DeductionState(records[i].status) = "APPLIED"}

\* buildConductHistory, for a filter of statuses and severities.
Visible(filter) ==
  {i \in DOMAIN records : records[i].status \in filter.status
                          /\ records[i].severity \in filter.severity}

OfPeriod(rows, p) == {i \in rows : records[i].period = p}

\* Slip: the points of the rows on screen only.
ShownOfPeriod(filter, p) == OfPeriod(Visible(filter), p)

CountedOfPeriod(filter, p) == OfPeriod(DOMAIN records, p)

History(filter) ==
  [p \in {records[i].period : i \in Visible(filter)} |->
     Floor(Points(Applied(CountedOfPeriod(filter, p))))]

Everything == [status |-> Statuses, severity |-> DOMAIN Rules]

Filters == {Everything} \cup {[Everything EXCEPT !.status = {s}] : s \in Statuses}
                        \cup {[Everything EXCEPT !.severity = {s}] : s \in Severities}

-----------------------------------------------------------------------------
\* Who looks: disciplinary.view, or view_own as the guide of a group, who may also
\* have reported a case (of another group).
Lookers == Groups \cup {"all"}

CaseScope(who) ==
  {i \in DOMAIN records : who = "all" \/ records[i].reporter = who \/ records[i].group = who}

\* buildDisciplinaryAlerts, by period, over the rows of the scope.
Bucket(who, p) == OfPeriod({i \in CaseScope(who) : records[i].status # "ANNULLED"}, p)

SeesGroup(who, p) == who = "all" \/ \E i \in Bucket(who, p) : records[i].group = who

Recidivism(who) ==
  {p \in Periods : /\ Bucket(who, p) # {} /\ SeesGroup(who, p)
                   /\ Cardinality(Bucket(who, p)) >= settings.recidivism}

FirmPoints(who, p) == Points({i \in Bucket(who, p) : records[i].status = "FIRM"})

LowConduct(who) ==
  {[period |-> p, grade |-> Floor(FirmPoints(who, p))] :
     p \in {q \in Periods : /\ Bucket(who, q) # {} /\ SeesGroup(who, q)
                            /\ FirmPoints(who, q) > 0
                            /\ Floor(FirmPoints(who, q)) <= settings.conduct}}

\* The board: a group (all of one's own, if none is asked for) and a period.
Board(who, group, period) ==
  {i \in DOMAIN records :
     /\ who = "all" \/ records[i].group = who
     /\ group \in {"any", records[i].group} /\ period \in {0, records[i].period}}

\* matchesDashboard: the student is the same in every row.
BoardAlerts(who, group, period) ==
  IF Board(who, group, period) = {} THEN {} ELSE LowConduct(who)

-----------------------------------------------------------------------------
(* The grade of a period is the same whatever is filtered on screen, and a *)
(* reader of every case is alerted exactly of the periods whose grade in   *)
(* the history is at or below the threshold because of firm cases.         *)
GradeIsOne ==
  /\ \A f \in Filters : \A p \in DOMAIN History(f) : History(f)[p] = History(Everything)[p]
  /\ LowConduct("all") =
       {[period |-> p, grade |-> History(Everything)[p]] :
          p \in {q \in DOMAIN History(Everything) :
                   History(Everything)[q] <= settings.conduct /\ History(Everything)[q] < 100}}

(* A guide is told nothing that is not so: his alerts, over the cases he   *)
(* reaches, are alerts over all of them, with a grade no lower than the    *)
(* real one; and when all cases of the period are of his group, the same.  *)
GuideToldTruly ==
  \A g \in Groups :
    /\ Recidivism(g) \subseteq Recidivism("all")
    /\ \A a \in LowConduct(g) : \E b \in LowConduct("all") : b.period = a.period /\ b.grade <= a.grade
    /\ \A p \in Periods :
         (\A i \in OfPeriod(DOMAIN records, p) : records[i].group = g) =>
           /\ {a \in LowConduct(g) : a.period = p} = {a \in LowConduct("all") : a.period = p}
           /\ p \in Recidivism(g) <=> p \in Recidivism("all")

(* Whoever is alerted of a student finds the alert on the board as well,   *)
(* and the boards of the groups add up to the whole.                       *)
AlertsAreFollowed ==
  /\ \A w \in Lookers : BoardAlerts(w, "any", 0) = LowConduct(w)
  /\ \A p \in Periods \cup {0} :
       Cardinality(Board("all", "any", p)) =
         MapThenSumSet(LAMBDA g : Cardinality(Board(g, "any", p)), Groups)

(* History, alerts and board agree on the conduct of a student.            *)
ConductAgrees == GradeIsOne /\ GuideToldTruly /\ AlertsAreFollowed
=============================================================================
