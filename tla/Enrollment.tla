------------------------------ MODULE Enrollment ------------------------------
(***************************************************************************)
(* The enrollment of students in the groups (sections) of a period.  Three *)
(* paths write the same rows: the enrollment desk (create and transfer),   *)
(* the registration of new users (by hand or by bulk import), and the edit *)
(* of a user without a section.                                            *)
(*                                                                         *)
(* A transaction is shown by its locking reads, the moment its snapshot    *)
(* opens, and its commit, which makes all its writes visible in one step.  *)
(***************************************************************************)
EXTENDS Requests, Sequences

CONSTANTS
  Students,    \* active users with the role Estudiante, registered before
  Newcomers,   \* rows a registration or an import file may hold
  Groups,
  PeriodOf,    \* of a group
  Capacity,    \* its cupo
  LastDate,
  MaxRows      \* bound: rows of the students

Dates == 1..LastDate
Open  == LastDate + 1      \* ends_on IS NULL, compared as 9999-12-31

Learners == Students \cup Newcomers
Periods  == {PeriodOf[g] : g \in Groups}

\* An enrollment; it is ACTIVE iff it is open.  via names the code that wrote it.
EnrollmentRow == [group : Groups, period : Periods, starts : Dates, ends : Dates \cup {Open},
                  via : {"desk", "past", "batch", "edit"}]

ASSUME EnrollmentAssumption ==
  /\ LastDate \in Nat /\ MaxRows \in Nat \ {0}
  /\ IsFiniteSet(Learners) /\ Students \cap Newcomers = {}
  /\ Capacity \in [Groups -> Nat] /\ None \notin Groups

VARIABLES
  enrollments,   \* student -> rows, in order of id
  studentCount,  \* student_count of each group
  enrolRows,     \* rows held FOR UPDATE
  enrolShared,   \* rows locked in share mode by a foreign key check
  enrolCall

enrolTables == <<enrollments, studentCount>>
enrolLocks  == <<enrolRows, enrolShared>>
enrolVars   == <<enrollments, studentCount, enrolRows, enrolShared, enrolCall>>

-----------------------------------------------------------------------------
Book == [Learners -> Seq(EnrollmentRow)]

EnrollmentCall ==
  [ phase : {"idle", "group", "active", "save", "role", "seats", "save_batch"},
    op : {"none", "create", "transfer", "register", "edit"},
    batch : [Newcomers -> Groups \cup {None}] \cup {None},
    todo : SUBSET Groups,
    student : Learners \cup {None}, group : Groups \cup {None}, period : Periods \cup {None},
    starts : Dates \cup {None}, ends : Dates \cup {Open, None},
    closes : 0..MaxRows, snap : Book \cup {None} ]

NotEnrolling ==
  [ phase |-> "idle", op |-> "none", batch |-> None, todo |-> {}, student |-> None,
    group |-> None, period |-> None, starts |-> None, ends |-> None, closes |-> 0,
    snap |-> None ]

UserRow(u)   == <<"user", u>>
StudentRole  == <<"role", "Estudiante">>
GroupLock(g) == <<"group", g>>

RowLocks == {UserRow(u) : u \in Students} \cup {StudentRole} \cup {GroupLock(g) : g \in Groups}

\* Slip: the user is locked without the roles it is read with.
LockedAlone(u) == {UserRow(u)}

\* lockStudentUser reads the user with its roles: FOR UPDATE reaches the joined rows.
LockedWithStudent(u) == {UserRow(u), StudentRole}

XFree(h, wanted) == FreeOf(enrolRows, h, wanted) /\ FreeOf(enrolShared, h, wanted)
SFree(h, wanted) == FreeOf(enrolRows, h, wanted)

ActiveIn(E, g) ==
  {r \in Learners \X (1..MaxRows) :
     r[2] <= Len(E[r[1]]) /\ E[r[1]][r[2]].group = g /\ E[r[1]][r[2]].ends = Open}
ActiveRows(E, u) == {i \in 1..Len(E[u]) : E[u][i].ends = Open}

Overlaps(x, starts, ends) == x.starts <= ends /\ x.ends >= starts

\* assertNoOverlap, on the rows E shows; the row being closed is left out.
AssertNoOverlap(E, u, period, starts, ends, except) ==
  \A i \in 1..Len(E[u]) :
    i # except /\ E[u][i].period = period => ~Overlaps(E[u][i], starts, ends)

\* The rows of the students, for the bound.
Written == {r \in Students \X (1..MaxRows) : r[2] <= Len(enrollments[r[1]])}
Room    == Cardinality(Written) < MaxRows

\* assertGroupHasCapacity.
HasSeats(E, g, n) == Cardinality(ActiveIn(E, g)) + n <= Capacity[g]

-----------------------------------------------------------------------------
EnrollmentInit ==
  /\ enrollments = [u \in Learners |-> <<>>]
  /\ studentCount = [g \in Groups |-> 0]
  /\ enrolRows = [h \in Handlers |-> {}] /\ enrolShared = [h \in Handlers |-> {}]
  /\ enrolCall = [h \in Handlers |-> NotEnrolling]

\* COMMIT, ROLLBACK or the end of a request that holds nothing.
EnrollmentEnds(h) ==
  /\ enrolRows' = [enrolRows EXCEPT ![h] = {}]
  /\ enrolShared' = [enrolShared EXCEPT ![h] = {}]
  /\ enrolCall' = [enrolCall EXCEPT ![h] = NotEnrolling]

\* A thrown check, a deadlock or a lost connection.
EnrollmentAborts(h) ==
  /\ enrolCall[h].phase # "idle"
  /\ EnrollmentEnds(h)
  /\ UNCHANGED enrolTables

-----------------------------------------------------------------------------
(* GroupEnrollmentsService.create and transfer                             *)
LockStudentUser(h) ==
  \E op \in {"create", "transfer"}, u \in Students, g \in Groups, starts \in Dates,
     ends \in Dates \cup {Open} :
    /\ enrolCall[h].phase = "idle" /\ XFree(h, LockedWithStudent(u))
    /\ ends >= starts /\ (op = "transfer" => ends = Open)
    /\ enrolRows' = [enrolRows EXCEPT ![h] = LockedWithStudent(u)]
    /\ \E p \in Periods :
         enrolCall' = [enrolCall EXCEPT ![h] =
           [NotEnrolling EXCEPT !.phase = "group", !.op = op, !.student = u, !.group = g,
                                !.period = p, !.starts = starts, !.ends = ends]]
    /\ UNCHANGED <<enrolTables, enrolShared>>

\* requireGroup opens the snapshot; the seats, and the overlap of a create, are
\* counted in it.
RequireGroup(h) ==
  LET c == enrolCall[h] IN
  /\ c.phase = "group" /\ HasSeats(enrollments, c.group, 1)
  /\ \/ /\ c.op = "create"
        /\ AssertNoOverlap(enrollments, c.student, c.period, c.starts, c.ends, 0)
        /\ enrolCall' = [enrolCall EXCEPT ![h].phase = "save"]
     \/ /\ c.op = "transfer"
        /\ enrolCall' = [enrolCall EXCEPT ![h].phase = "active", ![h].snap = enrollments]
  /\ UNCHANGED <<enrolTables, enrolLocks>>

\* ORDER BY starts_on DESC, one row.
LatestActive(E, u) ==
  {i \in ActiveRows(E, u) : \A j \in ActiveRows(E, u) : E[u][j].starts <= E[u][i].starts}

\* Slip: the row is closed whatever its start.
MayCloseAnyDay(x, starts) == TRUE

\* The day before the transfer is not before the start of the row.
MayClose(x, starts) == x.starts <= starts - 1

\* The active row is read FOR UPDATE, hence as it is now; saving it reads it again
\* in the snapshot, and inserts it under its old id, which fails, if it is not there.
FindActive(h) ==
  LET c == enrolCall[h]  u == c.student IN
  /\ c.phase = "active"
  /\ \E i \in LatestActive(enrollments, u) \cup {0} :
       /\ i = 0 <=> LatestActive(enrollments, u) = {}
       /\ i # 0 => /\ enrollments[u][i].group # c.group
                   /\ MayClose(enrollments[u][i], c.starts)
                   /\ i <= Len(c.snap[u])
       /\ AssertNoOverlap(c.snap, u, c.period, c.starts, Open, i)
       /\ enrolCall' = [enrolCall EXCEPT ![h].phase = "save", ![h].closes = i, ![h].snap = None]
  /\ UNCHANGED <<enrolTables, enrolLocks>>

\* bumpGroupStudentCount: relative to the row as it is, never below 0.
Bumped(count, delta) == IF count + delta < 0 THEN 0 ELSE count + delta

\* The rows E' of the student u once a transfer or a create c is saved.
Saved(rows, c) ==
  LET new == [group |-> c.group, period |-> c.period, starts |-> c.starts, ends |-> c.ends,
              via |-> IF c.ends = Open THEN "desk" ELSE "past"]
  IN  Append([i \in 1..Len(rows) |-> IF i = c.closes THEN [rows[i] EXCEPT !.ends = c.starts - 1]
                                                     ELSE rows[i]], new)

\* The group that is left loses one, then the group that is joined gains one.
CountAfter(c, left) ==
  [g \in Groups |->
     IF g = c.group THEN Bumped(studentCount[g], 1)
     ELSE IF g = left THEN Bumped(studentCount[g], -1) ELSE studentCount[g]]

SaveEnrollment(h) ==
  LET c == enrolCall[h]  u == c.student
      left == IF c.closes = 0 THEN None ELSE enrollments[u][c.closes].group
  IN
  /\ c.phase = "save" /\ Room
  /\ XFree(h, {GroupLock(g) : g \in {c.group, left} \cap Groups})
  /\ enrollments' = [enrollments EXCEPT ![u] = Saved(@, c)]
  /\ studentCount' = CountAfter(c, left)
  /\ EnrollmentEnds(h)

-----------------------------------------------------------------------------
(* enrollNewStudentsInTransaction, called by the registration of users     *)
(* (UsersService.create, BulkImportService.executeBulkImport) and by       *)
(* UsersService.update                                                     *)
BatchOf(c) == {u \in Newcomers : Present(c.batch[u])}
Registering(u) ==
  \E h \in Handlers : enrolCall[h].op = "register" /\ Present(enrolCall[h].batch[u])

\* The user row is inserted; saving its role first looks for it, and that plain
\* read opens the snapshot.
Register(h) ==
  \E batch \in [Newcomers -> Groups \cup {None}], starts \in Dates :
    /\ enrolCall[h].phase = "idle"
    /\ \E u \in Newcomers : Present(batch[u])
    /\ \A u \in Newcomers : Present(batch[u]) => enrollments[u] = <<>> /\ ~Registering(u)
    /\ enrolCall' = [enrolCall EXCEPT ![h] =
         [NotEnrolling EXCEPT !.phase = "role", !.op = "register", !.batch = batch,
                              !.todo = {batch[u] : u \in Newcomers} \ {None},
                              !.starts = starts, !.snap = enrollments]]
    /\ UNCHANGED <<enrolTables, enrolLocks>>

\* The foreign key of user_roles takes the role in share mode.
InsertRoles(h) ==
  /\ enrolCall[h].phase = "role" /\ SFree(h, {StudentRole})
  /\ enrolShared' = [enrolShared EXCEPT ![h] = {StudentRole}]
  /\ enrolCall' = [enrolCall EXCEPT ![h].phase = "seats"]
  /\ UNCHANGED <<enrolTables, enrolRows>>

\* UsersService.update: the active row is looked for outside the transaction.
AssignEnrollment(h) ==
  \E u \in Students, g \in Groups, starts \in Dates :
    /\ enrolCall[h].phase = "idle" /\ ActiveRows(enrollments, u) = {}
    /\ enrolCall' = [enrolCall EXCEPT ![h] =
         [NotEnrolling EXCEPT !.phase = "seats", !.op = "edit", !.student = u, !.todo = {g},
                              !.group = g, !.starts = starts]]
    /\ UNCHANGED <<enrolTables, enrolLocks>>

SeatsWanted(c, g) ==
  IF c.op = "edit" THEN 1 ELSE Cardinality({u \in Newcomers : c.batch[u] = g})

LockGroupRow(h, g) ==
  /\ XFree(h, {GroupLock(g)})
  /\ enrolRows' = [enrolRows EXCEPT ![h] = @ \cup {GroupLock(g)}]

\* The group is read FOR UPDATE and its active rows are counted: in the snapshot of
\* the registration, or in the one this count opens in the transaction of an edit.
LockGroup(h) ==
  LET c == enrolCall[h] IN
  \E g \in c.todo :
    /\ c.phase = "seats" /\ LockGroupRow(h, g)
    /\ HasSeats(IF c.op = "edit" THEN enrollments ELSE c.snap, g, SeatsWanted(c, g))
    /\ enrolCall' = [enrolCall EXCEPT ![h].todo = @ \ {g},
                                      ![h].phase = IF c.todo = {g} THEN "save_batch" ELSE "seats",
                                      ![h].snap = IF c.todo = {g} THEN None ELSE @]
    /\ UNCHANGED <<enrolTables, enrolShared>>

\* The inserts (their foreign key waits for a transaction of the same student) and
\* the COMMIT.
SaveBatch(h) ==
  LET c == enrolCall[h]
      Row(g, via) == [group |-> g, period |-> PeriodOf[g], starts |-> c.starts, ends |-> Open,
                      via |-> via]
  IN
  /\ c.phase = "save_batch"
  /\ \/ /\ c.op = "register"
        /\ enrollments' = [u \in Learners |-> IF u \in BatchOf(c)
                                              THEN Append(enrollments[u], Row(c.batch[u], "batch"))
                                              ELSE enrollments[u]]
        /\ studentCount' = [g \in Groups |-> studentCount[g] + SeatsWanted(c, g)]
     \/ /\ c.op = "edit" /\ SFree(h, {UserRow(c.student)}) /\ Room
        /\ enrollments' = [enrollments EXCEPT ![c.student] = Append(@, Row(c.group, "edit"))]
        /\ studentCount' = [studentCount EXCEPT ![c.group] = @ + 1]
  /\ EnrollmentEnds(h)

-----------------------------------------------------------------------------
EnrollmentNext(H) ==
  \E h \in H :
    \/ LockStudentUser(h) \/ RequireGroup(h) \/ FindActive(h) \/ SaveEnrollment(h)
    \/ Register(h) \/ InsertRoles(h) \/ AssignEnrollment(h) \/ LockGroup(h) \/ SaveBatch(h)
    \/ EnrollmentAborts(h)

EnrollmentSpec == EnrollmentInit /\ [][EnrollmentNext(Handlers)]_enrolVars

-----------------------------------------------------------------------------
(* Type correctness of the enrollment tables, locks and requests.          *)
EnrollmentTypeOK ==
  /\ enrollments \in Book /\ \A u \in Learners : Len(enrollments[u]) <= MaxRows
  /\ studentCount \in [Groups -> Nat]
  /\ enrolCall \in [Handlers -> EnrollmentCall]
  /\ enrolRows \in [Handlers -> SUBSET RowLocks] /\ enrolShared \in [Handlers -> SUBSET RowLocks]

(* The rows that the enrollment desk writes for a student never overlap    *)
(* within a period, whatever else is being registered or edited: "as of" a *)
(* date there is one group (GroupEnrollmentsService.create, transfer).     *)
DeskRowsApart ==
  \A u \in Students : \A i, j \in 1..Len(enrollments[u]) :
    LET x == enrollments[u][i]  y == enrollments[u][j] IN
    i # j /\ x.period = y.period /\ {x.via, y.via} \subseteq {"desk", "past"} =>
      x.ends < y.starts \/ y.ends < x.starts

(* A group whose students all came through the desk, or all by the edit of *)
(* a user, never exceeds its cupo.  The desk counts in a snapshot opened   *)
(* under the lock of the role row, which every student shares; the edit    *)
(* counts under the lock of the group.  Neither lock holds off the other   *)
(* path, and a registration counts in a snapshot older than its lock.      *)
SeatsByDeskOrEdit ==
  \A g \in Groups :
    LET rows == ActiveIn(enrollments, g)
        By(via) == \A r \in rows : enrollments[r[1]][r[2]].via = via
    IN  By("desk") \/ By("edit") => Cardinality(rows) <= Capacity[g]

BornClosed(E, g) ==
  {r \in Learners \X (1..MaxRows) :
     r[2] <= Len(E[r[1]]) /\ E[r[1]][r[2]].group = g /\ E[r[1]][r[2]].via = "past"}

(* student_count follows the rows through every path, transfers and        *)
(* rollbacks included, except that a row created already ended counts as   *)
(* well (bumpGroupStudentCount in every path).                             *)
CountExplained ==
  \A g \in Groups :
    studentCount[g] = Cardinality(ActiveIn(enrollments, g)) + Cardinality(BornClosed(enrollments, g))
=============================================================================
