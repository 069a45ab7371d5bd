# EduSmart backend: verification project

EduSmart is the backend of a school: NestJS services over MySQL (TypeORM), with
disciplinary cases, attendance, schedules, departures, communications and the
administrative catalogues. This directory holds TLA+ models of the parts whose
correctness depends on order, concurrency and time, the TLC runs that check them,
and TLAPS proofs. Paths below are relative to `src/src/modules/` unless they start
with `src/`. `PROJECT.json` maps every definition to the lines it stands for.

## 1. The system

### Components

| Component | State it keeps | Operations that change it | What makes it correct |
|---|---|---|---|
| Disciplinary cases (`disciplinary/services`) | `disciplinary_cases` row (track, status, severity, outcome, step clock, `notified_at`, `firm_at`, `annulled_at`), recursos, defenses, communications and notifications, events (bitácora) | create, start, communicate, deliverFormalCharge, recordDelivery, file defense, resolve, archive, annul, fileRevocation, fileAppeal, resolveRevocation, resolveAppeal | the status follows the workflow; no sanction without charge, defense term and resolution; points only when nothing is pending; the bitácora explains the case |
| Deadline reconciler (`disciplinary-deadline.service.ts`, `deadline-reconcile.ts`) | none of its own | hourly pass over open cases: expire a defense, make firm or dismiss, elevate a subsidiary appeal | never early; never over a pending recurso; every expired step is closed |
| Business days (`utils/business-days.ts`) | none | `addBusinessDays`, `businessDaysBetween` | the two loops agree with counting the days that are worked |
| Calendar and settings (`disciplinary-calendar.service.ts`) | `non_working_days`, thresholds | createDay, deleteDay, update | the terms and the alerts that read them |
| Opening of cases, notices, receipts | yearly sequence, notices, mail outcomes, receipts | create, dispatch, confirm reading | numbers unique and without gaps; a mail recorded as sent left; a receipt is written once |
| Investigation desk | information and counsel requests, precautionary measures | request, answer | answers belong to questions; nothing before the investigation starts |
| Follow-ups | commitments and reminders | create, close, remind | one outcome, one reminder per day, none forgotten |
| Evidence files | files on disk, rows that name them | upload, defense, receipt, justification evidence | a row has its file; a file has its row unless a request was cut |
| Read side of the cases | none | lists, pages, appeal center, alerts, history, board | they offer what the handlers accept, and agree on the points of a student |
| Schedule (`schedule/services`) | `schedule_entries`, `schedule_time_slots`; row locks and MySQL named locks while a request runs | create, update, remove entries and slots; attendance starts sessions from it | no teacher or group twice in a slot; active slots never overlap; a booked slot keeps its block; an occurrence with attendance keeps its blocks |
| Group enrollments | enrollments, group capacity and count | enroll, transfer, register, edit | capacity; one enrollment of a student at a time; the count follows |
| Attendance | sessions, marks, codes, justifications | start, close, list, generate and redeem a code, file, review | marks only while open; a justified absence stays justified |
| Absenteeism alerts | alert rows per student and month, notifications | evaluate | columns agree; told once |
| Attendance figures | none | summary, report, dashboard, history, rules | four pages that count the same marks agree |
| Departures and permits | departures, scheduled permits, guardian links | schedule, expire, complete, depart | a permit lets its student out once |
| Communications | communications, recipients, readings | create, update, publish, read, confirm | recipients of one edit; the first reading stays; only what is published is read |
| Accounts and authentication | users, verification codes, login buckets, sessions, reset links | verify, login, refresh, logout, change, reset | limits hold; an ended session stays ended; a link works once |
| Users, roles, permissions | users with roles and profile, roles, permissions, grants | create, update, seed at every start | a user keeps its roles; the server starts; the administrators keep what protects them |
| Import of students | users, enrollments, credentials mailed | preview, confirm | the import does what was shown; no two users with one key |
| Catalogues, dashboard, public pages, legacy modules, integrations, migrations | rows of each | CRUD, queries, mail, files | see section 7 |

### How they interact

- The case handlers are HTTP requests. Each reads the case row **outside** its
  transaction (`requireCase`), opens a transaction (`DataSource.transaction`,
  MySQL's REPEATABLE READ), reads other tables there, and writes through
  `DisciplinaryWorkflowService.apply`, which checks the status **read earlier** and
  updates `WHERE id`.
- The reconciler is started by `setInterval` every hour (`onModuleInit`). It reads
  open cases, takes the three queries of `snapshot()` with `Promise.all`, plans with
  the pure `planDeadline`, writes in a transaction per case, and ends with the
  reminders of the follow-ups. Nothing keeps a pass from overlapping requests or
  another pass.
- Case handlers and the gate read the guardian links of the users module; the case
  handlers read the calendar; the pages of the cases read everything above.
- A booking locks its assignment (with the joined group, section and offering rows)
  and its slot, then takes two named locks (group and teacher, by day and slot),
  checks, inserts, commits and releases. Slot edits take one global named lock
  before their transaction. Attendance reads the entries without locks to find the
  occurrence it starts and stores its first entry and, in the audit log, its blocks.
- The enrollment desk, the registration of users and the import of students write the
  same enrollments by three different lock orders.
- The marks of attendance feed the absenteeism alerts, whose evaluation runs inside
  the visits to two pages, and four pages that count them.
- Approving a justification rewrites a mark; a calendar exception justifies the day.
- Authentication, account edits and recovery save the user entity they read.

### What is hard

Guards evaluated on a row that is stale when the transaction writes; whole-entity
saves of stale rows; requests with no transaction that interleave, or are cut, at
every query; the pass acting on counts taken before its transaction; a clock that is
restarted by a late delivery; a calendar that changes under running terms; snapshots
older than the locks they are used under; counts checked and then exceeded by as many
requests as were past the check; files that no transaction covers; a start of the
server that seeds rows others edit; and rules that are written twice, once in a handler
and once in a page. `PROJECT.json`, "hazards", lists each at its line with the
properties that would catch it.

## 2. Modules

| Module | Models | Notes |
|---|---|---|
| `DisciplinaryWorkflow` | `disciplinary-workflow.ts`, `deductionOf` | the two transition tables as functions from a status to a set |
| `BusinessDays`, `BusinessDayLoops` | `utils/business-days.ts`, by what it computes and loop by loop | a date is a natural number |
| `Sanction` | the promise of the component | abstract specification: deduction, track, told, contested |
| `DisciplinaryCase` | one case, its handlers and the reconciler | the core |
| `AppealCenter` | the pages that show a case, offer, list and queue its recursos | extends `DisciplinaryCase`, writes nothing |
| `CaseIntake` | numbers, notices, mails, receipts of cases opened at once | |
| `Inquiries`, `FollowUps` | the desk of an investigation; commitments and reminders | |
| `EvidenceFiles` | files on disk and the rows that name them | |
| `ConductRecord` | the conduct of a student over all his cases, page by page | uses `deductionOf` |
| `ScheduleBooking` | entries, time slots, their locks, sessions started from the schedule | every awaited statement is a step |
| `Requests` | handlers, `FOR UPDATE`, the save of a TypeORM entity | shared by the modules below |
| `Enrollment` | the desk, the registration and the edit of enrollments | lock by lock |
| `Attendance`, `JustificationPages` | a session, its marks, its code, its justifications; the pages about them | the pages extend the session |
| `Absenteeism`, `Figures` | the alerts of a month; the pages and rules that count the marks | |
| `Departures` | the gate | |
| `Accounts`, `Verification`, `LoginAttempts` | sessions and passwords; codes of new accounts; the limit of logins | |
| `UserRecords`, `BulkImport` | a user with roles and profile; the import of students | |
| `Roles`, `Routes` | roles, grants and the start of the server; what every route asks for | |
| `Communications` | the communications of the school | |
| `MCDisciplinaryCase`, `MCScheduleBooking`, `MCClassroom`, `MCOffice` | instances for TLC | operation sets, instances, symmetry |
| `Classroom`, `Office` | the parts of either side next to each other, with their grouped properties | compose the modules above |
| `Counting` | lemmas on counting and adding up that the proofs share | section 5 |
| `BusinessDayLoopsProofs`, `DisciplinaryCaseProofs`, `ScheduleBookingProofs` | theorems about the case and the schedule | section 5 |
| `ClassroomProofs` | theorems about attendance, alerts, gate, enrollment, the figures and their composition | section 5 |
| `CaseworkProofs`, `PeopleProofs`, `OfficeProofs` | the parts of the office, and their composition | section 5 |

`DisciplinaryCase` EXTENDS the workflow and the business days and instantiates
`Sanction` with a refinement mapping; `AppealCenter` reads its state. Modules whose
rows never meet are put side by side by `Classroom` and `Office`: `part` names the
one a behaviour runs, and `crowd` is the set of handlers served in it. A crowd of one
(`Alone`) is the program serving one request at a time, so one run asks both what holds
under races and what holds without them.

## 3. The models against the code

### Cases

**State.** `row` is the `disciplinary_cases` row. Columns that no guard reads are
left out (description, location, number, reporter); dates that are only tested
for null are booleans (`notifiedAt`, `firmAt`, `annulledAt`). `appeals` and
`communications` are sequences in id order; a communication carries the one fact
of its notifications that matters, whether it was physically delivered.
`defenses` and `elevations` are counts, because the code only counts them.
`bitacora` is the set of STATUS_CHANGE events; the other events change nothing a
property looks at. `today` is `institutionalToday()`, `daysOff` the
`non_working_days` rows, `linked` whether the student has a linked guardian.

**A handler is three steps**, because it awaits twice and holds a row lock once:

1. `Load`: the row is read without a lock, and the guards that look only at the
   row are decided. A request refused here changes nothing and is not modelled as
   a call. Columns the handler never uses again are blanked (`Read`), so states
   that differ only in them are one state.
2. A `Check...` action: the transaction's first read fixes its snapshot; the
   guards on other tables are evaluated on it. A handler without such a guard has
   no second step.
3. A commit action (`Communicate`, `FileDefense`, `Resolve`, ...): all writes of
   the transaction as one step. This is sound because the first write takes the
   row lock of the case (or inserts a row no one else reads before commit) and
   keeps it to the commit, and readers see nothing before it. The action writes
   what the code writes: for instance `Archive` writes `resolutionOutcome =
   DISMISS`, `CloseRecurso` writes the severity read (or the new one), and
   `apply` logs the status the handler **read** (`Apply(seen, ...)`), whatever the
   row holds now.

`Abandon` is the refusal by a later guard, a rollback or the death of the
process: nothing was written.

**The reconciler** is `Load(h, "reconcile")`, then `ReadEvents` and `ReadTables`
in either order (two of the concurrent queries can see different moments; the
two counts over defenses and appeals are taken together, see below), then exactly
one of `Elevate`, `ExpireDefense`, `ExpireRecursos`, `NothingDue`, chosen by the
guards of `planDeadline` in the code's order. `Elevate` restarts the clock on the
date of the rejection, `ExpireDefense` on the date the term ran out (`DueOn`).

**Abstractions to know.** (i) The defenses and the appeals of a pass are read in
one step (`ReadTables`): the plan for a case uses the defenses only in status
COMMUNICATED and the appeals only in the others, so no plan can tell one moment
from two. (ii) `Admits("reconcile")` drops passes that can plan nothing for the
row they read. (iii) One case: handlers never touch two. (iv) Step lengths are
parameters; the runs use 1, the theorems any positive length.

**The promise** (`Sanction`) is read off the row: `deduction` is `deductionOf(status)`,
`track` the row's once the case exists, `told` is `notifiedAt`, and `contested` says that
a recurso waits. `told` is false while a direct case has neither a linked guardian
nor a delivery. The promise demands it of due-process cases only, because nothing
in the code holds a direct reprimand back.

**The pages** (`AppealCenter`). An `Actor` is what a page or a handler compares of a
user: permissions `disciplinary.*`, roles, and ties with the case (reporter, guide,
guardian, student, responsible). Each page's condition and each handler's condition
is an operator translated from its own code; `CenterAgrees` relates them in every
state of `DisciplinaryCase`, for every actor.

**Around the case.** `CaseIntake` opens cases: the sequence row of the year is locked
(`yearLock`) from its read to the commit, the snapshot of the links is taken there,
and the mails are sent after the commit, one update each, by a process that may die
between them. `Inquiries` and `FollowUps` are the rows of the case's history: stage or
outcome is read before the transaction, earlier rows in its snapshot. `EvidenceFiles`
writes the file, then the row, and takes the file back when the row fails; a stopped
process leaves it. `ConductRecord` has no steps of its own beyond the cases of a
student and his enrollment changing: its operators are the sums each page computes.

### Schedule

**State.** `entries` and `slots` are the two tables by id (an entry id is never
reused; a slot id is `Unborn` before and `Removed` after its life). `sessions`
holds, for each session started from the schedule, its anchor entry, its date and
the blocks its audit entry recorded. `rows[h]` and `named[h]` are the locks
connection `h` holds, `call[h]` the request it runs: its phase, what it books or
edits, and the snapshot of its transaction.

**MySQL** is modelled by what the services rely on. A locking read reads the
current row, waits for other holders and keeps the lock to the end of the
transaction; on a query with joins it locks the rows of every joined table, so
`loadAndValidateTeachingAssignment` locks the assignment with its group, section
and subject or specialty (`AssignmentRows`). The snapshot is opened by the first
plain read of the transaction: `requireAssignableSlot` in a booking (the
eligibility checks before it use other connections), the `exists` or overlap query
in a slot edit. All later plain reads of the transaction are functions of that
snapshot, so they and the insert are one step with the commit (`SaveNew`,
`SaveMoved`, `WriteSlot`); the unique index and the foreign keys look at what is
committed. `remove` and the session start run outside a transaction or read before
it, so each of their statements is a step on the current tables.

**Named locks** outlive the commit (`release`), and `Abort` - any thrown check,
lock timeout, deadlock victim or lost connection - rolls back and frees both kinds.

**Occurrences.** `groupScheduleOccurrences` sorts the blocks of an assignment and
day and cuts where the end of one is not the start of the next. `RunOf` says the
same without a loop: the blocks with no cut between them and the given one.

**Abstractions.** All modelled assignments are impartable and allowed; who teaches
what to whom is constant; the row locks of one statement are taken together; the
wall-clock gates of a session are a free choice of its date; manual sessions, which
have no anchor, are left out; a request that finds an existing session ends as
`Abort` does, writing nothing. `Shapes` lists the states an administrator may give
a slot, after the range and lesson checks; `BREAK` stands for lunch as well, which
no guard tells apart, and lesson 0 for none. `MaxEntry` bounds the ids.

### The classroom: `Enrollment`, `Attendance`, `Absenteeism`, `Departures`, `Figures`

In all of these a request is a record in a `...Call` function of the handlers, with a
`phase` and whatever it carries from its earlier reads; `idle` is no request.

- **`SaveEntity`** (`Requests`) is TypeORM's `save` of a loaded entity: it reads the
  row again and updates the columns in which the entity differs from **that** read.
  A stale entity therefore writes its stale columns back, in two steps (`entity`, then
  `reread`). Which columns a service can really lose this way is decided by the model.
- **`Enrollment`** follows each transaction as locking reads (`enrolRows`,
  `enrolShared` for the locks an insert takes on the referenced row), the moment its
  snapshot opens, and its commit. The desk (create, transfer) locks the student and
  then reads; the registration (by hand or import) takes its snapshot before it locks
  the group; the edit of a user checks the active row outside its transaction. `via`
  names the code that wrote a row. `studentCount` is written as each path writes it.
- **`Attendance`** has one session. The teacher's list and the redemption lock its
  row; the generation of a code saves a session read before; filing and review act on
  rows read before their transaction, and filing saves a whole mark.
  `JustificationPages` states what each page finds and offers for every kind of user.
- **`Absenteeism`**: the rules are abstracted to the `level` they return, which the
  environment moves freely; raising, updating, resolving and notifying are a step per
  query. The rules themselves are in **`Figures`**, with the analytics and the history:
  the state is the marks in insertion order, the day and the lessons started, and
  every figure a page shows is an operator of its own.
- **`Departures`** locks nothing: permits are taken by an `UPDATE ... WHERE status =
  'PENDING'`, which is one atomic step; days pass and guardians change in between.

### The office: accounts, users, roles, communications, import

- **`Accounts`**: a password is the number of times one was set. Every query commits by
  itself, and a request may be cut after any of them (`halfDone` remembers). Expiry of
  tokens is a request that stops.
- **`Verification`**: codes with a clock in minutes, the limits as constants; rows are
  saved as they were read. **`LoginAttempts`**: the in-memory buckets, emptied lazily
  and pruned when many; a login is checked, awaited and then counted.
- **`UserRecords`**, **`Communications`**: whole-entity saves, and rows deleted and
  inserted again (roles, recipients), query by query, with cuts. The audience is computed
  twice, as in the code: the estimate compares the names of a user's roles in the
  database with the recipients (`Counted`); the feed compares the roles of the token,
  which are `ADMIN` alone for an administrator (`Caller`, of `Routes`), with every other
  name of each (`KnownAs`). "Padre" stands for "Padre de familia".
- **`Roles`**: the start of the server (`UsersBootstrapService`) query by query, with
  edits of permissions, names and grants between starts, and a crash at any query. A
  start is given an environment (`env`): production or not, whether `ADMIN_PASSWORD` would
  do there, and whether `ADMIN_EMAIL` names a user other than the seeded one. The
  database is what the migrations leave (`Migrated`: the roles, permissions and grants of
  001, 014, 015 and 016, and the seeded user with the example password), or the empty
  schema that is synchronized out of production. Users matter by the reserved national id
  (`seeded`): it may be given up, and then taken by somebody else. "Otro" stands for
  every further role, "extra" for every code out of the catalogue.
  **`Routes`** is the table of the controllers' decorators and the three guards.
- **`BulkImport`**: preview, confirmation (validated again), one transaction, then the
  credentials mail by mail, next to other imports, users registered by hand and groups
  opened or closed. A sheet is a sequence of rows with the fields the checks compare.

Abstractions: identifiers, names, mails and texts are model values; tokens are the
session they name; paging, sorting, formats and layouts are left out; an environment
action stands for a page of another module where the text above says so.

## 4. Runs

All runs of the case model use two or three dates past the first and step
lengths of one day. One day suffices for every comparison to go both ways: on
time on the last day, expired on the day after. Two handlers make every race between
two writers; what is proved (section 5) is proved for any number.

| Run | Question | Bounds |
|---|---|---|
| `case_serial` | With one request at a time, every operation, both tracks: recursos in order, real notices, no early expiry, the promise of `Sanction`, and pages that agree with the handlers | 1 handler, 4 dates, one Saturday, 2 severities; 214,166 states |
| `case_timer` | The promise while the calendar and the guardian links change; every expired step is closed | 1 handler, 3 dates, fairness |
| `case_process_races` | Can two interleaved handlers skip a stage or leave the bitácora unexplained? | 2 handlers, due process, 3 dates |
| `case_recurso_races` | Are the stages backed by rows and dates when two handlers race over recursos, and are recursos answered only by the requests in flight before the first answer? | 2 handlers, direct track, 3 dates |
| `business_day_loops` | Do the loops compute the counts? | every calendar over 5 dates, every start, end and length up to 4 |
| `schedule_booking` | Two requests of any kind interleaved at every statement: which bookings are kept apart, do slots stay disjoint and booked blocks fixed, are occurrences with attendance left alone? | 2 handlers, 2 assignments of one teacher in one section, 1 day, 2 slots, 3 shapes, 2 entries, 1 date |
| `classroom` | Enrollment, attendance, gate, alerts and figures: what holds under two interleaved requests, and what of one at a time? | below; 1.29 million states |
| `office` | Accounts, codes, logins, users, communications, intake, desk, follow-ups, files, roles, conduct and import: the same question, with cuts at every query | below; 1.87 million states |
| `case_annul_race`, `case_dismissal`, `case_appeal_window`, `schedule_teacher` | violations, section 6 | |

### Cases

`RecursosInOrder` (one revocation, one appeal, the appeal after a rejected revocation
and subsidiary iff that one asked), `NothingExpiresEarly` (what the pass closes had its full term of business days before
today), `NoticeIsReal` (a case with no linked guardian counts as notified only on a
recorded delivery), `LogExplainsStatus`, `DueProcess`, `Heard`, `StageIsBacked`;
`AnsweredByTheInFlight` (nothing keeps requests that read a recurso unanswered from all
answering it, but nobody who reads it later does: there are at most as many letters with
answers as requests in flight for every recurso answered, and at least one); the
promise `KeepsPromise`: a due-process case takes points, or is contested, only once its
family was told (a guardian was linked when something was sent, or a delivery by hand is on
record; a direct reprimand takes them told or not, as the code has it), points are
never applied over a recurso that waits, and a cleared case never takes points again; and `CenterAgrees`:
whoever finds a case in a list may open it, a recurso is offered exactly while the
handler accepts it, what waits in the queue of a case in appeal may be answered, the
tracking tells every recurso and answer, and after a pass a case in the hands of the
family waits for somebody who can act. The order of the recursos, the terms, the
promise and the pages hold of the code run serially and are stated there: two handlers racing can
break them, which section 6 describes.

### Schedule

`SharedRowsSerialise` (entries that occupy one teacher or group at the same time
belong to assignments that share no locked row - so a group is never double-booked,
nor a teacher within a section or an offering), `ActiveSlotsDisjoint`,
`BookedSlotsKept`, and `SeenOccurrencesKept` (a booking never changes the run of a
session its snapshot contains, provided its slot was not edited since and the blocks of
that day overlap neither in the tables, nor in what it read, nor with the block it books).
The proviso on overlaps is needed: only active slots are kept apart, so entries may be
left in inactive slots that overlap active ones, and when a block between two others that
overlap it leaves, it joins what it kept apart without having been part of either run. Two slots and two entries make a run of two blocks, which
is enough to join one, leave one or move its anchor; the third shape is an inactive
break, so that slots are edited both ways. The two assignments share teacher and
section, so every booking conflicts with every other; `schedule_teacher` uses the same
instance with two sections.

### `classroom`

| Property | Holds | Says |
|---|---|---|
| `SeatsKept` | under races | rows the desk leaves never overlap (`DeskRowsApart`); a group all of whose students came through the desk, or all by the edit of a user, keeps to its seats (`SeatsByDeskOrEdit`; nothing is claimed of groups that registrations or imports fill, which may overfill them, §6); the count of a group is its rows and the writes known to miss it (`CountExplained`) |
| `MarkedWhileOpen` | under races | a pupil is listed only while the session is open; afterwards only a justification changes a mark |
| `ApprovedStays` | `Alone` | one active justification per absence; an approved one is never an absence again; pages offer and show what the handlers accept |
| `AlertColumnsAgree` | under races | level, status and key of an alert agree |
| `AlertsAlone` | `Alone` | an alert is told once, and open only for a level found |
| `GateKept` | under races; `Alone` | a permit lets out once and stays spent; whoever leaves does so with a guardian |
| `FiguresKept` | always | the pages agree where they count the same thing; on one day risk follows absences |

Bounds: two handlers; two students and a newcomer, two groups of one seat in one
period, dates 0 to 2, two rows (so that a group is full, a transfer finds no seat, and
two paths race for the last one); one pupil with two justifications (a rejected one
and its successor); two leavers, a companion, two days, one permit and two departures
(the permit and a second use of it); five lessons of two groups over four days, three
queries, thresholds of two and three. Students in the enrollment and leavers at the
gate, handlers, and groups are symmetric. Distinct states by part: enrollment 216,914,
attendance 714,688, gate 134,138, alerts 194,316, figures 32,812.

### `office`

| Property | Holds | Says |
|---|---|---|
| `EndedForGood` | under races | a session that ended while no request had it in hand stays ended |
| `MailedSecrets` | `Served`; `Alone` | a link sets a password once per request in flight; no more links or codes than requests are open; codes of an hour over the limit by the other requests at most; guesses of a code, of one request at a time only |
| `LoginsLimited` | `Served` | failures over the limit by no more than the requests in flight; pruning forgets no failure that counts; the wait told is exact |
| `RecordsAlone` | `Alone` | an ended password ends its sessions; users are whole unless a request was cut; dates in order; recipients of one request; the audience told and the feed part in the ways section 6 names and in no other |
| `ReceiptsKept` | under races; `Alone` | a receipt is written once; the first reading stays; only what is published is read |
| `CasesOnRecord` | under races | numbers in order and without gaps (`NumbersInOrder`); a notice marked sent has a mail that left, and none leaves twice (`LettersAreReal`) |
| `ConductOnRecord` | `Alone` | pages agree on the points of a student |
| `DeskLimits` | `Served`; `Alone` | a question is answered, an opinion open, a reminder sent, an outcome given once per request in flight; answers belong to questions; nothing before the investigation; what is due is reminded |
| `FilesExplained` | `Served` | rows have their files; a file without a row is what a cut left; the limit of uploads |
| `RolesKept` | with cuts | a start fails only after what section 6 names, or in production without a good `ADMIN_PASSWORD`; a server of production that serves replaced the example password; the administrators keep the protected permissions; no route of the whole schedule, to see or to edit, is left to students; no factory role has both hands of a procedure |
| `ImportsExplained` | `Served` | an import does what its preview showed while nobody else writes; no two users with one key; a group filled once per import; credentials to users that exist |

`Served` is the size of the crowd: the number of requests in flight. `records`,
`communications`, `roles` and `conduct` run `Alone` only, because nothing in the code
keeps racing saves of one user, communication or role apart.

Bounds: two handlers; one account with three passwords, one session, two links; three
codes with one attempt, cooldown and life of a minute, one per hour of two minutes; two
identifiers and one address with limits of one and two, a window of two instants,
pruning from two keys; one reader; two tutors, two years, two cases, two notices; three
entries of the history; two follow-ups over two days; one evidence, two files of a
defense, two milliseconds; three starts in any environment and one edit after each; recipients by four role names,
two of them of one role; two cases of a student in
two severities (one that deducts little, one that deducts most), two pairs of
thresholds; five sheets chosen so that every refusal of a row occurs, two offers of groups,
two people. Each bound admits the case at its limit and one past it. Distinct states by
part: accounts 275,600, verification 33,965, logins 10,814, records 1,513,
communications 11,063, intake 481,440, inquiries 27,833, follow-ups 151,880, files
103,233, roles 623,482, conduct 53,514, import 100,285.

Deadlock is checked in the schedule runs, where a request can always abort. The other runs
use `CHECK_DEADLOCK FALSE`, because a bounded calendar, a finished case, spent bounds or a
returned loop leave nothing to do.

**Fairness** (`FairSpec`, run `case_timer`). A request ends
(`WF Abandon`). The timer fires every hour forever, so a pass that is possible
again and again starts although requests occupy the handler in between
(`SF Load(h, "reconcile")`), and a pass goes on (`WF Reconciles`). A pass may
fail on a database error any number of times but not forever
(`<>[][~ abandoned pass]`): a failed pass writes nothing, and the next hour, or the
next start of the process (`onModuleInit`), begins another. Nothing is assumed of
users.

## 5. Proofs

Every theorem holds for **any** set of requests, finite wherever requests are counted
(`RequestsAssumption`), and any values of the other constants that satisfy the modules' named
assumptions: naturals are naturals, the operations are operations, there is a severity,
steps last at least a day, at least one code an hour is allowed, the seeded slots do not
clash, enrollments are finitely many and no group is the
mark of a reader of all groups, `None` is no other value. Further assumptions are stated with the theorem:
`Serial == \A g, h \in Handlers : g = h` says that requests are served one at a time. In
the modules that a composition uses, invariants and lemmas are stated of a set `H` of requests
(the crowd), so that they serve both for all handlers and for a crowd of one (`Serial(H)`,
`Lone(H)`).

`DisciplinaryCaseProofs` (one step per action; calendars, operations, severities and
step lengths are arbitrary):

- `TypeCorrect` (`Spec => []TypeOK`). `TypeOK` alone is not inductive: a handler
  writes a log entry `from` the status it read, which must be a real status. The
  strengthening is `Following`: a call in flight read a case that exists, with a
  status of `Statuses` and the track the case still has. The least obvious step is
  that the date a pass computes lies in the calendar: `DueDateExists`.
- The next four stand on three facts proved once per action (`HandlerEffects`):
  `RecordGrows` (what is on record is never taken off), `StatusMoves` (a status only
  changes along the workflow from the status the handler read, and is logged),
  `StatusBacked` (the handler that moves a case to a status writes its evidence in
  the same step). `StagesBacked` (`StageIsBacked`) follows from these directly.
  `LogExplains` needs the statuses **read** by handlers in flight to be explained as
  well (`LogExplainsReads`): a stale read was explained when it was taken, and the log
  only grows. `ProcedureFollowed` (`DueProcess`) and `FamilyHeard` (`Heard`) likewise
  carry the milestones of every status read in flight (`ProcessFollowed`). This is why
  the missing lock cannot skip the procedure although it can replace a status.
- `NoticesAreReal` (`NoticeIsReal`, for any number of handlers), assuming that
  `"link"` is not among the operations: the guardian links stand. `NoticeInv` adds to
  the invariant that what a handler in flight found of links and deliveries still
  holds (`DeliveriesStand`): deliveries are never taken back.
- `AnswersAreCounted` (`AnsweredByTheInFlight`), for any finite number of handlers. The
  invariant `AnsweringInv` counts, next to the letters, the requests about to answer a
  recurso that has its answer (`Late`). The first answer of a recurso makes late whoever
  else found it waiting, fewer than all requests; a late one that answers moves from
  `Late` to the letters, and nobody becomes late afterwards (`NobodyLater`).
- `RecursosKeepOrder` (`RecursosInOrder`), assuming
  `Serial`. The invariant `SerialInv` adds to the order of the recursos that what the one request in flight
  found of them still holds (`FoundStands`): nobody else can have written.
- `ImplementsSanction` (`KeepsPromise`), assuming `Serial`: the initial states map to
  those of `Sanction` and every step to a step of it or a stutter, whatever the calendar
  and the links do meanwhile. It needs `CurrentInv` (the row read by the request in
  flight is the row) with `ProcessFollowed` and `SerialInv`: a case becomes firm
  only when told and with no recurso open.
- `TermsRunInFull` (`NothingExpiresEarly`), assuming `Serial` and that `"calendar"` is not
  among the operations. `ExpiredInv` says that a pass that found a step expired
  has its whole term of business days behind it.
- `PagesAgree` (`CenterAgrees`, about `AppealCenter`), assuming `Serial`, for any calendar,
  also while it and the links change. It adds two invariants. `StageInv` is what the
  status says of the rows: no recurso before IN_APPEAL, no defense before
  PENDING_RESOLUTION, a step of positive length while the family may act, and IN_APPEAL
  only while a recurso waits or a lone revocation without subsidiary appeal was
  rejected. `NoticesInv`: there is one notice for each answer. Pages and handlers tell
  in two ways that a term ran out, by its due date and by counting days; `DueDateMeets`
  says that the two agree.

`BusinessDayLoopsProofs`: the invariant `LoopInv` (the loops keep the count of the
days passed; where a walk may stand); `LoopsAgree` (`LoopsReturn`): for every calendar
and range, what the loops return is what the definitions used by the case model say.
`Counting` holds the lemmas on counting days (`CountNextDate`, `CountMonotonic`,
`DueDateExists`, `TermEnds`, `DueDateMeets`), which find the due date as the least date with the
right count (`LeastIn`), those on the sizes of finite sets and on whole division, and those on sums. What the folds of the models add up is a recursive
function over the subsets of a set; that it exists (`FoldExists`), is a sum in any order
(`FoldSums`), grows with its set (`SumGrows`) and counts disjoint parts (`PartsAddUp`) is
proved by a smallest set for which it would fail.

`ScheduleBookingProofs`, for any timetable and any assignment of teachers, groups,
sections and offerings:

- `ScheduleTyped`; the strengthening `Shaped` says what a request carries in each
  phase.
- The inductive invariant of the rest is `LocksInv`: locks are exclusive (`Apart`);
  a request holds the rows and keys its phase relies on (`Holds`); and the part of
  its snapshot it decides on equals the tables (`Sees`): a booking sees every entry
  that shares a locked row with it, a slot edit sees all slots and every entry of
  its slot. `Sees` is preserved because whoever could change that part needs a lock
  that somebody else holds. A stale snapshot is harmless exactly there.
- `SharedRowsSerialised`, and from it `GroupsNeverDoubleBooked`;
  `ActiveSlotsStayDisjoint`; `BookedSlotsStay`, an action property.
- `SeenOccurrencesStay` (`SeenOccurrencesKept`), an action property. A snapshot may be
  several commits old, but by `ReadingInv` the entry an update moves is still as it was
  read, its row being locked, and every entry that shares a locked row with the booking
  is in a slot with the times that were read. Which entries make a run depends only on
  the times of the blocks of the day, so a timetable made of blocks of another one keeps
  the runs it holds (`RunCopied`, which takes the runs of the snapshot to the tables); a
  block that joins no run in use (`JoiningKeeps`), or leaves the day without having been in
  one (`LeavingKeeps`), changes none.

`ClassroomProofs`, part by part and then as a whole:

- **A session**: `AttendanceTyped`, `MarksWhileOpen` (`MarkedWhileOpen`).
  `AttendanceInv` adds `HeldOpen` (a request that marks holds the row of an open session,
  alone), that a justification is of a mark that exists, and what a request carries from its snapshot.
  One request at a time: `ApprovedStayExcused`, `OneActivePerAbsence`. Their invariant is
  `AttendAlone(H)`: the reviews stand as decided (`ReviewsStand`) and what the one
  request read still is what the tables hold (`AttendKnows`), which is exactly what a race takes
  away. `PagesInv` says as much of what the pages read (`MarksTell`: a justified mark is no
  absence, and a mark is PENDING exactly because a justification is), so that `PagesMean` follows.
- **The alerts**: `AlertsTyped`, `ColumnsAgree` (`AlertColumnsAgree`). `AlertRowsWhole`: a
  row is as raised or as resolved, never a mixture. It survives stale saves because every
  entity in hand is itself such a row, and both forms differ in the same columns. One at a
  time: `AlertsToldOnce`, `AlertsOpenAsReached`, by `AlertAlone(H)`: the evaluation in flight
  knows the row and the notices as they are (`AlertKnows`), whichever earlier evaluation died.
- **The gate**: `GateTyped`, `OneDeparturePerPermit`, `SpentStay`. The ledger: an authorized
  departure names a permit of its own student that is COMPLETED, and no other departure
  names it; with the `UPDATE` that names PENDING this is inductive without any lock. One at a
  time, `LeaveEscorted`: the guardian a request checked is still linked and active when it
  registers the departure.
- **Enrollment**: `EnrollmentTyped` and `SeatsHold` (`DeskRowsApart`, `SeatsByDeskOrEdit`,
  `CountExplained`), for any number of groups, seats, students and requests. The locks
  exclude each other (`LocksApart`); a request knows, by the path it takes, what its locks
  protect: the desk (`DeskFits`) holds the student and the row of its role, so that the student's
  rows do not overlap and the seat it counted is still free of other desk requests; the edit (`EditFits`)
  holds the group, so that its seat is free of other edits; the newcomers of a registration
  (`BatchFits`) have no rows yet and are in no other registration (`BatchesApart`), whose snapshot promises
  nothing of the seats. `SeatsCounted`: the rows of the desk, and those of the edit,
  never exceed the capacity of a group, whatever the other paths add.
- **The figures** (`FiguresInv`): a mark is of a student of the lesson's group, in a lesson that
  began by today, and a student has one mark of a lesson (`MarksInPlace`). With one group for
  each student (`TermAssumption`) the pages agree, each for a reason of its own:
  `TotalsHold`, because a GROUP BY, the teachers of the lessons and the wards of a family split the same
  rows into disjoint parts, which add up (`PartsCounted`, from `PartsAddUp`); `MonthsHold`, because the month is
  among the days the rules look at; `FullHolds`, because a rate of two decimals reaches 100 % only
  when nobody is missing of fewer than 20000 students (`FullRate`, `SchoolAssumption`: of more, one may be);
  `RunsHold`, because the absent marks of a run of absent days are a run of absent marks;
  `ShownHolds`, because what is rare enough for the rules is critical for the dashboard, roundings
  included (`RareIsCritical`), and every threshold of a count is at least that of the dashboard. `RisksFollow`
  compares the marks before and after a step (`Worse`): the absences of the month and in all grow, those
  that came shrink, so the rounded rate stays below the limit (`RarerIsRare`), and runs grow with the
  days they are found in (`LongestGrows`).
- **The composition**: `ClassInv` is the invariant of every part (`PartsFit`) and, when
  the crowd is one request, `AloneFits`. A step of the whole is a step of one part for the
  crowd, hence also one for all handlers, and leaves the others as they are
  (`ClassStepParts`). From it follow `ClassroomTyped`, `SeatsAreKept`, `ApprovalsStay`,
  `AlertsAreAlone`, `GateIsKept`, `FiguresAreKept` and `RacesHold`: all the properties of the run.

`CaseworkProofs` and `PeopleProofs` hold the parts of the office. Most of what is
promised there is a bound that racing requests may overrun by as many as they are. All these bounds
have one shape (`Within(n, counted, passed)`): what was counted plus who passed the check
and has not written yet is at most `n`. Somebody passes only when the count leaves
room for every request; a write moves its request from `passed` to `counted` (`Moved`).

- **The desk** (`InquiryInv`, `InquiryLimits(H)`): an answer names an earlier question of its
  kind, a request about to write knows the stage and the question it read; answers to a
  question and open opinions are counted `Within` the crowd.
- **The follow-ups** (`FollowInv`, `FollowLimits(H)`, `FollowAlone(H)`): outcomes and reminders
  likewise; one at a time, what a pass found pending is pending when it reminds of it.
- **The opening** (`IntakeInv`): the sequence of a year is the number of its cases (`RowsFit`),
  which are numbered in order (`NumbersFit`); who draws a number holds the row of the year, alone
  (`IntakeApart`); letters are of notices on record, and a request that sends one knows that
  none left before (`LettersFit`). A receipt is written by an `UPDATE` that names an unread notice.
- **The files** (`EvidenceInv`, `UploadLimits(H)`): a row or an upload past its write has its
  file on disk (`FilesStored`); no two have one name, except those of a justification that
  took it twice (`FilesApart`). Reports plus uploads past the check are within the limit plus
  the other requests.
- **Accounts** (`AccountInv`): an ended session is revoked and no request is about to save
  it, which a request that reads it later cannot undo, since it stops at a revoked session
  (`SessionsGone`); a stale entity is the account as it was at an earlier number of passwords
  (`AccountRows`). `LinkInv(H)` and `OpenInv(H)` count passwords set through a link and links open.
  `AccountAlone(H)`: the request in flight knows the account (`AccountKnows`), so a change of
  password that ran to its end left no session of the old one.
- **Codes** (`VerifyInv`, `SendsInv(H)`, `CodesInv(H)`, `GuessAlone(H)`): the codes of any
  hour plus the requests past the count are within the limit plus the other requests, for every window
  of an hour that begins with a code (`SendsFit`), which the passing of time only widens; codes open, or
  about to be opened again by the save of a stale guess, plus those about to be
  inserted are within the crowd (`KeptOpen`).
- **Logins** (`AttemptInv`, `AttemptLimits(H)`): instants are appended as they come, so a bucket is
  sorted and what is recent is its end (`AfterIs`). Hence dropping what is old changes nothing of
  what is recent later (`AfterTwice`), and a bucket and its history agree on it (`Agree`) whichever of
  them was emptied or pruned. The recent failures of a key plus the logins past its check are within its limit
  plus the other requests. `WaitMeans`: the failure the wait is counted from is the one with as many
  after it as the limit leaves room for.
- **User records** (`RecordsAlong(H)`): what an edit still has to write is what is missing
  (`EditKnows`), unless it was cut.
- **Communications** (`CommInv`, `CommAlone(H)`): what a request is about to save has its dates in
  order (`WritingKnows`); one at a time recipients are deleted before others are inserted, and who
  amends a reading knows it (`ReadKnows`). `AudienceTold`: the names by which the feed knows a
  user are his own or another name of a role of his, unless he is an administrator.

- **Conduct** (`ConductMeans`, in `CaseworkProofs`): the pages agree in every typed state
  (`ConductTypeOK` is inductive). The points of some cases are a sum of weights (`PointsKnown`), so a
  reader of fewer cases counts no more (`BucketsGrow`); a period has firm points exactly when its grade
  is below 100 (`FloorIs`); the boards of the groups are disjoint and cover all cases (`BoardsFold`).
- **Roles** (`RolesInv`, in `OfficeProofs`): names and codes are unique (`NamesApart`, `RowsKeyed`),
  so by the pigeonhole principle a row is free for a new one (`RoomForKey`); a write of two
  queries counts as done from the first (`Soon`), since only a cut loses the second. `AdminFits` and
  `StudentsFit` say what each query of a start has established by the time the next one runs, unless
  the history since then undoes it: a start is served alone (`StartsClean`), and every edit keeps
  the protected permissions of the role that is then called `Administrador`. `SeededFits` is why a
  start fails only for the causes named: the seeded user is an administrator or is about to be, and
  what a start of production that serves found of the example password is gone.
- **Routes**: for each table `Guarded` says that whoever decides a procedure needs its
  permission and that no public route writes, but for the accounts (`RoutesGuarded`); `TemplatesApart`
  that no factory role has both permissions. `HandsApart` follows.

- **Imports** (`ImportInv` and `SeatInv(H)`, in `OfficeProofs`): the rows a request imports are
  of different keys and end in a known status (`CallRows`); as long as nothing else changed (`CallFresh`)
  the rows it was shown are accepted again, although the sheet they come from had others between them
  (`PreviewRows`), and the seats it counted are the seats taken. A key that is written and not committed is
  neither a user's (`CallKeys`) nor another request's (`CallsApart`): the unique indexes. The bound on
  seats (`FilledWithin`): a request that found room (`Filling`) may still fill the group once, up to what
  it counted; when it ends, what was taken plus what it adds is at most one capacity more (`OneLeaves`).

`OfficeProofs` composes them: `OfficeInv` is the invariant of every part, the limits of
every part for the crowd, and what holds alone when the crowd is one request. The theorems
are `OfficeTyped` (`OfficeTypeOK`), `SecretsBounded` (`MailedSecrets`), `LoginsAreLimited`
(`LoginsLimited`), `DeskBounded` (`DeskLimits`),
`CasesAreOnRecord` (`CasesOnRecord`), `FilesAreExplained` (`FilesExplained`),
`RecordsHoldAlone` (`RecordsAlone`), `RolesAreKept` (`RolesKept`), `ConductIsOnRecord`
(`ConductOnRecord`), `ImportsAreExplained` (`ImportsExplained`), `EndedInOffice` (`EndedForGood`) and `ReceiptsAreKept` (`ReceiptsKept`).

Only model-checked:

- the liveness property `ExpiredStepsClose`, out of the prover's reach.

## 6. Where the code and its documentation disagree

- `case_annul_race`: `apply` updates `WHERE id` under a guard on the status read
  before the transaction, so a request that read the case before its annulment
  takes it out of ANNULLED, which `disciplinary-workflow.spec.ts:52` excludes.
- `case_dismissal`: a resolution that dismisses ("No se propone rebajo",
  `disciplinary-investigation.service.ts:306`) can be appealed by the family;
  `applyOutcome` sends every rejected recurso to FIRM and points apply, while the
  reconciler sends the same case to DISMISSED (`deadline-reconcile.spec.ts:61`).
- `case_appeal_window`: `recordDelivery` restarts the open step on the delivery date
  of whatever communication is recorded, so a late recording moves the window of
  the appeal before the rejection that opened it.
- `schedule_teacher`: the snapshot of a booking is older than the teacher's named
  lock, so two bookings of one teacher in different sections and offerings both
  pass `assertNoConflicts`; `013_schedule_entries.sql:3` counts on that check, and no
  index backs it.

### Further behaviours the models have, without a run of their own

They are why a property is stated for one request at a time, with a `Served` bound, or with an
exception.

Cases:
- A request that straddles midnight can file a revocation between a pass's reads
  and its write, and the case becomes firm over it; two concurrent answers to one subsidiary
  revocation each elevate it (`resolve()` tests `outcome` without a lock); the comment on
  `FINAL_CASE_STATUSES` ("ya no hay salida") covers FIRM, which both tables let be annulled.
- Annulling or archiving leaves pending recursos open. They stay in the review queue, where no
  answer to an appeal is accepted any more; answering a revocation restarts the step of
  the annulled case, which the board then counts as overdue. `ExpireRecursos` leaves
  `stepBusinessDays` behind, so the dashboard counts a firm case as overdue and the alerts do not.
- Two defenses, two answers to one information request, two opinions of one counselor, two
  outcomes of one commitment and two reminders of one day all commit when they overlap: each
  reads before the other has written. A crash between the commit and `dispatch` leaves
  notices SKIPPED and nothing sends them again; a mail that left can be recorded FAILED, and
  a failing update there stops the remaining mails. An error in the deadlines of a pass
  prevents its reminders.
- Evidence: only `upload` checks "máximo 5 evidencias". A delivery that fails after
  `storeReceipt` leaves its file behind. Files of justifications are named by clock and
  name, so two uploads can take one name, and the failure of one removes the file of the other.
- Pages: a responsible user who is neither reporter nor guide is asked to act on a case that
  `canViewCase` refuses him; an administrator without `read` and with no tie is not offered
  recursos the POST accepts; alerts do not begin with the deadline pass while pages do; recidivism counts
  dismissed cases; a guide's conduct alert sums the cases he reaches only; the board filtered by period
  shows alerts of other periods; a case about a fact before a transfer finds no
  active enrollment and is refused.

Schedule:
- A slot that became a break or inactive is still booked (`lockTimeSlot` looks at its
  existence only); a start reads its run before its transaction; the sorted blocks of an
  assignment may stop being contiguous by legal edits.

Classroom:
- The registration counts seats in a snapshot older than its group lock, so a group may be
  filled once per import in flight; the desk and the edit of a user do not exclude each other; the
  edit has no overlap check; `create` with an end date still increments the count, and
  `GroupsService.update` saves a stale one.
- Two filings give two pending justifications; two reviews may leave one REJECTED and its
  mark JUSTIFIED; filing saves a stale mark; rejecting a justification turns a mark
  that became PRESENT into ABSENT even without a race. `generateToken` can
  reopen a closed session.
- Absenteeism: going from HIGH to MEDIUM keeps both alerts open, alerts of an earlier
  month are never resolved, a reopened alert is not told again, racing evaluations notify twice,
  deactivated rules fall back to the default thresholds, and `monthWindowFor` formats local dates in
  UTC.
- Figures: presentismo leaves out JUSTIFIED, which the history counts as attended; today's
  rate compares marks with persons; a streak of the rules breaks at weekends, the
  dashboard's does not; absences split over two groups may be HIGH and not shown; expected
  students counts every enrollment whatever its status; with a filter of ABSENT, one absence is a rate of
  100 %; the roster drops the marks of those who left the group and the history keeps them.
- Gate: the guardian is not checked again at the commit, and a permit may be used after
  midnight when no list expired it in between.
- Justifications: reviewers may attach evidence to justifications they do not see, and one who is
  a guardian as well files for his child but does not find that row in his list. The
  download asks for `attendance.view`, which guardians and students lack though its service serves them.

Office:
- `verifyAccount` counts attempts on a stale row and saves the user ACTIVE from a stale read;
  overlapping guesses count as one, so nothing bounds the guesses of a code under races; a wrong
  guess may reopen a consumed code; cut after the consumption it leaves the account PENDING.
- The second save of a login or of a refresh may clear a revocation; the administrator's edit may bring
  back an old password or status, and neither it nor a deactivation revokes sessions; a
  change that dies before `revokeAll` leaves sessions, or a usable link.
- A teacher created without department leaves a user without profile although the request
  fails; a failed `replaceRoles` leaves a user without roles; between delete and insert a role grants
  nothing; an INACTIVE role still grants its permissions.
- Renaming Administrador, renaming or demoting the seeded administrator, giving its
  national id to somebody else, recoding a
  catalogue permission alone, or dying between the seeded user and its role makes every later start
  fail. So does production with `ADMIN_PASSWORD` unset or weak, until the example
  password of the seeded administrator is replaced: `environment.validation.ts:144` does not ask for it, so
  the first start on a migrated database fails then. With `ADMIN_EMAIL` naming another user the seeded one
  keeps the example password; the protected permissions are checked under the new name of a role.
- Communications: a stale edit brings back a removed communication; two edits may leave the
  expiration before the publication; two replacements of recipients leave their union, and a crash
  between them none; two confirmations can overwrite the first; the estimated audience counts
  former enrollments and, with no recipients, everybody, while the feed shows those to nobody. The
  comment at `communications.repository.ts:431` has the estimate apply the rules of the feed, but it compares
  the role names of the database only: an Encargado sees what is aimed at "Padre de familia" and is not
  counted, and an administrator who is also Docente is counted for the teachers and does not see it.
- Import: cédulas are compared with their hyphens, the manual creation strips them, so two
  spellings are two users; a row refused for its status only is shown as ACTIVE; the preview does not look at
  seats; a crash after the commit loses the mails with the credentials.

## 7. Not modelled, and why

- Academic years, periods, sections, specialties, subjects, departments, offerings and
  assignments: catalogue maintenance, one-row writes with no protocol. The requests that change an
  assignment, its group or its offering while it is booked are held off by the row locks `ScheduleBooking` models.
- Dashboard, public pages, legacy appeals and students modules: queries and stubs.
- Mail, storage and the external API: I/O adapters; a lost mail is an action of the modules that send.
- The migrations runner and the scripts: run by an operator, outside the server.
- Configuration, error formatting, health.
- Of the modelled components: the precautionary measures of an investigation (one-row writes
  next to the case), the texts of communications and notices, the attachments and paged
  lists of communications, the register of results a client reports after an import, the active
  flag, description and reports of roles, the other roles of later migrations, and of a start the repair of
  texts and the academic period and the specialty it seeds, the read mark of absenteeism notifications, counts of
  open sessions, sorting, pages, PDF and spreadsheet layouts.
- Hazards without a property: `remove()` of entries without a transaction and the reviews
  and filings of justifications that race (the code gives no protection, so what one
  would ask does not hold), and the connection pool, where bookings wait for a second
  connection while they hold one.

## 8. What is left

- Models: the precautionary measures; the maintenance of years and periods, whose closing
  touches enrollments; the connection pool next to `ScheduleBooking`; a crash of the migrations runner between running and
  recording a file.
