--------------------------- MODULE ScheduleBooking ---------------------------
(***************************************************************************)
(* The weekly schedule: entries that book a teaching assignment in a day   *)
(* and a time slot, the time slots themselves, and the attendance sessions *)
(* started from the schedule, which freeze the run of blocks they anchor.  *)
(*                                                                         *)
(* Every statement that a request awaits is a step.  MySQL is modelled by  *)
(* what the services rely on: row locks held until the end of the          *)
(* transaction, named locks held until RELEASE_LOCK, and the REPEATABLE    *)
(* READ snapshot, opened by the first read that does not lock.  A          *)
(* transaction becomes visible in one step, its commit.                    *)
(***************************************************************************)
EXTENDS Integers

CONSTANTS
  Handlers,      \* requests in flight at the same time
  Assignments,   \* the impartable teaching assignments
  TeacherOf, GroupOf, OfferingOf,   \* of an assignment
  SectionOf,     \* of a group
  Days, Slots, Dates,
  Shapes,        \* the times, type and state an administrator gives a slot;
                 \* BREAK stands for LUNCH too, lesson 0 for none
  Seed,          \* the slots of migration 012
  MaxEntry,      \* bound: entries created in a behaviour
  None, Unborn, Removed

\* An entry row without its id: what it books.
Cells    == [ta : Assignments, day : Days, slot : Slots]
EntryIds == 1..MaxEntry
Present(x) == x # None

Overlap(x, y) == x.start < y.end /\ x.end > y.start

\* Two active slots may share neither time, nor order, nor lesson number.
Clash(x, y) ==
  \/ Overlap(x, y)
  \/ x.order = y.order
  \/ x.type = "CLASS" /\ y.type = "CLASS" /\ x.lesson = y.lesson /\ x.lesson # 0

ASSUME ConstantsAssumption ==
  /\ MaxEntry \in Nat
  /\ None \notin Cells \cup Shapes \cup Slots
  /\ Unborn \notin Shapes /\ Removed \notin Shapes
  /\ Shapes \subseteq [type : {"CLASS", "BREAK"}, active : BOOLEAN, start : Nat, end : Nat,
                       order : Nat, lesson : Nat]
  /\ \A x \in Shapes : x.start < x.end /\ (x.type = "BREAK" => x.lesson = 0)
  /\ Seed \in [Slots -> Shapes \cup {Unborn}]
  /\ \A s, t \in Slots : {Seed[s], Seed[t]} \subseteq Shapes /\ s # t
       /\ Seed[s].active /\ Seed[t].active => ~Clash(Seed[s], Seed[t])

VARIABLES
  entries,    \* schedule_entries: id -> what it books
  nextId,     \* its auto-increment
  slots,      \* schedule_time_slots
  sessions,   \* attendance_sessions started from the schedule, with the audited run
  rows,       \* row locks: handler -> rows it holds FOR UPDATE
  named,      \* named locks: handler -> keys it got with GET_LOCK
  call        \* the requests in flight

tables == <<entries, nextId, slots, sessions>>
locks  == <<rows, named>>
vars   == <<entries, nextId, slots, sessions, rows, named, call>>

-----------------------------------------------------------------------------
Session == [anchor : EntryIds, date : Dates, run : SUBSET EntryIds]

Snapshot == [ entries : [EntryIds -> Cells \cup {None}],
              slots : [Slots -> Shapes \cup {Unborn, Removed}],
              sessions : SUBSET Session ]
Committed == [entries |-> entries, slots |-> slots, sessions |-> sessions]

Phases == {"idle", "assignment", "assignable", "slot", "group_lock", "teacher_lock", "work",
           "read_run", "read_use", "delete", "insert_session",
           "slot_row", "slot_read", "slot_write", "release"}

Call == [ phase : Phases,
          op : {"none", "create", "update", "remove", "session",
                "createSlot", "updateSlot", "removeSlot"},
          id : 0..MaxEntry, cell : Cells \cup {None}, slot : Slots \cup {None},
          shape : Shapes \cup {None}, snap : Snapshot \cup {None},
          anchor : 0..MaxEntry, run : SUBSET EntryIds ]

Idle == [ phase |-> "idle", op |-> "none", id |-> 0, cell |-> None, slot |-> None,
          shape |-> None, snap |-> None, anchor |-> 0, run |-> {} ]

\* The rows locked with an assignment: FOR UPDATE reaches every joined table.
AssignmentRows(a) ==
  {<<"assignment", a>>, <<"group", GroupOf[a]>>,
   <<"section", SectionOf[GroupOf[a]]>>, <<"offering", OfferingOf[a]>>}
SlotRow(s)  == <<"slot", s>>
EntryRow(i) == <<"entry", i>>
Row == (UNION {AssignmentRows(a) : a \in Assignments})
         \cup {SlotRow(s) : s \in Slots} \cup {EntryRow(i) : i \in EntryIds}

\* buildScheduleConflictLockKeys, in the order of sort().
GroupKey(c)   == <<"g", GroupOf[c.ta], c.day, c.slot>>
TeacherKey(c) == <<"t", TeacherOf[c.ta], c.day, c.slot>>
SlotsKey      == <<"time-slots:mutate">>
Key == {GroupKey(c) : c \in Cells} \cup {TeacherKey(c) : c \in Cells} \cup {SlotsKey}

RowsFree(h, wanted) == \A g \in Handlers \ {h} : rows[g] \cap wanted = {}

\* Slip: whatever GET_LOCK answers counts as acquired.
LockResultIgnored(h, key) == TRUE

KeyFree(h, key) == \A g \in Handlers \ {h} : key \notin named[g]

-----------------------------------------------------------------------------
(* Occurrences: the maximal runs of contiguous CLASS blocks of one         *)
(* assignment and day, in the entries E over the slots S.                  *)
Bucket(E, S, a, d) ==
  {i \in DOMAIN E : Present(E[i]) /\ E[i].ta = a /\ E[i].day = d /\ S[E[i].slot].type = "CLASS"}

\* compareOccurrenceEntries: start, end, display order, id.
Before(E, S, i, j) ==
  LET x == S[E[i].slot]  y == S[E[j].slot] IN
  \/ x.start < y.start
  \/ x.start = y.start /\ x.end < y.end
  \/ x.start = y.start /\ x.end = y.end /\ x.order < y.order
  \/ x.start = y.start /\ x.end = y.end /\ x.order = y.order /\ i < j

\* No gap in the sorted bucket B from i to j.
Contiguous(E, S, B, i, j) ==
  \A u, v \in B :
    /\ ~Before(E, S, u, i) /\ ~Before(E, S, j, v) /\ Before(E, S, u, v)
    /\ ~\E w \in B : Before(E, S, u, w) /\ Before(E, S, w, v)
    => S[E[u].slot].end = S[E[v].slot].start

\* resolveOccurrenceForEntry on the entries of assignment a and day d.
RunOf(E, S, a, d, i) ==
  LET B == Bucket(E, S, a, d) IN
  IF i \in B THEN {j \in B : Contiguous(E, S, B, i, j) /\ Contiguous(E, S, B, j, i)} ELSE {}

IsAnchor(E, S, run, i) == i \in run /\ \A j \in run \ {i} : Before(E, S, i, j)

\* The entry belongs to a run whose anchor has attendance.
InUse(E, S, X, i) ==
  LET run == RunOf(E, S, E[i].ta, E[i].day, i) IN
  \E x \in X : IsAnchor(E, S, run, x.anchor)

-----------------------------------------------------------------------------
Init ==
  /\ entries = [i \in EntryIds |-> None] /\ nextId = 1
  /\ slots = Seed /\ sessions = {}
  /\ rows = [h \in Handlers |-> {}] /\ named = [h \in Handlers |-> {}]
  /\ call = [h \in Handlers |-> Idle]

Goto(h, phase) == call' = [call EXCEPT ![h].phase = phase]

\* Ends a request that holds nothing.
Finish(h) == call' = [call EXCEPT ![h] = Idle]

\* COMMIT: the row locks go, the named locks stay until RELEASE_LOCK.
Commit(h) ==
  /\ rows' = [rows EXCEPT ![h] = {}]
  /\ call' = [call EXCEPT ![h] = [Idle EXCEPT !.phase = "release"]]
  /\ UNCHANGED named

\* releaseScheduleConflictLocks and releaseScheduleTimeSlotsMutateLock.
ReleaseLocks(h) ==
  /\ call[h].phase = "release"
  /\ named' = [named EXCEPT ![h] = {}]
  /\ Finish(h)
  /\ UNCHANGED <<tables, rows>>

\* A thrown check, a lock timeout or a lost connection: ROLLBACK, RELEASE_LOCK.
Abort(h) ==
  /\ call[h].phase \notin {"idle", "release"}
  /\ rows' = [rows EXCEPT ![h] = {}] /\ named' = [named EXCEPT ![h] = {}]
  /\ Finish(h)
  /\ UNCHANGED tables

-----------------------------------------------------------------------------
(* ScheduleEntriesService.create and update                                *)
Create(h) ==
  \E c \in Cells :
    /\ call[h].phase = "idle"
    /\ call' = [call EXCEPT ![h] = [Idle EXCEPT !.phase = "assignment", !.op = "create",
                                                !.cell = c]]
    /\ UNCHANGED <<tables, locks>>

\* Slip: a time slot missing from the DTO is not taken from the entry.
UpdateUndefaulted(h) ==
  \E i \in EntryIds, c \in Cells :
    /\ call[h].phase = "idle" /\ Present(entries[i]) /\ RowsFree(h, {EntryRow(i)})
    /\ rows' = [rows EXCEPT ![h] = {EntryRow(i)}]
    /\ call' = [call EXCEPT ![h] = [Idle EXCEPT !.phase = "assignment", !.op = "update",
                                                !.id = i, !.cell = [c EXCEPT !.slot = None]]]
    /\ UNCHANGED <<tables, named>>

\* The entry is read FOR UPDATE; the DTO may keep or change each field.
Update(h) ==
  \E i \in EntryIds, c \in Cells :
    /\ call[h].phase = "idle" /\ Present(entries[i]) /\ RowsFree(h, {EntryRow(i)})
    /\ rows' = [rows EXCEPT ![h] = {EntryRow(i)}]
    /\ call' = [call EXCEPT ![h] = [Idle EXCEPT !.phase = "assignment", !.op = "update",
                                                !.id = i, !.cell = c]]
    /\ UNCHANGED <<tables, named>>

\* Slip: the assignment is locked without the relations it is read with.
LockAssignmentOnly(h) ==
  LET wanted == {<<"assignment", call[h].cell.ta>>} IN
  /\ call[h].phase = "assignment" /\ RowsFree(h, wanted)
  /\ rows' = [rows EXCEPT ![h] = @ \cup wanted]
  /\ Goto(h, "assignable")
  /\ UNCHANGED <<tables, named>>

\* loadAndValidateTeachingAssignment: a locking read, it opens no snapshot.
LockAssignment(h) ==
  LET wanted == AssignmentRows(call[h].cell.ta) IN
  /\ call[h].phase = "assignment" /\ RowsFree(h, wanted)
  /\ rows' = [rows EXCEPT ![h] = @ \cup wanted]
  /\ Goto(h, "assignable")
  /\ UNCHANGED <<tables, named>>

\* requireAssignableSlot: the first plain read of the transaction, hence its snapshot.
RequireAssignableSlot(h) ==
  LET slot == slots[call[h].cell.slot] IN
  /\ call[h].phase = "assignable"
  /\ slot \in Shapes /\ slot.active /\ slot.type = "CLASS"
  /\ call' = [call EXCEPT ![h].phase = "slot", ![h].snap = Committed]
  /\ UNCHANGED <<tables, locks>>

\* Slip: the slot is looked up again without locking it.
FindTimeSlot(h) ==
  /\ call[h].phase = "slot" /\ slots[call[h].cell.slot] \in Shapes
  /\ Goto(h, "group_lock")
  /\ UNCHANGED <<tables, locks>>

\* lockTimeSlot: only the existence of the row is looked at again.
LockTimeSlot(h) ==
  LET slot == call[h].cell.slot IN
  /\ call[h].phase = "slot" /\ slots[slot] \in Shapes /\ RowsFree(h, {SlotRow(slot)})
  /\ rows' = [rows EXCEPT ![h] = @ \cup {SlotRow(slot)}]
  /\ Goto(h, "group_lock")
  /\ UNCHANGED <<tables, named>>

GetLock(h, key, next) ==
  /\ KeyFree(h, key)
  /\ named' = [named EXCEPT ![h] = @ \cup {key}]
  /\ Goto(h, next)
  /\ UNCHANGED <<tables, rows>>

\* acquireScheduleConflictLocks, one GET_LOCK at a time.
AcquireConflictLock(h) ==
  \/ call[h].phase = "group_lock" /\ GetLock(h, GroupKey(call[h].cell), "teacher_lock")
  \/ call[h].phase = "teacher_lock" /\ GetLock(h, TeacherKey(call[h].cell), "work")

\* assertNoConflicts, on the snapshot; the entry being updated is left out.
NoConflicts(snap, c, self) ==
  \A i \in EntryIds \ {self} :
    LET e == snap.entries[i] IN
    Present(e) /\ e.day = c.day /\ e.slot = c.slot =>
      TeacherOf[e.ta] # TeacherOf[c.ta] /\ GroupOf[e.ta] # GroupOf[c.ta]

\* The unique index on assignment, day and slot, over what is committed.
Unique(c, self) == \A i \in EntryIds \ {self} : entries[i] # c

\* The entries E with c booked as entry id; 0 stands for the entry to come.
Planned(E, c, id) == [i \in EntryIds \cup {id} |-> IF i = id THEN c ELSE E[i]]

\* assertCreateDoesNotJoinUsedOccurrence
JoinsNoUsedRun(snap, c) ==
  \A i \in RunOf(Planned(snap.entries, c, 0), snap.slots, c.ta, c.day, 0) \ {0} :
    ~InUse(snap.entries, snap.slots, snap.sessions, i)

\* Slip: only the run the entry joins is looked at, not the one it leaves.
JoinedRunOnly(snap, c, self) ==
  LET without == Planned(snap.entries, None, self) IN
  \A i \in RunOf(Planned(snap.entries, c, self), snap.slots, c.ta, c.day, self) \ {self} :
    ~InUse(without, snap.slots, snap.sessions, i)

\* assertUpdateDoesNotAffectUsedOccurrence: neither the run it leaves nor the one it joins.
TouchesNoUsedRun(snap, c, self) ==
  LET without == Planned(snap.entries, None, self) IN
  c # snap.entries[self] =>
    /\ ~InUse(snap.entries, snap.slots, snap.sessions, self)
    /\ \A i \in RunOf(Planned(snap.entries, c, self), snap.slots, c.ta, c.day, self) \ {self} :
         ~InUse(without, snap.slots, snap.sessions, i)

\* The insert and the COMMIT; what is not visible to others in between is one step.
SaveNew(h) ==
  LET c == call[h].cell  snap == call[h].snap IN
  /\ call[h].phase = "work" /\ call[h].op = "create"
  /\ NoConflicts(snap, c, 0) /\ JoinsNoUsedRun(snap, c) /\ Unique(c, 0)
  /\ nextId <= MaxEntry
  /\ entries' = [entries EXCEPT ![nextId] = c] /\ nextId' = nextId + 1
  /\ Commit(h)
  /\ UNCHANGED <<slots, sessions>>

SaveMoved(h) ==
  LET c == call[h].cell  snap == call[h].snap  i == call[h].id IN
  /\ call[h].phase = "work" /\ call[h].op = "update"
  /\ NoConflicts(snap, c, i) /\ TouchesNoUsedRun(snap, c, i) /\ Unique(c, i)
  /\ entries' = [entries EXCEPT ![i] = c]
  /\ Commit(h)
  /\ UNCHANGED <<nextId, slots, sessions>>

-----------------------------------------------------------------------------
(* ScheduleEntriesService.remove: four statements and no transaction.      *)
Remove(h) ==
  \E i \in EntryIds :
    /\ call[h].phase = "idle" /\ Present(entries[i])
    /\ call' = [call EXCEPT ![h] = [Idle EXCEPT !.phase = "read_run", !.op = "remove",
                                                !.id = i, !.cell = entries[i]]]
    /\ UNCHANGED <<tables, locks>>

\* AttendanceSessionsService.createSessionFromSchedule reads the seed entry.
StartSession(h) ==
  \E i \in EntryIds :
    /\ call[h].phase = "idle" /\ Present(entries[i])
    /\ call' = [call EXCEPT ![h] = [Idle EXCEPT !.phase = "read_run", !.op = "session",
                                                !.id = i, !.cell = entries[i]]]
    /\ UNCHANGED <<tables, locks>>

\* The siblings are read by the assignment and day the entry had; an entry that
\* is no longer among them has no run, and no anchor.
ReadRun(h) ==
  LET run == RunOf(entries, slots, call[h].cell.ta, call[h].cell.day, call[h].id) IN
  /\ call[h].phase = "read_run"
  /\ \/ /\ call[h].op = "remove"
        /\ \E a \in EntryIds \cup {0} :
             /\ IsAnchor(entries, slots, run, a) \/ (run = {} /\ a = 0)
             /\ call' = [call EXCEPT ![h].phase = "read_use", ![h].anchor = a]
     \/ /\ call[h].op = "session"
        /\ \E a \in run :
             /\ IsAnchor(entries, slots, run, a)
             /\ call' = [call EXCEPT ![h].phase = "insert_session", ![h].anchor = a,
                                     ![h].run = run]
  /\ UNCHANGED <<tables, locks>>

\* assertDeleteDoesNotAffectUsedOccurrence: the sessions are read after the runs.
ReadUse(h) ==
  /\ call[h].phase = "read_use"
  /\ \A x \in sessions : x.anchor # call[h].anchor
  /\ Goto(h, "delete")
  /\ UNCHANGED <<tables, locks>>

\* DELETE by id waits for the row lock; the foreign key protects an anchor.
Delete(h) ==
  LET i == call[h].id IN
  /\ call[h].phase = "delete" /\ RowsFree(h, {EntryRow(i)})
  /\ \A x \in sessions : x.anchor # i
  /\ entries' = [entries EXCEPT ![i] = None]
  /\ Finish(h)
  /\ UNCHANGED <<nextId, slots, sessions, locks>>

\* The session row and its audit entry; unique by anchor and date, otherwise
\* the request returns the row of the other one.
InsertSession(h) ==
  LET a == call[h].anchor IN
  \E date \in Dates :
    /\ call[h].phase = "insert_session"
    /\ Present(entries[a]) /\ RowsFree(h, {EntryRow(a)})
    /\ \A x \in sessions : ~(x.anchor = a /\ x.date = date)
    /\ sessions' = sessions \cup {[anchor |-> a, date |-> date, run |-> call[h].run]}
    /\ Finish(h)
    /\ UNCHANGED <<entries, nextId, slots, locks>>

-----------------------------------------------------------------------------
(* ScheduleTimeSlotsService: GET_LOCK first, then the transaction.         *)
MutateSlot(h) ==
  \E op \in {"createSlot", "updateSlot", "removeSlot"}, s \in Slots, shape \in Shapes \cup {None} :
    /\ op = "removeSlot" <=> shape = None
    /\ call[h].phase = "idle" /\ KeyFree(h, SlotsKey)
    /\ op = "createSlot" => slots[s] = Unborn
    /\ named' = [named EXCEPT ![h] = {SlotsKey}]
    /\ call' = [call EXCEPT ![h] =
         [Idle EXCEPT !.phase = IF op = "createSlot" THEN "slot_read" ELSE "slot_row",
                      !.op = op, !.slot = s, !.shape = shape]]
    /\ UNCHANGED <<tables, rows>>

LockSlotRow(h) ==
  LET s == call[h].slot IN
  /\ call[h].phase = "slot_row" /\ slots[s] \in Shapes /\ RowsFree(h, {SlotRow(s)})
  /\ rows' = [rows EXCEPT ![h] = {SlotRow(s)}]
  /\ Goto(h, "slot_read")
  /\ UNCHANGED <<tables, named>>

\* exists(entries), or the overlap query of create: the snapshot, opened under the locks.
ReadSlotUse(h) ==
  /\ call[h].phase = "slot_read"
  /\ call' = [call EXCEPT ![h].phase = "slot_write", ![h].snap = Committed]
  /\ UNCHANGED <<tables, locks>>

Booked(E, s) == \E i \in EntryIds : Present(E[i]) /\ E[i].slot = s

\* assertNoActiveOverlap, assertActiveDisplayOrderFree, assertActiveLessonNumberFree.
FreeOfClashes(snap, s, shape) ==
  shape.active =>
    \A t \in Slots \ {s} :
      snap.slots[t] \in Shapes /\ snap.slots[t].active => ~Clash(shape, snap.slots[t])

\* A booked slot keeps its times and its type.
KeepsBlock(old, new) == old.start = new.start /\ old.end = new.end /\ old.type = new.type

WriteSlot(h) ==
  LET s == call[h].slot  shape == call[h].shape  snap == call[h].snap IN
  /\ call[h].phase = "slot_write"
  /\ \/ /\ call[h].op = "createSlot"
        /\ FreeOfClashes(snap, s, shape)
        /\ slots' = [slots EXCEPT ![s] = shape]
     \/ /\ call[h].op = "updateSlot"
        /\ Booked(snap.entries, s) => KeepsBlock(slots[s], shape)
        /\ FreeOfClashes(snap, s, shape)
        /\ slots' = [slots EXCEPT ![s] = shape]
     \/ /\ call[h].op = "removeSlot"
        /\ ~Booked(snap.entries, s) /\ ~Booked(entries, s)
        /\ slots' = [slots EXCEPT ![s] = Removed]
  /\ Commit(h)
  /\ UNCHANGED <<entries, nextId, sessions>>

-----------------------------------------------------------------------------
Next ==
  \E h \in Handlers :
    \/ Create(h) \/ Update(h) \/ LockAssignment(h) \/ RequireAssignableSlot(h) \/ LockTimeSlot(h)
    \/ AcquireConflictLock(h) \/ SaveNew(h) \/ SaveMoved(h)
    \/ Remove(h) \/ StartSession(h) \/ ReadRun(h) \/ ReadUse(h) \/ Delete(h) \/ InsertSession(h)
    \/ MutateSlot(h) \/ LockSlotRow(h) \/ ReadSlotUse(h) \/ WriteSlot(h)
    \/ ReleaseLocks(h) \/ Abort(h)

Spec == Init /\ [][Next]_vars

-----------------------------------------------------------------------------
(* Type correctness of the tables, the locks and the requests in flight.   *)
TypeOK ==
  /\ entries \in [EntryIds -> Cells \cup {None}] /\ nextId \in 1..(MaxEntry + 1)
  /\ slots \in [Slots -> Shapes \cup {Unborn, Removed}]
  /\ sessions \subseteq Session
  /\ rows \in [Handlers -> SUBSET Row] /\ named \in [Handlers -> SUBSET Key]
  /\ call \in [Handlers -> Call]

Conflict(c, d) ==
  /\ c.day = d.day /\ c.slot = d.slot
  /\ TeacherOf[c.ta] = TeacherOf[d.ta] \/ GroupOf[c.ta] = GroupOf[d.ta]

(* Two entries that occupy the same teacher or group at the same time      *)
(* belong to assignments whose locked rows are disjoint.  The snapshot is  *)
(* older than the named locks, so what keeps bookings apart are the rows   *)
(* that loadAndValidateTeachingAssignment locks before the snapshot opens: *)
(* a group is never double-booked, nor a teacher within a section or an    *)
(* offering (schedule-entries.service.ts create, update).                  *)
SharedRowsSerialise ==
  \A i, j \in EntryIds :
    i # j /\ Present(entries[i]) /\ Present(entries[j]) /\ Conflict(entries[i], entries[j]) =>
      AssignmentRows(entries[i].ta) \cap AssignmentRows(entries[j].ta) = {}

(* What the conflict checks and the named locks are there for: no teacher  *)
(* is booked twice in the same day and slot (migration 013, header).       *)
TeachersNotDoubleBooked ==
  \A i, j \in EntryIds :
    i # j /\ Present(entries[i]) /\ Present(entries[j])
      /\ entries[i].day = entries[j].day /\ entries[i].slot = entries[j].slot =>
        TeacherOf[entries[i].ta] # TeacherOf[entries[j].ta]

(* Active slots never overlap in time nor share an order or lesson number, *)
(* whatever administrators edit at the same time: the mutate lock is taken *)
(* before the transaction starts (schedule-time-slots.service.ts).         *)
ActiveSlotsDisjoint ==
  \A s, t \in Slots :
    s # t /\ slots[s] \in Shapes /\ slots[t] \in Shapes /\ slots[s].active /\ slots[t].active =>
      ~Clash(slots[s], slots[t])

(* A slot that holds entries keeps its times, its type and its row, also   *)
(* against a booking committed while the edit is under way.                *)
BookedSlotsKept ==
  [][\A s \in Slots : Booked(entries, s) =>
       slots'[s] \in Shapes /\ KeepsBlock(slots[s], slots'[s])]_vars

\* The blocks of an assignment and day do not overlap.
BlocksDisjoint(E, S, a, d) ==
  \A i, j \in Bucket(E, S, a, d) : i # j => ~Overlap(S[E[i].slot], S[E[j].slot])

\* The occurrence of session x is still the run its audit entry recorded.
Intact(E, S, x) ==
  LET e == E[x.anchor] IN
  /\ Present(e) /\ x.run = RunOf(E, S, e.ta, e.day, x.anchor)
  /\ IsAnchor(E, S, x.run, x.anchor)

(* A booking never adds a block to, or takes one from, an occurrence whose *)
(* attendance its transaction could see, unless its slot was edited after  *)
(* it was checked or blocks of that day overlap: in the tables, in what it *)
(* read, or with what it books.  (Slots that are not active may overlap,   *)
(* and a block between two others that leaves joins what it kept apart.)   *)
(* The checks read a snapshot that may be several commits old: nothing     *)
(* else committed since then makes their answer wrong                      *)
(* (assertCreateDoesNotJoinUsedOccurrence, assertUpdateDoesNotAffect...).  *)
SeenOccurrencesKept ==
  [][\A h \in Handlers :
       call[h].phase = "work" /\ call'[h].phase = "release" =>
         \A x \in call[h].snap.sessions :
           LET snap == call[h].snap  e == entries[x.anchor]  c == call[h].cell IN
           /\ snap.slots[c.slot] = slots[c.slot]
           /\ Intact(snap.entries, snap.slots, x) /\ Intact(entries, slots, x)
           /\ BlocksDisjoint(entries, slots, e.ta, e.day)
           /\ BlocksDisjoint(snap.entries, snap.slots, e.ta, e.day)
           /\ BlocksDisjoint(Planned(snap.entries, c, call[h].id), snap.slots, e.ta, e.day)
           => Intact(entries', slots', x)]_vars

=============================================================================
