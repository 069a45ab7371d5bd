------------------------ MODULE ScheduleBookingProofs ------------------------
(***************************************************************************)
(* Theorems about ScheduleBooking for every number of handlers, every      *)
(* timetable and every assignment of teachers, groups and offerings.       *)
(***************************************************************************)
EXTENDS ScheduleBooking, Counting, TLAPS

Booking  == {"assignable", "slot", "group_lock", "teacher_lock", "work"}
Seeing   == {"slot", "group_lock", "teacher_lock", "work"}
Holding  == {"group_lock", "teacher_lock", "work"}
Reading  == {"read_run", "read_use", "delete", "insert_session"}
SlotEdit == {"slot_row", "slot_read", "slot_write"}

-----------------------------------------------------------------------------
(* Types: what a request in flight carries in each phase.                  *)
CallShaped(c) ==
  /\ c.phase \in {"assignment"} \cup Booking => c.cell \in Cells /\ c.op \in {"create", "update"}
  /\ c.phase \in Reading => c.cell \in Cells /\ c.id \in EntryIds /\ c.op \in {"remove", "session"}
  /\ c.op = "update" => c.id \in EntryIds
  /\ c.phase \in Seeing \cup {"slot_write"} => c.snap \in Snapshot
  /\ c.phase = "insert_session" => c.anchor \in EntryIds
  /\ c.phase \in SlotEdit => /\ c.slot \in Slots
                             /\ c.op \in {"createSlot", "updateSlot", "removeSlot"}
                             /\ c.op # "removeSlot" => c.shape \in Shapes

Shaped == \A h \in Handlers : CallShaped(call[h])

LEMMA IdsTyped == 0 \in 0..MaxEntry /\ \A i \in EntryIds : i \in 0..MaxEntry
  BY ConstantsAssumption DEF EntryIds

LEMMA IdleTyped == Idle \in Call /\ CallShaped(Idle)
  BY ConstantsAssumption
  DEF Idle, Call, Phases, CallShaped, Booking, Seeing, Reading, SlotEdit

LEMMA ReleaseTyped ==
  LET r == [Idle EXCEPT !.phase = "release"] IN r \in Call /\ CallShaped(r)
  BY ConstantsAssumption
  DEF Idle, Call, Phases, CallShaped, Booking, Seeing, Reading, SlotEdit

LEMMA CommittedTyped == TypeOK => Committed \in Snapshot
  BY DEF TypeOK, Committed, Snapshot

LEMMA RunTyped ==
  ASSUME NEW a, NEW d, NEW i, TypeOK
  PROVE  RunOf(entries, slots, a, d, i) \subseteq EntryIds
  BY DEF RunOf, Bucket, TypeOK

LEMMA RowsTyped ==
  /\ \A a \in Assignments : AssignmentRows(a) \subseteq Row
  /\ \A s \in Slots : SlotRow(s) \in Row
  /\ \A i \in EntryIds : EntryRow(i) \in Row
<1>1. \A a \in Assignments : AssignmentRows(a) \subseteq UNION {AssignmentRows(b) : b \in Assignments}
  OBVIOUS
<1>2. \A s \in Slots : SlotRow(s) \in {SlotRow(t) : t \in Slots}
  OBVIOUS
<1>3. \A i \in EntryIds : EntryRow(i) \in {EntryRow(j) : j \in EntryIds}
  OBVIOUS
<1> QED BY <1>1, <1>2, <1>3, Zenon DEF Row

LEMMA KeysTyped ==
  /\ SlotsKey \in Key /\ \A c \in Cells : GroupKey(c) \in Key /\ TeacherKey(c) \in Key
  BY DEF Key

LEMMA InitTyped == Init => TypeOK /\ Shaped
<1> SUFFICES ASSUME Init PROVE TypeOK /\ Shaped
  OBVIOUS
<1>1. call \in [Handlers -> Call] /\ Shaped
  BY IdleTyped DEF Init, Shaped
<1>2. /\ entries \in [EntryIds -> Cells \cup {None}] /\ nextId \in 1..(MaxEntry + 1)
      /\ slots \in [Slots -> Shapes \cup {Unborn, Removed}] /\ sessions \subseteq Session
      /\ rows \in [Handlers -> SUBSET Row] /\ named \in [Handlers -> SUBSET Key]
  BY ConstantsAssumption DEF Init
<1> QED BY <1>1, <1>2 DEF TypeOK

\* The type of call after a step of h is the type of call'[h].
LEMMA OneCallTyped ==
  ASSUME TypeOK, Shaped, NEW h \in Handlers, NEW c \in Call, CallShaped(c),
         call' = [call EXCEPT ![h] = c]
  PROVE  call' \in [Handlers -> Call] /\ Shaped'
  BY DEF TypeOK, Shaped

LEMMA FinishTyped ==
  ASSUME TypeOK, Shaped, NEW h \in Handlers, Finish(h)
  PROVE  call' \in [Handlers -> Call] /\ Shaped'
  BY IdleTyped, OneCallTyped DEF Finish

LEMMA CommitTyped ==
  ASSUME TypeOK, Shaped, NEW h \in Handlers, Commit(h)
  PROVE  /\ call' \in [Handlers -> Call] /\ Shaped'
         /\ rows' \in [Handlers -> SUBSET Row] /\ named' \in [Handlers -> SUBSET Key]
<1>1. call' \in [Handlers -> Call] /\ Shaped'
  BY ReleaseTyped, OneCallTyped DEF Commit
<1> QED BY <1>1 DEF Commit, TypeOK

LEMMA StepTyped ==
  ASSUME TypeOK, Shaped, [Next]_vars
  PROVE  TypeOK' /\ Shaped'
<1> USE DEF tables, locks
<1>0. \A h \in Handlers : call[h] \in Call /\ CallShaped(call[h])
  BY DEF TypeOK, Shaped
<1>1. ASSUME NEW h \in Handlers, Create(h) PROVE TypeOK' /\ Shaped'
  <2>1. PICK c \in Cells :
          call' = [call EXCEPT ![h] = [Idle EXCEPT !.phase = "assignment", !.op = "create",
                                                  !.cell = c]]
    BY <1>1 DEF Create
  <2> DEFINE r == [Idle EXCEPT !.phase = "assignment", !.op = "create", !.cell = c]
  <2>2. r \in Call /\ CallShaped(r)
    BY IdleTyped DEF Idle, Call, Phases, CallShaped, Booking, Seeing, Reading, SlotEdit
  <2> HIDE DEF r
  <2>3. call' = [call EXCEPT ![h] = r]
    BY <2>1 DEF r
  <2>4. call' \in [Handlers -> Call] /\ Shaped'
    BY <2>2, <2>3, OneCallTyped
  <2> QED BY <1>1, <2>4 DEF Create, TypeOK
<1>2. ASSUME NEW h \in Handlers, Update(h) PROVE TypeOK' /\ Shaped'
  <2>1. PICK i \in EntryIds, c \in Cells :
          /\ rows' = [rows EXCEPT ![h] = {EntryRow(i)}]
          /\ call' = [call EXCEPT ![h] = [Idle EXCEPT !.phase = "assignment", !.op = "update",
                                                     !.id = i, !.cell = c]]
    BY <1>2 DEF Update
  <2> DEFINE r == [Idle EXCEPT !.phase = "assignment", !.op = "update", !.id = i, !.cell = c]
  <2>2. r \in Call
    BY IdleTyped, IdsTyped DEF Idle, Call, Phases
  <2>6. CallShaped(r)
    BY DEF Idle, CallShaped, Booking, Seeing, Reading, SlotEdit
  <2> HIDE DEF r
  <2>3. call' = [call EXCEPT ![h] = r]
    BY <2>1 DEF r
  <2>4. call' \in [Handlers -> Call] /\ Shaped'
    BY <2>2, <2>3, <2>6, OneCallTyped
  <2>5. rows' \in [Handlers -> SUBSET Row]
    BY <2>1, RowsTyped DEF TypeOK
  <2> QED BY <1>2, <2>4, <2>5 DEF Update, TypeOK
<1>3. ASSUME NEW h \in Handlers, LockAssignment(h) PROVE TypeOK' /\ Shaped'
  <2> DEFINE r == [call[h] EXCEPT !.phase = "assignable"]
  <2>1. r \in Call /\ CallShaped(r) /\ call[h].cell \in Cells
    BY <1>0, <1>3 DEF LockAssignment, Call, Phases, CallShaped, Booking, Seeing, Reading, SlotEdit
  <2>2. call' = [call EXCEPT ![h] = r]
    BY <1>3 DEF LockAssignment, Goto, TypeOK
  <2> HIDE DEF r
  <2>3. call' \in [Handlers -> Call] /\ Shaped'
    BY <2>1, <2>2, OneCallTyped
  <2>4. AssignmentRows(call[h].cell.ta) \subseteq Row
    BY <2>1, RowsTyped DEF Cells
  <2>5. rows' \in [Handlers -> SUBSET Row]
    BY <1>3, <2>4 DEF LockAssignment, TypeOK
  <2> QED BY <1>3, <2>3, <2>5 DEF LockAssignment, TypeOK
<1>4. ASSUME NEW h \in Handlers, RequireAssignableSlot(h) PROVE TypeOK' /\ Shaped'
  <2> DEFINE r == [call[h] EXCEPT !.phase = "slot", !.snap = Committed]
  <2>4. call[h].phase = "assignable"
    BY <1>4 DEF RequireAssignableSlot
  <2>1. r \in Call /\ CallShaped(r)
    BY <1>0, <2>4, CommittedTyped
    DEF Call, Phases, CallShaped, Booking, Seeing, Reading, SlotEdit
  <2>2. call' = [call EXCEPT ![h] = r]
    BY <1>4 DEF RequireAssignableSlot, Goto, TypeOK
  <2> HIDE DEF r
  <2>3. call' \in [Handlers -> Call] /\ Shaped'
    BY <2>1, <2>2, OneCallTyped
  <2> QED BY <1>4, <2>3 DEF RequireAssignableSlot, TypeOK
<1>5. ASSUME NEW h \in Handlers, LockTimeSlot(h) PROVE TypeOK' /\ Shaped'
  <2> DEFINE r == [call[h] EXCEPT !.phase = "group_lock"]
  <2>1. r \in Call /\ CallShaped(r)
    BY <1>0, <1>5
    DEF LockTimeSlot, Call, Phases, CallShaped, Booking, Seeing, Reading, SlotEdit
  <2>2. call' = [call EXCEPT ![h] = r]
    BY <1>5 DEF LockTimeSlot, Goto, TypeOK
  <2> HIDE DEF r
  <2>3. call' \in [Handlers -> Call] /\ Shaped'
    BY <2>1, <2>2, OneCallTyped
  <2>4. rows' \in [Handlers -> SUBSET Row]
    <3>1. SlotRow(call[h].cell.slot) \in Row
      BY <1>0, <1>5, RowsTyped DEF LockTimeSlot, CallShaped, Booking, Cells
    <3> QED BY <1>5, <3>1 DEF LockTimeSlot, TypeOK
  <2> QED BY <1>5, <2>3, <2>4 DEF LockTimeSlot, TypeOK
<1>6. ASSUME NEW h \in Handlers, AcquireConflictLock(h) PROVE TypeOK' /\ Shaped'
  <2>1. call[h].phase \in {"group_lock", "teacher_lock"}
    BY <1>6 DEF AcquireConflictLock
  <2>2. PICK key \in Key, next \in {"teacher_lock", "work"} : GetLock(h, key, next)
    BY <1>0, <1>6, <2>1, KeysTyped DEF AcquireConflictLock, CallShaped, Booking
  <2> DEFINE r == [call[h] EXCEPT !.phase = next]
  <2>3. r \in Call /\ CallShaped(r)
    BY <1>0, <2>1 DEF Call, Phases, CallShaped, Booking, Seeing, Reading, SlotEdit
  <2>4. call' = [call EXCEPT ![h] = r]
    BY <2>2 DEF GetLock, Goto, TypeOK
  <2> HIDE DEF r
  <2>5. call' \in [Handlers -> Call] /\ Shaped'
    BY <2>3, <2>4, OneCallTyped
  <2>6. named' \in [Handlers -> SUBSET Key]
    BY <2>2 DEF GetLock, TypeOK
  <2> QED BY <2>2, <2>5, <2>6 DEF GetLock, TypeOK
<1>7. ASSUME NEW h \in Handlers, SaveNew(h) PROVE TypeOK' /\ Shaped'
  <2>1. call[h].cell \in Cells
    BY <1>0, <1>7 DEF SaveNew, CallShaped, Booking
  <2>2. entries' \in [EntryIds -> Cells \cup {None}] /\ nextId' \in 1..(MaxEntry + 1)
    BY <1>7, <2>1, ConstantsAssumption DEF SaveNew, TypeOK, EntryIds
  <2> QED BY <1>7, <2>2, CommitTyped DEF SaveNew, TypeOK
<1>8. ASSUME NEW h \in Handlers, SaveMoved(h) PROVE TypeOK' /\ Shaped'
  <2>1. call[h].cell \in Cells
    BY <1>0, <1>8 DEF SaveMoved, CallShaped, Booking
  <2>2. entries' \in [EntryIds -> Cells \cup {None}]
    BY <1>8, <2>1 DEF SaveMoved, TypeOK
  <2> QED BY <1>8, <2>2, CommitTyped DEF SaveMoved, TypeOK
<1>9. ASSUME NEW h \in Handlers, Remove(h) PROVE TypeOK' /\ Shaped'
  <2>1. PICK i \in EntryIds :
          /\ Present(entries[i])
          /\ call' = [call EXCEPT ![h] = [Idle EXCEPT !.phase = "read_run", !.op = "remove",
                                                     !.id = i, !.cell = entries[i]]]
    BY <1>9 DEF Remove
  <2> DEFINE r == [Idle EXCEPT !.phase = "read_run", !.op = "remove", !.id = i, !.cell = entries[i]]
  <2>2. entries[i] \in Cells
    BY <2>1 DEF TypeOK, Present
  <2>3. r \in Call
    BY <2>2, IdleTyped, IdsTyped DEF Idle, Call, Phases
  <2>6. CallShaped(r)
    BY <2>2 DEF Idle, CallShaped, Booking, Seeing, Reading, SlotEdit
  <2>4. call' = [call EXCEPT ![h] = r]
    BY <2>1 DEF r
  <2> HIDE DEF r
  <2>5. call' \in [Handlers -> Call] /\ Shaped'
    BY <2>3, <2>4, <2>6, OneCallTyped
  <2> QED BY <1>9, <2>5 DEF Remove, TypeOK
<1>10. ASSUME NEW h \in Handlers, StartSession(h) PROVE TypeOK' /\ Shaped'
  <2>1. PICK i \in EntryIds :
          /\ Present(entries[i])
          /\ call' = [call EXCEPT ![h] = [Idle EXCEPT !.phase = "read_run", !.op = "session",
                                                     !.id = i, !.cell = entries[i]]]
    BY <1>10 DEF StartSession
  <2> DEFINE r == [Idle EXCEPT !.phase = "read_run", !.op = "session", !.id = i, !.cell = entries[i]]
  <2>2. entries[i] \in Cells
    BY <2>1 DEF TypeOK, Present
  <2>3. r \in Call
    BY <2>2, IdleTyped, IdsTyped DEF Idle, Call, Phases
  <2>6. CallShaped(r)
    BY <2>2 DEF Idle, CallShaped, Booking, Seeing, Reading, SlotEdit
  <2>4. call' = [call EXCEPT ![h] = r]
    BY <2>1 DEF r
  <2> HIDE DEF r
  <2>5. call' \in [Handlers -> Call] /\ Shaped'
    BY <2>3, <2>4, <2>6, OneCallTyped
  <2> QED BY <1>10, <2>5 DEF StartSession, TypeOK
<1>11. ASSUME NEW h \in Handlers, ReadRun(h) PROVE TypeOK' /\ Shaped'
  <2> DEFINE run == RunOf(entries, slots, call[h].cell.ta, call[h].cell.day, call[h].id)
  <2>1. run \subseteq EntryIds
    BY RunTyped
  <2>2. PICK a \in EntryIds \cup {0} :
          \/ call' = [call EXCEPT ![h].phase = "read_use", ![h].anchor = a]
          \/ a \in EntryIds /\ call' = [call EXCEPT ![h].phase = "insert_session", ![h].anchor = a,
                                                    ![h].run = run]
    BY <1>11, <2>1 DEF ReadRun
  <2> HIDE DEF run
  <2> DEFINE r == [call[h] EXCEPT !.phase = "read_use", !.anchor = a]
             q == [call[h] EXCEPT !.phase = "insert_session", !.anchor = a, !.run = run]
  <2>6. call[h].phase = "read_run"
    BY <1>11 DEF ReadRun
  <2>7. r \in Call /\ q \in Call
    BY <1>0, <2>1, IdsTyped DEF Call, Phases
  <2>3. CallShaped(r) /\ (a \in EntryIds => CallShaped(q))
    BY <1>0, <2>6 DEF Call, CallShaped, Booking, Seeing, Reading, SlotEdit
  <2>4. \/ call' = [call EXCEPT ![h] = r]
        \/ a \in EntryIds /\ call' = [call EXCEPT ![h] = q]
    BY <2>2 DEF TypeOK
  <2> HIDE DEF r, q
  <2>5. call' \in [Handlers -> Call] /\ Shaped'
    BY <2>3, <2>4, <2>7, OneCallTyped
  <2> QED BY <1>11, <2>5 DEF ReadRun, TypeOK
<1>12. ASSUME NEW h \in Handlers, ReadUse(h) PROVE TypeOK' /\ Shaped'
  <2> DEFINE r == [call[h] EXCEPT !.phase = "delete"]
  <2>1. r \in Call /\ CallShaped(r)
    BY <1>0, <1>12
    DEF ReadUse, Call, Phases, CallShaped, Booking, Seeing, Reading, SlotEdit
  <2>2. call' = [call EXCEPT ![h] = r]
    BY <1>12 DEF ReadUse, Goto, TypeOK
  <2> HIDE DEF r
  <2>3. call' \in [Handlers -> Call] /\ Shaped'
    BY <2>1, <2>2, OneCallTyped
  <2> QED BY <1>12, <2>3 DEF ReadUse, TypeOK
<1>13. ASSUME NEW h \in Handlers, Delete(h) PROVE TypeOK' /\ Shaped'
  <2>1. call' \in [Handlers -> Call] /\ Shaped'
    BY <1>13, FinishTyped DEF Delete
  <2> QED BY <1>13, <2>1 DEF Delete, TypeOK
<1>14. ASSUME NEW h \in Handlers, InsertSession(h) PROVE TypeOK' /\ Shaped'
  <2>1. call' \in [Handlers -> Call] /\ Shaped'
    BY <1>14, FinishTyped DEF InsertSession
  <2>2. sessions' \subseteq Session
    BY <1>0, <1>14 DEF InsertSession, CallShaped, Call, Session, TypeOK
  <2> QED BY <1>14, <2>1, <2>2 DEF InsertSession, TypeOK
<1>15. ASSUME NEW h \in Handlers, MutateSlot(h) PROVE TypeOK' /\ Shaped'
  <2>1. PICK op \in {"createSlot", "updateSlot", "removeSlot"}, s \in Slots,
             shape \in Shapes \cup {None} :
          /\ op = "removeSlot" <=> shape = None
          /\ call' = [call EXCEPT ![h] =
               [Idle EXCEPT !.phase = IF op = "createSlot" THEN "slot_read" ELSE "slot_row",
                            !.op = op, !.slot = s, !.shape = shape]]
    BY <1>15 DEF MutateSlot
  <2> DEFINE r == [Idle EXCEPT !.phase = IF op = "createSlot" THEN "slot_read" ELSE "slot_row",
                               !.op = op, !.slot = s, !.shape = shape]
  <2>2. r \in Call /\ CallShaped(r)
    BY <2>1, IdleTyped, ConstantsAssumption
    DEF Idle, Call, Phases, CallShaped, Booking, Seeing, Reading, SlotEdit
  <2>3. call' = [call EXCEPT ![h] = r]
    BY <2>1 DEF r
  <2> HIDE DEF r
  <2>4. call' \in [Handlers -> Call] /\ Shaped'
    BY <2>2, <2>3, OneCallTyped
  <2>5. named' \in [Handlers -> SUBSET Key]
    BY <1>15, KeysTyped DEF MutateSlot, TypeOK
  <2> QED BY <1>15, <2>4, <2>5 DEF MutateSlot, TypeOK
<1>16. ASSUME NEW h \in Handlers, LockSlotRow(h) PROVE TypeOK' /\ Shaped'
  <2> DEFINE r == [call[h] EXCEPT !.phase = "slot_read"]
  <2>1. r \in Call /\ CallShaped(r)
    BY <1>0, <1>16
    DEF LockSlotRow, Call, Phases, CallShaped, Booking, Seeing, Reading, SlotEdit
  <2>2. call' = [call EXCEPT ![h] = r]
    BY <1>16 DEF LockSlotRow, Goto, TypeOK
  <2> HIDE DEF r
  <2>3. call' \in [Handlers -> Call] /\ Shaped'
    BY <2>1, <2>2, OneCallTyped
  <2>4. rows' \in [Handlers -> SUBSET Row]
    <3>1. SlotRow(call[h].slot) \in Row
      BY <1>0, <1>16, RowsTyped DEF LockSlotRow, CallShaped, SlotEdit
    <3> QED BY <1>16, <3>1 DEF LockSlotRow, TypeOK
  <2> QED BY <1>16, <2>3, <2>4 DEF LockSlotRow, TypeOK
<1>17. ASSUME NEW h \in Handlers, ReadSlotUse(h) PROVE TypeOK' /\ Shaped'
  <2> DEFINE r == [call[h] EXCEPT !.phase = "slot_write", !.snap = Committed]
  <2>1. r \in Call /\ CallShaped(r)
    BY <1>0, <1>17, CommittedTyped
    DEF ReadSlotUse, Call, Phases, CallShaped, Booking, Seeing, Reading, SlotEdit
  <2>2. call' = [call EXCEPT ![h] = r]
    BY <1>17 DEF ReadSlotUse, Goto, TypeOK
  <2> HIDE DEF r
  <2>3. call' \in [Handlers -> Call] /\ Shaped'
    BY <2>1, <2>2, OneCallTyped
  <2> QED BY <1>17, <2>3 DEF ReadSlotUse, TypeOK
<1>18. ASSUME NEW h \in Handlers, WriteSlot(h) PROVE TypeOK' /\ Shaped'
  <2>1. slots' \in [Slots -> Shapes \cup {Unborn, Removed}]
    BY <1>0, <1>18 DEF WriteSlot, CallShaped, SlotEdit, TypeOK
  <2> QED BY <1>18, <2>1, CommitTyped DEF WriteSlot, TypeOK
<1>19. ASSUME NEW h \in Handlers, ReleaseLocks(h) PROVE TypeOK' /\ Shaped'
  <2>1. call' \in [Handlers -> Call] /\ Shaped'
    BY <1>19, FinishTyped DEF ReleaseLocks
  <2> QED BY <1>19, <2>1 DEF ReleaseLocks, TypeOK
<1>20. ASSUME NEW h \in Handlers, Abort(h) PROVE TypeOK' /\ Shaped'
  <2>1. call' \in [Handlers -> Call] /\ Shaped'
    BY <1>20, FinishTyped DEF Abort
  <2> QED BY <1>20, <2>1 DEF Abort, TypeOK
<1>21. CASE UNCHANGED vars
  BY <1>21 DEF vars, TypeOK, Shaped
<1> QED
  BY <1>1, <1>2, <1>3, <1>4, <1>5, <1>6, <1>7, <1>8, <1>9, <1>10, <1>11, <1>12, <1>13, <1>14,
     <1>15, <1>16, <1>17, <1>18, <1>19, <1>20, <1>21 DEF Next

(* Tables, locks and requests keep their types (schedule-entries.service,  *)
(* schedule-time-slots.service, createSessionFromSchedule).                *)
THEOREM ScheduleTyped == Spec => []TypeOK
<1>1. Init => TypeOK /\ Shaped
  BY InitTyped
<1>2. (TypeOK /\ Shaped) /\ [Next]_vars => (TypeOK /\ Shaped)'
  BY StepTyped
<1> QED BY <1>1, <1>2, PTL DEF Spec

-----------------------------------------------------------------------------
(* What the locks are worth.  A request keeps the rows and keys it needs,  *)
(* nobody else has them, and so the part of its snapshot it decides on is  *)
(* still what the tables hold when it writes.                              *)
Apart(held) == \A g, h \in Handlers : g # h => held[g] \cap held[h] = {}

\* Request c holds the rows r and the keys n that its phase relies on, over the slots S.
Holds(c, r, n, S) ==
  /\ c.phase \in Booking => AssignmentRows(c.cell.ta) \subseteq r
  /\ c.phase \in Holding => SlotRow(c.cell.slot) \in r /\ S[c.cell.slot] \in Shapes
  /\ c.phase \in SlotEdit => SlotsKey \in n
  /\ c.phase \in SlotEdit /\ c.op = "createSlot" => c.phase # "slot_row" /\ S[c.slot] = Unborn
  /\ c.phase \in {"slot_read", "slot_write"} /\ c.op # "createSlot" =>
       SlotRow(c.slot) \in r /\ S[c.slot] \in Shapes

\* Entries that share a locked row with cell c are as the snapshot shows them.
SharesRow(a, b) == AssignmentRows(a) \cap AssignmentRows(b) # {}
SeesShared(c, E) ==
  \A i \in EntryIds : Present(E[i]) /\ SharesRow(E[i].ta, c.cell.ta) => c.snap.entries[i] = E[i]
SeesBooked(c, E) ==
  \A i \in EntryIds : Present(E[i]) /\ E[i].slot = c.slot => c.snap.entries[i] = E[i]

Sees(c, E, S) ==
  /\ c.phase \in Seeing => SeesShared(c, E)
  /\ c.phase = "slot_write" => c.snap.slots = S
  /\ c.phase = "slot_write" /\ c.op # "createSlot" => SeesBooked(c, E)

EntriesHaveSlots == \A i \in EntryIds : Present(entries[i]) => slots[entries[i].slot] \in Shapes

LocksInv ==
  /\ Apart(rows) /\ Apart(named)
  /\ \A h \in Handlers : Holds(call[h], rows[h], named[h], slots)
  /\ \A h \in Handlers : Sees(call[h], entries, slots)
  /\ EntriesHaveSlots

\* A request that holds nothing relies on nothing.
LEMMA AtRest ==
  ASSUME NEW c \in {Idle, [Idle EXCEPT !.phase = "release"]},
         NEW r, NEW n, NEW S, NEW E
  PROVE  Holds(c, r, n, S) /\ Sees(c, E, S)
  BY DEF Idle, Holds, Sees, Booking, Seeing, Holding, SlotEdit

\* A step of h that writes neither entries nor slots disturbs nobody else.
LEMMA QuietStep ==
  ASSUME TypeOK, LocksInv, NEW h \in Handlers, NEW c, NEW R, NEW N,
         call' = [call EXCEPT ![h] = c], rows' = [rows EXCEPT ![h] = R],
         named' = [named EXCEPT ![h] = N], entries' = entries, slots' = slots,
         Holds(c, R, N, slots), Sees(c, entries, slots),
         \A g \in Handlers \ {h} : rows[g] \cap R = {} /\ named[g] \cap N = {}
  PROVE  LocksInv'
<1>1. Apart(rows)' /\ Apart(named)'
  BY DEF TypeOK, LocksInv, Apart
<1>2. ASSUME NEW g \in Handlers
      PROVE  Holds(call[g], rows[g], named[g], slots)' /\ Sees(call[g], entries, slots)'
  <2>1. CASE g = h
    <3>1. call'[g] = c /\ rows'[g] = R /\ named'[g] = N
      BY <2>1 DEF TypeOK
    <3> QED BY <3>1
  <2>2. CASE g # h
    <3>1. call'[g] = call[g] /\ rows'[g] = rows[g] /\ named'[g] = named[g]
      BY <2>2 DEF TypeOK
    <3>2. Holds(call[g], rows[g], named[g], slots) /\ Sees(call[g], entries, slots)
      BY DEF LocksInv
    <3> QED BY <3>1, <3>2
  <2> QED BY <2>1, <2>2
<1>3. EntriesHaveSlots'
  BY DEF LocksInv, EntriesHaveSlots
<1> QED BY <1>1, <1>2, <1>3 DEF LocksInv

\* The same for a step that takes no lock.
LEMMA LocklessStep ==
  ASSUME TypeOK, LocksInv, NEW h \in Handlers, NEW c,
         call' = [call EXCEPT ![h] = c], rows' = rows, named' = named,
         entries' = entries, slots' = slots,
         Holds(c, rows[h], named[h], slots), Sees(c, entries, slots)
  PROVE  LocksInv'
<1>1. rows' = [rows EXCEPT ![h] = rows[h]] /\ named' = [named EXCEPT ![h] = named[h]]
  BY DEF TypeOK
<1>2. \A g \in Handlers \ {h} : rows[g] \cap rows[h] = {} /\ named[g] \cap named[h] = {}
  BY DEF LocksInv, Apart
<1> HIDE DEF LocksInv
<1> QED BY <1>1, <1>2, QuietStep

\* A booking is committed: whoever shares a row with it, or holds its slot, is not there.
LEMMA SavedStep ==
  ASSUME TypeOK, Shaped, LocksInv, NEW h \in Handlers, call[h].phase = "work",
         NEW k \in EntryIds, entries' = [entries EXCEPT ![k] = call[h].cell],
         Commit(h), slots' = slots
  PROVE  LocksInv'
<1> DEFINE c == call[h].cell
<1>1. c \in Cells /\ AssignmentRows(c.ta) \subseteq rows[h] /\ SlotRow(c.slot) \in rows[h]
        /\ slots[c.slot] \in Shapes
  BY DEF Shaped, CallShaped, LocksInv, Holds, Booking, Holding
<1> HIDE DEF c
<1>2. entries' = [entries EXCEPT ![k] = c] /\ entries \in [EntryIds -> Cells \cup {None}]
  BY DEF c, TypeOK
<1>3. Apart(rows)' /\ Apart(named)'
  BY DEF TypeOK, LocksInv, Apart, Commit
<1>4. ASSUME NEW g \in Handlers
      PROVE  Holds(call[g], rows[g], named[g], slots)' /\ Sees(call[g], entries, slots)'
  <2>1. CASE g = h
    <3>1. call'[g] = [Idle EXCEPT !.phase = "release"]
      BY <2>1 DEF TypeOK, Commit
    <3> QED BY <3>1, AtRest
  <2>2. CASE g # h
    <3>1. call'[g] = call[g] /\ rows'[g] = rows[g] /\ named'[g] = named[g]
      BY <2>2 DEF TypeOK, Commit
    <3>2. Holds(call[g], rows[g], named[g], slots) /\ Sees(call[g], entries, slots)
      BY DEF LocksInv
    <3>3. rows[g] \cap rows[h] = {}
      BY <2>2 DEF LocksInv, Apart
    <3>4. call[g].phase \in Seeing => ~SharesRow(c.ta, call[g].cell.ta)
      BY <1>1, <3>2, <3>3 DEF SharesRow, Holds, Seeing, Booking
    <3>5. call[g].phase \in Seeing => SeesShared(call[g], entries')
      BY <1>2, <3>2, <3>4 DEF Sees, SeesShared
    <3>6. call[g].phase = "slot_write" /\ call[g].op # "createSlot" => c.slot # call[g].slot
      BY <1>1, <3>2, <3>3 DEF Holds
    <3>7. call[g].phase = "slot_write" /\ call[g].op # "createSlot" => SeesBooked(call[g], entries')
      BY <1>2, <3>2, <3>6 DEF Sees, SeesBooked
    <3>8. Sees(call[g], entries', slots)
      BY <3>2, <3>5, <3>7 DEF Sees
    <3> QED BY <3>1, <3>2, <3>8
  <2> QED BY <2>1, <2>2
<1>5. EntriesHaveSlots'
  BY <1>1, <1>2 DEF LocksInv, EntriesHaveSlots
<1> QED BY <1>3, <1>4, <1>5 DEF LocksInv

\* An entry is deleted: there is only less to see.
LEMMA DeletedStep ==
  ASSUME TypeOK, LocksInv, NEW h \in Handlers, Delete(h)
  PROVE  LocksInv'
<1>1. /\ entries \in [EntryIds -> Cells \cup {None}]
      /\ entries' = [entries EXCEPT ![call[h].id] = None]
      /\ call' = [call EXCEPT ![h] = Idle]
      /\ slots' = slots /\ rows' = rows /\ named' = named
  BY DEF TypeOK, Delete, Finish, locks
<1>2. \A i \in EntryIds : Present(entries'[i]) => entries'[i] = entries[i]
  BY <1>1 DEF Present
<1>3. ASSUME NEW g \in Handlers
      PROVE  Holds(call[g], rows[g], named[g], slots)' /\ Sees(call[g], entries, slots)'
  <2>1. CASE g = h
    <3>1. call'[g] = Idle
      BY <1>1, <2>1 DEF TypeOK
    <3> QED BY <3>1, AtRest
  <2>2. CASE g # h
    <3>1. call'[g] = call[g]
      BY <1>1, <2>2 DEF TypeOK
    <3>2. Holds(call[g], rows[g], named[g], slots) /\ Sees(call[g], entries, slots)
      BY DEF LocksInv
    <3>3. Sees(call[g], entries', slots)
      BY <1>2, <3>2 DEF Sees, SeesShared, SeesBooked
    <3> QED BY <1>1, <3>1, <3>2, <3>3
  <2> QED BY <2>1, <2>2
<1>4. EntriesHaveSlots'
  BY <1>1, <1>2 DEF LocksInv, EntriesHaveSlots
<1> QED BY <1>1, <1>3, <1>4 DEF LocksInv, Apart

\* A slot is written: no other request edits slots, books this one or sees it booked.
LEMMA WrittenStep ==
  ASSUME TypeOK, Shaped, LocksInv, NEW h \in Handlers, WriteSlot(h)
  PROVE  LocksInv'
<1> DEFINE s == call[h].slot
<1>1. /\ call[h].phase = "slot_write" /\ s \in Slots
      /\ call[h].op \in {"createSlot", "updateSlot", "removeSlot"}
      /\ call[h].op # "removeSlot" => call[h].shape \in Shapes
  BY DEF WriteSlot, Shaped, CallShaped, SlotEdit
<1>2. /\ SlotsKey \in named[h]
      /\ call[h].op = "createSlot" => slots[s] = Unborn
      /\ call[h].op # "createSlot" => SlotRow(s) \in rows[h]
  BY <1>1 DEF LocksInv, Holds, SlotEdit
<1>3. PICK v : /\ slots' = [slots EXCEPT ![s] = v]
               /\ call[h].op = "updateSlot" => v \in Shapes
               /\ call[h].op = "removeSlot" => ~Booked(entries, s)
  BY <1>1 DEF WriteSlot
<1>4. slots \in [Slots -> Shapes \cup {Unborn, Removed}] /\ entries' = entries
  BY DEF TypeOK, WriteSlot
<1>5. Apart(rows)' /\ Apart(named)'
  BY DEF TypeOK, LocksInv, Apart, WriteSlot, Commit
<1> HIDE DEF s
<1>6. ASSUME NEW g \in Handlers
      PROVE  Holds(call[g], rows[g], named[g], slots)' /\ Sees(call[g], entries, slots)'
  <2>1. CASE g = h
    <3>1. call'[g] = [Idle EXCEPT !.phase = "release"]
      BY <2>1 DEF TypeOK, WriteSlot, Commit
    <3> QED BY <3>1, AtRest
  <2>2. CASE g # h
    <3>1. call'[g] = call[g] /\ rows'[g] = rows[g] /\ named'[g] = named[g]
      BY <2>2 DEF TypeOK, WriteSlot, Commit
    <3>2. Holds(call[g], rows[g], named[g], slots) /\ Sees(call[g], entries, slots)
      BY DEF LocksInv
    <3>3. call[g].phase \notin SlotEdit
      BY <1>2, <2>2, <3>2 DEF LocksInv, Apart, Holds
    <3>4. call[g].phase \in Holding => call[g].cell.slot # s
      BY <1>2, <2>2, <3>2, ConstantsAssumption DEF LocksInv, Apart, Holds
    <3>5. Holds(call[g], rows[g], named[g], slots')
      BY <1>3, <1>4, <3>2, <3>3, <3>4 DEF Holds, SlotEdit
    <3>6. Sees(call[g], entries', slots')
      BY <1>4, <3>2, <3>3 DEF Sees, SlotEdit
    <3> QED BY <3>1, <3>5, <3>6
  <2> QED BY <2>1, <2>2
<1>7. ASSUME NEW i \in EntryIds, Present(entries[i]) PROVE slots'[entries[i].slot] \in Shapes
  <2>1. slots[entries[i].slot] \in Shapes /\ entries[i].slot \in Slots
    BY <1>7 DEF LocksInv, EntriesHaveSlots, TypeOK, Present, Cells
  <2>2. CASE entries[i].slot # s
    BY <1>3, <1>4, <2>1, <2>2
  <2>3. CASE entries[i].slot = s
    <3>1. call[h].op = "updateSlot"
      BY <1>1, <1>2, <1>3, <1>7, <2>1, <2>3, ConstantsAssumption DEF Booked
    <3> QED BY <1>3, <1>4, <2>1, <2>3, <3>1
  <2> QED BY <2>2, <2>3
<1>8. EntriesHaveSlots'
  BY <1>4, <1>7 DEF EntriesHaveSlots
<1> QED BY <1>5, <1>6, <1>8 DEF LocksInv

LEMMA LocksInit == Init => LocksInv
<1> SUFFICES ASSUME Init PROVE LocksInv
  OBVIOUS
<1>1. \A h \in Handlers : call[h] = Idle
  BY DEF Init
<1>2. \A h \in Handlers : Holds(call[h], rows[h], named[h], slots) /\ Sees(call[h], entries, slots)
  BY <1>1, AtRest
<1>3. Apart(rows) /\ Apart(named) /\ EntriesHaveSlots
  BY DEF Init, Apart, EntriesHaveSlots, Present
<1> QED BY <1>2, <1>3 DEF LocksInv

LEMMA LocksStep ==
  ASSUME TypeOK, Shaped, LocksInv, [Next]_vars
  PROVE  LocksInv'
<1> USE DEF tables, locks
<1>0. \A h \in Handlers :
        /\ call[h] \in Call /\ CallShaped(call[h])
        /\ Holds(call[h], rows[h], named[h], slots) /\ Sees(call[h], entries, slots)
  BY DEF TypeOK, Shaped, LocksInv
<1>1. ASSUME NEW h \in Handlers, Create(h) PROVE LocksInv'
  <2>1. PICK c \in Cells :
          call' = [call EXCEPT ![h] = [Idle EXCEPT !.phase = "assignment", !.op = "create",
                                                  !.cell = c]]
    BY <1>1 DEF Create
  <2> DEFINE r == [Idle EXCEPT !.phase = "assignment", !.op = "create", !.cell = c]
  <2>2. Holds(r, rows[h], named[h], slots) /\ Sees(r, entries, slots)
    BY DEF Idle, Holds, Sees, Booking, Seeing, Holding, SlotEdit
  <2> QED BY <1>1, <2>1, <2>2, LocklessStep DEF Create
<1>2. ASSUME NEW h \in Handlers, Update(h) PROVE LocksInv'
  <2>1. PICK i \in EntryIds, c \in Cells :
          /\ RowsFree(h, {EntryRow(i)}) /\ rows' = [rows EXCEPT ![h] = {EntryRow(i)}]
          /\ call' = [call EXCEPT ![h] = [Idle EXCEPT !.phase = "assignment", !.op = "update",
                                                     !.id = i, !.cell = c]]
    BY <1>2 DEF Update
  <2> DEFINE r == [Idle EXCEPT !.phase = "assignment", !.op = "update", !.id = i, !.cell = c]
  <2>2. Holds(r, {EntryRow(i)}, named[h], slots) /\ Sees(r, entries, slots)
    BY DEF Idle, Holds, Sees, Booking, Seeing, Holding, SlotEdit
  <2>3. named' = [named EXCEPT ![h] = named[h]] /\ call' = [call EXCEPT ![h] = r]
    BY <1>2, <2>1 DEF Update, TypeOK
  <2>4. \A g \in Handlers \ {h} : rows[g] \cap {EntryRow(i)} = {} /\ named[g] \cap named[h] = {}
    BY <2>1 DEF RowsFree, LocksInv, Apart
  <2> HIDE DEF r
  <2> QED BY <1>2, <2>1, <2>2, <2>3, <2>4, QuietStep DEF Update
<1>3. ASSUME NEW h \in Handlers, LockAssignment(h) PROVE LocksInv'
  <2> DEFINE r == [call[h] EXCEPT !.phase = "assignable"]
             R == rows[h] \cup AssignmentRows(call[h].cell.ta)
  <2>1. Holds(r, R, named[h], slots) /\ Sees(r, entries, slots)
    BY <1>0, <1>3 DEF LockAssignment, Call, Holds, Sees, Booking, Seeing, Holding, SlotEdit
  <2>2. /\ call' = [call EXCEPT ![h] = r] /\ rows' = [rows EXCEPT ![h] = R]
        /\ named' = [named EXCEPT ![h] = named[h]]
    BY <1>3 DEF LockAssignment, Goto, TypeOK
  <2>3. \A g \in Handlers \ {h} : rows[g] \cap R = {} /\ named[g] \cap named[h] = {}
    BY <1>3 DEF LockAssignment, RowsFree, LocksInv, Apart
  <2> HIDE DEF r, R
  <2> QED BY <1>3, <2>1, <2>2, <2>3, QuietStep DEF LockAssignment
<1>4. ASSUME NEW h \in Handlers, RequireAssignableSlot(h) PROVE LocksInv'
  <2> DEFINE r == [call[h] EXCEPT !.phase = "slot", !.snap = Committed]
  <2>1. Holds(r, rows[h], named[h], slots) /\ Sees(r, entries, slots)
    BY <1>0, <1>4 DEF RequireAssignableSlot, Call, Holds, Sees, SeesShared, Committed,
                      Booking, Seeing, Holding, SlotEdit
  <2>2. call' = [call EXCEPT ![h] = r]
    BY <1>4 DEF RequireAssignableSlot, TypeOK
  <2> HIDE DEF r
  <2> QED BY <1>4, <2>1, <2>2, LocklessStep DEF RequireAssignableSlot
<1>5. ASSUME NEW h \in Handlers, LockTimeSlot(h) PROVE LocksInv'
  <2> DEFINE r == [call[h] EXCEPT !.phase = "group_lock"]
             R == rows[h] \cup {SlotRow(call[h].cell.slot)}
  <2>1. Holds(r, R, named[h], slots) /\ Sees(r, entries, slots)
    BY <1>0, <1>5
    DEF LockTimeSlot, Call, Holds, Sees, SeesShared, Booking, Seeing, Holding, SlotEdit
  <2>2. /\ call' = [call EXCEPT ![h] = r] /\ rows' = [rows EXCEPT ![h] = R]
        /\ named' = [named EXCEPT ![h] = named[h]]
    BY <1>5 DEF LockTimeSlot, Goto, TypeOK
  <2>3. \A g \in Handlers \ {h} : rows[g] \cap R = {} /\ named[g] \cap named[h] = {}
    BY <1>5 DEF LockTimeSlot, RowsFree, LocksInv, Apart
  <2> HIDE DEF r, R
  <2> QED BY <1>5, <2>1, <2>2, <2>3, QuietStep DEF LockTimeSlot
<1>6. ASSUME NEW h \in Handlers, AcquireConflictLock(h) PROVE LocksInv'
  <2>1. call[h].phase \in {"group_lock", "teacher_lock"}
    BY <1>6 DEF AcquireConflictLock
  <2>2. PICK key, next : next \in {"teacher_lock", "work"} /\ GetLock(h, key, next)
    BY <1>6 DEF AcquireConflictLock
  <2> DEFINE r == [call[h] EXCEPT !.phase = next]
             N == named[h] \cup {key}
  <2>3. Holds(r, rows[h], N, slots) /\ Sees(r, entries, slots)
    BY <1>0, <2>1, <2>2 DEF Call, Holds, Sees, SeesShared, Booking, Seeing, Holding, SlotEdit
  <2>4. /\ call' = [call EXCEPT ![h] = r] /\ named' = [named EXCEPT ![h] = N]
        /\ rows' = [rows EXCEPT ![h] = rows[h]]
    BY <2>2 DEF GetLock, Goto, TypeOK
  <2>5. \A g \in Handlers \ {h} : rows[g] \cap rows[h] = {} /\ named[g] \cap N = {}
    BY <2>2 DEF GetLock, KeyFree, LocksInv, Apart
  <2> HIDE DEF r, N
  <2> QED BY <2>2, <2>3, <2>4, <2>5, QuietStep DEF GetLock
<1>7. ASSUME NEW h \in Handlers, SaveNew(h) PROVE LocksInv'
  <2>1. nextId \in EntryIds
    BY <1>7, ConstantsAssumption DEF SaveNew, TypeOK, EntryIds
  <2> QED BY <1>7, <2>1, SavedStep DEF SaveNew
<1>8. ASSUME NEW h \in Handlers, SaveMoved(h) PROVE LocksInv'
  <2>1. call[h].id \in EntryIds
    BY <1>0, <1>8 DEF SaveMoved, CallShaped
  <2> QED BY <1>8, <2>1, SavedStep DEF SaveMoved
<1>9. ASSUME NEW h \in Handlers, Remove(h) PROVE LocksInv'
  <2>1. PICK i \in EntryIds :
          call' = [call EXCEPT ![h] = [Idle EXCEPT !.phase = "read_run", !.op = "remove",
                                                  !.id = i, !.cell = entries[i]]]
    BY <1>9 DEF Remove
  <2> DEFINE r == [Idle EXCEPT !.phase = "read_run", !.op = "remove", !.id = i, !.cell = entries[i]]
  <2>2. Holds(r, rows[h], named[h], slots) /\ Sees(r, entries, slots)
    BY DEF Idle, Holds, Sees, Booking, Seeing, Holding, SlotEdit
  <2> QED BY <1>9, <2>1, <2>2, LocklessStep DEF Remove
<1>10. ASSUME NEW h \in Handlers, StartSession(h) PROVE LocksInv'
  <2>1. PICK i \in EntryIds :
          call' = [call EXCEPT ![h] = [Idle EXCEPT !.phase = "read_run", !.op = "session",
                                                  !.id = i, !.cell = entries[i]]]
    BY <1>10 DEF StartSession
  <2> DEFINE r == [Idle EXCEPT !.phase = "read_run", !.op = "session", !.id = i, !.cell = entries[i]]
  <2>2. Holds(r, rows[h], named[h], slots) /\ Sees(r, entries, slots)
    BY DEF Idle, Holds, Sees, Booking, Seeing, Holding, SlotEdit
  <2> QED BY <1>10, <2>1, <2>2, LocklessStep DEF StartSession
<1>11. ASSUME NEW h \in Handlers, ReadRun(h) PROVE LocksInv'
  <2>1. PICK a, run :
          \/ call' = [call EXCEPT ![h].phase = "read_use", ![h].anchor = a]
          \/ call' = [call EXCEPT ![h].phase = "insert_session", ![h].anchor = a, ![h].run = run]
    BY <1>11 DEF ReadRun
  <2> DEFINE r == [call[h] EXCEPT !.phase = "read_use", !.anchor = a]
             q == [call[h] EXCEPT !.phase = "insert_session", !.anchor = a, !.run = run]
  <2>2. Holds(r, rows[h], named[h], slots) /\ Sees(r, entries, slots)
    BY <1>0 DEF Call, Holds, Sees, Booking, Seeing, Holding, SlotEdit
  <2>3. Holds(q, rows[h], named[h], slots) /\ Sees(q, entries, slots)
    BY <1>0 DEF Call, Holds, Sees, Booking, Seeing, Holding, SlotEdit
  <2>4. call' = [call EXCEPT ![h] = r] \/ call' = [call EXCEPT ![h] = q]
    BY <2>1 DEF TypeOK
  <2> HIDE DEF r, q
  <2> QED BY <1>11, <2>2, <2>3, <2>4, LocklessStep DEF ReadRun
<1>12. ASSUME NEW h \in Handlers, ReadUse(h) PROVE LocksInv'
  <2> DEFINE r == [call[h] EXCEPT !.phase = "delete"]
  <2>1. Holds(r, rows[h], named[h], slots) /\ Sees(r, entries, slots)
    BY <1>0, <1>12 DEF ReadUse, Call, Holds, Sees, Booking, Seeing, Holding, SlotEdit
  <2>2. call' = [call EXCEPT ![h] = r]
    BY <1>12 DEF ReadUse, Goto, TypeOK
  <2> HIDE DEF r
  <2> QED BY <1>12, <2>1, <2>2, LocklessStep DEF ReadUse
<1>13. ASSUME NEW h \in Handlers, Delete(h) PROVE LocksInv'
  BY <1>13, DeletedStep
<1>14. ASSUME NEW h \in Handlers, InsertSession(h) PROVE LocksInv'
  <2>1. call' = [call EXCEPT ![h] = Idle]
    BY <1>14 DEF InsertSession, Finish
  <2>2. Holds(Idle, rows[h], named[h], slots) /\ Sees(Idle, entries, slots)
    BY AtRest
  <2> QED BY <1>14, <2>1, <2>2, LocklessStep DEF InsertSession
<1>15. ASSUME NEW h \in Handlers, MutateSlot(h) PROVE LocksInv'
  <2>1. PICK op \in {"createSlot", "updateSlot", "removeSlot"}, s \in Slots,
             shape \in Shapes \cup {None} :
          /\ KeyFree(h, SlotsKey) /\ named' = [named EXCEPT ![h] = {SlotsKey}]
          /\ op = "createSlot" => slots[s] = Unborn
          /\ call' = [call EXCEPT ![h] =
               [Idle EXCEPT !.phase = IF op = "createSlot" THEN "slot_read" ELSE "slot_row",
                            !.op = op, !.slot = s, !.shape = shape]]
    BY <1>15 DEF MutateSlot
  <2> DEFINE r == [Idle EXCEPT !.phase = IF op = "createSlot" THEN "slot_read" ELSE "slot_row",
                               !.op = op, !.slot = s, !.shape = shape]
  <2>2. Holds(r, rows[h], {SlotsKey}, slots) /\ Sees(r, entries, slots)
    BY <2>1 DEF Idle, Holds, Sees, Booking, Seeing, Holding, SlotEdit
  <2>3. rows' = [rows EXCEPT ![h] = rows[h]] /\ call' = [call EXCEPT ![h] = r]
    BY <1>15, <2>1 DEF MutateSlot, TypeOK
  <2>4. \A g \in Handlers \ {h} : rows[g] \cap rows[h] = {} /\ named[g] \cap {SlotsKey} = {}
    BY <2>1 DEF KeyFree, LocksInv, Apart
  <2> HIDE DEF r
  <2> QED BY <1>15, <2>1, <2>2, <2>3, <2>4, QuietStep DEF MutateSlot
<1>16. ASSUME NEW h \in Handlers, LockSlotRow(h) PROVE LocksInv'
  <2> DEFINE r == [call[h] EXCEPT !.phase = "slot_read"]
             R == {SlotRow(call[h].slot)}
  <2>1. Holds(r, R, named[h], slots) /\ Sees(r, entries, slots)
    BY <1>0, <1>16 DEF LockSlotRow, Call, Holds, Sees, Booking, Seeing, Holding, SlotEdit
  <2>2. /\ call' = [call EXCEPT ![h] = r] /\ rows' = [rows EXCEPT ![h] = R]
        /\ named' = [named EXCEPT ![h] = named[h]]
    BY <1>16 DEF LockSlotRow, Goto, TypeOK
  <2>3. \A g \in Handlers \ {h} : rows[g] \cap R = {} /\ named[g] \cap named[h] = {}
    BY <1>16 DEF LockSlotRow, RowsFree, LocksInv, Apart
  <2> HIDE DEF r, R
  <2> QED BY <1>16, <2>1, <2>2, <2>3, QuietStep DEF LockSlotRow
<1>17. ASSUME NEW h \in Handlers, ReadSlotUse(h) PROVE LocksInv'
  <2> DEFINE r == [call[h] EXCEPT !.phase = "slot_write", !.snap = Committed]
  <2>1. Holds(r, rows[h], named[h], slots) /\ Sees(r, entries, slots)
    BY <1>0, <1>17 DEF ReadSlotUse, Call, Holds, Sees, SeesBooked, Committed,
                       Booking, Seeing, Holding, SlotEdit
  <2>2. call' = [call EXCEPT ![h] = r]
    BY <1>17 DEF ReadSlotUse, TypeOK
  <2> HIDE DEF r
  <2> QED BY <1>17, <2>1, <2>2, LocklessStep DEF ReadSlotUse
<1>18. ASSUME NEW h \in Handlers, WriteSlot(h) PROVE LocksInv'
  BY <1>18, WrittenStep
<1>19. ASSUME NEW h \in Handlers, ReleaseLocks(h) PROVE LocksInv'
  <2>1. /\ call' = [call EXCEPT ![h] = Idle] /\ named' = [named EXCEPT ![h] = {}]
        /\ rows' = [rows EXCEPT ![h] = rows[h]]
    BY <1>19 DEF ReleaseLocks, Finish, TypeOK
  <2>2. Holds(Idle, rows[h], {}, slots) /\ Sees(Idle, entries, slots)
    BY AtRest
  <2>3. \A g \in Handlers \ {h} : rows[g] \cap rows[h] = {} /\ named[g] \cap {} = {}
    BY DEF LocksInv, Apart
  <2> QED BY <1>19, <2>1, <2>2, <2>3, QuietStep DEF ReleaseLocks
<1>20. ASSUME NEW h \in Handlers, Abort(h) PROVE LocksInv'
  <2>1. /\ call' = [call EXCEPT ![h] = Idle] /\ named' = [named EXCEPT ![h] = {}]
        /\ rows' = [rows EXCEPT ![h] = {}]
    BY <1>20 DEF Abort, Finish
  <2>2. Holds(Idle, {}, {}, slots) /\ Sees(Idle, entries, slots)
    BY AtRest
  <2>3. \A g \in Handlers \ {h} : rows[g] \cap {} = {} /\ named[g] \cap {} = {}
    OBVIOUS
  <2> QED BY <1>20, <2>1, <2>2, <2>3, QuietStep DEF Abort
<1>21. CASE UNCHANGED vars
  BY <1>21 DEF vars, LocksInv, Apart, EntriesHaveSlots
<1> QED
  BY <1>1, <1>2, <1>3, <1>4, <1>5, <1>6, <1>7, <1>8, <1>9, <1>10, <1>11, <1>12, <1>13, <1>14,
     <1>15, <1>16, <1>17, <1>18, <1>19, <1>20, <1>21 DEF Next

-----------------------------------------------------------------------------
LEMMA Inductive == Spec => [](TypeOK /\ Shaped /\ LocksInv)
<1>1. Init => TypeOK /\ Shaped /\ LocksInv
  BY InitTyped, LocksInit
<1>2. (TypeOK /\ Shaped /\ LocksInv) /\ [Next]_vars => (TypeOK /\ Shaped /\ LocksInv)'
  BY StepTyped, LocksStep
<1> QED BY <1>1, <1>2, PTL DEF Spec

\* Nothing that shares a row with the saved cell conflicts with it: the check read it.
LEMMA SavedApart ==
  ASSUME TypeOK, Shaped, LocksInv, NEW h \in Handlers, call[h].phase = "work",
         NEW k \in EntryIds, NEW self,
         entries' = [entries EXCEPT ![k] = call[h].cell],
         NoConflicts(call[h].snap, call[h].cell, self), self \in {0, k},
         SharedRowsSerialise
  PROVE  SharedRowsSerialise'
<1> DEFINE c == call[h].cell
<1>1. c \in Cells /\ SeesShared(call[h], entries)
  BY DEF Shaped, CallShaped, LocksInv, Sees, Booking, Seeing
<1>2. entries \in [EntryIds -> Cells \cup {None}] /\ 0 \notin EntryIds
  BY DEF TypeOK, EntryIds
<1>3. ASSUME NEW i \in EntryIds, i # k, Present(entries[i]), SharesRow(entries[i].ta, c.ta)
      PROVE  ~Conflict(entries[i], c)
  <2>1. call[h].snap.entries[i] = entries[i]
    BY <1>1, <1>3 DEF SeesShared
  <2> QED BY <1>2, <1>3, <2>1 DEF NoConflicts, Conflict
<1>4. \A i \in EntryIds : entries'[i] = IF i = k THEN c ELSE entries[i]
  BY <1>2
<1>5. \A d \in Cells : Conflict(c, d) <=> Conflict(d, c)
  BY DEF Conflict
<1> HIDE DEF c
<1>6. ASSUME NEW i \in EntryIds, NEW j \in EntryIds, i # j,
             Present(entries'[i]), Present(entries'[j]), Conflict(entries'[i], entries'[j])
      PROVE  ~SharesRow(entries'[i].ta, entries'[j].ta)
  <2>1. CASE i = k
    BY <1>2, <1>3, <1>4, <1>5, <1>6, <2>1 DEF SharesRow, Present
  <2>2. CASE j = k
    BY <1>2, <1>3, <1>4, <1>6, <2>2 DEF SharesRow
  <2>3. CASE i # k /\ j # k
    BY <1>4, <1>6, <2>3 DEF SharesRow, SharedRowsSerialise
  <2> QED BY <2>1, <2>2, <2>3
<1> QED BY <1>6 DEF SharedRowsSerialise, SharesRow

LEMMA SerialiseStep ==
  ASSUME TypeOK, Shaped, LocksInv, SharedRowsSerialise, [Next]_vars
  PROVE  SharedRowsSerialise'
<1>1. ASSUME NEW h \in Handlers, SaveNew(h) PROVE SharedRowsSerialise'
  <2>1. nextId \in EntryIds
    BY <1>1, ConstantsAssumption DEF SaveNew, TypeOK, EntryIds
  <2> QED BY <1>1, <2>1, SavedApart DEF SaveNew
<1>2. ASSUME NEW h \in Handlers, SaveMoved(h) PROVE SharedRowsSerialise'
  <2>1. call[h].id \in EntryIds
    BY <1>2 DEF SaveMoved, Shaped, CallShaped
  <2> QED BY <1>2, <2>1, SavedApart DEF SaveMoved
<1>3. ASSUME NEW h \in Handlers, Delete(h) PROVE SharedRowsSerialise'
  <2>1. \A i \in EntryIds : Present(entries'[i]) => entries'[i] = entries[i]
    BY <1>3 DEF Delete, TypeOK, Present
  <2> QED BY <2>1 DEF SharedRowsSerialise
<1>4. CASE entries' = entries
  BY <1>4 DEF SharedRowsSerialise
<1>5. \/ entries' = entries
      \/ \E h \in Handlers : SaveNew(h) \/ SaveMoved(h) \/ Delete(h)
  BY DEF Next, vars, tables, locks, Create, Update, LockAssignment, RequireAssignableSlot,
         LockTimeSlot, AcquireConflictLock, GetLock, Remove, StartSession, ReadRun, ReadUse,
         InsertSession, MutateSlot, LockSlotRow, ReadSlotUse, WriteSlot, ReleaseLocks, Abort
<1> QED BY <1>1, <1>2, <1>3, <1>4, <1>5

(* Bookings that share a locked row never conflict, however many requests  *)
(* are in flight (schedule-entries.service.ts create, update).             *)
THEOREM SharedRowsSerialised == Spec => []SharedRowsSerialise
<1>1. Init => SharedRowsSerialise
  BY DEF Init, SharedRowsSerialise, Present
<1>2. TypeOK /\ Shaped /\ LocksInv /\ SharedRowsSerialise /\ [Next]_vars => SharedRowsSerialise'
  BY SerialiseStep
<1> QED BY <1>1, <1>2, Inductive, PTL DEF Spec

\* No two entries of one group in the same day and slot.
GroupsNotDoubleBooked ==
  \A i, j \in EntryIds :
    i # j /\ Present(entries[i]) /\ Present(entries[j])
      /\ entries[i].day = entries[j].day /\ entries[i].slot = entries[j].slot =>
        GroupOf[entries[i].ta] # GroupOf[entries[j].ta]

(* A group is never double-booked: the assignment is locked with its group *)
(* (loadAndValidateTeachingAssignment).                                    *)
THEOREM GroupsNeverDoubleBooked == Spec => []GroupsNotDoubleBooked
<1>1. \A a, b : GroupOf[a] = GroupOf[b] =>
        <<"group", GroupOf[a]>> \in AssignmentRows(a) \cap AssignmentRows(b)
  BY DEF AssignmentRows
<1>2. SharedRowsSerialise => GroupsNotDoubleBooked
  BY <1>1 DEF SharedRowsSerialise, GroupsNotDoubleBooked, Conflict
<1> QED BY <1>2, SharedRowsSerialised, PTL

-----------------------------------------------------------------------------
\* WriteSlot sees the slots as they are, and every booking of the one it writes.
LEMMA WriterSees ==
  ASSUME LocksInv, Shaped, NEW h \in Handlers, WriteSlot(h)
  PROVE  /\ call[h].slot \in Slots /\ call[h].snap.slots = slots
         /\ Booked(entries, call[h].slot) =>
              call[h].op # "createSlot" /\ Booked(call[h].snap.entries, call[h].slot)
<1>1. call[h].phase = "slot_write" /\ call[h].slot \in Slots
  BY DEF WriteSlot, Shaped, CallShaped, SlotEdit
<1>2. Holds(call[h], rows[h], named[h], slots) /\ Sees(call[h], entries, slots)
  BY DEF LocksInv
<1>3. call[h].snap.slots = slots
  BY <1>1, <1>2 DEF Sees
<1>4. ASSUME Booked(entries, call[h].slot)
      PROVE  call[h].op # "createSlot" /\ Booked(call[h].snap.entries, call[h].slot)
  <2>1. PICK i \in EntryIds : Present(entries[i]) /\ entries[i].slot = call[h].slot
    BY <1>4 DEF Booked
  <2>2. call[h].op # "createSlot"
    BY <1>1, <1>2, <2>1, ConstantsAssumption DEF Holds, LocksInv, EntriesHaveSlots, SlotEdit
  <2>3. call[h].snap.entries[i] = entries[i]
    BY <1>1, <1>2, <2>1, <2>2 DEF Sees, SeesBooked
  <2> QED BY <2>1, <2>2, <2>3 DEF Booked
<1> QED BY <1>1, <1>3, <1>4

LEMMA OnlyWriteSlot ==
  ASSUME [Next]_vars
  PROVE  slots' = slots \/ \E h \in Handlers : WriteSlot(h)
  BY DEF Next, vars, tables, locks, Create, Update, LockAssignment, RequireAssignableSlot,
         LockTimeSlot, AcquireConflictLock, GetLock, SaveNew, SaveMoved, Remove, StartSession,
         ReadRun, ReadUse, Delete, InsertSession, MutateSlot, LockSlotRow, ReadSlotUse,
         ReleaseLocks, Abort

LEMMA DisjointStep ==
  ASSUME TypeOK, Shaped, LocksInv, ActiveSlotsDisjoint, [Next]_vars
  PROVE  ActiveSlotsDisjoint'
<1>1. ASSUME NEW h \in Handlers, WriteSlot(h) PROVE ActiveSlotsDisjoint'
  <2> DEFINE s == call[h].slot
  <2>1. s \in Slots /\ call[h].snap.slots = slots /\ slots \in [Slots -> Shapes \cup {Unborn, Removed}]
    BY <1>1, WriterSees DEF TypeOK
  <2>0. /\ call[h].op \in {"createSlot", "updateSlot", "removeSlot"}
        /\ call[h].op # "removeSlot" => call[h].shape \in Shapes
    BY <1>1 DEF WriteSlot, Shaped, CallShaped, SlotEdit
  <2>2. PICK v : /\ slots' = [slots EXCEPT ![s] = v]
                 /\ v = Removed \/ (v \in Shapes /\ FreeOfClashes(call[h].snap, s, v))
    BY <1>1, <2>0 DEF WriteSlot
  <2> HIDE DEF s
  <2>3. \A t \in Slots : slots'[t] = IF t = s THEN v ELSE slots[t]
    BY <2>1, <2>2
  <2>4. \A x, y \in Shapes : Clash(x, y) => Clash(y, x)
    BY ConstantsAssumption DEF Clash, Overlap
  <2>5. ASSUME v \in Shapes, v.active, NEW t \in Slots, t # s, slots[t] \in Shapes, slots[t].active
        PROVE  ~Clash(v, slots[t]) /\ ~Clash(slots[t], v)
    BY <2>1, <2>2, <2>4, <2>5, ConstantsAssumption DEF FreeOfClashes
  <2> QED BY <2>3, <2>5, ConstantsAssumption DEF ActiveSlotsDisjoint
<1>2. CASE slots' = slots
  BY <1>2 DEF ActiveSlotsDisjoint
<1> QED BY <1>1, <1>2, OnlyWriteSlot

(* Active slots stay apart, however many administrators edit them at once  *)
(* (acquireScheduleTimeSlotsMutateLock, assertNoActiveOverlap).            *)
THEOREM ActiveSlotsStayDisjoint == Spec => []ActiveSlotsDisjoint
<1>1. Init => ActiveSlotsDisjoint
  BY ConstantsAssumption DEF Init, ActiveSlotsDisjoint
<1>2. TypeOK /\ Shaped /\ LocksInv /\ ActiveSlotsDisjoint /\ [Next]_vars => ActiveSlotsDisjoint'
  BY DisjointStep
<1> QED BY <1>1, <1>2, Inductive, PTL DEF Spec

LEMMA BookedStep ==
  ASSUME TypeOK, Shaped, LocksInv, [Next]_vars, NEW s \in Slots, Booked(entries, s)
  PROVE  slots'[s] \in Shapes /\ KeepsBlock(slots[s], slots'[s])
<1>1. slots[s] \in Shapes
  BY DEF LocksInv, EntriesHaveSlots, Booked
<1>2. ASSUME NEW h \in Handlers, WriteSlot(h)
      PROVE  slots'[s] \in Shapes /\ KeepsBlock(slots[s], slots'[s])
  <2>1. /\ call[h].op \in {"createSlot", "updateSlot", "removeSlot"}
        /\ call[h].op # "removeSlot" => call[h].shape \in Shapes
    BY <1>2 DEF WriteSlot, Shaped, CallShaped, SlotEdit
  <2>2. CASE s = call[h].slot
    <3>1. call[h].op # "createSlot" /\ Booked(call[h].snap.entries, s)
      BY <1>2, <2>2, WriterSees
    <3>2. call[h].op = "updateSlot"
      BY <1>2, <2>1, <2>2, <3>1 DEF WriteSlot
    <3>3. KeepsBlock(slots[s], call[h].shape) /\ slots' = [slots EXCEPT ![s] = call[h].shape]
      BY <1>2, <2>2, <3>1, <3>2 DEF WriteSlot
    <3> QED BY <2>1, <3>2, <3>3 DEF TypeOK
  <2>3. CASE s # call[h].slot
    <3>1. slots'[s] = slots[s]
      BY <1>2, <2>1, <2>3 DEF WriteSlot, TypeOK
    <3> QED BY <1>1, <3>1 DEF KeepsBlock
  <2> QED BY <2>2, <2>3
<1>3. CASE slots' = slots
  BY <1>1, <1>3 DEF KeepsBlock
<1> QED BY <1>2, <1>3, OnlyWriteSlot

(* A slot that holds entries keeps its row, its times and its type, also   *)
(* against bookings that commit while it is edited (update, remove).       *)
THEOREM BookedSlotsStay == Spec => BookedSlotsKept
<1> DEFINE Kept == \A s \in Slots : Booked(entries, s) =>
                     slots'[s] \in Shapes /\ KeepsBlock(slots[s], slots'[s])
<1>1. (TypeOK /\ Shaped /\ LocksInv) /\ [Next]_vars => Kept
  BY BookedStep
<1> QED BY <1>1, Inductive, PTL DEF Spec, BookedSlotsKept

-----------------------------------------------------------------------------
(* Runs of blocks.  What resolveOccurrenceForEntry returns depends on the  *)
(* times of the blocks only, as long as they do not overlap: a run stays   *)
(* the same in every larger or smaller set of blocks, unless the others    *)
(* hold a block of it or join it.                                          *)
Block == [start : Nat, end : Nat]

Separate(V) ==
  /\ V \subseteq Block /\ \A p \in V : p.start < p.end
  /\ \A p, q \in V : p # q => p.end <= q.start \/ q.end <= p.start

\* No gap in V from the block x on to the block y.
Linked(V, x, y) ==
  \A p, q \in V :
    /\ x.start <= p.start /\ p.start < q.start /\ q.start <= y.start
    /\ ~\E r \in V : p.start < r.start /\ r.start < q.start
    => p.end = q.start

Joined(V, x, y) == Linked(V, x, y) /\ Linked(V, y, x)

\* The last block of V that starts before u.
LEMMA LastBefore ==
  ASSUME NEW V, V \subseteq Block, NEW x \in V, NEW u \in Block, x.start < u.start
  PROVE  \E p \in V : /\ x.start <= p.start /\ p.start < u.start
                      /\ \A r \in V : r.start < u.start => r.start <= p.start
<1> DEFINE Early == {r \in V : r.start < u.start}
           Waits == {u.start - r.start : r \in Early}
<1>1. \A r \in Early : r.start \in Nat /\ u.start - r.start \in Nat
  BY DEF Block
<1>2. Waits \in SUBSET Nat /\ Waits # {}
  BY <1>1
<1>3. \A w \in Waits : \E r \in Early : w = u.start - r.start
  OBVIOUS
<1>4. \A r \in Early : u.start - r.start \in Waits
  OBVIOUS
<1>5. x \in Early
  OBVIOUS
<1> HIDE DEF Waits
<1>6. PICK w \in Waits : \A v \in Waits : w <= v
  BY <1>2, LeastIn
<1>7. PICK p \in Early : w = u.start - p.start
  BY <1>3
<1>8. \A r \in Early : r.start <= p.start
  <2>1. TAKE r \in Early
  <2>2. u.start - p.start <= u.start - r.start
    BY <1>4, <1>6, <1>7
  <2>3. u.start \in Nat /\ p.start \in Nat /\ r.start \in Nat
    BY DEF Block
  <2> QED BY <2>2, <2>3
<1> QED BY <1>5, <1>8

\* The first block of V that starts after u.
LEMMA FirstAfter ==
  ASSUME NEW V, V \subseteq Block, NEW y \in V, NEW u \in Block, u.start < y.start
  PROVE  \E q \in V : /\ u.start < q.start /\ q.start <= y.start
                      /\ \A r \in V : u.start < r.start => q.start <= r.start
<1> DEFINE Late   == {r \in V : u.start < r.start}
           Starts == {r.start : r \in Late}
<1>1. Starts \in SUBSET Nat /\ y \in Late /\ Starts # {}
  BY DEF Block
<1>2. \A s \in Starts : \E r \in Late : s = r.start
  OBVIOUS
<1>3. \A r \in Late : r.start \in Starts
  OBVIOUS
<1> HIDE DEF Starts
<1>4. PICK s \in Starts : \A t \in Starts : s <= t
  BY <1>1, LeastIn
<1>5. PICK q \in Late : s = q.start
  BY <1>2
<1> QED BY <1>1, <1>3, <1>4, <1>5

\* Blocks without a gap leave no room for another one.
LEMMA NoRoom ==
  ASSUME NEW W, Separate(W), NEW V, V \subseteq W, NEW x \in V, NEW y \in V, Linked(V, x, y),
         NEW u \in W, x.start <= u.start, u.start <= y.start
  PROVE  u \in V
<1> SUFFICES ASSUME u \notin V PROVE FALSE
  OBVIOUS
<1>1. V \subseteq Block /\ u \in Block /\ \A p \in W : p.start \in Nat /\ p.end \in Nat
  BY DEF Separate, Block
<1>2. \A p \in V : p.end <= u.start \/ u.end <= p.start
  BY DEF Separate
<1>3. \A p \in W : p.start < p.end
  BY DEF Separate
<1>4. \A p \in V : p.start # u.start
  BY <1>1, <1>2, <1>3
<1>5. x.start < u.start /\ u.start < y.start
  BY <1>1, <1>4
<1>6. PICK p \in V : /\ x.start <= p.start /\ p.start < u.start
                     /\ \A r \in V : r.start < u.start => r.start <= p.start
  BY <1>1, <1>5, LastBefore
<1>7. PICK q \in V : /\ u.start < q.start /\ q.start <= y.start
                     /\ \A r \in V : u.start < r.start => q.start <= r.start
  BY <1>1, <1>5, FirstAfter
<1>8. ~\E r \in V : p.start < r.start /\ r.start < q.start
  BY <1>1, <1>4, <1>6, <1>7
<1>9. p.start < q.start
  BY <1>1, <1>6, <1>7
<1>10. p.end = q.start
  BY <1>6, <1>7, <1>8, <1>9 DEF Linked
<1>11. p.end <= u.start /\ u.end <= q.start
  BY <1>1, <1>2, <1>3, <1>6, <1>7
<1> QED BY <1>1, <1>3, <1>10, <1>11

LEMMA LinkedWider ==
  ASSUME NEW W, Separate(W), NEW V, V \subseteq W, NEW x \in V, NEW y \in V, Linked(V, x, y)
  PROVE  Linked(W, x, y)
<1> SUFFICES ASSUME NEW p \in W, NEW q \in W,
                    x.start <= p.start, p.start < q.start, q.start <= y.start,
                    ~\E r \in W : p.start < r.start /\ r.start < q.start
             PROVE  p.end = q.start
  BY DEF Linked
<1>1. p.start \in Nat /\ q.start \in Nat /\ x.start \in Nat /\ y.start \in Nat
  BY DEF Separate, Block
<1>2. p.start <= y.start /\ x.start <= q.start
  BY <1>1
<1>3. p \in V
  BY <1>2, NoRoom
<1>4. q \in V
  BY <1>2, NoRoom
<1> QED BY <1>3, <1>4 DEF Linked

LEMMA LinkedNarrower ==
  ASSUME NEW W, Separate(W), NEW V, V \subseteq W, NEW x \in V, NEW y \in V, Linked(W, x, y),
         \A u \in W : x.start <= u.start /\ u.start <= y.start => u \in V
  PROVE  Linked(V, x, y)
<1> SUFFICES ASSUME NEW p \in V, NEW q \in V,
                    x.start <= p.start, p.start < q.start, q.start <= y.start,
                    ~\E r \in V : p.start < r.start /\ r.start < q.start
             PROVE  p.end = q.start
  BY DEF Linked
<1>1. \A u \in W : u.start \in Nat
  BY DEF Separate, Block
<1>2. ASSUME NEW r \in W, p.start < r.start, r.start < q.start PROVE FALSE
  <2>1. x.start <= r.start /\ r.start <= y.start
    BY <1>1, <1>2
  <2> QED BY <1>2, <2>1
<1> QED BY <1>2 DEF Linked

\* A block between two joined ones is joined to both.
LEMMA JoinedBetween ==
  ASSUME NEW V, Separate(V), NEW x \in V, NEW y \in V, Joined(V, x, y), NEW u \in V,
         \/ x.start <= u.start /\ u.start <= y.start
         \/ y.start <= u.start /\ u.start <= x.start
  PROVE  Joined(V, x, u)
<1>1. \A p \in V : p.start \in Nat
  BY DEF Separate, Block
<1>2. Linked(V, x, u)
  BY <1>1 DEF Joined, Linked
<1>3. Linked(V, u, x)
  BY <1>1 DEF Joined, Linked
<1> QED BY <1>2, <1>3 DEF Joined

LEMMA JoinedThrough ==
  ASSUME NEW V, Separate(V), NEW x \in V, NEW y \in V, NEW z \in V, Joined(V, x, y), Joined(V, y, z)
  PROVE  Joined(V, x, z)
<1>1. \A p \in V : p.start \in Nat
  BY DEF Separate, Block
<1>2. ASSUME NEW v \in V, NEW w \in V, Linked(V, v, y), Linked(V, y, w) PROVE Linked(V, v, w)
  <2> SUFFICES ASSUME NEW p \in V, NEW q \in V,
                      v.start <= p.start, p.start < q.start, q.start <= w.start,
                      ~\E r \in V : p.start < r.start /\ r.start < q.start
               PROVE  p.end = q.start
    BY DEF Linked
  <2>1. q.start <= y.start \/ y.start <= p.start
    BY <1>1
  <2> QED BY <1>2, <2>1 DEF Linked
<1> QED BY <1>2 DEF Joined

\* The run of x is the same in W and in a part of it that holds the run.
LEMMA JoinedKept ==
  ASSUME NEW W, Separate(W), NEW V, V \subseteq W, NEW x \in V,
         \A u \in W : Joined(W, x, u) => u \in V, NEW y \in V
  PROVE  Joined(V, x, y) <=> Joined(W, x, y)
<1>1. Joined(V, x, y) => Joined(W, x, y)
  BY LinkedWider DEF Joined
<1>2. ASSUME Joined(W, x, y) PROVE Joined(V, x, y)
  <2>1. \A u \in W : \/ x.start <= u.start /\ u.start <= y.start
                     \/ y.start <= u.start /\ u.start <= x.start
                     => u \in V
    BY <1>2, JoinedBetween
  <2>2. Linked(W, x, y) /\ Linked(W, y, x)
    BY <1>2 DEF Joined
  <2>3. Linked(V, x, y)
    BY <2>1, <2>2, LinkedNarrower
  <2>4. Linked(V, y, x)
    BY <2>1, <2>2, LinkedNarrower
  <2> QED BY <2>3, <2>4 DEF Joined
<1> QED BY <1>1, <1>2

-----------------------------------------------------------------------------
(* The same for entries: the blocks of an assignment and day.              *)
Time(E, S, i)      == [start |-> S[E[i].slot].start, end |-> S[E[i].slot].end]
Blocks(E, S, a, d) == {Time(E, S, i) : i \in Bucket(E, S, a, d)}

Tidy(E, S, a, d) ==
  /\ BlocksDisjoint(E, S, a, d)
  /\ \A i \in Bucket(E, S, a, d) : i \in Int /\ S[E[i].slot] \in Shapes

LEMMA TidyBlocks ==
  ASSUME NEW E, NEW S, NEW a, NEW d, Tidy(E, S, a, d)
  PROVE  /\ Separate(Blocks(E, S, a, d))
         /\ \A i, j \in Bucket(E, S, a, d) :
              /\ Time(E, S, i) = Time(E, S, j) => i = j
              /\ Before(E, S, i, j) <=> Time(E, S, i).start < Time(E, S, j).start
<1> DEFINE B == Bucket(E, S, a, d)
<1>1. \A i \in B : /\ Time(E, S, i) \in Block /\ Time(E, S, i).start < Time(E, S, i).end
                   /\ Time(E, S, i).start = S[E[i].slot].start
                   /\ Time(E, S, i).end = S[E[i].slot].end
                   /\ i \in Int /\ S[E[i].slot].order \in Nat
  BY ConstantsAssumption DEF Tidy, Time, Block
<1>2. \A i, j \in B : i # j => \/ Time(E, S, i).end <= Time(E, S, j).start
                               \/ Time(E, S, j).end <= Time(E, S, i).start
  <2>1. TAKE i, j \in B
  <2>2. HAVE i # j
  <2>3. ~Overlap(S[E[i].slot], S[E[j].slot])
    BY <2>2 DEF Tidy, BlocksDisjoint
  <2> QED BY <1>1, <2>3 DEF Overlap, Block
<1>3. \A i, j \in B : Time(E, S, i) = Time(E, S, j) => i = j
  BY <1>1, <1>2 DEF Block
<1> HIDE DEF B
<1>4. \A p \in Blocks(E, S, a, d) : \E i \in B : p = Time(E, S, i)
  BY DEF Blocks, B
<1>5. Separate(Blocks(E, S, a, d))
  BY <1>1, <1>2, <1>4, Zenon DEF Separate
<1>6. ASSUME NEW i \in B, NEW j \in B
      PROVE  Before(E, S, i, j) <=> Time(E, S, i).start < Time(E, S, j).start
  <2>1. CASE i = j
    BY <1>1, <2>1 DEF Before, Block
  <2>2. CASE i # j
    <3>1. Time(E, S, i).start # Time(E, S, j).start
      BY <1>1, <1>2, <2>2 DEF Block
    <3> QED BY <1>1, <3>1 DEF Before, Block
  <2> QED BY <2>1, <2>2
<1> QED BY <1>3, <1>5, <1>6 DEF B

LEMMA TidyRuns ==
  ASSUME NEW E, NEW S, NEW a, NEW d, Tidy(E, S, a, d), NEW i \in Bucket(E, S, a, d)
  PROVE  RunOf(E, S, a, d, i) =
           {j \in Bucket(E, S, a, d) :
              Joined(Blocks(E, S, a, d), Time(E, S, i), Time(E, S, j))}
<1> DEFINE B == Bucket(E, S, a, d)  V == Blocks(E, S, a, d)
<1>1. \A u, v \in B : Before(E, S, u, v) <=> Time(E, S, u).start < Time(E, S, v).start
  BY TidyBlocks
<1>2. \A u \in B : Time(E, S, u) \in V /\ Time(E, S, u).start \in Nat
  BY TidyBlocks DEF Blocks, Separate, Block
<1>3. \A p \in V : \E u \in B : p = Time(E, S, u)
  BY DEF Blocks
<1>4. \A u \in B : /\ Time(E, S, u).start = S[E[u].slot].start
                   /\ Time(E, S, u).end = S[E[u].slot].end
  BY DEF Time
<1> HIDE DEF B, V
<1>5. ASSUME NEW j \in B, NEW l \in B
      PROVE  Contiguous(E, S, B, j, l) <=> Linked(V, Time(E, S, j), Time(E, S, l))
  <2>1. ASSUME Contiguous(E, S, B, j, l) PROVE Linked(V, Time(E, S, j), Time(E, S, l))
    <3> SUFFICES ASSUME NEW p \in V, NEW q \in V, Time(E, S, j).start <= p.start,
                        p.start < q.start, q.start <= Time(E, S, l).start,
                        ~\E r \in V : p.start < r.start /\ r.start < q.start
                 PROVE  p.end = q.start
      BY DEF Linked
    <3>1. PICK u \in B : p = Time(E, S, u)
      BY <1>3
    <3>2. PICK v \in B : q = Time(E, S, v)
      BY <1>3
    <3>3. ~Before(E, S, u, j) /\ ~Before(E, S, l, v) /\ Before(E, S, u, v)
      BY <1>1, <1>2, <3>1, <3>2
    <3>4. ~\E w \in B : Before(E, S, u, w) /\ Before(E, S, w, v)
      BY <1>1, <1>2, <3>1, <3>2
    <3>5. S[E[u].slot].end = S[E[v].slot].start
      BY <2>1, <3>3, <3>4 DEF Contiguous
    <3> QED BY <1>4, <3>1, <3>2, <3>5
  <2>2. ASSUME Linked(V, Time(E, S, j), Time(E, S, l)) PROVE Contiguous(E, S, B, j, l)
    <3> SUFFICES ASSUME NEW u \in B, NEW v \in B, ~Before(E, S, u, j), ~Before(E, S, l, v),
                        Before(E, S, u, v),
                        ~\E w \in B : Before(E, S, u, w) /\ Before(E, S, w, v)
                 PROVE  S[E[u].slot].end = S[E[v].slot].start
      BY DEF Contiguous
    <3>1. /\ Time(E, S, j).start <= Time(E, S, u).start
          /\ Time(E, S, u).start < Time(E, S, v).start
          /\ Time(E, S, v).start <= Time(E, S, l).start
      BY <1>1, <1>2
    <3>2. ~\E r \in V : Time(E, S, u).start < r.start /\ r.start < Time(E, S, v).start
      BY <1>1, <1>3
    <3>3. Time(E, S, u).end = Time(E, S, v).start
      BY <1>2, <2>2, <3>1, <3>2 DEF Linked
    <3> QED BY <1>4, <3>3
  <2> QED BY <2>1, <2>2
<1>6. i \in B
  BY DEF B
<1>7. RunOf(E, S, a, d, i) = {j \in B : Contiguous(E, S, B, i, j) /\ Contiguous(E, S, B, j, i)}
  BY DEF RunOf, B
<1>8. \A j \in B : Contiguous(E, S, B, i, j) /\ Contiguous(E, S, B, j, i)
                     <=> Joined(V, Time(E, S, i), Time(E, S, j))
  BY <1>5, <1>6 DEF Joined
<1>9. RunOf(E, S, a, d, i) = {j \in B : Joined(V, Time(E, S, i), Time(E, S, j))}
  BY <1>7, <1>8
<1> QED BY <1>9 DEF B, V

\* Each block of the second timetable is one of the first, and no two are the same one.
Copies(F, U, E, S, a, d) ==
  \E f \in [Bucket(F, U, a, d) -> Bucket(E, S, a, d)] :
    /\ \A j \in Bucket(F, U, a, d) : Time(F, U, j) = Time(E, S, f[j])
    /\ \A j, l \in Bucket(F, U, a, d) : f[j] = f[l] => j = l

LEMMA CopiesTidy ==
  ASSUME NEW E, NEW S, NEW F, NEW U, NEW a, NEW d, Tidy(E, S, a, d), Copies(F, U, E, S, a, d),
         \A j \in Bucket(F, U, a, d) : j \in Int /\ U[F[j].slot] \in Shapes
  PROVE  Tidy(F, U, a, d) /\ Blocks(F, U, a, d) \subseteq Blocks(E, S, a, d)
<1> DEFINE B == Bucket(E, S, a, d)  C == Bucket(F, U, a, d)
<1>1. PICK f \in [C -> B] :
        /\ \A j \in C : Time(F, U, j) = Time(E, S, f[j])
        /\ \A j, l \in C : f[j] = f[l] => j = l
  BY DEF Copies
<1>2. \A j \in C : f[j] \in B /\ Time(E, S, f[j]) \in Blocks(E, S, a, d)
  BY DEF Blocks
<1>3. Blocks(F, U, a, d) \subseteq Blocks(E, S, a, d)
  BY <1>1, <1>2 DEF Blocks
<1>4. ASSUME NEW j \in C, NEW l \in C, j # l PROVE ~Overlap(U[F[j].slot], U[F[l].slot])
  <2>1. ~Overlap(S[E[f[j]].slot], S[E[f[l]].slot])
    BY <1>1, <1>2, <1>4 DEF Tidy, BlocksDisjoint
  <2>2. /\ U[F[j].slot].start = S[E[f[j]].slot].start /\ U[F[j].slot].end = S[E[f[j]].slot].end
        /\ U[F[l].slot].start = S[E[f[l]].slot].start /\ U[F[l].slot].end = S[E[f[l]].slot].end
    BY <1>1 DEF Time
  <2> QED BY <2>1, <2>2 DEF Overlap
<1> QED BY <1>3, <1>4 DEF Tidy, BlocksDisjoint

\* A timetable made of blocks of another one keeps the runs it holds.
LEMMA RunCopied ==
  ASSUME NEW E, NEW S, NEW F, NEW U, NEW a, NEW d,
         Tidy(E, S, a, d), Tidy(F, U, a, d), Blocks(F, U, a, d) \subseteq Blocks(E, S, a, d),
         NEW i \in Bucket(E, S, a, d), RunOf(E, S, a, d, i) \subseteq Bucket(F, U, a, d),
         i \in Bucket(F, U, a, d),
         \A j \in RunOf(E, S, a, d, i) \cup {i} : Time(F, U, j) = Time(E, S, j)
  PROVE  RunOf(F, U, a, d, i) = RunOf(E, S, a, d, i)
<1> DEFINE B == Bucket(E, S, a, d)  C == Bucket(F, U, a, d)
           W == Blocks(E, S, a, d)  V == Blocks(F, U, a, d)
           R == RunOf(E, S, a, d, i)  x == Time(E, S, i)
<1>1. R = {j \in B : Joined(W, x, Time(E, S, j))}
  BY TidyRuns
<1>2. RunOf(F, U, a, d, i) = {j \in C : Joined(V, Time(F, U, i), Time(F, U, j))}
  BY TidyRuns
<1>3. Separate(W) /\ V \subseteq W /\ Time(F, U, i) = x
  BY TidyBlocks
<1>4. /\ \A p \in W : \E j \in B : p = Time(E, S, j)
      /\ \A j \in C : Time(F, U, j) \in V
  BY DEF Blocks
<1>5. \A j, l \in C : Time(F, U, j) = Time(F, U, l) => j = l
  BY TidyBlocks
<1>6. R \subseteq C /\ i \in C /\ \A j \in R : Time(F, U, j) = Time(E, S, j)
  OBVIOUS
<1> HIDE DEF B, C, W, V, R, x
<1>7. x \in V
  BY <1>3, <1>4, <1>6
<1>8. \A u \in W : Joined(W, x, u) => \E j \in R : u = Time(F, U, j)
  <2>1. TAKE u \in W
  <2>2. HAVE Joined(W, x, u)
  <2>3. PICK j \in B : u = Time(E, S, j)
    BY <1>4
  <2>4. j \in R
    BY <1>1, <2>2, <2>3
  <2> QED BY <1>6, <2>3, <2>4
<1>9. \A u \in W : Joined(W, x, u) => u \in V
  BY <1>4, <1>6, <1>8
<1>10. \A y \in V : Joined(V, x, y) <=> Joined(W, x, y)
  BY <1>3, <1>7, <1>9, JoinedKept
<1>11. ASSUME NEW j \in C, Joined(V, x, Time(F, U, j)) PROVE j \in R
  <2>1. Joined(W, x, Time(F, U, j)) /\ Time(F, U, j) \in W
    BY <1>3, <1>4, <1>10, <1>11
  <2>2. PICK l \in R : Time(F, U, j) = Time(F, U, l)
    BY <1>8, <2>1
  <2>3. l \in C
    BY <1>6
  <2> QED BY <1>5, <1>11, <2>2, <2>3
<1>12. ASSUME NEW j \in R PROVE j \in C /\ Joined(V, x, Time(F, U, j))
  <2>1. j \in C /\ Time(F, U, j) = Time(E, S, j)
    BY <1>6
  <2>2. Joined(W, x, Time(E, S, j))
    BY <1>1
  <2> QED BY <1>4, <1>10, <2>1, <2>2
<1>13. \A j : j \in C /\ Joined(V, x, Time(F, U, j)) <=> j \in R
  BY <1>11, <1>12
<1>14. RunOf(F, U, a, d, i) = R
  BY <1>2, <1>3, <1>13 DEF C, V
<1> QED BY <1>14 DEF R

\* Being in a run together goes both ways, and through.
LEMMA RunShared ==
  ASSUME NEW E, NEW S, NEW a, NEW d, Tidy(E, S, a, d), NEW i, NEW j \in RunOf(E, S, a, d, i)
  PROVE  /\ i \in RunOf(E, S, a, d, j) /\ RunOf(E, S, a, d, j) = RunOf(E, S, a, d, i)
         /\ i \in Bucket(E, S, a, d) /\ j \in Bucket(E, S, a, d)
<1> DEFINE B == Bucket(E, S, a, d)  V == Blocks(E, S, a, d)
<1>1. i \in B /\ j \in B
  BY DEF RunOf
<1>2. \A l \in B : RunOf(E, S, a, d, l) = {m \in B : Joined(V, Time(E, S, l), Time(E, S, m))}
  BY TidyRuns
<1>3. Separate(V)
  BY TidyBlocks
<1>4. \A l \in B : Time(E, S, l) \in V
  BY DEF Blocks
<1> HIDE DEF B, V
<1>5. Joined(V, Time(E, S, i), Time(E, S, j))
  BY <1>1, <1>2
<1>6. Joined(V, Time(E, S, j), Time(E, S, i))
  BY <1>5 DEF Joined
<1>7. i \in RunOf(E, S, a, d, j)
  BY <1>1, <1>2, <1>6
<1>8. \A m \in B : Joined(V, Time(E, S, j), Time(E, S, m)) <=> Joined(V, Time(E, S, i), Time(E, S, m))
  BY <1>1, <1>3, <1>4, <1>5, <1>6, JoinedThrough
<1>9. RunOf(E, S, a, d, j) = RunOf(E, S, a, d, i)
  BY <1>1, <1>2, <1>8
<1> QED BY <1>1, <1>7, <1>9 DEF B

-----------------------------------------------------------------------------
(* One booking: the entries E and slots S it read, F and U the tables have *)
(* now, and G once c is booked as entry k.  n is k for an update, 0 for a  *)
(* new entry.                                                              *)
TimetableOK(E, S) ==
  /\ E \in [EntryIds -> Cells \cup {None}]
  /\ \A j \in EntryIds : Present(E[j]) => S[E[j].slot] \in Shapes

Saved(F, c, k, G) == G = [F EXCEPT ![k] = c]

\* What the locked rows keep as it was read.
StillShared(E, S, F, U, c) ==
  \A j \in EntryIds : Present(F[j]) /\ F[j].ta = c.ta =>
    E[j] = F[j] /\ KeepsBlock(S[F[j].slot], U[F[j].slot])

Books(E, F, c, k, n) ==
  /\ c \in Cells /\ k \in EntryIds
  /\ \/ n = 0 /\ F[k] = None
     \/ n = k /\ E[k] = F[k]

LEMMA InBucket ==
  ASSUME NEW E, NEW S, TimetableOK(E, S), NEW a, NEW d
  PROVE  \A j : j \in Bucket(E, S, a, d) <=>
           /\ j \in EntryIds /\ Present(E[j]) /\ E[j].ta = a /\ E[j].day = d
           /\ S[E[j].slot].type = "CLASS"
  BY DEF TimetableOK, Bucket

LEMMA InPlanned ==
  ASSUME NEW E, NEW S, NEW c \in Cells \cup {None}, NEW n, NEW a, NEW d
  PROVE  /\ \A j \in EntryIds \ {n} : Planned(E, c, n)[j] = E[j]
         /\ Planned(E, c, n)[n] = c
         /\ \A j : j \in Bucket(Planned(E, c, n), S, a, d) <=>
              /\ j \in EntryIds \cup {n} /\ Present(Planned(E, c, n)[j])
              /\ Planned(E, c, n)[j].ta = a /\ Planned(E, c, n)[j].day = d
              /\ S[Planned(E, c, n)[j].slot].type = "CLASS"
  BY DEF Planned, Bucket

LEMMA AnchorCopied ==
  ASSUME NEW E, NEW F, NEW S, NEW R, NEW i, IsAnchor(E, S, R, i), \A j \in R : F[j] = E[j]
  PROVE  IsAnchor(F, S, R, i)
  BY DEF IsAnchor, Before

\* Part of a timetable is tidy and keeps the runs it holds.
LEMMA RunInPart ==
  ASSUME NEW E, NEW S, NEW D, NEW a, NEW d, Tidy(E, S, a, d),
         Bucket(D, S, a, d) \subseteq Bucket(E, S, a, d),
         \A j \in Bucket(D, S, a, d) : D[j] = E[j],
         NEW i \in Bucket(E, S, a, d), i \in Bucket(D, S, a, d),
         RunOf(E, S, a, d, i) \subseteq Bucket(D, S, a, d)
  PROVE  RunOf(D, S, a, d, i) = RunOf(E, S, a, d, i)
<1> DEFINE C == Bucket(D, S, a, d)
<1>1. \A j \in C : Time(D, S, j) = Time(E, S, j) /\ j \in Int /\ S[D[j].slot] \in Shapes
  BY DEF Time, Tidy
<1>2. Copies(D, S, E, S, a, d)
  <2> DEFINE f == [j \in C |-> j]
  <2>1. f \in [C -> Bucket(E, S, a, d)] /\ \A j \in C : f[j] = j
    OBVIOUS
  <2> HIDE DEF f
  <2> QED BY <1>1, <2>1 DEF Copies
<1>3. Tidy(D, S, a, d) /\ Blocks(D, S, a, d) \subseteq Blocks(E, S, a, d)
  BY <1>1, <1>2, CopiesTidy
<1>4. \A j \in RunOf(E, S, a, d, i) \cup {i} : Time(D, S, j) = Time(E, S, j)
  BY <1>1
<1> HIDE DEF C
<1> QED BY <1>3, <1>4, RunCopied

\* The run R of anchor i, in what was read and in the tables, has no block k.
RunSeen(E, S, F, U, c, k, i, R) ==
  /\ i # k /\ i \in R /\ k \notin R /\ IsAnchor(E, S, R, i)
  /\ R = RunOf(E, S, c.ta, c.day, i) /\ R = RunOf(F, U, c.ta, c.day, i)

\* D is E without entry n, and c joins no run of it that has attendance.
JoinsNone(E, S, X, c, n, D) ==
  /\ Bucket(D, S, c.ta, c.day) = Bucket(E, S, c.ta, c.day) \ {n}
  /\ \A j \in EntryIds \ {n} : D[j] = E[j]
  /\ \A j \in RunOf(Planned(E, c, n), S, c.ta, c.day, n) \ {n} : ~InUse(D, S, X, j)

\* A block that joins no run with attendance leaves the run R of its day alone.
LEMMA JoiningKeeps ==
  ASSUME NEW E, NEW S, NEW F, NEW U, NEW c, NEW k, NEW n, NEW G, NEW X, NEW x \in X,
         NEW R, NEW D, NEW i \in EntryIds,
         TimetableOK(E, S), TimetableOK(F, U), Books(E, F, c, k, n),
         StillShared(E, S, F, U, c),
         S[c.slot] = U[c.slot], U[c.slot] \in Shapes, U[c.slot].type = "CLASS",
         Saved(F, c, k, G), x.anchor = i,
         RunSeen(E, S, F, U, c, k, i, R), JoinsNone(E, S, X, c, n, D),
         Tidy(E, S, c.ta, c.day), Tidy(Planned(E, c, n), S, c.ta, c.day)
  PROVE  RunOf(G, U, c.ta, c.day, i) = R
<1> DEFINE a == c.ta  d == c.day  P == Planned(E, c, n)
<1>0. /\ c \in Cells /\ k \in EntryIds /\ n \in {0, k} /\ 0 \notin EntryIds
      /\ (n = 0 /\ F[k] = None) \/ (n = k /\ E[k] = F[k])
  BY DEF Books, EntryIds
<1>1. /\ i # k /\ i \in R /\ k \notin R /\ IsAnchor(E, S, R, i)
      /\ R = RunOf(E, S, a, d, i) /\ R = RunOf(F, U, a, d, i)
  BY DEF RunSeen
<1>2. /\ Bucket(D, S, a, d) = Bucket(E, S, a, d) \ {n}
      /\ \A j \in EntryIds \ {n} : D[j] = E[j]
      /\ \A j \in RunOf(P, S, a, d, n) \ {n} : ~InUse(D, S, X, j)
  BY DEF JoinsNone
<1>3. /\ R \subseteq Bucket(E, S, a, d) /\ R \subseteq Bucket(F, U, a, d)
      /\ n \notin R /\ i # n /\ R \subseteq EntryIds \ {n}
  <2>1. R \subseteq Bucket(E, S, a, d) /\ R \subseteq Bucket(F, U, a, d)
    BY <1>1 DEF RunOf
  <2>2. R \subseteq EntryIds
    BY <2>1, InBucket
  <2> QED BY <1>0, <1>1, <2>1, <2>2
<1>4. R \subseteq Bucket(D, S, a, d) /\ i \in Bucket(D, S, a, d) /\ i \in Bucket(E, S, a, d)
  BY <1>1, <1>2, <1>3
<1>5. \A j \in Bucket(D, S, a, d) : D[j] = E[j]
  BY <1>2, InBucket
<1>6. RunOf(D, S, a, d, i) = R
  <2>1. /\ Bucket(D, S, a, d) \subseteq Bucket(E, S, a, d) /\ Tidy(E, S, a, d)
        /\ RunOf(E, S, a, d, i) = R /\ RunOf(E, S, a, d, i) \subseteq Bucket(D, S, a, d)
    BY <1>1, <1>2, <1>4
  <2> HIDE DEF a, d
  <2>2. RunOf(D, S, a, d, i) = RunOf(E, S, a, d, i)
    BY <1>4, <1>5, <2>1, RunInPart
  <2> QED BY <2>1, <2>2
<1>7. InUse(D, S, X, i)
  <2>1. D[i] = E[i] /\ E[i].ta = a /\ E[i].day = d
    BY <1>2, <1>3, <1>4, InBucket
  <2>2. IsAnchor(D, S, R, i)
    BY <1>1, <1>2, <1>3, AnchorCopied
  <2> QED BY <1>6, <2>1, <2>2 DEF InUse
<1>8. /\ \A j \in EntryIds \ {n} : P[j] = E[j]
      /\ P[n] = c
      /\ \A j : j \in Bucket(P, S, a, d) <=>
           /\ j \in EntryIds \cup {n} /\ Present(P[j]) /\ P[j].ta = a /\ P[j].day = d
           /\ S[P[j].slot].type = "CLASS"
  BY <1>0 DEF Planned, Bucket
<1>9. Tidy(P, S, a, d) /\ \A j \in RunOf(P, S, a, d, n) \ {n} : ~InUse(D, S, X, j)
  BY <1>2
<1> HIDE DEF P
<1>10. n \notin RunOf(P, S, a, d, i)
  <2>1. i \notin RunOf(P, S, a, d, n)
    BY <1>3, <1>7, <1>9
  <2> QED BY <1>9, <2>1, RunShared
<1>11. Bucket(D, S, a, d) \subseteq Bucket(P, S, a, d) /\ Bucket(P, S, a, d) \subseteq Bucket(D, S, a, d) \cup {n}
  <2>1. \A j : j \in Bucket(E, S, a, d) <=>
          /\ j \in EntryIds /\ Present(E[j]) /\ E[j].ta = a /\ E[j].day = d
          /\ S[E[j].slot].type = "CLASS"
    BY InBucket
  <2> QED BY <1>2, <1>8, <2>1
<1>12. RunOf(P, S, a, d, i) = R
  <2>1. RunOf(P, S, a, d, i) \subseteq Bucket(D, S, a, d)
    <3>1. RunOf(P, S, a, d, i) \subseteq Bucket(P, S, a, d)
      BY DEF RunOf
    <3> QED BY <1>10, <1>11, <3>1
  <2>2. \A j \in Bucket(D, S, a, d) : D[j] = P[j]
    BY <1>2, <1>5, <1>8, InBucket
  <2>3. i \in Bucket(P, S, a, d)
    BY <1>4, <1>11
  <2>4. RunOf(D, S, a, d, i) = RunOf(P, S, a, d, i)
    BY <1>4, <1>9, <1>11, <2>1, <2>2, <2>3, RunInPart
  <2> QED BY <1>6, <2>4
<1>13. /\ G \in [EntryIds -> Cells \cup {None}] /\ G[k] = c
       /\ \A j \in EntryIds \ {k} : G[j] = F[j]
  BY <1>0 DEF TimetableOK, Saved
<1>14. TimetableOK(G, U)
  BY <1>13 DEF TimetableOK
<1>15. \A j : j \in Bucket(F, U, a, d) <=>
         /\ j \in EntryIds /\ Present(F[j]) /\ F[j].ta = a /\ F[j].day = d
         /\ U[F[j].slot].type = "CLASS"
  BY InBucket
<1>16. \A j : j \in Bucket(G, U, a, d) <=>
         /\ j \in EntryIds /\ Present(G[j]) /\ G[j].ta = a /\ G[j].day = d
         /\ U[G[j].slot].type = "CLASS"
  BY <1>14, InBucket
<1>17. \A j : j \in Bucket(G, U, a, d) =>
         /\ j \in EntryIds
         /\ j = k \/ (j # k /\ j \in Bucket(F, U, a, d) /\ G[j] = F[j])
  <2>1. TAKE j
  <2>2. HAVE j \in Bucket(G, U, a, d)
  <2>3. /\ j \in EntryIds /\ Present(G[j]) /\ G[j].ta = a /\ G[j].day = d
        /\ U[G[j].slot].type = "CLASS"
    BY <1>16, <2>2
  <2>4. j # k => G[j] = F[j] /\ j \in Bucket(F, U, a, d)
    BY <1>13, <1>15, <2>3
  <2> QED BY <2>3, <2>4
<1>18. ASSUME NEW j \in Bucket(F, U, a, d), j # k
       PROVE  j \in Bucket(P, S, a, d) /\ j # n /\ Time(P, S, j) = Time(F, U, j)
  <2>1. /\ j \in EntryIds /\ Present(F[j]) /\ F[j].ta = a /\ F[j].day = d
        /\ U[F[j].slot].type = "CLASS"
    BY InBucket
  <2>2. E[j] = F[j] /\ KeepsBlock(S[F[j].slot], U[F[j].slot])
    BY <2>1 DEF StillShared
  <2>3. j # n /\ P[j] = E[j]
    BY <1>0, <1>8, <1>18, <2>1
  <2>4. S[P[j].slot].type = "CLASS" /\ Time(P, S, j) = Time(F, U, j)
    BY <2>1, <2>2, <2>3 DEF KeepsBlock, Time
  <2>5. Present(P[j]) /\ P[j].ta = a /\ P[j].day = d
    BY <2>1, <2>2, <2>3
  <2> QED BY <1>8, <2>1, <2>3, <2>4, <2>5
<1>19. n \in Bucket(P, S, a, d) /\ Time(P, S, n) = Time(G, U, k)
  <2>1. Present(c)
    BY <1>0, ConstantsAssumption DEF Present
  <2>2. n \in Bucket(P, S, a, d)
    BY <1>0, <1>8, <2>1
  <2> QED BY <1>8, <1>13, <2>2 DEF Time
<1>20. \A j \in Bucket(F, U, a, d) : j # k => Time(G, U, j) = Time(F, U, j) /\ j \in Bucket(G, U, a, d)
  <2>1. TAKE j \in Bucket(F, U, a, d)
  <2>2. HAVE j # k
  <2>3. /\ j \in EntryIds /\ Present(F[j]) /\ F[j].ta = a /\ F[j].day = d
        /\ U[F[j].slot].type = "CLASS"
    BY <1>15
  <2>4. G[j] = F[j]
    BY <1>13, <2>2, <2>3
  <2> QED BY <1>16, <2>3, <2>4 DEF Time
<1>21. Copies(G, U, P, S, a, d)
  <2> DEFINE f == [j \in Bucket(G, U, a, d) |-> IF j = k THEN n ELSE j]
  <2>1. \A j \in Bucket(G, U, a, d) :
          (IF j = k THEN n ELSE j) \in Bucket(P, S, a, d) /\ (j # k => j # n)
    BY <1>17, <1>18, <1>19
  <2>2. f \in [Bucket(G, U, a, d) -> Bucket(P, S, a, d)]
    BY <2>1
  <2>3. \A j \in Bucket(G, U, a, d) : f[j] = IF j = k THEN n ELSE j
    OBVIOUS
  <2> HIDE DEF f
  <2>4. \A j \in Bucket(G, U, a, d) : Time(G, U, j) = Time(P, S, f[j])
    BY <1>17, <1>18, <1>19, <1>20, <2>3
  <2>5. \A j, l \in Bucket(G, U, a, d) : f[j] = f[l] => j = l
    <3>1. TAKE j, l \in Bucket(G, U, a, d)
    <3>2. /\ f[j] = IF j = k THEN n ELSE j
          /\ f[l] = IF l = k THEN n ELSE l
          /\ j # k => j # n
          /\ l # k => l # n
      BY <2>1, <2>3
    <3> QED BY <3>2
  <2> QED BY <2>2, <2>4, <2>5 DEF Copies
<1>22. \A j \in Bucket(G, U, a, d) : j \in Int /\ U[G[j].slot] \in Shapes
  <2>1. TAKE j \in Bucket(G, U, a, d)
  <2>2. j \in EntryIds /\ Present(G[j])
    BY <1>14, InBucket
  <2> QED BY <1>14, <2>2 DEF TimetableOK, EntryIds
<1>23. Tidy(G, U, a, d) /\ Blocks(G, U, a, d) \subseteq Blocks(P, S, a, d)
  BY <1>9, <1>21, <1>22, CopiesTidy
<1>24. R \subseteq Bucket(G, U, a, d) /\ i \in Bucket(G, U, a, d) /\ i \in Bucket(P, S, a, d)
  BY <1>1, <1>3, <1>4, <1>11, <1>20
<1>25. \A j \in R \cup {i} : Time(G, U, j) = Time(P, S, j)
  BY <1>1, <1>3, <1>18, <1>20
<1>26. RunOf(G, U, a, d, i) = RunOf(P, S, a, d, i)
  <2>1. \A j \in RunOf(P, S, a, d, i) \cup {i} : Time(G, U, j) = Time(P, S, j)
    BY <1>12, <1>25
  <2>2. RunOf(P, S, a, d, i) \subseteq Bucket(G, U, a, d)
    BY <1>12, <1>24
  <2>3. Tidy(P, S, a, d)
    BY <1>9
  <2> HIDE DEF a, d
  <2> QED BY <1>23, <1>24, <2>1, <2>2, <2>3, RunCopied
<1> QED BY <1>12, <1>26

\* A block that leaves the day, or was not there, leaves the runs it is not in alone.
LEMMA LeavingKeeps ==
  ASSUME NEW F, NEW U, NEW c \in Cells, NEW k \in EntryIds, NEW G, NEW a, NEW d, NEW i, NEW R,
         TimetableOK(F, U), Saved(F, c, k, G), k \notin Bucket(G, U, a, d),
         Tidy(F, U, a, d), R = RunOf(F, U, a, d, i), i \in R, k \notin R
  PROVE  RunOf(G, U, a, d, i) = R
<1>1. /\ G \in [EntryIds -> Cells \cup {None}]
      /\ \A j \in EntryIds \ {k} : G[j] = F[j]
  BY DEF TimetableOK, Saved
<1>2. \A j : j \in Bucket(F, U, a, d) <=>
        /\ j \in EntryIds /\ Present(F[j]) /\ F[j].ta = a /\ F[j].day = d
        /\ U[F[j].slot].type = "CLASS"
  BY InBucket
<1>3. \A j : j \in Bucket(G, U, a, d) <=>
        /\ j \in EntryIds /\ Present(G[j]) /\ G[j].ta = a /\ G[j].day = d
        /\ U[G[j].slot].type = "CLASS"
  BY <1>1 DEF Bucket
<1>4. /\ Bucket(G, U, a, d) \subseteq Bucket(F, U, a, d)
      /\ \A j \in Bucket(G, U, a, d) : G[j] = F[j]
      /\ \A j \in Bucket(F, U, a, d) \ {k} : j \in Bucket(G, U, a, d)
  BY <1>1, <1>2, <1>3
<1>5. R \subseteq Bucket(F, U, a, d)
  BY DEF RunOf
<1>6. i \in Bucket(F, U, a, d) /\ R \subseteq Bucket(G, U, a, d) /\ i \in Bucket(G, U, a, d)
  BY <1>4, <1>5
<1>7. RunOf(F, U, a, d, i) \subseteq Bucket(G, U, a, d)
  BY <1>6
<1>8. RunOf(G, U, a, d, i) = RunOf(F, U, a, d, i)
  BY <1>4, <1>6, <1>7, RunInPart
<1> QED BY <1>8

\* What SaveNew and SaveMoved check of the runs.
Checked(E, S, X, c, k, n) ==
  \/ n = k /\ c = E[k]
  \/ /\ n = k => ~InUse(E, S, X, k)
     /\ \A j \in RunOf(Planned(E, c, n), S, c.ta, c.day, n) \ {n} :
          ~InUse(IF n = 0 THEN E ELSE Planned(E, None, n), S, X, j)

\* A booking that passes the checks keeps the occurrences it saw.
LEMMA BookingKeeps ==
  ASSUME NEW E, NEW S, NEW F, NEW U, NEW c, NEW k, NEW n, NEW G, NEW X, NEW x \in X,
         x.anchor \in EntryIds,
         TimetableOK(E, S), TimetableOK(F, U), Books(E, F, c, k, n),
         StillShared(E, S, F, U, c), Checked(E, S, X, c, k, n),
         S[c.slot] = U[c.slot], U[c.slot] \in Shapes, Saved(F, c, k, G),
         Intact(E, S, x), Intact(F, U, x),
         BlocksDisjoint(F, U, F[x.anchor].ta, F[x.anchor].day),
         BlocksDisjoint(E, S, F[x.anchor].ta, F[x.anchor].day),
         BlocksDisjoint(Planned(E, c, n), S, F[x.anchor].ta, F[x.anchor].day)
  PROVE  Intact(G, U, x)
<1> DEFINE i == x.anchor  R == x.run  a == F[i].ta  d == F[i].day  P == Planned(E, c, n)
<1>0. /\ c \in Cells /\ k \in EntryIds /\ n \in {0, k} /\ 0 \notin EntryIds
      /\ (n = 0 /\ F[k] = None) \/ (n = k /\ E[k] = F[k])
  BY DEF Books, EntryIds
<1>1. /\ Present(F[i]) /\ R = RunOf(F, U, a, d, i) /\ IsAnchor(F, U, R, i) /\ i \in R
      /\ Present(E[i]) /\ R = RunOf(E, S, E[i].ta, E[i].day, i) /\ IsAnchor(E, S, R, i)
      /\ i \in EntryIds
  BY DEF Intact, IsAnchor
<1>2. R \subseteq Bucket(F, U, a, d) /\ R \subseteq Bucket(E, S, E[i].ta, E[i].day)
  BY <1>1 DEF RunOf
<1>3. Tidy(F, U, a, d) /\ Tidy(E, S, a, d) /\ Tidy(P, S, a, d)
  <2>1. \A j \in EntryIds : j \in Int
    BY DEF EntryIds
  <2>2. \A j \in Bucket(F, U, a, d) : j \in Int /\ U[F[j].slot] \in Shapes
    BY <2>1, InBucket DEF TimetableOK
  <2>3. \A j \in Bucket(E, S, a, d) : j \in Int /\ S[E[j].slot] \in Shapes
    BY <2>1, InBucket DEF TimetableOK
  <2>4. \A j \in Bucket(P, S, a, d) : j \in Int /\ S[P[j].slot] \in Shapes
    <3>1. TAKE j \in Bucket(P, S, a, d)
    <3>2. j \in EntryIds \cup {n} /\ Present(P[j]) /\ P[n] = c /\ (j # n => P[j] = E[j])
      BY <1>0 DEF Planned, Bucket
    <3> QED BY <1>0, <2>1, <3>2 DEF TimetableOK
  <2> QED BY <2>2, <2>3, <2>4 DEF Tidy
<1>4. CASE n = k /\ c = E[k]
  <2>1. G = F
    BY <1>0, <1>4 DEF TimetableOK, Saved
  <2> QED BY <2>1
<1>5. CASE ~(n = k /\ c = E[k])
  <2>0. /\ n = k => ~InUse(E, S, X, k)
        /\ \A j \in RunOf(P, S, c.ta, c.day, n) \ {n} :
             ~InUse(IF n = 0 THEN E ELSE Planned(E, None, n), S, X, j)
    BY <1>5 DEF Checked
  <2>1. k \notin R
    <3> SUFFICES ASSUME k \in R PROVE FALSE
      OBVIOUS
    <3>1. n = k /\ E[k] = F[k]
      BY <1>0, <1>2, InBucket DEF Present
    <3>2. E[k].ta = a /\ E[k].day = d /\ E[i].ta = a /\ E[i].day = d
      BY <1>2, <3>1, InBucket
    <3>3. R = RunOf(E, S, a, d, i)
      BY <1>1, <3>2
    <3>4. RunOf(E, S, a, d, k) = R
      BY <1>3, <3>3, RunShared
    <3>5. InUse(E, S, X, k)
      BY <1>1, <3>2, <3>4 DEF InUse
    <3> QED BY <2>0, <3>1, <3>5
  <2>2. i # k
    BY <1>1, <2>1
  <2>3. /\ \A j \in EntryIds \ {k} : G[j] = F[j]
        /\ G[k] = c /\ G \in [EntryIds -> Cells \cup {None}]
    BY <1>0 DEF TimetableOK, Saved
  <2>4. R \subseteq EntryIds \ {k}
    BY <1>2, <2>1, InBucket
  <2>5. RunOf(G, U, a, d, i) = R
    <3>1. CASE k \notin Bucket(G, U, a, d)
      BY <1>0, <1>1, <1>3, <2>1, <3>1, LeavingKeeps
    <3>2. CASE k \in Bucket(G, U, a, d)
      <4>1. c.ta = a /\ c.day = d /\ U[c.slot].type = "CLASS"
        BY <2>3, <3>2 DEF Bucket
      <4>2. E[i] = F[i]
        BY <1>1, <4>1 DEF StillShared
      <4> DEFINE D == IF n = 0 THEN E ELSE Planned(E, None, n)
      <4>3. \A j \in EntryIds \ {n} : D[j] = E[j]
        BY DEF Planned
      <4>4. Bucket(D, S, a, d) = Bucket(E, S, a, d) \ {n}
        <5>0. \A j : j \in Bucket(E, S, a, d) <=>
                /\ j \in EntryIds /\ Present(E[j]) /\ E[j].ta = a /\ E[j].day = d
                /\ S[E[j].slot].type = "CLASS"
          BY InBucket
        <5>1. CASE n = 0
          BY <1>0, <5>0, <5>1
        <5>2. CASE n # 0
          <6> DEFINE Q == Planned(E, None, n)
          <6>1. /\ \A j \in EntryIds \ {n} : Q[j] = E[j]
                /\ Q[n] = None /\ n \in EntryIds
                /\ \A j : j \in Bucket(Q, S, a, d) <=>
                     /\ j \in EntryIds \cup {n} /\ Present(Q[j]) /\ Q[j].ta = a /\ Q[j].day = d
                     /\ S[Q[j].slot].type = "CLASS"
            BY <1>0, <5>2 DEF Planned, Bucket
          <6> HIDE DEF Q
          <6>2. Bucket(Q, S, a, d) = Bucket(E, S, a, d) \ {n}
            BY <5>0, <6>1 DEF Present
          <6> QED BY <5>2, <6>2 DEF Q
        <5> QED BY <5>1, <5>2
      <4>5. \A j \in RunOf(P, S, a, d, n) \ {n} : ~InUse(D, S, X, j)
        BY <2>0, <4>1
      <4>6. R = RunOf(E, S, a, d, i) /\ R = RunOf(F, U, a, d, i)
        BY <1>1, <4>2
      <4> HIDE DEF D
      <4>8. /\ a = c.ta /\ d = c.day /\ i \in EntryIds /\ i \in R /\ IsAnchor(E, S, R, i)
            /\ x.anchor = i
        BY <1>1, <4>1
      <4>9. Tidy(E, S, a, d) /\ Tidy(Planned(E, c, n), S, a, d)
        BY <1>3
      <4>10. \A j \in RunOf(Planned(E, c, n), S, a, d, n) \ {n} : ~InUse(D, S, X, j)
        BY <4>5
      <4> HIDE DEF a, d, i, R, P
      <4>11. RunSeen(E, S, F, U, c, k, i, R)
        BY <2>1, <2>2, <4>6, <4>8 DEF RunSeen
      <4>12. JoinsNone(E, S, X, c, n, D)
        BY <4>3, <4>4, <4>8, <4>10 DEF JoinsNone
      <4>13. Tidy(E, S, c.ta, c.day) /\ Tidy(Planned(E, c, n), S, c.ta, c.day)
        BY <4>8, <4>9
      <4>7. RunOf(G, U, c.ta, c.day, i) = R
        BY <4>1, <4>8, <4>11, <4>12, <4>13, JoiningKeeps
      <4> QED BY <4>1, <4>7
    <3> QED BY <3>1, <3>2
  <2>6. IsAnchor(G, U, R, i)
    BY <1>1, <2>3, <2>4, AnchorCopied
  <2>7. G[i] = F[i]
    BY <1>1, <2>2, <2>3
  <2> QED BY <1>1, <2>5, <2>6, <2>7 DEF Intact
<1> QED BY <1>4, <1>5

-----------------------------------------------------------------------------
(* What a booking reads and relies on while others commit: the entry it    *)
(* updates is its own, and an entry that shares a locked row with it keeps *)
(* the times it was read with.                                             *)
Deciding == {"assignment"} \cup Booking

OwnsEntry(c, r, E) ==
  /\ c.phase \in Deciding /\ c.op = "create" => c.id = 0
  /\ c.phase \in Deciding /\ c.op = "update" => EntryRow(c.id) \in r /\ Present(E[c.id])
  /\ c.phase \in Seeing /\ c.op = "update" => c.snap.entries[c.id] = E[c.id]

ReadTimes(c, E, S) ==
  c.phase \in Seeing =>
    /\ TimetableOK(c.snap.entries, c.snap.slots)
    /\ \A i \in EntryIds : Present(E[i]) /\ SharesRow(E[i].ta, c.cell.ta) =>
         KeepsBlock(c.snap.slots[E[i].slot], S[E[i].slot])

NotYetBooked == \A i \in EntryIds : i >= nextId => entries[i] = None

ReadingInv ==
  /\ NotYetBooked
  /\ \A h \in Handlers : OwnsEntry(call[h], rows[h], entries) /\ ReadTimes(call[h], entries, slots)

LEMMA NothingRead ==
  ASSUME NEW c, c.phase \notin Deciding, NEW r, NEW E, NEW S
  PROVE  OwnsEntry(c, r, E) /\ ReadTimes(c, E, S)
  BY DEF OwnsEntry, ReadTimes, Deciding, Booking, Seeing

\* A step of h that writes neither entries nor slots.
LEMMA ReadingQuiet ==
  ASSUME ReadingInv, NEW h \in Handlers, entries' = entries, slots' = slots, nextId' = nextId,
         \A g \in Handlers \ {h} : call'[g] = call[g] /\ rows'[g] = rows[g],
         OwnsEntry(call'[h], rows'[h], entries), ReadTimes(call'[h], entries, slots)
  PROVE  ReadingInv'
<1>1. ASSUME NEW g \in Handlers
      PROVE  OwnsEntry(call'[g], rows'[g], entries') /\ ReadTimes(call'[g], entries', slots')
  <2>1. CASE g = h
    BY <2>1
  <2>2. CASE g # h
    <3>1. call'[g] = call[g] /\ rows'[g] = rows[g]
      BY <2>2
    <3>2. OwnsEntry(call[g], rows[g], entries) /\ ReadTimes(call[g], entries, slots)
      BY DEF ReadingInv
    <3> QED BY <3>1, <3>2
  <2> QED BY <2>1, <2>2
<1>2. NotYetBooked'
  BY DEF ReadingInv, NotYetBooked
<1> QED BY <1>1, <1>2 DEF ReadingInv

LEMMA OthersStay ==
  ASSUME TypeOK, NEW h \in Handlers, NEW c, NEW R,
         call' = [call EXCEPT ![h] = c], rows' = [rows EXCEPT ![h] = R] \/ rows' = rows
  PROVE  /\ call'[h] = c
         /\ \A g \in Handlers \ {h} : call'[g] = call[g] /\ rows'[g] = rows[g]
  BY DEF TypeOK

\* A booking is committed by h as entry k.
LEMMA ReadingSaved ==
  ASSUME TypeOK, Shaped, LocksInv, ReadingInv, NEW h \in Handlers, call[h].phase = "work",
         NEW k \in EntryIds, entries' = [entries EXCEPT ![k] = call[h].cell],
         slots' = slots, Commit(h),
         \A g \in Handlers \ {h} : call[g].phase \in Deciding /\ call[g].op = "update" => call[g].id # k,
         nextId' \in Nat, nextId \in Nat, k < nextId', nextId <= nextId'
  PROVE  ReadingInv'
<1> DEFINE c == call[h].cell
<1>1. c \in Cells /\ AssignmentRows(c.ta) \subseteq rows[h]
  BY DEF Shaped, CallShaped, LocksInv, Holds, Booking
<1> HIDE DEF c
<1>2. entries' = [entries EXCEPT ![k] = c] /\ entries \in [EntryIds -> Cells \cup {None}]
  BY DEF c, TypeOK
<1>3. /\ call'[h] = [Idle EXCEPT !.phase = "release"]
      /\ \A g \in Handlers \ {h} : call'[g] = call[g] /\ rows'[g] = rows[g]
  BY DEF TypeOK, Commit
<1>4. ASSUME NEW g \in Handlers
      PROVE  OwnsEntry(call'[g], rows'[g], entries') /\ ReadTimes(call'[g], entries', slots')
  <2>1. CASE g = h
    <3>1. call'[g].phase \notin Deciding
      BY <1>3, <2>1 DEF Idle, Deciding, Booking
    <3> QED BY <3>1, NothingRead
  <2>2. CASE g # h
    <3>1. call'[g] = call[g] /\ rows'[g] = rows[g]
      BY <1>3, <2>2
    <3>2. OwnsEntry(call[g], rows[g], entries) /\ ReadTimes(call[g], entries, slots)
      BY DEF ReadingInv
    <3>3. Holds(call[g], rows[g], named[g], slots) /\ rows[g] \cap rows[h] = {}
      BY <2>2 DEF LocksInv, Apart
    <3>4. call[g].phase \in Seeing => ~SharesRow(c.ta, call[g].cell.ta)
      BY <1>1, <3>3 DEF SharesRow, Holds, Seeing, Booking
    <3>5. ReadTimes(call[g], entries', slots)
      BY <1>2, <3>2, <3>4 DEF ReadTimes
    <3>6. call[g].phase \in Deciding /\ call[g].op = "update" =>
            call[g].id # k /\ call[g].id \in EntryIds
      BY <2>2 DEF Shaped, CallShaped
    <3>7. call[g].phase \in Deciding /\ call[g].op = "update" => entries'[call[g].id] = entries[call[g].id]
      BY <1>2, <3>6
    <3>8. OwnsEntry(call[g], rows[g], entries')
      BY <3>2, <3>7 DEF OwnsEntry, Deciding, Seeing, Booking
    <3> QED BY <3>1, <3>5, <3>8
  <2> QED BY <2>1, <2>2
<1>5. NotYetBooked'
  <2>1. \A i \in EntryIds : i \in Int /\ k \in Int
    BY DEF EntryIds
  <2> QED BY <1>2, <2>1 DEF ReadingInv, NotYetBooked
<1> QED BY <1>4, <1>5 DEF ReadingInv

LEMMA ReadingDeleted ==
  ASSUME TypeOK, Shaped, ReadingInv, NEW h \in Handlers, Delete(h)
  PROVE  ReadingInv'
<1>1. /\ entries \in [EntryIds -> Cells \cup {None}]
      /\ entries' = [entries EXCEPT ![call[h].id] = None]
      /\ call' = [call EXCEPT ![h] = Idle] /\ RowsFree(h, {EntryRow(call[h].id)})
      /\ slots' = slots /\ rows' = rows /\ nextId' = nextId
  BY DEF TypeOK, Delete, Finish, locks
<1>2. \A i \in EntryIds : entries'[i] = None \/ entries'[i] = entries[i]
  BY <1>1
<1>3. \A i \in EntryIds : Present(entries'[i]) => entries'[i] = entries[i]
  BY <1>2 DEF Present
<1>4. ASSUME NEW g \in Handlers
      PROVE  OwnsEntry(call'[g], rows'[g], entries') /\ ReadTimes(call'[g], entries', slots')
  <2>1. CASE g = h
    <3>1. call'[g] = Idle
      BY <1>1, <2>1 DEF TypeOK
    <3>2. call'[g].phase \notin Deciding
      BY <3>1 DEF Idle, Deciding, Booking
    <3> QED BY <3>2, NothingRead
  <2>2. CASE g # h
    <3>1. call'[g] = call[g] /\ rows'[g] = rows[g]
      BY <1>1, <2>2 DEF TypeOK
    <3>2. OwnsEntry(call[g], rows[g], entries) /\ ReadTimes(call[g], entries, slots)
      BY DEF ReadingInv
    <3>3. ReadTimes(call[g], entries', slots)
      BY <1>3, <3>2 DEF ReadTimes
    <3>4. call[g].phase \in Deciding /\ call[g].op = "update" =>
            call[g].id \in EntryIds /\ call[g].id # call[h].id
      BY <1>1, <2>2, <3>2 DEF OwnsEntry, RowsFree, Shaped, CallShaped
    <3>5. call[g].phase \in Deciding /\ call[g].op = "update" => entries'[call[g].id] = entries[call[g].id]
      BY <1>1, <3>4
    <3>6. OwnsEntry(call[g], rows[g], entries')
      BY <3>2, <3>5 DEF OwnsEntry, Deciding, Seeing, Booking
    <3> QED BY <1>1, <3>1, <3>3, <3>6
  <2> QED BY <2>1, <2>2
<1>5. NotYetBooked'
  BY <1>1, <1>2 DEF ReadingInv, NotYetBooked
<1> QED BY <1>4, <1>5 DEF ReadingInv

LEMMA ReadingWritten ==
  ASSUME TypeOK, Shaped, LocksInv, ReadingInv, [Next]_vars, NEW h \in Handlers, WriteSlot(h)
  PROVE  ReadingInv'
<1>1. /\ entries' = entries /\ nextId' = nextId /\ entries \in [EntryIds -> Cells \cup {None}]
      /\ call'[h] = [Idle EXCEPT !.phase = "release"]
      /\ \A g \in Handlers \ {h} : call'[g] = call[g] /\ rows'[g] = rows[g]
  BY DEF TypeOK, WriteSlot, Commit
<1>2. \A i \in EntryIds : Present(entries[i]) =>
        KeepsBlock(slots[entries[i].slot], slots'[entries[i].slot])
  <2>1. TAKE i \in EntryIds
  <2>2. HAVE Present(entries[i])
  <2>3. entries[i].slot \in Slots
    BY <1>1, <2>2 DEF Present, Cells
  <2>4. Booked(entries, entries[i].slot)
    BY <2>2 DEF Booked
  <2> QED BY <2>3, <2>4, BookedStep
<1>3. ASSUME NEW g \in Handlers
      PROVE  OwnsEntry(call'[g], rows'[g], entries') /\ ReadTimes(call'[g], entries', slots')
  <2>1. CASE g = h
    <3>1. call'[g].phase \notin Deciding
      BY <1>1, <2>1 DEF Idle, Deciding, Booking
    <3> QED BY <3>1, NothingRead
  <2>2. CASE g # h
    <3>1. call'[g] = call[g] /\ rows'[g] = rows[g]
      BY <1>1, <2>2
    <3>2. OwnsEntry(call[g], rows[g], entries) /\ ReadTimes(call[g], entries, slots)
      BY DEF ReadingInv
    <3>3. ReadTimes(call[g], entries, slots')
      BY <1>2, <3>2 DEF ReadTimes, KeepsBlock
    <3> QED BY <1>1, <3>1, <3>2, <3>3
  <2> QED BY <2>1, <2>2
<1>4. NotYetBooked'
  BY <1>1 DEF ReadingInv, NotYetBooked
<1> QED BY <1>3, <1>4 DEF ReadingInv

LEMMA ReadingInit == Init => ReadingInv
<1> SUFFICES ASSUME Init PROVE ReadingInv
  OBVIOUS
<1>1. \A h \in Handlers : call[h].phase \notin Deciding
  BY DEF Init, Idle, Deciding, Booking
<1>2. \A h \in Handlers : OwnsEntry(call[h], rows[h], entries) /\ ReadTimes(call[h], entries, slots)
  BY <1>1, NothingRead
<1>3. NotYetBooked
  BY DEF Init, NotYetBooked
<1> QED BY <1>2, <1>3 DEF ReadingInv

\* The requests that decide nothing about a booking.
LEMMA ReadingAside ==
  ASSUME TypeOK, ReadingInv, NEW h \in Handlers,
         \/ Remove(h) \/ StartSession(h) \/ ReadRun(h) \/ ReadUse(h) \/ InsertSession(h)
         \/ MutateSlot(h) \/ LockSlotRow(h) \/ ReadSlotUse(h) \/ ReleaseLocks(h) \/ Abort(h)
  PROVE  ReadingInv'
<1> DEFINE Aside == {"idle", "read_run", "read_use", "delete", "insert_session",
                     "slot_row", "slot_read", "slot_write"}
<1>1. /\ entries' = entries /\ slots' = slots /\ nextId' = nextId
      /\ rows' = rows \/ \E R : rows' = [rows EXCEPT ![h] = R]
  BY DEF tables, locks, Remove, StartSession, ReadRun, ReadUse, InsertSession, MutateSlot,
         LockSlotRow, ReadSlotUse, ReleaseLocks, Abort
<1>2. \E c : call' = [call EXCEPT ![h] = c] /\ c.phase \in Aside
  <2>0. call[h] \in Call
    BY DEF TypeOK
  <2>1. CASE Remove(h)
    BY <2>1 DEF Remove, Idle
  <2>2. CASE StartSession(h)
    BY <2>2 DEF StartSession, Idle
  <2>3. CASE ReadRun(h)
    <3>1. PICK a, run :
            \/ call' = [call EXCEPT ![h].phase = "read_use", ![h].anchor = a]
            \/ call' = [call EXCEPT ![h].phase = "insert_session", ![h].anchor = a, ![h].run = run]
      BY <2>3 DEF ReadRun
    <3> DEFINE r == [call[h] EXCEPT !.phase = "read_use", !.anchor = a]
               q == [call[h] EXCEPT !.phase = "insert_session", !.anchor = a, !.run = run]
    <3>2. r.phase \in Aside /\ q.phase \in Aside
      BY <2>0 DEF Call
    <3>3. call' = [call EXCEPT ![h] = r] \/ call' = [call EXCEPT ![h] = q]
      BY <3>1 DEF TypeOK
    <3> HIDE DEF r, q
    <3> QED BY <3>2, <3>3
  <2>4. CASE ReadUse(h)
    <3> DEFINE r == [call[h] EXCEPT !.phase = "delete"]
    <3>1. r.phase \in Aside /\ call' = [call EXCEPT ![h] = r]
      BY <2>0, <2>4 DEF Call, ReadUse, Goto, TypeOK
    <3> QED BY <3>1
  <2>5. CASE InsertSession(h) \/ ReleaseLocks(h) \/ Abort(h)
    <3>1. call' = [call EXCEPT ![h] = Idle]
      BY <2>5 DEF InsertSession, ReleaseLocks, Abort, Finish
    <3>2. Idle.phase \in Aside
      BY DEF Idle
    <3> QED BY <3>1, <3>2
  <2>6. CASE MutateSlot(h)
    <3>1. PICK op \in {"createSlot", "updateSlot", "removeSlot"}, s \in Slots,
               shape \in Shapes \cup {None} :
            call' = [call EXCEPT ![h] =
              [Idle EXCEPT !.phase = IF op = "createSlot" THEN "slot_read" ELSE "slot_row",
                           !.op = op, !.slot = s, !.shape = shape]]
      BY <2>6 DEF MutateSlot
    <3> DEFINE r == [Idle EXCEPT !.phase = IF op = "createSlot" THEN "slot_read" ELSE "slot_row",
                                 !.op = op, !.slot = s, !.shape = shape]
    <3>2. r.phase \in Aside
      BY DEF Idle
    <3> QED BY <3>1, <3>2
  <2>7. CASE LockSlotRow(h)
    <3> DEFINE r == [call[h] EXCEPT !.phase = "slot_read"]
    <3>1. r.phase \in Aside /\ call' = [call EXCEPT ![h] = r]
      BY <2>0, <2>7 DEF Call, LockSlotRow, Goto, TypeOK
    <3> QED BY <3>1
  <2>8. CASE ReadSlotUse(h)
    <3> DEFINE r == [call[h] EXCEPT !.phase = "slot_write", !.snap = Committed]
    <3>1. r.phase \in Aside /\ call' = [call EXCEPT ![h] = r]
      BY <2>0, <2>8 DEF Call, ReadSlotUse, TypeOK
    <3> QED BY <3>1
  <2> QED BY <2>1, <2>2, <2>3, <2>4, <2>5, <2>6, <2>7, <2>8
<1>3. PICK c : call' = [call EXCEPT ![h] = c] /\ c.phase \in Aside
  BY <1>2
<1>4. PICK R : rows' = [rows EXCEPT ![h] = R] \/ rows' = rows
  BY <1>1
<1>5. /\ call'[h] = c
      /\ \A g \in Handlers \ {h} : call'[g] = call[g] /\ rows'[g] = rows[g]
  BY <1>3, <1>4, OthersStay
<1>6. call'[h].phase \notin Deciding
  BY <1>3, <1>5 DEF Deciding, Booking
<1>7. OwnsEntry(call'[h], rows'[h], entries) /\ ReadTimes(call'[h], entries, slots)
  BY <1>6, NothingRead
<1> QED BY <1>1, <1>5, <1>7, ReadingQuiet

LEMMA ReadingStep ==
  ASSUME TypeOK, Shaped, LocksInv, ReadingInv, [Next]_vars
  PROVE  ReadingInv'
<1> USE DEF tables, locks
<1>0. \A h \in Handlers :
        /\ call[h] \in Call /\ CallShaped(call[h])
        /\ OwnsEntry(call[h], rows[h], entries) /\ ReadTimes(call[h], entries, slots)
  BY DEF TypeOK, Shaped, ReadingInv
<1>1. ASSUME NEW h \in Handlers, Create(h) PROVE ReadingInv'
  <2>1. PICK c \in Cells :
          call' = [call EXCEPT ![h] = [Idle EXCEPT !.phase = "assignment", !.op = "create",
                                                  !.cell = c]]
    BY <1>1 DEF Create
  <2> DEFINE r == [Idle EXCEPT !.phase = "assignment", !.op = "create", !.cell = c]
  <2>2. OwnsEntry(r, rows[h], entries) /\ ReadTimes(r, entries, slots)
    BY DEF Idle, OwnsEntry, ReadTimes, Seeing
  <2> HIDE DEF r
  <2>3. call' = [call EXCEPT ![h] = r] /\ rows' = rows
    BY <1>1, <2>1 DEF Create, r
  <2>4. /\ call'[h] = r
        /\ \A g \in Handlers \ {h} : call'[g] = call[g] /\ rows'[g] = rows[g]
    BY <2>3, OthersStay
  <2> QED BY <1>1, <2>2, <2>3, <2>4, ReadingQuiet DEF Create
<1>2. ASSUME NEW h \in Handlers, Update(h) PROVE ReadingInv'
  <2>1. PICK i \in EntryIds, c \in Cells :
          /\ Present(entries[i]) /\ rows' = [rows EXCEPT ![h] = {EntryRow(i)}]
          /\ call' = [call EXCEPT ![h] = [Idle EXCEPT !.phase = "assignment", !.op = "update",
                                                     !.id = i, !.cell = c]]
    BY <1>2 DEF Update
  <2> DEFINE r == [Idle EXCEPT !.phase = "assignment", !.op = "update", !.id = i, !.cell = c]
  <2>2. OwnsEntry(r, {EntryRow(i)}, entries) /\ ReadTimes(r, entries, slots)
    BY <2>1 DEF Idle, OwnsEntry, ReadTimes, Seeing
  <2> HIDE DEF r
  <2>3. call' = [call EXCEPT ![h] = r]
    BY <2>1 DEF r
  <2>4. /\ call'[h] = r /\ rows'[h] = {EntryRow(i)}
        /\ \A g \in Handlers \ {h} : call'[g] = call[g] /\ rows'[g] = rows[g]
    BY <2>1, <2>3 DEF TypeOK
  <2> QED BY <1>2, <2>2, <2>4, ReadingQuiet DEF Update
<1>3. ASSUME NEW h \in Handlers, LockAssignment(h) PROVE ReadingInv'
  <2> DEFINE r == [call[h] EXCEPT !.phase = "assignable"]
             R == rows[h] \cup AssignmentRows(call[h].cell.ta)
  <2>1. OwnsEntry(r, R, entries) /\ ReadTimes(r, entries, slots)
    BY <1>0, <1>3 DEF LockAssignment, Call, OwnsEntry, ReadTimes, Deciding, Booking, Seeing
  <2>2. call' = [call EXCEPT ![h] = r] /\ rows' = [rows EXCEPT ![h] = R]
    BY <1>3 DEF LockAssignment, Goto, TypeOK
  <2> HIDE DEF r, R
  <2>3. /\ call'[h] = r /\ rows'[h] = R
        /\ \A g \in Handlers \ {h} : call'[g] = call[g] /\ rows'[g] = rows[g]
    BY <2>2 DEF TypeOK
  <2> QED BY <1>3, <2>1, <2>3, ReadingQuiet DEF LockAssignment
<1>4. ASSUME NEW h \in Handlers, RequireAssignableSlot(h) PROVE ReadingInv'
  <2> DEFINE r == [call[h] EXCEPT !.phase = "slot", !.snap = Committed]
  <2>1. OwnsEntry(r, rows[h], entries)
    BY <1>0, <1>4
    DEF RequireAssignableSlot, Call, OwnsEntry, Committed, Deciding, Booking, Seeing
  <2>2. TimetableOK(entries, slots)
    BY DEF TypeOK, LocksInv, EntriesHaveSlots, TimetableOK
  <2>3. ReadTimes(r, entries, slots)
    BY <1>0, <2>2 DEF Call, ReadTimes, Committed, KeepsBlock
  <2>4. call' = [call EXCEPT ![h] = r] /\ rows' = rows
    BY <1>4 DEF RequireAssignableSlot, TypeOK
  <2> HIDE DEF r
  <2>5. /\ call'[h] = r
        /\ \A g \in Handlers \ {h} : call'[g] = call[g] /\ rows'[g] = rows[g]
    BY <2>4, OthersStay
  <2> QED BY <1>4, <2>1, <2>3, <2>4, <2>5, ReadingQuiet DEF RequireAssignableSlot
<1>5. ASSUME NEW h \in Handlers, LockTimeSlot(h) PROVE ReadingInv'
  <2> DEFINE r == [call[h] EXCEPT !.phase = "group_lock"]
             R == rows[h] \cup {SlotRow(call[h].cell.slot)}
  <2>1. OwnsEntry(r, R, entries)
    BY <1>0, <1>5 DEF LockTimeSlot, Call, OwnsEntry, Deciding, Booking, Seeing
  <2>2. ReadTimes(r, entries, slots)
    BY <1>0, <1>5 DEF LockTimeSlot, Call, ReadTimes, Seeing
  <2>3. call' = [call EXCEPT ![h] = r] /\ rows' = [rows EXCEPT ![h] = R]
    BY <1>5 DEF LockTimeSlot, Goto, TypeOK
  <2> HIDE DEF r, R
  <2>4. /\ call'[h] = r /\ rows'[h] = R
        /\ \A g \in Handlers \ {h} : call'[g] = call[g] /\ rows'[g] = rows[g]
    BY <2>3 DEF TypeOK
  <2> QED BY <1>5, <2>1, <2>2, <2>4, ReadingQuiet DEF LockTimeSlot
<1>6. ASSUME NEW h \in Handlers, AcquireConflictLock(h) PROVE ReadingInv'
  <2>1. PICK next \in {"teacher_lock", "work"} : \E key : GetLock(h, key, next)
    BY <1>6 DEF AcquireConflictLock
  <2>2. call[h].phase \in {"group_lock", "teacher_lock"}
    BY <1>6 DEF AcquireConflictLock
  <2> DEFINE r == [call[h] EXCEPT !.phase = next]
  <2>3. OwnsEntry(r, rows[h], entries)
    BY <1>0, <2>2 DEF Call, OwnsEntry, Deciding, Booking, Seeing
  <2>4. ReadTimes(r, entries, slots)
    BY <1>0, <2>2 DEF Call, ReadTimes, Seeing
  <2>5. call' = [call EXCEPT ![h] = r] /\ rows' = rows
    BY <2>1 DEF GetLock, Goto, TypeOK
  <2> HIDE DEF r
  <2>6. /\ call'[h] = r
        /\ \A g \in Handlers \ {h} : call'[g] = call[g] /\ rows'[g] = rows[g]
    BY <2>5, OthersStay
  <2> QED BY <2>1, <2>3, <2>4, <2>5, <2>6, ReadingQuiet DEF GetLock
<1>7. ASSUME NEW h \in Handlers, SaveNew(h) PROVE ReadingInv'
  <2>1. nextId \in EntryIds /\ nextId \in Nat /\ nextId' = nextId + 1
    BY <1>7, ConstantsAssumption DEF SaveNew, TypeOK, EntryIds
  <2>2. entries[nextId] = None
    BY <2>1 DEF ReadingInv, NotYetBooked
  <2>3. \A g \in Handlers : call[g].phase \in Deciding /\ call[g].op = "update" => call[g].id # nextId
    BY <1>0, <2>2 DEF OwnsEntry, Present
  <2>4. nextId' \in Nat /\ nextId < nextId' /\ nextId <= nextId'
    BY <2>1
  <2> QED BY <1>7, <2>1, <2>3, <2>4, ReadingSaved DEF SaveNew
<1>8. ASSUME NEW h \in Handlers, SaveMoved(h) PROVE ReadingInv'
  <2>1. call[h].phase = "work" /\ call[h].op = "update" /\ call[h].id \in EntryIds
    BY <1>0, <1>8 DEF SaveMoved, CallShaped
  <2>2. EntryRow(call[h].id) \in rows[h] /\ Present(entries[call[h].id])
    BY <1>0, <2>1 DEF OwnsEntry, Deciding, Booking
  <2>3. \A g \in Handlers \ {h} :
          call[g].phase \in Deciding /\ call[g].op = "update" => call[g].id # call[h].id
    BY <1>0, <2>2 DEF OwnsEntry, LocksInv, Apart
  <2>4. nextId \in Nat /\ nextId' = nextId /\ call[h].id \in Nat
    BY <1>8, <2>1, ConstantsAssumption DEF SaveMoved, TypeOK, EntryIds
  <2>5. call[h].id < nextId' /\ nextId' \in Nat /\ nextId <= nextId'
    BY <2>1, <2>2, <2>4 DEF ReadingInv, NotYetBooked, Present
  <2> QED BY <1>8, <2>1, <2>3, <2>4, <2>5, ReadingSaved DEF SaveMoved
<1>9. ASSUME NEW h \in Handlers, Delete(h) PROVE ReadingInv'
  BY <1>9, ReadingDeleted
<1>10. ASSUME NEW h \in Handlers, WriteSlot(h) PROVE ReadingInv'
  BY <1>10, ReadingWritten
<1>11. ASSUME NEW h \in Handlers,
              \/ Remove(h) \/ StartSession(h) \/ ReadRun(h) \/ ReadUse(h) \/ InsertSession(h)
              \/ MutateSlot(h) \/ LockSlotRow(h) \/ ReadSlotUse(h) \/ ReleaseLocks(h) \/ Abort(h)
       PROVE  ReadingInv'
  BY <1>11, ReadingAside
<1>12. CASE UNCHANGED vars
  BY <1>12 DEF vars, ReadingInv, NotYetBooked
<1> QED
  BY <1>1, <1>2, <1>3, <1>4, <1>5, <1>6, <1>7, <1>8, <1>9, <1>10, <1>11, <1>12 DEF Next

-----------------------------------------------------------------------------
LEMMA OnlySaves ==
  ASSUME TypeOK, [Next]_vars, NEW h \in Handlers,
         call[h].phase = "work", call'[h].phase = "release"
  PROVE  SaveNew(h) \/ SaveMoved(h)
<1>1. call[h] \in Call /\ \A g \in Handlers : call[g] \in Call
  BY DEF TypeOK
<1>2. PICK g \in Handlers :
        \/ Create(g) \/ Update(g) \/ LockAssignment(g) \/ RequireAssignableSlot(g) \/ LockTimeSlot(g)
        \/ AcquireConflictLock(g) \/ SaveNew(g) \/ SaveMoved(g)
        \/ Remove(g) \/ StartSession(g) \/ ReadRun(g) \/ ReadUse(g) \/ Delete(g) \/ InsertSession(g)
        \/ MutateSlot(g) \/ LockSlotRow(g) \/ ReadSlotUse(g) \/ WriteSlot(g)
        \/ ReleaseLocks(g) \/ Abort(g)
  BY DEF Next, vars
<1>3. CASE g = h
  <2>1. ~(\/ Create(g) \/ Update(g) \/ LockAssignment(g) \/ RequireAssignableSlot(g) \/ LockTimeSlot(g)
          \/ AcquireConflictLock(g) \/ Remove(g) \/ StartSession(g) \/ ReadRun(g) \/ ReadUse(g)
          \/ Delete(g) \/ InsertSession(g) \/ MutateSlot(g) \/ LockSlotRow(g) \/ ReadSlotUse(g)
          \/ WriteSlot(g) \/ ReleaseLocks(g))
    BY <1>3 DEF Create, Update, LockAssignment, RequireAssignableSlot, LockTimeSlot,
         AcquireConflictLock, Remove, StartSession, ReadRun, ReadUse, Delete, InsertSession,
         MutateSlot, LockSlotRow, ReadSlotUse, WriteSlot, ReleaseLocks
  <2>2. ~Abort(g)
    BY <1>3 DEF Abort, Finish, Idle, TypeOK
  <2> QED BY <1>2, <1>3, <2>1, <2>2
<1>4. CASE g # h
  <2>1. call'[h] = call[h]
    BY <1>2, <1>4 DEF TypeOK, tables, locks, Goto, Finish, Commit, GetLock,
         Create, Update, LockAssignment, RequireAssignableSlot, LockTimeSlot,
         AcquireConflictLock, SaveNew, SaveMoved, Remove, StartSession, ReadRun, ReadUse,
         Delete, InsertSession, MutateSlot, LockSlotRow, ReadSlotUse, WriteSlot, ReleaseLocks, Abort
  <2> QED BY <2>1
<1> QED BY <1>3, <1>4

\* A commit finds the occurrences it saw as it saw them, and leaves them so.
LEMMA SeenStep ==
  ASSUME TypeOK, Shaped, LocksInv, ReadingInv, [Next]_vars, NEW h \in Handlers,
         call[h].phase = "work", call'[h].phase = "release",
         NEW E, E = call[h].snap.entries, NEW S, S = call[h].snap.slots,
         NEW c, c = call[h].cell, NEW n, n = call[h].id,
         NEW x \in call[h].snap.sessions,
         S[c.slot] = slots[c.slot], Intact(E, S, x), Intact(entries, slots, x),
         BlocksDisjoint(entries, slots, entries[x.anchor].ta, entries[x.anchor].day),
         BlocksDisjoint(E, S, entries[x.anchor].ta, entries[x.anchor].day),
         BlocksDisjoint(Planned(E, c, n), S, entries[x.anchor].ta, entries[x.anchor].day)
  PROVE  Intact(entries', slots', x)
<1> DEFINE snap == call[h].snap  X == snap.sessions
<1>1. /\ call[h] \in Call /\ CallShaped(call[h]) /\ Holds(call[h], rows[h], named[h], slots)
      /\ Sees(call[h], entries, slots)
      /\ OwnsEntry(call[h], rows[h], entries) /\ ReadTimes(call[h], entries, slots)
  BY DEF TypeOK, Shaped, LocksInv, ReadingInv
<1>2. c \in Cells /\ call[h].op \in {"create", "update"} /\ snap \in Snapshot
  BY <1>1 DEF CallShaped, Booking, Seeing
<1>3. x.anchor \in EntryIds
  BY <1>2 DEF Snapshot, Session
<1>4. slots[c.slot] \in Shapes /\ SeesShared(call[h], entries)
  BY <1>1 DEF Holds, Holding, Sees, Seeing
<1>5. TimetableOK(entries, slots)
  BY DEF TypeOK, LocksInv, EntriesHaveSlots, TimetableOK
<1>6. TimetableOK(E, S)
  BY <1>1 DEF ReadTimes, Seeing
<1>7. StillShared(E, S, entries, slots, c)
  <2> SUFFICES ASSUME NEW j \in EntryIds, Present(entries[j]), entries[j].ta = c.ta
               PROVE  E[j] = entries[j] /\ KeepsBlock(S[entries[j].slot], slots[entries[j].slot])
    BY DEF StillShared
  <2>1. SharesRow(entries[j].ta, c.ta)
    BY DEF SharesRow, AssignmentRows
  <2>2. E[j] = entries[j]
    BY <1>4, <2>1 DEF SeesShared
  <2>3. KeepsBlock(S[entries[j].slot], slots[entries[j].slot])
    BY <1>1, <2>1 DEF ReadTimes, Seeing
  <2> QED BY <2>2, <2>3
<1>8. \E k : Books(E, entries, c, k, n) /\ Checked(E, S, X, c, k, n)
             /\ entries' = [entries EXCEPT ![k] = c] /\ slots' = slots
  <2>1. CASE SaveNew(h)
    <3>1. nextId \in EntryIds /\ entries' = [entries EXCEPT ![nextId] = c] /\ slots' = slots
      BY <2>1, ConstantsAssumption DEF SaveNew, TypeOK, EntryIds
    <3>2. n = 0
      BY <1>1, <2>1 DEF SaveNew, OwnsEntry, Deciding, Booking
    <3>3. entries[nextId] = None
      BY <3>1 DEF ReadingInv, NotYetBooked, EntryIds
    <3>4. Checked(E, S, X, c, nextId, n)
      <4>1. JoinsNoUsedRun(snap, c) /\ nextId # 0
        BY <2>1, <3>1 DEF SaveNew, EntryIds
      <4> QED BY <3>2, <4>1 DEF Checked, JoinsNoUsedRun
    <3> QED BY <1>2, <3>1, <3>2, <3>3, <3>4 DEF Books
  <2>2. CASE SaveMoved(h)
    <3>1. n \in EntryIds /\ n # 0 /\ entries' = [entries EXCEPT ![n] = c] /\ slots' = slots
      BY <1>1, <2>2 DEF SaveMoved, CallShaped, EntryIds
    <3>2. E[n] = entries[n]
      BY <1>1, <2>2 DEF SaveMoved, OwnsEntry, Seeing
    <3>3. Checked(E, S, X, c, n, n)
      <4>1. TouchesNoUsedRun(snap, c, n)
        BY <2>2 DEF SaveMoved
      <4> QED BY <3>1, <4>1 DEF Checked, TouchesNoUsedRun
    <3> QED BY <1>2, <3>1, <3>2, <3>3 DEF Books
  <2> QED BY <2>1, <2>2, OnlySaves
<1>9. PICK k : Books(E, entries, c, k, n) /\ Checked(E, S, X, c, k, n)
               /\ entries' = [entries EXCEPT ![k] = c] /\ slots' = slots
  BY <1>8
<1>10. PICK F : F = entries
  OBVIOUS
<1>11. PICK U : U = slots
  OBVIOUS
<1>12. PICK G : G = entries'
  OBVIOUS
<1>13. Saved(F, c, k, G)
  BY <1>9, <1>10, <1>12 DEF Saved
<1>14. Intact(G, U, x)
  BY <1>3, <1>4, <1>5, <1>6, <1>7, <1>9, <1>10, <1>11, <1>13, BookingKeeps
<1> QED BY <1>9, <1>11, <1>12, <1>14

(* A booking keeps every occurrence with attendance that its transaction   *)
(* could see, however old its snapshot is when it commits: the locked rows *)
(* keep what the checks read (assertCreateDoesNotJoinUsedOccurrence,       *)
(* assertUpdateDoesNotAffectUsedOccurrence).                               *)
THEOREM SeenOccurrencesStay == Spec => SeenOccurrencesKept
<1> DEFINE Kept ==
      \A h \in Handlers :
        call[h].phase = "work" /\ call'[h].phase = "release" =>
          \A x \in call[h].snap.sessions :
            LET snap == call[h].snap  e == entries[x.anchor]  c == call[h].cell IN
            /\ snap.slots[c.slot] = slots[c.slot]
            /\ Intact(snap.entries, snap.slots, x) /\ Intact(entries, slots, x)
            /\ BlocksDisjoint(entries, slots, e.ta, e.day)
            /\ BlocksDisjoint(snap.entries, snap.slots, e.ta, e.day)
            /\ BlocksDisjoint(Planned(snap.entries, c, call[h].id), snap.slots, e.ta, e.day)
            => Intact(entries', slots', x)
<1>1. Init => ReadingInv
  BY ReadingInit
<1>2. TypeOK /\ Shaped /\ LocksInv /\ ReadingInv /\ [Next]_vars => ReadingInv'
  BY ReadingStep
<1>3. TypeOK /\ Shaped /\ LocksInv /\ ReadingInv /\ [Next]_vars => Kept
  BY SeenStep
<1> QED BY <1>1, <1>2, <1>3, Inductive, PTL DEF Spec, SeenOccurrencesKept

=============================================================================
