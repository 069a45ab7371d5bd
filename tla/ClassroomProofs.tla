---------------------------- MODULE ClassroomProofs ----------------------------
(***************************************************************************)
(* Theorems about the parts of the classroom side (sessions and marks,     *)
(* justifications, alerts, the gate, enrollment, the figures), for every   *)
(* value of their constants and any number of requests, and about the      *)
(* behaviours that run one of them.                                        *)
(***************************************************************************)
EXTENDS Classroom, Counting, FiniteSetTheorems, TLAPS

-----------------------------------------------------------------------------
(* A class session and its marks.                                          *)

\* The requests that hold the row of the session: it is open under them, and each
\* holds it alone.
HoldsSession(h) == attendCall[h].phase \in {"redeem", "records"}

HeldOpen ==
  \A h \in Handlers : HoldsSession(h) => session \in Session /\ session.status = "OPEN" /\ SessionFree(h)

\* Every justification is of a mark that is there.
JustifiesMarks == \A i \in 1..Len(justifications) : marks[justifications[i].pupil] \in Mark

\* What a request carries: rows that were there when it read them, and that stay.
SnapshotOf(sheet, c) == c.snap \in Sheet /\ \A p \in Pupils : c.snap[p] # None => sheet[p] \in Mark

AttendFits(row, sheet, filed, c) ==
  /\ c.phase \in {"code", "code_reread"} => c.entity \in Session /\ row \in Session
  /\ c.phase = "code_reread" => c.reread \in Session
  /\ c.phase = "redeem" => c.pupil \in Pupils /\ SnapshotOf(sheet, c)
  /\ c.phase = "records" => c.list \in [Pupils -> MarkStatus \cup {None}] /\ SnapshotOf(sheet, c)
  /\ c.phase \in {"file", "filed"} =>
       c.pupil \in Pupils /\ c.entity \in Mark /\ sheet[c.pupil] \in Mark
  /\ c.phase \in {"review", "decide"} =>
       /\ c.id \in 1..Len(filed) /\ c.pupil \in Pupils /\ sheet[c.pupil] \in Mark
  /\ c.phase = "decide" =>
       /\ c.seen \in Justification /\ c.snap \in Sheet /\ c.snap[c.pupil] \in Mark

AttendanceInv ==
  /\ AttendanceTypeOK /\ HeldOpen /\ JustifiesMarks
  /\ \A h \in Handlers : AttendFits(session, marks, justifications, attendCall[h])

-----------------------------------------------------------------------------
\* A save over a row leaves a row.
LEMMA MarkSaved ==
  ASSUME NEW row \in Mark, NEW seen \in Mark, NEW entity \in Mark
  PROVE  SaveEntity(row, seen, entity) \in Mark
<1> DEFINE r == SaveEntity(row, seen, entity)
<1>1. r = [c \in {"status", "just", "method"} |-> IF entity[c] # seen[c] THEN entity[c] ELSE row[c]]
  BY DEF SaveEntity, Mark
<1>2. r["status"] \in MarkStatus /\ r["just"] \in {"NONE", "PENDING", "JUSTIFIED", "REJECTED"}
      /\ r["method"] \in {"MANUAL", "TOKEN"}
  BY <1>1 DEF Mark
<1>3. r = [status |-> r["status"], just |-> r["just"], method |-> r["method"]]
  BY <1>1
<1> HIDE DEF r
<1> QED BY <1>2, <1>3 DEF Mark, r

LEMMA ClassSessionSaved ==
  ASSUME NEW row \in Session, NEW seen \in Session, NEW entity \in Session
  PROVE  SaveEntity(row, seen, entity) \in Session
<1> DEFINE r == SaveEntity(row, seen, entity)
<1>1. r = [c \in {"status", "code", "closedAt"} |-> IF entity[c] # seen[c] THEN entity[c] ELSE row[c]]
  BY DEF SaveEntity, Session
<1>2. r["status"] \in {"OPEN", "CLOSED"} /\ r["code"] \in BOOLEAN /\ r["closedAt"] \in BOOLEAN
  BY <1>1 DEF Session
<1>3. r = [status |-> r["status"], code |-> r["code"], closedAt |-> r["closedAt"]]
  BY <1>1
<1> HIDE DEF r
<1> QED BY <1>2, <1>3 DEF Session, r

LEMMA JustificationSaved ==
  ASSUME NEW row \in Justification, NEW seen \in Justification, NEW entity \in Justification
  PROVE  /\ SaveEntity(row, seen, entity) \in Justification
         /\ SaveEntity(row, seen, entity).pupil \in {row.pupil, entity.pupil}
<1> DEFINE r == SaveEntity(row, seen, entity)
<1>1. r = [c \in {"pupil", "status"} |-> IF entity[c] # seen[c] THEN entity[c] ELSE row[c]]
  BY DEF SaveEntity, Justification
<1>2. r["pupil"] \in Pupils /\ r["status"] \in {"PENDING", "APPROVED", "REJECTED"}
      /\ r["pupil"] \in {row.pupil, entity.pupil}
  BY <1>1 DEF Justification
<1>3. r = [pupil |-> r["pupil"], status |-> r["status"]]
  BY <1>1
<1> HIDE DEF r
<1> QED BY <1>2, <1>3 DEF Justification, r

LEMMA NotAttendingFits ==
  NotAttending \in AttendanceCall /\ \A row, sheet, filed : AttendFits(row, sheet, filed, NotAttending)
  BY DEF NotAttending, AttendanceCall, AttendFits

-----------------------------------------------------------------------------
\* A step of h that takes no lock and closes nothing keeps the invariant, if rows stay
\* rows and justifications stay where they are.
LEMMA AttendOneCallFits ==
  ASSUME AttendanceInv, NEW h \in Handlers, NEW c \in AttendanceCall,
         attendCall' = [attendCall EXCEPT ![h] = c], AttendFits(session', marks', justifications', c),
         exempt' = exempt, marks' \in Sheet, JustifiesMarks',
         \A p \in Pupils : marks[p] \in Mark => marks'[p] \in Mark,
         session' \in Session \cup {None}, session \in Session => session' \in Session,
         justifications' \in Seq(Justification), Len(justifications) =< Len(justifications'),
         \/ session' = session /\ c.phase \notin {"redeem", "records"}
         \/ session' = session /\ SessionFree(h) /\ session \in Session /\ session.status = "OPEN"
         \/ SessionFree(h) /\ c.phase \notin {"redeem", "records"}
  PROVE  AttendanceInv'
<1>t. /\ attendCall \in [Handlers -> AttendanceCall]
      /\ \A g \in Handlers : AttendFits(session, marks, justifications, attendCall[g])
  BY DEF AttendanceInv, AttendanceTypeOK
<1>c. attendCall'[h] = c /\ \A g \in Handlers \ {h} : attendCall'[g] = attendCall[g]
  BY <1>t
<1>1. AttendanceTypeOK'
  BY <1>t DEF AttendanceInv, AttendanceTypeOK
<1>2. ASSUME NEW g \in Handlers PROVE AttendFits(session', marks', justifications', attendCall'[g])
  <2>1. CASE g = h
    BY <1>c, <2>1 DEF AttendFits, SnapshotOf
  <2>2. CASE g # h
    <3>1. attendCall'[g] = attendCall[g] /\ AttendFits(session, marks, justifications, attendCall[g])
      BY <1>t, <1>c, <2>2
    <3>2. Len(justifications) \in Nat /\ Len(justifications') \in Nat
      BY DEF AttendanceInv, AttendanceTypeOK
    <3>3. attendCall[g].id \in 1..Len(justifications) => attendCall[g].id \in 1..Len(justifications')
      BY <3>2
    <3> QED BY <3>1, <3>3 DEF AttendFits, SnapshotOf
  <2> QED BY <2>1, <2>2
<1>3. HeldOpen'
  BY <1>t, <1>c DEF AttendanceInv, HeldOpen, HoldsSession, SessionFree
<1> QED BY <1>1, <1>2, <1>3 DEF AttendanceInv

\* The same for a step that leaves the tables alone.
LEMMA AttendCallFits ==
  ASSUME AttendanceInv, NEW h \in Handlers, NEW c \in AttendanceCall,
         attendCall' = [attendCall EXCEPT ![h] = c], UNCHANGED attendTables,
         AttendFits(session, marks, justifications, c),
         \/ c.phase \notin {"redeem", "records"}
         \/ SessionFree(h) /\ session \in Session /\ session.status = "OPEN"
  PROVE  AttendanceInv'
<1>1. AttendFits(session', marks', justifications', c) /\ JustifiesMarks'
  BY DEF attendTables, AttendFits, SnapshotOf, AttendanceInv, JustifiesMarks
<1>2. /\ session' = session /\ exempt' = exempt /\ marks' \in Sheet
      /\ session' \in Session \cup {None} /\ (session \in Session => session' \in Session)
      /\ justifications' \in Seq(Justification) /\ Len(justifications) =< Len(justifications')
      /\ \A p \in Pupils : marks[p] \in Mark => marks'[p] \in Mark
  BY DEF attendTables, AttendanceInv, AttendanceTypeOK
<1> QED BY <1>1, <1>2, AttendOneCallFits

-----------------------------------------------------------------------------
LEMMA AttendInitFits == AttendanceInit => AttendanceInv
<1> SUFFICES ASSUME AttendanceInit PROVE AttendanceInv
  OBVIOUS
<1>1. \A h \in Handlers : attendCall[h] = NotAttending /\ attendCall[h].phase = "idle"
  BY DEF AttendanceInit, NotAttending
<1>2. /\ attendCall \in [Handlers -> AttendanceCall]
      /\ \A h \in Handlers : AttendFits(session, marks, justifications, attendCall[h])
  BY <1>1, NotAttendingFits DEF AttendanceInit
<1>3. marks \in Sheet /\ justifications \in Seq(Justification) /\ Len(justifications) = 0
  BY DEF AttendanceInit, Sheet
<1>4. HeldOpen /\ JustifiesMarks
  BY <1>1, <1>3 DEF HeldOpen, HoldsSession, JustifiesMarks
<1> QED BY <1>2, <1>3, <1>4 DEF AttendanceInv, AttendanceTypeOK, AttendanceInit

LEMMA AttendStepFits ==
  ASSUME AttendanceInv, AttendanceAssumption, [AttendanceNext(Handlers)]_attendVars
  PROVE  AttendanceInv'
<1> USE DEF AttendanceGoes, AttendanceEnds, attendTables
<1>t. /\ attendCall \in [Handlers -> AttendanceCall]
      /\ \A h \in Handlers : AttendFits(session, marks, justifications, attendCall[h])
      /\ session \in Session \cup {None} /\ exempt \in BOOLEAN /\ marks \in Sheet
      /\ justifications \in Seq(Justification) /\ JustifiesMarks /\ HeldOpen
  BY DEF AttendanceInv, AttendanceTypeOK
<1>l. Len(justifications) \in Nat
  BY <1>t
<1>i. NotAttending.phase = "idle" /\ NotAttending \in AttendanceCall
      /\ \A row, sheet, filed : AttendFits(row, sheet, filed, NotAttending)
  BY DEF NotAttending, AttendanceCall, AttendFits
<1>s. ASSUME NEW h \in Handlers, NEW p \in Pupils, NEW row \in Mark,
             marks' = [marks EXCEPT ![p] = row], AttendanceEnds(h), UNCHANGED <<session, exempt>>,
             justifications' \in Seq(Justification), Len(justifications) =< Len(justifications'),
             \A i \in 1..Len(justifications') :
               \/ justifications'[i].pupil = p
               \/ i \in 1..Len(justifications) /\ justifications'[i].pupil = justifications[i].pupil
      PROVE  AttendanceInv'
  <2>1. marks' \in Sheet /\ \A q \in Pupils : marks'[q] = IF q = p THEN row ELSE marks[q]
    BY <1>s, <1>t DEF Sheet
  <2>2. JustifiesMarks'
    BY <1>s, <1>t, <2>1 DEF JustifiesMarks, Justification
  <2> HIDE DEF AttendanceGoes
  <2> QED BY <1>s, <1>t, <1>i, <2>1, <2>2, AttendOneCallFits DEF AttendanceEnds
<1>1. ASSUME NEW h \in Handlers, CreateSession(h) PROVE AttendanceInv'
  <2>1. session' \in Session /\ session'.status = "OPEN"
    BY <1>1 DEF CreateSession, Session
  <2>2. \A g \in Handlers : AttendFits(session', marks', justifications', attendCall'[g])
    BY <1>1, <1>t, <2>1 DEF CreateSession, AttendFits, SnapshotOf
  <2> QED BY <1>1, <1>t, <2>1, <2>2
    DEF CreateSession, AttendanceInv, AttendanceTypeOK, HeldOpen, HoldsSession, SessionFree, JustifiesMarks
<1>2. ASSUME NEW h \in Handlers, CloseSession(h) PROVE AttendanceInv'
  <2>1. session' \in Session
    BY <1>2 DEF CloseSession, Session
  <2>2. \A g \in Handlers : AttendFits(session', marks', justifications', attendCall'[g])
    BY <1>2, <1>t, <2>1 DEF CloseSession, AttendFits, SnapshotOf
  <2>3. \A g \in Handlers : ~HoldsSession(g)
    BY <1>2 DEF CloseSession, CloseFree, SessionFree, HoldsSession
  <2> QED BY <1>2, <1>t, <2>1, <2>2, <2>3
    DEF CloseSession, AttendanceInv, AttendanceTypeOK, HeldOpen, HoldsSession, JustifiesMarks
<1>3. ASSUME NEW h \in Handlers, GenerateToken(h) PROVE AttendanceInv'
  <2> DEFINE c == [NotAttending EXCEPT !.phase = "code", !.entity = [session EXCEPT !.code = TRUE]]
  <2>1. session \in Session /\ [session EXCEPT !.code = TRUE] \in Session
    BY <1>3, <1>t DEF GenerateToken, Session
  <2>2. c \in AttendanceCall /\ AttendFits(session, marks, justifications, c) /\ c.phase = "code"
    BY <2>1 DEF NotAttending, AttendanceCall, AttendFits
  <2>3. attendCall' = [attendCall EXCEPT ![h] = c] /\ UNCHANGED attendTables
    BY <1>3 DEF GenerateToken
  <2> HIDE DEF c, attendTables
  <2> QED BY <2>2, <2>3, AttendCallFits
<1>4. ASSUME NEW h \in Handlers, RereadSession(h) PROVE AttendanceInv'
  <2> DEFINE c == [attendCall[h] EXCEPT !.phase = "code_reread", !.reread = session]
  <2>1. session \in Session /\ attendCall[h] \in AttendanceCall /\ attendCall[h].entity \in Session
    BY <1>4, <1>t DEF RereadSession, AttendFits
  <2>2. c \in AttendanceCall /\ AttendFits(session, marks, justifications, c) /\ c.phase = "code_reread"
    BY <2>1 DEF AttendanceCall, AttendFits
  <2>3. attendCall' = [attendCall EXCEPT ![h] = c] /\ UNCHANGED attendTables
    BY <1>4 DEF RereadSession
  <2> HIDE DEF c, attendTables
  <2> QED BY <2>2, <2>3, AttendCallFits
<1>5. ASSUME NEW h \in Handlers, SaveToken(h) PROVE AttendanceInv'
  <2>1. session' \in Session
    BY <1>5, <1>t, ClassSessionSaved DEF SaveToken, AttendFits
  <2>2. JustifiesMarks'
    BY <1>5, <1>t DEF SaveToken, JustifiesMarks
  <2>3. attendCall' = [attendCall EXCEPT ![h] = NotAttending] /\ SessionFree(h)
        /\ UNCHANGED <<exempt, marks, justifications>>
    BY <1>5 DEF SaveToken
  <2>4. /\ marks' \in Sheet /\ \A p \in Pupils : marks[p] \in Mark => marks'[p] \in Mark
        /\ justifications' \in Seq(Justification) /\ Len(justifications) =< Len(justifications')
    BY <1>t, <1>l, <2>3
  <2>5. NotAttending.phase \notin {"redeem", "records"}
    BY <1>i
  <2> QED BY <1>i, <2>1, <2>2, <2>3, <2>4, <2>5, AttendOneCallFits
<1>6. ASSUME NEW h \in Handlers, RedeemToken(h) PROVE AttendanceInv'
  <2>1. PICK p \in Pupils : attendCall' = [attendCall EXCEPT ![h] =
          [NotAttending EXCEPT !.phase = "redeem", !.pupil = p, !.snap = marks]]
    BY <1>6 DEF RedeemToken
  <2> DEFINE c == [NotAttending EXCEPT !.phase = "redeem", !.pupil = p, !.snap = marks]
  <2>2. c \in AttendanceCall /\ AttendFits(session, marks, justifications, c)
    BY <1>t DEF NotAttending, AttendanceCall, AttendFits, SnapshotOf, Sheet
  <2>3. UNCHANGED attendTables /\ SessionFree(h) /\ session \in Session /\ session.status = "OPEN"
    BY <1>6, <1>t DEF RedeemToken
  <2> HIDE DEF attendTables
  <2> QED BY <2>1, <2>2, <2>3, AttendCallFits
<1>7. ASSUME NEW h \in Handlers, SaveRedeemed(h) PROVE AttendanceInv'
  <2> DEFINE c == attendCall[h]
             row == SaveMark(marks[c.pupil], c.snap[c.pupil], Redeemed(c.snap[c.pupil]))
  <2>1. c.pupil \in Pupils /\ c.snap \in Sheet
        /\ (c.snap[c.pupil] # None => c.snap[c.pupil] \in Mark /\ marks[c.pupil] \in Mark)
    BY <1>7, <1>t DEF SaveRedeemed, AttendFits, SnapshotOf, Sheet
  <2>2. Redeemed(c.snap[c.pupil]) \in Mark
    BY <2>1 DEF Redeemed, Mark, MarkStatus
  <2>3. row \in Mark
    BY <2>1, <2>2, MarkSaved DEF SaveMark
  <2>4. marks' = [marks EXCEPT ![c.pupil] = row]
    BY <1>7 DEF SaveRedeemed
  <2> HIDE DEF row
  <2>5. AttendanceEnds(h) /\ UNCHANGED <<session, exempt, justifications>>
    BY <1>7 DEF SaveRedeemed
  <2>6. /\ justifications' \in Seq(Justification) /\ Len(justifications) =< Len(justifications')
        /\ \A i \in 1..Len(justifications') :
             \/ justifications'[i].pupil = c.pupil
             \/ i \in 1..Len(justifications) /\ justifications'[i].pupil = justifications[i].pupil
    BY <1>t, <1>l, <2>5
  <2>7. UNCHANGED <<session, exempt>>
    BY <2>5
  <2> HIDE DEF AttendanceEnds, c
  <2> QED BY <1>s, <2>1, <2>3, <2>4, <2>5, <2>6, <2>7
<1>8. ASSUME NEW h \in Handlers, UpsertRecords(h) PROVE AttendanceInv'
  <2>1. PICK list \in [Pupils -> Listable \cup {None}] : attendCall' = [attendCall EXCEPT ![h] =
          [NotAttending EXCEPT !.phase = "records", !.list = list, !.exempt = exempt, !.snap = marks]]
    BY <1>8 DEF UpsertRecords
  <2> DEFINE c == [NotAttending EXCEPT !.phase = "records", !.list = list, !.exempt = exempt,
                                       !.snap = marks]
  <2>2. list \in [Pupils -> MarkStatus \cup {None}]
    BY <2>1 DEF AttendanceAssumption
  <2>3. c \in AttendanceCall /\ AttendFits(session, marks, justifications, c)
    BY <1>t, <2>2 DEF NotAttending, AttendanceCall, AttendFits, SnapshotOf, Sheet
  <2>4. UNCHANGED attendTables /\ SessionFree(h) /\ session \in Session /\ session.status = "OPEN"
    BY <1>8, <1>t DEF UpsertRecords
  <2> HIDE DEF attendTables
  <2> QED BY <2>1, <2>3, <2>4, AttendCallFits
<1>9. ASSUME NEW h \in Handlers, SaveRecords(h) PROVE AttendanceInv'
  <2> DEFINE c == attendCall[h]
             Row(p) == SaveMark(marks[p], c.snap[p], Recorded(c.snap[p], c.list[p], c.exempt))
  <2>1. c.list \in [Pupils -> MarkStatus \cup {None}] /\ c.snap \in Sheet
        /\ \A p \in Pupils : c.snap[p] # None => c.snap[p] \in Mark /\ marks[p] \in Mark
    BY <1>9, <1>t DEF SaveRecords, AttendFits, SnapshotOf, Sheet
  <2>2. ASSUME NEW p \in Pupils, Present(c.list[p]) PROVE Row(p) \in Mark
    <3>1. c.list[p] \in MarkStatus /\ c.snap[p] \in Mark \cup {None}
      BY <2>1, <2>2 DEF Present, Sheet
    <3>2. Recorded(c.snap[p], c.list[p], c.exempt) \in Mark
      BY <3>1 DEF Recorded, KeepApproved, Excused, Mark, MarkStatus
    <3> QED BY <2>1, <3>1, <3>2, MarkSaved DEF SaveMark
  <2>3. marks' = [p \in Pupils |-> IF Present(c.list[p]) THEN Row(p) ELSE marks[p]]
    BY <1>9 DEF SaveRecords
  <2> HIDE DEF Row
  <2>4. marks' \in Sheet /\ \A p \in Pupils : marks[p] \in Mark => marks'[p] \in Mark
    BY <1>t, <2>2, <2>3 DEF Sheet
  <2>5. JustifiesMarks'
    <3>1. justifications' = justifications
      BY <1>9 DEF SaveRecords
    <3>2. \A i \in 1..Len(justifications) : justifications[i] \in Justification
      BY <1>t
    <3> QED BY <1>t, <2>4, <3>1, <3>2 DEF JustifiesMarks, Justification
  <2>6. attendCall' = [attendCall EXCEPT ![h] = NotAttending]
        /\ UNCHANGED <<session, exempt, justifications>>
    BY <1>9 DEF SaveRecords
  <2>7. /\ session' \in Session \cup {None} /\ (session \in Session => session' \in Session)
        /\ justifications' \in Seq(Justification) /\ Len(justifications) =< Len(justifications')
        /\ session' = session /\ exempt' = exempt
    BY <1>t, <1>l, <2>6
  <2>8. NotAttending.phase \notin {"redeem", "records"}
    BY <1>i
  <2> QED BY <1>i, <2>4, <2>5, <2>6, <2>7, <2>8, AttendOneCallFits
<1>10. ASSUME NEW h \in Handlers, CreateJustification(h) PROVE AttendanceInv'
  <2>1. PICK p \in Pupils : /\ marks[p] # None
          /\ attendCall' = [attendCall EXCEPT ![h] =
               [NotAttending EXCEPT !.phase = "file", !.pupil = p,
                                    !.entity = [marks[p] EXCEPT !.just = "PENDING"]]]
    BY <1>10 DEF CreateJustification
  <2> DEFINE c == [NotAttending EXCEPT !.phase = "file", !.pupil = p,
                                       !.entity = [marks[p] EXCEPT !.just = "PENDING"]]
  <2>2. marks[p] \in Mark /\ [marks[p] EXCEPT !.just = "PENDING"] \in Mark
    BY <1>t, <2>1 DEF Sheet, Mark
  <2>3. c \in AttendanceCall /\ AttendFits(session, marks, justifications, c) /\ c.phase = "file"
    BY <2>2 DEF NotAttending, AttendanceCall, AttendFits
  <2>4. attendCall' = [attendCall EXCEPT ![h] = c] /\ UNCHANGED attendTables
    BY <1>10, <2>1 DEF CreateJustification
  <2> HIDE DEF c, attendTables
  <2> QED BY <2>3, <2>4, AttendCallFits
<1>11. ASSUME NEW h \in Handlers, InsertJustification(h) PROVE AttendanceInv'
  <2> DEFINE c == [attendCall[h] EXCEPT !.phase = "filed"]
  <2>1. c \in AttendanceCall /\ AttendFits(session, marks, justifications, c) /\ c.phase = "filed"
    BY <1>11, <1>t DEF InsertJustification, AttendanceCall, AttendFits
  <2>2. attendCall' = [attendCall EXCEPT ![h] = c] /\ UNCHANGED attendTables
    BY <1>11 DEF InsertJustification
  <2> HIDE DEF c, attendTables
  <2> QED BY <2>1, <2>2, AttendCallFits
<1>12. ASSUME NEW h \in Handlers, SaveJustification(h) PROVE AttendanceInv'
  <2> DEFINE c == attendCall[h]
             row == SaveEntity(marks[c.pupil], marks[c.pupil], c.entity)
             new == [pupil |-> c.pupil, status |-> "PENDING"]
  <2>1. c.pupil \in Pupils /\ row \in Mark /\ new \in Justification
    BY <1>12, <1>t, MarkSaved DEF SaveJustification, AttendFits, Justification
  <2>2. justifications' = Append(justifications, new) /\ marks' = [marks EXCEPT ![c.pupil] = row]
    BY <1>12 DEF SaveJustification
  <2>3. /\ justifications' \in Seq(Justification) /\ Len(justifications') = Len(justifications) + 1
        /\ \A i \in 1..Len(justifications') :
             IF i \in 1..Len(justifications) THEN justifications'[i] = justifications[i]
                                             ELSE justifications'[i] = new
    BY <1>t, <2>1, <2>2
  <2> HIDE DEF row
  <2>4. AttendanceEnds(h) /\ UNCHANGED <<session, exempt>>
    BY <1>12 DEF SaveJustification
  <2>5. new.pupil = c.pupil
    OBVIOUS
  <2> HIDE DEF AttendanceEnds, new, c
  <2>6. \A i \in 1..Len(justifications') :
          \/ justifications'[i].pupil = c.pupil
          \/ i \in 1..Len(justifications) /\ justifications'[i].pupil = justifications[i].pupil
    BY <2>3, <2>5
  <2>7. Len(justifications) =< Len(justifications')
    BY <1>l, <2>3
  <2> QED BY <1>s, <2>1, <2>2, <2>3, <2>4, <2>6, <2>7
<1>13. ASSUME NEW h \in Handlers, ReviewJustification(h) PROVE AttendanceInv'
  <2>1. PICK i \in 1..Len(justifications), approve \in BOOLEAN :
          attendCall' = [attendCall EXCEPT ![h] =
            [NotAttending EXCEPT !.phase = "review", !.id = i, !.approve = approve,
                                 !.pupil = justifications[i].pupil]]
    BY <1>13 DEF ReviewJustification
  <2> DEFINE c == [NotAttending EXCEPT !.phase = "review", !.id = i, !.approve = approve,
                                       !.pupil = justifications[i].pupil]
  <2>2. i \in Nat /\ justifications[i].pupil \in Pupils /\ marks[justifications[i].pupil] \in Mark
    <3>1. justifications[i] \in Justification
      BY <1>t
    <3> QED BY <1>t, <1>l, <3>1 DEF Justification, JustifiesMarks
  <2>3. c \in AttendanceCall /\ AttendFits(session, marks, justifications, c) /\ c.phase = "review"
    BY <2>2 DEF NotAttending, AttendanceCall, AttendFits
  <2>4. attendCall' = [attendCall EXCEPT ![h] = c] /\ UNCHANGED attendTables
    BY <1>13, <2>1 DEF ReviewJustification
  <2> HIDE DEF c, attendTables
  <2> QED BY <2>3, <2>4, AttendCallFits
<1>14. ASSUME NEW h \in Handlers, ReadMark(h) PROVE AttendanceInv'
  <2> DEFINE c == [attendCall[h] EXCEPT !.phase = "decide", !.snap = marks,
                                        !.seen = justifications[attendCall[h].id]]
  <2>1. justifications[attendCall[h].id] \in Justification
    BY <1>14, <1>t DEF ReadMark, AttendFits
  <2>2. c \in AttendanceCall /\ c.phase = "decide" /\ c.snap = marks
        /\ c.seen = justifications[attendCall[h].id] /\ c.id = attendCall[h].id
        /\ c.pupil = attendCall[h].pupil
    BY <1>14, <1>t, <2>1 DEF ReadMark, AttendanceCall
  <2>4. attendCall[h].phase = "review" /\ AttendFits(session, marks, justifications, attendCall[h])
    BY <1>14, <1>t DEF ReadMark
  <2>3. attendCall' = [attendCall EXCEPT ![h] = c] /\ UNCHANGED attendTables
    BY <1>14 DEF ReadMark
  <2> HIDE DEF c, attendTables
  <2>5. AttendFits(session, marks, justifications, c)
    BY <1>t, <2>1, <2>2, <2>4 DEF AttendFits
  <2> QED BY <2>2, <2>3, <2>5, AttendCallFits
<1>15. ASSUME NEW h \in Handlers, SaveReview(h) PROVE AttendanceInv'
  <2> DEFINE c == attendCall[h]  p == c.pupil
             row == SaveEntity(marks[p], c.snap[p], Decided(c.snap[p], c.approve))
             decision == [pupil |-> p, status |-> IF c.approve THEN "APPROVED" ELSE "REJECTED"]
             saved == SaveEntity(justifications[c.id], c.seen, decision)
  <2>1. /\ p \in Pupils /\ marks[p] \in Mark /\ c.snap[p] \in Mark
        /\ c.id \in 1..Len(justifications) /\ c.seen \in Justification
        /\ decision \in Justification /\ justifications[c.id] \in Justification
    <3>1. c.phase = "decide" /\ AttendFits(session, marks, justifications, c)
      BY <1>15, <1>t DEF SaveReview
    <3>2. c.id \in 1..Len(justifications) => justifications[c.id] \in Justification
      BY <1>t
    <3> QED BY <3>1, <3>2 DEF AttendFits, Justification
  <2>2. Decided(c.snap[p], c.approve) \in Mark
    BY <2>1 DEF Decided, Mark, MarkStatus
  <2>3. row \in Mark
    BY <2>1, <2>2, MarkSaved
  <2>4. saved \in Justification /\ saved.pupil \in {justifications[c.id].pupil, p}
    BY <2>1, JustificationSaved
  <2>5. justifications' = [justifications EXCEPT ![c.id] = saved] /\ marks' = [marks EXCEPT ![p] = row]
    BY <1>15 DEF SaveReview
  <2> HIDE DEF row, saved
  <2>6. /\ justifications' \in Seq(Justification) /\ Len(justifications') = Len(justifications)
        /\ \A i \in 1..Len(justifications) :
             justifications'[i] = IF i = c.id THEN saved ELSE justifications[i]
    BY <1>t, <2>1, <2>4, <2>5
  <2>7. AttendanceEnds(h) /\ UNCHANGED <<session, exempt>>
    BY <1>15 DEF SaveReview
  <2> HIDE DEF AttendanceEnds, c, p
  <2>8. \A i \in 1..Len(justifications') :
          \/ justifications'[i].pupil = p
          \/ i \in 1..Len(justifications) /\ justifications'[i].pupil = justifications[i].pupil
    BY <2>4, <2>6
  <2>9. Len(justifications) =< Len(justifications')
    BY <1>l, <2>6
  <2> QED BY <1>s, <2>1, <2>3, <2>5, <2>6, <2>7, <2>8, <2>9
<1>16. ASSUME NEW h \in Handlers, AttendanceAborts(h) PROVE AttendanceInv'
  <2> HIDE DEF attendTables
  <2> QED BY <1>16, <1>i, AttendCallFits DEF AttendanceAborts
<1>17. CASE ClassEnds \/ ChangeException \/ UNCHANGED attendVars
  <2>1. /\ UNCHANGED <<session, marks, justifications, attendCall>> /\ exempt' \in BOOLEAN
    BY <1>17, <1>t DEF ClassEnds, ChangeException, attendVars
  <2>2. \A g \in Handlers : AttendFits(session', marks', justifications', attendCall'[g])
    BY <1>t, <2>1 DEF AttendFits, SnapshotOf
  <2> QED BY <1>t, <2>1, <2>2
    DEF AttendanceInv, AttendanceTypeOK, HeldOpen, HoldsSession, SessionFree, JustifiesMarks
<1> QED
  BY <1>1, <1>2, <1>3, <1>4, <1>5, <1>6, <1>7, <1>8, <1>9, <1>10, <1>11, <1>12, <1>13, <1>14,
     <1>15, <1>16, <1>17 DEF AttendanceNext

-----------------------------------------------------------------------------
\* A step that marks a pupil is of one who holds the open session, or is a justification.
LEMMA MarkingStep ==
  ASSUME AttendanceInv, AttendanceNext(Handlers), NEW p \in Pupils, marks'[p] # marks[p]
  PROVE  \/ session.status = "OPEN"
         \/ \E h \in Handlers : /\ attendCall[h].phase \in {"filed", "decide"}
                                /\ attendCall'[h].phase = "idle"
<1>t. attendCall \in [Handlers -> AttendanceCall] /\ HeldOpen
  BY DEF AttendanceInv, AttendanceTypeOK
<1>1. ASSUME NEW h \in Handlers, SaveRedeemed(h) \/ SaveRecords(h) PROVE session.status = "OPEN"
  BY <1>1, <1>t DEF SaveRedeemed, SaveRecords, HeldOpen, HoldsSession
<1>2. ASSUME NEW h \in Handlers, SaveJustification(h) \/ SaveReview(h)
      PROVE  attendCall[h].phase \in {"filed", "decide"} /\ attendCall'[h].phase = "idle"
  BY <1>2, <1>t DEF SaveJustification, SaveReview, AttendanceEnds, NotAttending
<1>3. PICK h \in Handlers :
        SaveRedeemed(h) \/ SaveRecords(h) \/ SaveJustification(h) \/ SaveReview(h)
  BY DEF AttendanceNext, CreateSession, CloseSession, GenerateToken, RereadSession, SaveToken,
         RedeemToken, UpsertRecords, CreateJustification, InsertJustification,
         ReviewJustification, ReadMark, AttendanceAborts, ClassEnds, ChangeException, attendTables
<1> QED BY <1>1, <1>2, <1>3

(* Type correctness of the session, its marks, its justifications and the  *)
(* requests.                                                               *)
THEOREM AttendanceTyped == AttendanceSpec => []AttendanceTypeOK
<1>1. AttendanceInv => AttendanceTypeOK
  BY DEF AttendanceInv
<1> QED BY AttendInitFits, AttendStepFits, AttendanceAssumption, <1>1, PTL DEF AttendanceSpec

(* Whoever lists or redeems (upsertRecords, redeemToken) marks a pupil of  *)
(* an open session, however many requests race with its closing; after it  *)
(* only justifications change a mark.                                      *)
THEOREM MarksWhileOpen == AttendanceSpec => MarkedWhileOpen
<1>1. AttendanceInv /\ [AttendanceNext(Handlers)]_attendVars =>
        [\A p \in Pupils : marks'[p] # marks[p] =>
           \/ session.status = "OPEN"
           \/ \E h \in Handlers : /\ attendCall[h].phase \in {"filed", "decide"}
                                  /\ attendCall'[h].phase = "idle"]_attendVars
  BY MarkingStep
<1> QED BY AttendInitFits, AttendStepFits, AttendanceAssumption, <1>1, PTL DEF AttendanceSpec, MarkedWhileOpen

-----------------------------------------------------------------------------
(* Served one request at a time.                                           *)
Serial(H) == \A g, h \in H : g = h

\* A mark that an approved justification leaves, and that never turns absent.
Excusing(mark) == mark.just = "JUSTIFIED" /\ mark.status # "ABSENT"

NoneActive(filed, p) ==
  \A i \in 1..Len(filed) : filed[i].pupil = p => filed[i].status = "REJECTED"

ReviewsStand(sheet, filed) ==
  /\ \A i \in 1..Len(filed) : filed[i].status = "APPROVED" => Excusing(sheet[filed[i].pupil])
  /\ \A i, j \in 1..Len(filed) :
       filed[i].pupil = filed[j].pupil /\ filed[i].status # "REJECTED" /\ filed[j].status # "REJECTED"
         => i = j

\* What a request knows when nobody else writes: what it read is there as it read it.
AttendKnows(sheet, filed, c) ==
  /\ c.phase \in {"redeem", "records", "decide"} => c.snap = sheet
  /\ c.phase \in {"file", "filed"} => NoneActive(filed, c.pupil)
  /\ c.phase \in {"review", "decide"} =>
       filed[c.id].pupil = c.pupil /\ filed[c.id].status = "PENDING"
  /\ c.phase = "decide" => c.seen = filed[c.id]

\* H are the requests that are served; the others never come.
AttendAlone(H) ==
  /\ ReviewsStand(marks, justifications)
  /\ \A h \in Handlers : AttendKnows(marks, justifications, attendCall[h])
  /\ \A h \in Handlers \ H : attendCall[h] = NotAttending

LEMMA AttendIdleKnows == \A sheet, filed : AttendKnows(sheet, filed, NotAttending)
  BY DEF AttendKnows, NotAttending

\* A row saved over itself is the entity.
LEMMA MarkSavedAlone ==
  ASSUME NEW row \in Mark, NEW entity \in Mark
  PROVE  SaveEntity(row, row, entity) = entity
<1>1. DOMAIN row = {"status", "just", "method"}
  BY DEF Mark
<1>2. SaveEntity(row, row, entity) = [c \in {"status", "just", "method"} |-> entity[c]]
  BY <1>1 DEF SaveEntity
<1>3. entity = [c \in {"status", "just", "method"} |-> entity[c]]
  BY DEF Mark
<1> QED BY <1>2, <1>3

LEMMA JustificationSavedAlone ==
  ASSUME NEW row \in Justification, NEW entity \in Justification
  PROVE  SaveEntity(row, row, entity) = entity
<1>1. DOMAIN row = {"pupil", "status"}
  BY DEF Justification
<1>2. SaveEntity(row, row, entity) = [c \in {"pupil", "status"} |-> entity[c]]
  BY <1>1 DEF SaveEntity
<1>3. entity = [c \in {"pupil", "status"} |-> entity[c]]
  BY DEF Justification
<1> QED BY <1>2, <1>3

\* A step of the only request.
LEMMA AttendOnlyCallKnows ==
  ASSUME NEW H \in SUBSET Handlers, Serial(H), AttendanceInv, AttendAlone(H), NEW h \in H, NEW c,
         attendCall' = [attendCall EXCEPT ![h] = c],
         AttendKnows(marks', justifications', c), ReviewsStand(marks', justifications')
  PROVE  AttendAlone(H)'
<1>1. attendCall'[h] = c /\ \A g \in Handlers \ {h} : attendCall'[g] = attendCall[g]
  BY DEF AttendanceInv, AttendanceTypeOK
<1>2. ASSUME NEW g \in Handlers \ {h} PROVE g \notin H /\ attendCall'[g] = NotAttending
  BY <1>1, <1>2 DEF Serial, AttendAlone
<1>3. \A g \in Handlers : AttendKnows(marks', justifications', attendCall'[g])
  BY <1>1, <1>2, AttendIdleKnows
<1> QED BY <1>1, <1>2, <1>3 DEF AttendAlone

\* A list or a code: justified pupils stay excused.
LEMMA MarksKnow ==
  ASSUME NEW H \in SUBSET Handlers, Serial(H), AttendanceInv, AttendAlone(H), NEW h \in H,
         AttendanceEnds(h),
         UNCHANGED justifications,
         \A p \in Pupils : marks[p] \in Mark /\ Excusing(marks[p]) => Excusing(marks'[p])
  PROVE  AttendAlone(H)'
<1>1. ASSUME NEW i \in 1..Len(justifications), justifications[i].status = "APPROVED"
      PROVE  Excusing(marks'[justifications[i].pupil])
  <2>1. justifications[i].pupil \in Pupils /\ marks[justifications[i].pupil] \in Mark
    <3>1. justifications[i] \in Justification
      BY DEF AttendanceInv, AttendanceTypeOK
    <3> QED BY <3>1 DEF AttendanceInv, JustifiesMarks, Justification
  <2>2. Excusing(marks[justifications[i].pupil])
    BY <1>1 DEF AttendAlone, ReviewsStand
  <2> QED BY <2>1, <2>2
<1>2. ReviewsStand(marks', justifications')
  BY <1>1 DEF AttendAlone, ReviewsStand
<1> QED BY <1>2, AttendOnlyCallKnows, AttendIdleKnows DEF AttendanceEnds

LEMMA AttendInitAlone == \A H : AttendanceInit => AttendAlone(H)
<1> SUFFICES ASSUME AttendanceInit PROVE \A H : AttendAlone(H)
  OBVIOUS
<1>1. ReviewsStand(marks, justifications)
  BY DEF AttendanceInit, ReviewsStand
<1> QED BY <1>1, AttendIdleKnows DEF AttendanceInit, AttendAlone

LEMMA AttendStepAlone ==
  ASSUME NEW H \in SUBSET Handlers, Serial(H), AttendanceAssumption, AttendanceInv, AttendAlone(H),
         [AttendanceNext(H)]_attendVars
  PROVE  AttendAlone(H)'
<1> USE DEF AttendanceGoes
<1>t. /\ \A h \in Handlers : /\ attendCall[h] \in AttendanceCall
                             /\ AttendFits(session, marks, justifications, attendCall[h])
                             /\ AttendKnows(marks, justifications, attendCall[h])
      /\ marks \in Sheet /\ justifications \in Seq(Justification) /\ Len(justifications) \in Nat
      /\ \A i \in 1..Len(justifications) : justifications[i] \in Justification
      /\ ReviewsStand(marks, justifications)
  BY DEF AttendanceInv, AttendanceTypeOK, AttendAlone
<1>e. ASSUME NEW h \in H, AttendanceEnds(h), UNCHANGED <<marks, justifications>>
      PROVE  AttendAlone(H)'
  BY <1>e, MarksKnow
<1>c. ASSUME NEW h \in H, NEW c, AttendanceGoes(h, c), UNCHANGED attendTables,
             AttendKnows(marks, justifications, c)
      PROVE  AttendAlone(H)'
  BY <1>t, <1>c, AttendOnlyCallKnows DEF attendTables
<1>u. ASSUME UNCHANGED <<marks, justifications, attendCall>> PROVE AttendAlone(H)'
  BY <1>u DEF AttendAlone
<1>1. ASSUME NEW h \in H, CreateSession(h) \/ CloseSession(h) PROVE AttendAlone(H)'
  BY <1>1, <1>u DEF CreateSession, CloseSession
<1>2. ASSUME NEW h \in H, GenerateToken(h) PROVE AttendAlone(H)'
  <2>1. AttendKnows(marks, justifications, [NotAttending EXCEPT !.phase = "code",
                                                          !.entity = [session EXCEPT !.code = TRUE]])
    BY DEF AttendKnows, NotAttending
  <2> QED BY <1>2, <1>c, <2>1 DEF GenerateToken
<1>3. ASSUME NEW h \in H, RereadSession(h) PROVE AttendAlone(H)'
  <2>1. AttendKnows(marks, justifications, [attendCall[h] EXCEPT !.phase = "code_reread", !.reread = session])
    BY <1>t DEF AttendKnows, AttendanceCall
  <2> QED BY <1>3, <1>c, <2>1 DEF RereadSession
<1>4. ASSUME NEW h \in H, SaveToken(h) PROVE AttendAlone(H)'
  BY <1>4, <1>e DEF SaveToken
<1>5. ASSUME NEW h \in H, RedeemToken(h) PROVE AttendAlone(H)'
  <2>1. PICK p \in Pupils :
          /\ AttendanceGoes(h, [NotAttending EXCEPT !.phase = "redeem", !.pupil = p, !.snap = marks])
          /\ UNCHANGED attendTables
    BY <1>5 DEF RedeemToken
  <2>2. AttendKnows(marks, justifications,
              [NotAttending EXCEPT !.phase = "redeem", !.pupil = p, !.snap = marks])
    BY DEF AttendKnows, NotAttending
  <2> QED BY <1>c, <2>1, <2>2
<1>6. ASSUME NEW h \in H, SaveRedeemed(h) PROVE AttendAlone(H)'
  <2> DEFINE c == attendCall[h]  p == c.pupil
  <2>1. p \in Pupils /\ c.snap = marks
    BY <1>6, <1>t DEF SaveRedeemed, AttendFits, AttendKnows
  <2>2. marks' = [marks EXCEPT ![p] = SaveMark(marks[p], marks[p], Redeemed(marks[p]))]
    BY <1>6, <2>1 DEF SaveRedeemed
  <2>3. ASSUME marks[p] \in Mark, Excusing(marks[p]) PROVE Excusing(marks'[p])
    <3>1. Redeemed(marks[p]) \in Mark /\ Excusing(Redeemed(marks[p])) /\ marks[p] # None
      BY <2>3 DEF Redeemed, Mark, MarkStatus, Excusing
    <3>2. marks'[p] = Redeemed(marks[p])
      BY <1>t, <2>1, <2>2, <2>3, <3>1, MarkSavedAlone DEF SaveMark, Sheet
    <3> QED BY <3>1, <3>2
  <2>4. \A q \in Pupils : marks[q] \in Mark /\ Excusing(marks[q]) => Excusing(marks'[q])
    BY <1>t, <2>2, <2>3 DEF Sheet
  <2>5. AttendanceEnds(h) /\ UNCHANGED justifications
    BY <1>6 DEF SaveRedeemed
  <2> QED BY <2>4, <2>5, MarksKnow
<1>7. ASSUME NEW h \in H, UpsertRecords(h) PROVE AttendAlone(H)'
  <2>1. PICK list \in [Pupils -> Listable \cup {None}] :
          /\ AttendanceGoes(h, [NotAttending EXCEPT !.phase = "records", !.list = list,
                                                    !.exempt = exempt, !.snap = marks])
          /\ UNCHANGED attendTables
    BY <1>7 DEF UpsertRecords
  <2>2. AttendKnows(marks, justifications,
              [NotAttending EXCEPT !.phase = "records", !.list = list, !.exempt = exempt, !.snap = marks])
    BY DEF AttendKnows, NotAttending
  <2> QED BY <1>c, <2>1, <2>2
<1>8. ASSUME NEW h \in H, SaveRecords(h) PROVE AttendAlone(H)'
  <2> DEFINE c == attendCall[h]
             Row(p) == SaveMark(marks[p], marks[p], Recorded(marks[p], c.list[p], c.exempt))
  <2>1. c.snap = marks /\ c.list \in [Pupils -> MarkStatus \cup {None}]
    BY <1>8, <1>t DEF SaveRecords, AttendFits, AttendKnows
  <2>2. marks' = [p \in Pupils |-> IF Present(c.list[p]) THEN Row(p) ELSE marks[p]]
    BY <1>8, <2>1 DEF SaveRecords
  <2>3. ASSUME NEW p \in Pupils, marks[p] \in Mark, Excusing(marks[p]), Present(c.list[p])
        PROVE  Excusing(Row(p))
    <3> DEFINE new == Recorded(marks[p], c.list[p], c.exempt)
    <3>1. marks[p] # None /\ c.list[p] \in MarkStatus
      BY <2>1, <2>3 DEF Present
    <3>2. new \in Mark /\ Excusing(new)
      BY <2>3, <3>1 DEF Recorded, KeepApproved, Excused, Mark, MarkStatus, Excusing
    <3>3. Row(p) = new
      BY <2>3, <3>1, <3>2, MarkSavedAlone DEF SaveMark
    <3> QED BY <3>2, <3>3
  <2> HIDE DEF Row
  <2>4. \A q \in Pupils : marks[q] \in Mark /\ Excusing(marks[q]) => Excusing(marks'[q])
    BY <2>2, <2>3
  <2>5. AttendanceEnds(h) /\ UNCHANGED justifications
    BY <1>8 DEF SaveRecords
  <2> QED BY <2>4, <2>5, MarksKnow
<1>9. ASSUME NEW h \in H, CreateJustification(h) PROVE AttendAlone(H)'
  <2>1. PICK p \in Pupils :
          /\ ~HasActive(p) /\ UNCHANGED attendTables
          /\ AttendanceGoes(h, [NotAttending EXCEPT !.phase = "file", !.pupil = p,
                                                    !.entity = [marks[p] EXCEPT !.just = "PENDING"]])
    BY <1>9 DEF CreateJustification
  <2>2. NoneActive(justifications, p)
    BY <1>t, <2>1 DEF HasActive, NoneActive, Justification
  <2>3. AttendKnows(marks, justifications,
              [NotAttending EXCEPT !.phase = "file", !.pupil = p,
                                   !.entity = [marks[p] EXCEPT !.just = "PENDING"]])
    BY <2>2 DEF AttendKnows, NotAttending
  <2> QED BY <1>c, <2>1, <2>3
<1>10. ASSUME NEW h \in H, InsertJustification(h) PROVE AttendAlone(H)'
  <2>1. AttendKnows(marks, justifications, [attendCall[h] EXCEPT !.phase = "filed"])
    BY <1>10, <1>t DEF InsertJustification, AttendKnows, AttendanceCall
  <2> QED BY <1>10, <1>c, <2>1 DEF InsertJustification
<1>11. ASSUME NEW h \in H, SaveJustification(h) PROVE AttendAlone(H)'
  <2> DEFINE c == attendCall[h]  p == c.pupil
             row == SaveEntity(marks[p], marks[p], c.entity)
             new == [pupil |-> p, status |-> "PENDING"]
  <2>1. p \in Pupils /\ NoneActive(justifications, p) /\ new \in Justification
    BY <1>11, <1>t DEF SaveJustification, AttendFits, AttendKnows, Justification
  <2>2. /\ AttendanceEnds(h) /\ justifications' = Append(justifications, new)
        /\ marks' = [marks EXCEPT ![p] = row]
    BY <1>11 DEF SaveJustification
  <2>3. /\ Len(justifications') = Len(justifications) + 1
        /\ justifications'[Len(justifications) + 1] = new
        /\ \A i \in 1..Len(justifications) : justifications'[i] = justifications[i]
    BY <1>t, <2>1, <2>2
  <2>4. \A q \in Pupils \ {p} : marks'[q] = marks[q]
    BY <1>t, <2>2 DEF Sheet
  <2>5. new.pupil = p /\ new.status = "PENDING"
    OBVIOUS
  <2> HIDE DEF row, c, p, new
  <2>6. ASSUME NEW i \in 1..Len(justifications'), justifications'[i].status = "APPROVED"
        PROVE  Excusing(marks'[justifications'[i].pupil])
    <3>1. i \in 1..Len(justifications) /\ justifications'[i] = justifications[i]
      BY <1>t, <2>3, <2>5, <2>6
    <3>2. justifications[i].pupil \in Pupils \ {p}
      BY <1>t, <2>1, <2>6, <3>1 DEF NoneActive, Justification
    <3> QED BY <1>t, <2>4, <2>6, <3>1, <3>2 DEF ReviewsStand
  <2>7. ASSUME NEW i \in 1..Len(justifications'), NEW j \in 1..Len(justifications'),
               justifications'[i].pupil = justifications'[j].pupil,
               justifications'[i].status # "REJECTED", justifications'[j].status # "REJECTED"
        PROVE  i = j
    <3>1. CASE i \in 1..Len(justifications) /\ j \in 1..Len(justifications)
      BY <1>t, <2>3, <2>7, <3>1 DEF ReviewsStand
    <3>2. CASE i = Len(justifications) + 1 /\ j \in 1..Len(justifications)
      BY <2>1, <2>3, <2>5, <2>7, <3>2 DEF NoneActive
    <3>3. CASE j = Len(justifications) + 1 /\ i \in 1..Len(justifications)
      BY <2>1, <2>3, <2>5, <2>7, <3>3 DEF NoneActive
    <3> QED BY <1>t, <2>3, <3>1, <3>2, <3>3
  <2>8. ReviewsStand(marks', justifications')
    BY <2>6, <2>7 DEF ReviewsStand
  <2> QED BY <2>2, <2>8, AttendOnlyCallKnows, AttendIdleKnows DEF AttendanceEnds
<1>12. ASSUME NEW h \in H, ReviewJustification(h) PROVE AttendAlone(H)'
  <2>1. PICK i \in 1..Len(justifications), approve \in BOOLEAN :
          /\ justifications[i].status = "PENDING" /\ UNCHANGED attendTables
          /\ AttendanceGoes(h, [NotAttending EXCEPT !.phase = "review", !.id = i, !.approve = approve,
                                                    !.pupil = justifications[i].pupil])
    BY <1>12 DEF ReviewJustification
  <2>2. AttendKnows(marks, justifications,
              [NotAttending EXCEPT !.phase = "review", !.id = i, !.approve = approve,
                                   !.pupil = justifications[i].pupil])
    BY <2>1 DEF AttendKnows, NotAttending
  <2> QED BY <1>c, <2>1, <2>2
<1>13. ASSUME NEW h \in H, ReadMark(h) PROVE AttendAlone(H)'
  <2> DEFINE c == [attendCall[h] EXCEPT !.phase = "decide", !.snap = marks,
                                        !.seen = justifications[attendCall[h].id]]
  <2>1. attendCall[h].phase = "review" /\ AttendanceGoes(h, c) /\ UNCHANGED attendTables
    BY <1>13 DEF ReadMark
  <2>2. c.phase = "decide" /\ c.snap = marks /\ c.seen = justifications[attendCall[h].id]
        /\ c.id = attendCall[h].id /\ c.pupil = attendCall[h].pupil
    BY <1>t DEF AttendanceCall
  <2> HIDE DEF c
  <2>3. AttendKnows(marks, justifications, c)
    BY <1>t, <2>1, <2>2 DEF AttendKnows
  <2> QED BY <1>c, <2>1, <2>3
<1>14. ASSUME NEW h \in H, SaveReview(h) PROVE AttendAlone(H)'
  <2> DEFINE c == attendCall[h]  p == c.pupil  n == c.id
             row == Decided(marks[p], c.approve)
             decision == [pupil |-> p, status |-> IF c.approve THEN "APPROVED" ELSE "REJECTED"]
  <2>1. /\ n \in 1..Len(justifications) /\ p \in Pupils /\ marks[p] \in Mark
        /\ justifications[n].pupil = p /\ justifications[n].status = "PENDING"
        /\ c.snap = marks /\ c.seen = justifications[n]
    BY <1>14, <1>t DEF SaveReview, AttendFits, AttendKnows
  <2>2. row \in Mark /\ decision \in Justification /\ (c.approve => Excusing(row))
    BY <2>1 DEF Decided, Mark, MarkStatus, Justification, Excusing
  <2>3. /\ AttendanceEnds(h)
        /\ justifications' = [justifications EXCEPT ![n] = SaveEntity(justifications[n], justifications[n], decision)]
        /\ marks' = [marks EXCEPT ![p] = SaveEntity(marks[p], marks[p], row)]
    BY <1>14, <2>1 DEF SaveReview
  <2>4. /\ SaveEntity(justifications[n], justifications[n], decision) = decision
        /\ SaveEntity(marks[p], marks[p], row) = row
    BY <1>t, <2>1, <2>2, MarkSavedAlone, JustificationSavedAlone
  <2>5. /\ Len(justifications') = Len(justifications) /\ justifications'[n] = decision
        /\ \A i \in 1..Len(justifications) \ {n} : justifications'[i] = justifications[i]
        /\ marks'[p] = row /\ \A q \in Pupils \ {p} : marks'[q] = marks[q]
    BY <1>t, <2>1, <2>3, <2>4 DEF Sheet
  <2>6. decision.pupil = p /\ (decision.status = "APPROVED" => Excusing(row))
        /\ decision.status \in {"APPROVED", "REJECTED"}
    BY <2>2
  <2> HIDE DEF row, decision, c, p, n
  <2>7. ASSUME NEW i \in 1..Len(justifications'), justifications'[i].status = "APPROVED"
        PROVE  Excusing(marks'[justifications'[i].pupil])
    <3>1. CASE i = n
      BY <2>5, <2>6, <2>7, <3>1
    <3>2. CASE i # n
      <4>1. i \in 1..Len(justifications) /\ justifications'[i] = justifications[i]
        BY <2>5, <3>2
      <4>2. justifications[i].pupil \in Pupils \ {p}
        BY <1>t, <2>1, <2>7, <3>2, <4>1 DEF ReviewsStand, Justification
      <4> QED BY <1>t, <2>5, <2>7, <4>1, <4>2 DEF ReviewsStand
    <3> QED BY <3>1, <3>2
  <2>8. ASSUME NEW i \in 1..Len(justifications'), NEW j \in 1..Len(justifications'),
               justifications'[i].pupil = justifications'[j].pupil,
               justifications'[i].status # "REJECTED", justifications'[j].status # "REJECTED"
        PROVE  i = j
    <3>1. \A k \in 1..Len(justifications) :
            /\ justifications'[k].pupil = justifications[k].pupil
            /\ justifications'[k].status # "REJECTED" => justifications[k].status # "REJECTED"
      BY <2>1, <2>5, <2>6
    <3> QED BY <1>t, <2>5, <2>8, <3>1 DEF ReviewsStand
  <2>9. ReviewsStand(marks', justifications')
    BY <2>7, <2>8 DEF ReviewsStand
  <2> QED BY <2>3, <2>9, AttendOnlyCallKnows, AttendIdleKnows DEF AttendanceEnds
<1>15. ASSUME NEW h \in H, AttendanceAborts(h) PROVE AttendAlone(H)'
  BY <1>15, <1>e DEF AttendanceAborts, attendTables
<1>16. CASE ClassEnds \/ ChangeException \/ UNCHANGED attendVars
  BY <1>16, <1>u DEF ClassEnds, ChangeException, attendVars
<1> QED
  BY <1>1, <1>2, <1>3, <1>4, <1>5, <1>6, <1>7, <1>8, <1>9, <1>10, <1>11, <1>12, <1>13, <1>14,
     <1>15, <1>16 DEF AttendanceNext

LEMMA AttendAloneAlways ==
  ASSUME Serial(Handlers)
  PROVE  AttendanceSpec => []AttendAlone(Handlers)
<1>1. AttendanceInit => AttendAlone(Handlers)
  BY AttendInitAlone
<1>2. AttendanceInv /\ AttendAlone(Handlers) /\ [AttendanceNext(Handlers)]_attendVars => AttendAlone(Handlers)'
  BY AttendStepAlone, AttendanceAssumption
<1> QED BY AttendInitFits, AttendStepFits, AttendanceAssumption, <1>1, <1>2, PTL DEF AttendanceSpec

(* Served one request at a time, an absence with an approved justification *)
(* never reads as an absence again (reviewJustification, upsertRecords),   *)
(* whatever lists, codes, exceptions and justifications follow.            *)
THEOREM ApprovedStayExcused ==
  ASSUME Serial(Handlers) PROVE AttendanceSpec => []ApprovedNotAbsent
<1>1. AttendAlone(Handlers) => ApprovedNotAbsent
  BY DEF AttendAlone, ReviewsStand, Excusing, ApprovedNotAbsent
<1> QED BY AttendAloneAlways, <1>1, PTL

(* Served one request at a time, an absence has one active justification   *)
(* at most: createJustification refuses a second one.                      *)
THEOREM OneActivePerAbsence ==
  ASSUME Serial(Handlers) PROVE AttendanceSpec => []OneActiveJustification
<1>1. AttendAlone(Handlers) => OneActiveJustification
  BY DEF AttendAlone, ReviewsStand, OneActiveJustification
<1> QED BY AttendAloneAlways, <1>1, PTL

-----------------------------------------------------------------------------
(* The pages of the justifications.                                        *)

\* What the justification status of a mark tells, one request at a time: excused marks
\* are not absent, pending ones are in the inbox, and what is in the inbox shows.
MarksTell(sheet, filed) ==
  /\ \A p \in Pupils : sheet[p] \in Mark =>
       /\ sheet[p].just = "JUSTIFIED" => sheet[p].status # "ABSENT"
       /\ sheet[p].just = "PENDING" =>
            \E i \in 1..Len(filed) : filed[i].pupil = p /\ filed[i].status = "PENDING"
  /\ \A i \in 1..Len(filed) : filed[i].status = "PENDING" => sheet[filed[i].pupil].just # "NONE"

PagesInv ==
  /\ MarksTell(marks, justifications)
  /\ \A h \in Handlers :
       attendCall[h].phase \in {"file", "filed"} => attendCall[h].entity.just = "PENDING"

\* What a list or a code makes of a mark.
Retold(mark, new) ==
  /\ new \in Mark /\ (new.just = "JUSTIFIED" => new.status # "ABSENT")
  /\ mark = None => new.just # "PENDING"
  /\ mark # None => new.just \in {mark.just, "JUSTIFIED"}

LEMMA RetoldTells ==
  ASSUME AttendanceAssumption, AttendanceInv, MarksTell(marks, justifications),
         UNCHANGED justifications,
         \A p \in Pupils : marks'[p] = marks[p] \/ Retold(marks[p], marks'[p])
  PROVE  MarksTell(marks', justifications')
<1>t. /\ \A p \in Pupils : marks[p] \in Mark \cup {None}
      /\ \A i \in 1..Len(justifications) :
           justifications[i].pupil \in Pupils /\ marks[justifications[i].pupil] \in Mark
  <2>1. \A i \in 1..Len(justifications) : justifications[i] \in Justification
    BY DEF AttendanceInv, AttendanceTypeOK
  <2> QED BY <2>1 DEF AttendanceInv, AttendanceTypeOK, Sheet, JustifiesMarks, Justification
<1>1. ASSUME NEW p \in Pupils, marks'[p] \in Mark
      PROVE  /\ marks'[p].just = "JUSTIFIED" => marks'[p].status # "ABSENT"
             /\ marks'[p].just = "PENDING" =>
                  \E i \in 1..Len(justifications) : /\ justifications[i].pupil = p
                                                   /\ justifications[i].status = "PENDING"
  <2>1. CASE marks'[p] = marks[p]
    BY <1>1, <2>1 DEF MarksTell
  <2>2. CASE Retold(marks[p], marks'[p])
    <3>1. marks'[p].just = "PENDING" => marks[p] \in Mark /\ marks[p].just = "PENDING"
      BY <1>t, <2>2 DEF Retold
    <3> QED BY <2>2, <3>1 DEF MarksTell, Retold
  <2> QED BY <2>1, <2>2
<1>2. ASSUME NEW i \in 1..Len(justifications), justifications[i].status = "PENDING"
      PROVE  marks'[justifications[i].pupil].just # "NONE"
  <2> DEFINE p == justifications[i].pupil
  <2>1. p \in Pupils /\ marks[p] \in Mark /\ marks[p] # None /\ marks[p].just # "NONE"
    BY <1>t, <1>2 DEF MarksTell, AttendanceAssumption
  <2> QED BY <2>1 DEF Retold
<1> QED BY <1>1, <1>2 DEF MarksTell

LEMMA PagesStep ==
  ASSUME NEW H \in SUBSET Handlers, Serial(H), AttendanceAssumption, AttendanceInv,
         AttendAlone(H), PagesInv, [AttendanceNext(H)]_attendVars
  PROVE  PagesInv'
<1> USE DEF AttendanceGoes, AttendanceEnds, attendTables
<1>t. /\ attendCall \in [Handlers -> AttendanceCall] /\ marks \in Sheet
      /\ \A h \in Handlers : /\ AttendFits(session, marks, justifications, attendCall[h])
                             /\ AttendKnows(marks, justifications, attendCall[h])
      /\ justifications \in Seq(Justification) /\ Len(justifications) \in Nat
      /\ \A i \in 1..Len(justifications) : justifications[i] \in Justification
      /\ JustifiesMarks /\ ReviewsStand(marks, justifications)
  BY DEF AttendanceInv, AttendanceTypeOK, AttendAlone
<1>c. ASSUME NEW h \in H, NEW c, attendCall' = [attendCall EXCEPT ![h] = c],
             c.phase \in {"file", "filed"} => c.entity.just = "PENDING",
             MarksTell(marks', justifications')
      PROVE  PagesInv'
  BY <1>t, <1>c DEF PagesInv
<1>i. NotAttending.phase = "idle"
  BY DEF NotAttending
<1>u. ASSUME UNCHANGED <<marks, justifications>> PROVE MarksTell(marks', justifications')
  BY <1>u DEF PagesInv
<1>1. ASSUME NEW h \in H, CreateSession(h) \/ CloseSession(h) PROVE PagesInv'
  BY <1>1 DEF CreateSession, CloseSession, PagesInv
<1>2. ASSUME NEW h \in H, GenerateToken(h) \/ RereadSession(h) PROVE PagesInv'
  <2>1. PICK c : /\ attendCall' = [attendCall EXCEPT ![h] = c]
                 /\ c.phase \in {"code", "code_reread"} /\ UNCHANGED attendTables
    BY <1>2, <1>t DEF GenerateToken, RereadSession, NotAttending, AttendanceCall
  <2> QED BY <1>c, <1>u, <2>1
<1>3. ASSUME NEW h \in H, SaveToken(h) \/ AttendanceAborts(h) PROVE PagesInv'
  BY <1>3, <1>c, <1>i, <1>u DEF SaveToken, AttendanceAborts
<1>4. ASSUME NEW h \in H, RedeemToken(h) \/ UpsertRecords(h) PROVE PagesInv'
  <2>1. PICK c : /\ attendCall' = [attendCall EXCEPT ![h] = c]
                 /\ c.phase \in {"redeem", "records"} /\ UNCHANGED attendTables
    BY <1>4 DEF RedeemToken, UpsertRecords, NotAttending
  <2> QED BY <1>c, <1>u, <2>1
<1>5. ASSUME NEW h \in H, SaveRedeemed(h) PROVE PagesInv'
  <2> DEFINE p == attendCall[h].pupil
  <2>1. p \in Pupils /\ attendCall[h].snap = marks
    BY <1>5, <1>t DEF SaveRedeemed, AttendFits, AttendKnows
  <2>2. marks' = [marks EXCEPT ![p] = SaveMark(marks[p], marks[p], Redeemed(marks[p]))]
    BY <1>5, <2>1 DEF SaveRedeemed
  <2>3. Redeemed(marks[p]) \in Mark /\ Retold(marks[p], Redeemed(marks[p]))
    BY <1>t, <2>1 DEF Redeemed, Mark, MarkStatus, Retold, Sheet
  <2>4. marks'[p] = Redeemed(marks[p])
    BY <1>t, <2>1, <2>2, <2>3, MarkSavedAlone DEF SaveMark, Sheet
  <2>5. \A q \in Pupils : marks'[q] = marks[q] \/ Retold(marks[q], marks'[q])
    BY <1>t, <2>2, <2>3, <2>4 DEF Sheet
  <2>6. attendCall' = [attendCall EXCEPT ![h] = NotAttending] /\ UNCHANGED justifications
    BY <1>5 DEF SaveRedeemed
  <2>7. MarksTell(marks', justifications')
    BY <2>5, <2>6, RetoldTells DEF PagesInv
  <2> QED BY <1>c, <1>i, <2>6, <2>7
<1>6. ASSUME NEW h \in H, SaveRecords(h) PROVE PagesInv'
  <2> DEFINE c == attendCall[h]
             Row(p) == SaveMark(marks[p], marks[p], Recorded(marks[p], c.list[p], c.exempt))
  <2>1. c.snap = marks /\ c.list \in [Pupils -> MarkStatus \cup {None}]
    BY <1>6, <1>t DEF SaveRecords, AttendFits, AttendKnows
  <2>2. marks' = [p \in Pupils |-> IF Present(c.list[p]) THEN Row(p) ELSE marks[p]]
    BY <1>6, <2>1 DEF SaveRecords
  <2>3. ASSUME NEW p \in Pupils, Present(c.list[p]) PROVE Retold(marks[p], Row(p))
    <3> DEFINE new == Recorded(marks[p], c.list[p], c.exempt)
    <3>1. c.list[p] \in MarkStatus /\ marks[p] \in Mark \cup {None}
      BY <1>t, <2>1, <2>3 DEF Present, Sheet
    <3>2. new \in Mark /\ Retold(marks[p], new)
      BY <3>1 DEF Recorded, KeepApproved, Excused, Mark, MarkStatus, Retold
    <3>3. Row(p) = new
      BY <3>1, <3>2, MarkSavedAlone DEF SaveMark
    <3> QED BY <3>2, <3>3
  <2> HIDE DEF Row
  <2>4. \A q \in Pupils : marks'[q] = marks[q] \/ Retold(marks[q], marks'[q])
    BY <2>2, <2>3
  <2>5. attendCall' = [attendCall EXCEPT ![h] = NotAttending] /\ UNCHANGED justifications
    BY <1>6 DEF SaveRecords
  <2>6. MarksTell(marks', justifications')
    BY <2>4, <2>5, RetoldTells DEF PagesInv
  <2> QED BY <1>c, <1>i, <2>5, <2>6
<1>7. ASSUME NEW h \in H, CreateJustification(h) PROVE PagesInv'
  <2>1. PICK p \in Pupils : /\ marks[p] # None /\ UNCHANGED attendTables
          /\ attendCall' = [attendCall EXCEPT ![h] =
               [NotAttending EXCEPT !.phase = "file", !.pupil = p,
                                    !.entity = [marks[p] EXCEPT !.just = "PENDING"]]]
    BY <1>7 DEF CreateJustification
  <2> DEFINE c == [NotAttending EXCEPT !.phase = "file", !.pupil = p,
                                       !.entity = [marks[p] EXCEPT !.just = "PENDING"]]
  <2>2. marks[p] \in Mark
    BY <1>t, <2>1 DEF Sheet
  <2>3. c.entity.just = "PENDING"
    BY <2>2 DEF NotAttending, Mark
  <2> QED BY <1>c, <1>u, <2>1, <2>3
<1>8. ASSUME NEW h \in H, InsertJustification(h) PROVE PagesInv'
  <2> DEFINE c == [attendCall[h] EXCEPT !.phase = "filed"]
  <2>1. c.entity.just = "PENDING"
    BY <1>8, <1>t DEF InsertJustification, PagesInv, AttendanceCall
  <2>2. attendCall' = [attendCall EXCEPT ![h] = c] /\ UNCHANGED attendTables
    BY <1>8 DEF InsertJustification
  <2> HIDE DEF c
  <2> QED BY <1>c, <1>u, <2>1, <2>2
<1>9. ASSUME NEW h \in H, SaveJustification(h) PROVE PagesInv'
  <2> DEFINE c == attendCall[h]  p == c.pupil  new == [pupil |-> p, status |-> "PENDING"]
  <2>1. /\ p \in Pupils /\ c.entity \in Mark /\ marks[p] \in Mark /\ c.entity.just = "PENDING"
        /\ new \in Justification
    BY <1>9, <1>t DEF SaveJustification, AttendFits, PagesInv, Justification
  <2>2. /\ marks' = [marks EXCEPT ![p] = c.entity]
        /\ justifications' = Append(justifications, new)
        /\ attendCall' = [attendCall EXCEPT ![h] = NotAttending]
    BY <1>9, <2>1, MarkSavedAlone DEF SaveJustification
  <2>3. /\ Len(justifications') = Len(justifications) + 1 /\ justifications'[Len(justifications) + 1] = new
        /\ \A i \in 1..Len(justifications) : justifications'[i] = justifications[i]
    BY <1>t, <2>1, <2>2
  <2>4. marks'[p] = c.entity /\ \A q \in Pupils \ {p} : marks'[q] = marks[q]
    BY <1>t, <2>1, <2>2 DEF Sheet
  <2>5. new.pupil = p /\ new.status = "PENDING"
    OBVIOUS
  <2> HIDE DEF c, p, new
  <2>6. ASSUME NEW q \in Pupils, marks'[q] \in Mark
        PROVE  /\ marks'[q].just = "JUSTIFIED" => marks'[q].status # "ABSENT"
               /\ marks'[q].just = "PENDING" =>
                    \E i \in 1..Len(justifications') : /\ justifications'[i].pupil = q
                                                      /\ justifications'[i].status = "PENDING"
    <3>1. CASE q = p
      <4>1. Len(justifications) + 1 \in 1..Len(justifications')
        BY <1>t, <2>3
      <4> QED BY <2>1, <2>3, <2>4, <2>5, <3>1, <4>1
    <3>2. CASE q # p
      <4>1. marks'[q] = marks[q] /\ 1..Len(justifications) \subseteq 1..Len(justifications')
        BY <1>t, <2>3, <2>4, <3>2
      <4> QED BY <2>3, <2>6, <4>1 DEF PagesInv, MarksTell
    <3> QED BY <3>1, <3>2
  <2>7. ASSUME NEW i \in 1..Len(justifications'), justifications'[i].status = "PENDING"
        PROVE  marks'[justifications'[i].pupil].just # "NONE"
    <3>1. CASE i = Len(justifications) + 1
      BY <2>1, <2>3, <2>4, <2>5, <3>1
    <3>2. CASE i # Len(justifications) + 1
      <4>1. i \in 1..Len(justifications) /\ justifications'[i] = justifications[i]
            /\ justifications[i].pupil \in Pupils
        BY <1>t, <2>3, <3>2 DEF Justification
      <4> QED BY <2>1, <2>4, <2>7, <4>1 DEF PagesInv, MarksTell
    <3> QED BY <3>1, <3>2
  <2>8. MarksTell(marks', justifications')
    BY <2>6, <2>7 DEF MarksTell
  <2> QED BY <1>c, <1>i, <2>2, <2>8
<1>10. ASSUME NEW h \in H, ReviewJustification(h) \/ ReadMark(h) PROVE PagesInv'
  <2>1. PICK c : /\ attendCall' = [attendCall EXCEPT ![h] = c]
                 /\ c.phase \in {"review", "decide"} /\ UNCHANGED attendTables
    <3>1. ASSUME ReviewJustification(h)
          PROVE  \E c : /\ attendCall' = [attendCall EXCEPT ![h] = c]
                        /\ c.phase \in {"review", "decide"} /\ UNCHANGED attendTables
      BY <3>1 DEF ReviewJustification, NotAttending
    <3>2. ASSUME ReadMark(h)
          PROVE  \E c : /\ attendCall' = [attendCall EXCEPT ![h] = c]
                        /\ c.phase \in {"review", "decide"} /\ UNCHANGED attendTables
      BY <1>t, <3>2 DEF ReadMark, AttendanceCall
    <3> QED BY <1>10, <3>1, <3>2
  <2> QED BY <1>c, <1>u, <2>1
<1>11. ASSUME NEW h \in H, SaveReview(h) PROVE PagesInv'
  <2> DEFINE c == attendCall[h]  p == c.pupil  new == Decided(marks[p], c.approve)
             decision == [pupil |-> p, status |-> IF c.approve THEN "APPROVED" ELSE "REJECTED"]
  <2>1. /\ p \in Pupils /\ marks[p] \in Mark /\ c.snap = marks /\ c.id \in 1..Len(justifications)
        /\ c.seen = justifications[c.id] /\ justifications[c.id].pupil = p
        /\ c.approve \in BOOLEAN
    BY <1>11, <1>t DEF SaveReview, AttendFits, AttendKnows, AttendanceCall
  <2>2. decision \in Justification /\ justifications[c.id] \in Justification
        /\ decision.status # "PENDING"
    BY <1>t, <2>1 DEF Justification
  <2>3. new \in Mark /\ new.just \in {"JUSTIFIED", "REJECTED"}
        /\ (new.just = "JUSTIFIED" => new.status = "JUSTIFIED")
    BY <2>1 DEF Decided, Mark, MarkStatus
  <2>4. /\ marks' = [marks EXCEPT ![p] = new]
        /\ justifications' = [justifications EXCEPT ![c.id] = decision]
        /\ attendCall' = [attendCall EXCEPT ![h] = NotAttending]
    <3>1. /\ marks' = [marks EXCEPT ![p] = SaveEntity(marks[p], c.snap[p], new)]
          /\ justifications' = [justifications EXCEPT ![c.id] =
               SaveEntity(justifications[c.id], c.seen, decision)]
          /\ attendCall' = [attendCall EXCEPT ![h] = NotAttending]
      BY <1>11, <2>1 DEF SaveReview, AttendanceEnds
    <3> HIDE DEF c, p, new, decision
    <3> QED BY <2>1, <2>2, <2>3, <3>1, MarkSavedAlone, JustificationSavedAlone
  <2> HIDE DEF c, p, new, decision
  <2>5. /\ Len(justifications') = Len(justifications) /\ justifications'[c.id].status # "PENDING"
        /\ \A i \in 1..Len(justifications) : i # c.id => justifications'[i] = justifications[i]
    BY <1>t, <2>1, <2>2, <2>4
  <2>6. marks'[p] = new /\ \A q \in Pupils \ {p} : marks'[q] = marks[q]
    BY <1>t, <2>1, <2>4 DEF Sheet
  <2>7. ASSUME NEW q \in Pupils, marks'[q] \in Mark
        PROVE  /\ marks'[q].just = "JUSTIFIED" => marks'[q].status # "ABSENT"
               /\ marks'[q].just = "PENDING" =>
                    \E i \in 1..Len(justifications') : /\ justifications'[i].pupil = q
                                                      /\ justifications'[i].status = "PENDING"
    <3>1. CASE q = p
      BY <2>3, <2>6, <3>1
    <3>2. CASE q # p
      <4>1. marks'[q] = marks[q]
        BY <2>6, <3>2
      <4>2. \A i \in 1..Len(justifications) : justifications[i].pupil = q => justifications'[i] = justifications[i]
        BY <2>1, <2>5, <3>2
      <4> QED BY <2>5, <2>7, <4>1, <4>2 DEF PagesInv, MarksTell
    <3> QED BY <3>1, <3>2
  <2>8. ASSUME NEW i \in 1..Len(justifications'), justifications'[i].status = "PENDING"
        PROVE  marks'[justifications'[i].pupil].just # "NONE"
    <3>1. i \in 1..Len(justifications) /\ justifications'[i] = justifications[i]
          /\ justifications[i].pupil \in Pupils
      BY <1>t, <2>5, <2>8 DEF Justification
    <3> QED BY <2>3, <2>6, <2>8, <3>1 DEF PagesInv, MarksTell
  <2>9. MarksTell(marks', justifications')
    BY <2>7, <2>8 DEF MarksTell
  <2> QED BY <1>c, <1>i, <2>4, <2>9
<1>12. CASE ClassEnds \/ ChangeException \/ UNCHANGED attendVars
  BY <1>12 DEF ClassEnds, ChangeException, attendVars, PagesInv
<1> QED
  BY <1>1, <1>2, <1>3, <1>4, <1>5, <1>6, <1>7, <1>8, <1>9, <1>10, <1>11, <1>12 DEF AttendanceNext

LEMMA PagesMean == ASSUME AttendanceInv, PagesInv PROVE OfferedAsAccepted
<1>t. /\ \A p \in Pupils : marks[p] \in Mark \cup {None}
      /\ DOMAIN justifications = 1..Len(justifications)
  BY DEF AttendanceInv, AttendanceTypeOK, Sheet
<1>1. ASSUME NEW p \in Pupils, marks[p] # None, marks[p].status = "ABSENT", ~HasActive(p)
      PROVE  marks[p].just \in {"NONE", "REJECTED"}
  <2>1. marks[p] \in Mark
    BY <1>t, <1>1
  <2>2. marks[p].just # "PENDING"
    BY <1>1, <2>1 DEF HasActive, PagesInv, MarksTell
  <2>3. marks[p].just # "JUSTIFIED"
    BY <1>1, <2>1 DEF PagesInv, MarksTell
  <2> QED BY <2>1, <2>2, <2>3 DEF Mark
<1>2. Justifiable = Accepted
  BY <1>1 DEF Justifiable, Accepted
<1>3. ASSUME NEW i \in InboxRows
      PROVE  marks[justifications[i].pupil].just # "NONE" /\ justifications[i].pupil \notin Justifiable
  <2>1. i \in 1..Len(justifications) /\ justifications[i].status = "PENDING"
    BY <1>t DEF InboxRows
  <2>2. HasActive(justifications[i].pupil)
    BY <2>1 DEF HasActive
  <2> QED BY <2>1, <2>2 DEF PagesInv, MarksTell, Justifiable
<1> QED BY <1>2, <1>3 DEF OfferedAsAccepted

\* The pages ask of their readers what the handlers ask of the users who act.
LEMMA ReadersAgreeAlways == ReadersAgree
<1> USE DEF CanRead, ListScope, CanSee, Reviews, Family, Teaches
<1>1. JustificationsListed = {a \in JustificationSeen : CanRead(a)}
  BY DEF JustificationsListed, JustificationSeen
<1>2. AbsencesOffered = {a \in MayJustify : CanRead(a)}
  BY DEF AbsencesOffered, MayJustify
<1>3. InInbox \subseteq MayDecide
  BY DEF InInbox, JustificationsListed, MayDecide
<1>4. {a \in AbsencesOffered : ~Reviews(a)} \subseteq JustificationSeen \cap MayAttach
  BY DEF AbsencesOffered, JustificationSeen, MayAttach
<1> QED BY <1>1, <1>2, <1>3, <1>4 DEF ReadersAgree

-----------------------------------------------------------------------------
(* The absenteeism alerts.                                                 *)

\* The rows the alert of a key may be: raised, or resolved.
Raised(k) == [risk |-> k, status |-> "NEW"]
AlertRows(k)   == {Raised(k), Resolved}

AlertRowsWhole == \A k \in Keys : alerts[k] \in {None} \cup AlertRows(k)

\* What an evaluation carries, while the rows are those of table: whatever it read
\* there was a whole row, and the row it will save over is there to stay.
AlertFits(table, c) ==
  /\ \A k \in c.todo : table[k] \in AlertRows(k)
  /\ c.phase \in {"found", "reread"} =>
       /\ c.key \in Keys /\ c.entity \in AlertRows(c.key)
       /\ ~c.insert => table[c.key] \in AlertRows(c.key)
       /\ ~c.insert /\ c.phase = "reread" => c.again \in AlertRows(c.key)

AlertInv == AlertTypeOK /\ AlertRowsWhole /\ \A h \in Handlers : AlertFits(alerts, alertCall[h])

-----------------------------------------------------------------------------
LEMMA NotEvaluatingFits == NotEvaluating \in AlertCall /\ \A table : AlertFits(table, NotEvaluating)
  BY DEF NotEvaluating, AlertCall, Levels, Keys, AlertFits

LEMMA RowsAreAlerts == \A k \in Keys : AlertRows(k) \subseteq Alert
  BY DEF AlertRows, Raised, Resolved, Alert, Keys, Levels

\* Two saves of one row never leave a column of each: where the entity differs from
\* what was read, it differs in both columns.
LEMMA SaveIsWhole ==
  ASSUME NEW k \in Keys, NEW row \in AlertRows(k), NEW reread \in AlertRows(k), NEW entity \in AlertRows(k)
  PROVE  SaveEntity(row, reread, entity) \in AlertRows(k)
<1>1. DOMAIN row = {"risk", "status"} /\ k # "LOW"
  BY DEF AlertRows, Raised, Resolved, Keys
<1>2. CASE entity = reread
  <2>1. SaveEntity(row, reread, entity) = [c \in {"risk", "status"} |-> row[c]]
    BY <1>1, <1>2 DEF SaveEntity
  <2>2. row = [c \in {"risk", "status"} |-> row[c]]
    BY DEF AlertRows, Raised, Resolved
  <2> QED BY <2>1, <2>2
<1>3. CASE entity # reread
  <2>1. entity["risk"] # reread["risk"] /\ entity["status"] # reread["status"]
    BY <1>1, <1>3 DEF AlertRows, Raised, Resolved
  <2>2. SaveEntity(row, reread, entity) = [c \in {"risk", "status"} |-> entity[c]]
    BY <1>1, <2>1 DEF SaveEntity
  <2>3. entity = [c \in {"risk", "status"} |-> entity[c]]
    BY DEF AlertRows, Raised, Resolved
  <2> QED BY <2>2, <2>3
<1> QED BY <1>2, <1>3

\* A step of h keeps the invariant, if the rows that are there stay whole rows.
LEMMA AlertOneCallFits ==
  ASSUME AlertInv, NEW h \in Handlers, NEW c \in AlertCall,
         alertCall' = [alertCall EXCEPT ![h] = c], AlertFits(alerts', c),
         level' = level, alerts' \in [Keys -> Alert \cup {None}],
         \A k \in Keys : notices'[k] \in Nat,
         \A k \in Keys : alerts'[k] \in {None} \cup AlertRows(k),
         \A k \in Keys : alerts[k] \in AlertRows(k) => alerts'[k] \in AlertRows(k)
  PROVE  AlertInv'
<1>1. AlertTypeOK' /\ AlertRowsWhole'
  BY DEF AlertInv, AlertTypeOK, AlertRowsWhole
<1>2. ASSUME NEW g \in Handlers PROVE AlertFits(alerts', alertCall'[g])
  <2>1. CASE g = h
    BY <2>1 DEF AlertInv, AlertTypeOK
  <2>2. CASE g # h
    <3>1. alertCall'[g] = alertCall[g] /\ alertCall[g] \in AlertCall /\ AlertFits(alerts, alertCall[g])
      BY <2>2 DEF AlertInv, AlertTypeOK
    <3>2. alertCall[g].todo \subseteq Keys
      BY <3>1 DEF AlertCall
    <3> QED BY <3>1, <3>2 DEF AlertFits
  <2> QED BY <2>1, <2>2
<1> QED BY <1>1, <1>2 DEF AlertInv

\* The same for a step that leaves the rows alone.
LEMMA AlertCallFits ==
  ASSUME AlertInv, NEW h \in Handlers, NEW c \in AlertCall,
         alertCall' = [alertCall EXCEPT ![h] = c], AlertFits(alerts, c),
         UNCHANGED <<level, alerts>>, \A k \in Keys : notices'[k] \in Nat
  PROVE  AlertInv'
  BY AlertOneCallFits DEF AlertInv, AlertTypeOK, AlertRowsWhole

-----------------------------------------------------------------------------
LEMMA AlertInitFits == AlertInit => AlertInv
  BY NotEvaluatingFits DEF AlertInit, AlertInv, AlertTypeOK, AlertRowsWhole, Levels

LEMMA AlertStepFits ==
  ASSUME AlertInv, [AlertNext(Handlers)]_alertVars
  PROVE  AlertInv'
<1> USE DEF AlertGoes
<1>0. \A h \in Handlers : alertCall[h] \in AlertCall /\ AlertFits(alerts, alertCall[h])
  BY DEF AlertInv, AlertTypeOK
<1>n. \A k \in Keys : notices[k] \in Nat
  BY DEF AlertInv, AlertTypeOK
<1>e. ASSUME NEW h \in Handlers, AlertEnds(h), UNCHANGED <<level, alerts>>,
             \A k \in Keys : notices'[k] \in Nat
      PROVE  AlertInv'
  BY <1>e, AlertCallFits, NotEvaluatingFits DEF AlertEnds
<1>1. ASSUME NEW h \in Handlers, Evaluate(h) PROVE AlertInv'
  <2> DEFINE c == [NotEvaluating EXCEPT !.phase = "evaluated", !.level = level]
  <2>1. c \in AlertCall /\ AlertFits(alerts, c)
    BY DEF AlertInv, AlertTypeOK, NotEvaluating, AlertCall, Levels, Keys, AlertFits
  <2> QED BY <1>1, <1>n, <2>1, AlertCallFits DEF Evaluate
<1>2. ASSUME NEW h \in Handlers, FindOpen(h) PROVE AlertInv'
  <2>1. CASE OpenAlerts = {}
    BY <1>2, <1>e, <1>n, <2>1 DEF FindOpen
  <2>2. CASE OpenAlerts # {}
    <3> DEFINE c == [alertCall[h] EXCEPT !.phase = "resolve", !.todo = OpenAlerts]
    <3>1. c \in AlertCall
      BY <1>0 DEF AlertCall, OpenAlerts
    <3>2. AlertFits(alerts, c)
      BY <1>0 DEF AlertFits, AlertCall, OpenAlerts, AlertInv, AlertRowsWhole
    <3> QED BY <1>2, <1>n, <2>2, <3>1, <3>2, AlertCallFits DEF FindOpen
  <2> QED BY <2>1, <2>2
<1>3. ASSUME NEW h \in Handlers, ResolveOpen(h) PROVE AlertInv'
  <2>1. PICK k \in alertCall[h].todo :
          AlertGoes(h, [alertCall[h] EXCEPT !.phase = "found", !.key = k, !.entity = Resolved,
                                            !.todo = @ \ {k}])
    BY <1>3 DEF ResolveOpen
  <2> DEFINE c == [alertCall[h] EXCEPT !.phase = "found", !.key = k, !.entity = Resolved,
                                       !.todo = @ \ {k}]
  <2>2. k \in Keys /\ Resolved \in Alert
    BY <1>0 DEF AlertCall, Resolved, Alert, Levels
  <2>3. c \in AlertCall
    BY <1>0, <2>2 DEF AlertCall
  <2>4. AlertFits(alerts, c)
    BY <1>0, <2>2 DEF AlertFits, AlertRows, AlertCall
  <2> QED BY <1>3, <1>n, <2>1, <2>3, <2>4, AlertCallFits DEF ResolveOpen
<1>4. ASSUME NEW h \in Handlers, FindAlert(h) PROVE AlertInv'
  <2> DEFINE k == alertCall[h].level
             row == IF alerts[k] = None THEN [risk |-> k, status |-> "NEW"]
                                        ELSE Refreshed(alerts[k], k)
             c == [alertCall[h] EXCEPT !.phase = "found", !.key = k, !.insert = alerts[k] = None,
                                       !.entity = row]
  <2>1. k \in Keys
    BY <1>0, <1>4 DEF FindAlert, AlertCall, Levels, Keys
  <2>2. row = Raised(k)
    BY DEF Refreshed, Raised
  <2>3. row \in AlertRows(k) /\ row \in Alert
    BY <2>1, <2>2, RowsAreAlerts DEF AlertRows
  <2>4. alerts[k] # None => alerts[k] \in AlertRows(k)
    BY <2>1 DEF AlertInv, AlertRowsWhole
  <2>5. alertCall' = [alertCall EXCEPT ![h] = c] /\ UNCHANGED <<level, alerts, notices>>
    BY <1>4 DEF FindAlert
  <2> HIDE DEF row
  <2>6. c \in AlertCall
    BY <1>0, <2>1, <2>3 DEF AlertCall
  <2>7. AlertFits(alerts, c)
    BY <1>0, <2>1, <2>3, <2>4 DEF AlertFits, AlertCall
  <2> QED BY <1>n, <2>5, <2>6, <2>7, AlertCallFits
<1>5. ASSUME NEW h \in Handlers, RereadAlert(h) PROVE AlertInv'
  <2> DEFINE again == IF alertCall[h].insert THEN None ELSE alerts[alertCall[h].key]
             c == [alertCall[h] EXCEPT !.phase = "reread", !.again = again]
  <2>1. alertCall[h].key \in Keys
    BY <1>0, <1>5 DEF RereadAlert, AlertFits
  <2>2. ~alertCall[h].insert => again \in AlertRows(alertCall[h].key)
    BY <1>0, <1>5 DEF RereadAlert, AlertFits
  <2>3. again \in Alert \cup {None}
    BY <2>1, <2>2, RowsAreAlerts
  <2>4. alertCall' = [alertCall EXCEPT ![h] = c] /\ UNCHANGED <<level, alerts, notices>>
    BY <1>5 DEF RereadAlert
  <2> HIDE DEF again
  <2>5. c \in AlertCall
    BY <1>0, <2>3 DEF AlertCall
  <2>6. AlertFits(alerts, c)
    BY <1>0, <1>5, <2>1, <2>2 DEF AlertFits, AlertCall, RereadAlert
  <2> QED BY <1>n, <2>4, <2>5, <2>6, AlertCallFits
<1>6. ASSUME NEW h \in Handlers, SaveAlert(h) PROVE AlertInv'
  <2> DEFINE o == alertCall[h]
             k == o.key
             row == IF o.insert THEN o.entity ELSE SaveEntity(alerts[k], o.again, o.entity)
             c == [o EXCEPT !.phase = IF o.level = "LOW" THEN "resolve" ELSE "told"]
  <2>1. k \in Keys /\ o.entity \in AlertRows(k)
    BY <1>0, <1>6 DEF SaveAlert, AlertFits
  <2>2. row \in AlertRows(k)
    BY <1>0, <1>6, <2>1, SaveIsWhole DEF SaveAlert, AlertFits
  <2>3. alerts' = [alerts EXCEPT ![k] = row] /\ UNCHANGED <<level, notices>>
    BY <1>6 DEF SaveAlert
  <2>4. row \in Alert
    BY <2>1, <2>2, RowsAreAlerts
  <2> HIDE DEF row
  <2>5. /\ alerts' \in [Keys -> Alert \cup {None}]
        /\ \A j \in Keys : alerts'[j] \in {None} \cup AlertRows(j)
        /\ \A j \in Keys : alerts[j] \in AlertRows(j) => alerts'[j] \in AlertRows(j)
    BY <2>1, <2>2, <2>3, <2>4 DEF AlertInv, AlertTypeOK, AlertRowsWhole
  <2>6. CASE AlertEnds(h)
    BY <1>n, <2>3, <2>5, <2>6, AlertOneCallFits, NotEvaluatingFits DEF AlertEnds
  <2>7. CASE alertCall' = [alertCall EXCEPT ![h] = c]
    <3>1. c \in AlertCall
      BY <1>0 DEF AlertCall
    <3>2. o.todo \subseteq Keys /\ \A j \in o.todo : alerts[j] \in AlertRows(j)
      BY <1>0 DEF AlertCall, AlertFits
    <3>3. c.todo = o.todo /\ c.phase \in {"resolve", "told"}
      BY <1>0 DEF AlertCall
    <3>4. AlertFits(alerts', c)
      BY <2>5, <3>2, <3>3 DEF AlertFits
    <3> QED BY <1>n, <2>3, <2>5, <2>7, <3>1, <3>4, AlertOneCallFits
  <2> QED BY <1>6, <2>6, <2>7 DEF SaveAlert
<1>7. ASSUME NEW h \in Handlers, FindNotice(h) PROVE AlertInv'
  <2>1. CASE Untold(alertCall[h].key)
    <3> DEFINE c == [alertCall[h] EXCEPT !.phase = "tell"]
    <3>1. c \in AlertCall /\ AlertFits(alerts, c)
      BY <1>0 DEF AlertCall, AlertFits
    <3> QED BY <1>7, <1>n, <2>1, <3>1, AlertCallFits DEF FindNotice
  <2>2. CASE ~Untold(alertCall[h].key)
    BY <1>7, <1>e, <1>n, <2>2 DEF FindNotice
  <2> QED BY <2>1, <2>2
<1>8. ASSUME NEW h \in Handlers, SaveNotice(h) PROVE AlertInv'
  <2>1. \A k \in Keys : notices'[k] \in Nat
    BY <1>8, <1>n DEF SaveNotice, AlertInv, AlertTypeOK
  <2> QED BY <1>8, <1>e, <2>1 DEF SaveNotice
<1>9. ASSUME NEW h \in Handlers, AlertAborts(h) PROVE AlertInv'
  BY <1>9, <1>e, <1>n DEF AlertAborts
<1>10. CASE MarksChange
  BY <1>10 DEF MarksChange, AlertInv, AlertTypeOK, AlertRowsWhole
<1>11. CASE UNCHANGED alertVars
  BY <1>11 DEF alertVars, AlertInv, AlertTypeOK, AlertRowsWhole
<1> QED
  BY <1>1, <1>2, <1>3, <1>4, <1>5, <1>6, <1>7, <1>8, <1>9, <1>10, <1>11 DEF AlertNext

(* Type correctness of the alerts and of the evaluations in flight.        *)
THEOREM AlertsTyped == AlertSpec => []AlertTypeOK
<1>1. AlertInv => AlertTypeOK
  BY DEF AlertInv
<1> QED BY AlertInitFits, AlertStepFits, <1>1, PTL DEF AlertSpec

(* However many evaluations overlap (absenteeism.service.ts, persistAlert),*)
(* an open alert shows the risk it was raised for and a resolved one LOW.  *)
THEOREM ColumnsAgree == AlertSpec => []AlertColumnsAgree
<1>1. AlertInv => AlertColumnsAgree
  BY DEF AlertInv, AlertRowsWhole, AlertColumnsAgree, AlertRows, Raised, Resolved
<1> QED BY AlertInitFits, AlertStepFits, <1>1, PTL DEF AlertSpec

-----------------------------------------------------------------------------
(* Served one request at a time.                                           *)
OpenIn(table) == {k \in Keys : table[k] # None /\ table[k].status = "NEW"}

\* What an evaluation knows when nobody else writes: an alert it will open is of a
\* level that was found; the alerts that are open are those it has still to resolve;
\* an alert it read is as it read it; and one it will tell was never told.
AlertKnows(table, found, told, c) ==
  /\ c.phase = "evaluated" => ~c.insert
  /\ c.phase = "resolve" => c.level = "LOW" /\ ~c.insert /\ OpenIn(table) \subseteq c.todo
  /\ c.phase \in {"found", "reread"} =>
       /\ c.level # "LOW" => c.key \in found
       /\ c.level = "LOW" => ~c.insert /\ c.entity = Resolved /\ OpenIn(table) \subseteq c.todo \cup {c.key}
  /\ c.phase = "reread" /\ ~c.insert => c.again = table[c.key]
  /\ c.phase \in {"told", "tell"} => c.key \in Keys
  /\ c.phase = "tell" => told[c.key] = 0

AlertAlone(H) ==
  /\ OpenIn(alerts) \subseteq reached
  /\ \A k \in Keys : notices[k] \in {0, 1}
  /\ \A h \in Handlers : AlertKnows(alerts, reached, notices, alertCall[h])
  /\ \A h \in Handlers \ H : alertCall[h] = NotEvaluating

\* Nothing to know between two requests.
LEMMA AlertIdleKnows == \A table, found, told : AlertKnows(table, found, told, NotEvaluating)
  BY DEF AlertKnows, NotEvaluating

\* One row saved over itself is the entity.
LEMMA SaveAlone ==
  ASSUME NEW k \in Keys, NEW row \in AlertRows(k)
  PROVE  SaveEntity(row, row, Resolved) = Resolved
<1>1. DOMAIN row = {"risk", "status"}
  BY DEF AlertRows, Raised, Resolved
<1>2. SaveEntity(row, row, Resolved) = [c \in {"risk", "status"} |-> Resolved[c]]
  BY <1>1 DEF SaveEntity
<1>3. Resolved = [c \in {"risk", "status"} |-> Resolved[c]]
  BY DEF Resolved
<1> QED BY <1>2, <1>3

\* A step of the only request.
LEMMA AlertOnlyCallKnows ==
  ASSUME NEW H \in SUBSET Handlers, Serial(H), AlertInv, AlertAlone(H), NEW h \in H, NEW c,
         alertCall' = [alertCall EXCEPT ![h] = c],
         AlertKnows(alerts', reached', notices', c), OpenIn(alerts') \subseteq reached',
         \A k \in Keys : notices'[k] \in {0, 1}
  PROVE  AlertAlone(H)'
<1>1. alertCall'[h] = c /\ \A g \in Handlers \ {h} : alertCall'[g] = alertCall[g]
  BY DEF AlertInv, AlertTypeOK
<1>2. ASSUME NEW g \in Handlers \ {h} PROVE g \notin H /\ alertCall'[g] = NotEvaluating
  BY <1>1, <1>2 DEF Serial, AlertAlone
<1>3. \A g \in Handlers : AlertKnows(alerts', reached', notices', alertCall'[g])
  BY <1>1, <1>2, AlertIdleKnows
<1> QED BY <1>1, <1>2, <1>3 DEF AlertAlone

LEMMA AlertInitAlone == \A H : AlertInit => AlertAlone(H)
  BY AlertIdleKnows DEF AlertInit, AlertAlone, OpenIn

LEMMA AlertStepAlone ==
  ASSUME NEW H \in SUBSET Handlers, Serial(H), AlertInv, AlertAlone(H), [AlertNext(H)]_alertVars
  PROVE  AlertAlone(H)'
<1> USE DEF AlertGoes
<1>0. \A h \in Handlers : /\ alertCall[h] \in AlertCall /\ AlertFits(alerts, alertCall[h])
                          /\ AlertKnows(alerts, reached, notices, alertCall[h])
  BY DEF AlertInv, AlertTypeOK, AlertAlone
<1>n. OpenIn(alerts) \subseteq reached /\ \A k \in Keys : notices[k] \in {0, 1}
  BY DEF AlertAlone
<1>e. ASSUME NEW h \in H, AlertEnds(h), OpenIn(alerts') \subseteq reached',
             \A k \in Keys : notices'[k] \in {0, 1}
      PROVE  AlertAlone(H)'
  BY <1>e, AlertOnlyCallKnows, AlertIdleKnows DEF AlertEnds
<1>1. ASSUME NEW h \in H, Evaluate(h) PROVE AlertAlone(H)'
  <2> DEFINE c == [NotEvaluating EXCEPT !.phase = "evaluated", !.level = level]
  <2>1. AlertKnows(alerts, reached, notices, c)
    BY DEF AlertKnows, NotEvaluating
  <2> QED BY <1>1, <1>n, <2>1, AlertOnlyCallKnows DEF Evaluate
<1>2. ASSUME NEW h \in H, FindOpen(h) PROVE AlertAlone(H)'
  <2>1. CASE OpenAlerts = {}
    <3>1. OpenIn(alerts') = {} /\ AlertEnds(h) /\ UNCHANGED notices
      BY <1>2, <2>1 DEF FindOpen, OpenIn, OpenAlerts
    <3> QED BY <1>e, <1>n, <3>1
  <2>2. CASE OpenAlerts # {}
    <3> DEFINE c == [alertCall[h] EXCEPT !.phase = "resolve", !.todo = OpenAlerts]
    <3>1. AlertKnows(alerts, reached, notices, c)
      BY <1>0, <1>2 DEF AlertKnows, AlertCall, FindOpen, OpenIn, OpenAlerts
    <3> QED BY <1>2, <1>n, <2>2, <3>1, AlertOnlyCallKnows DEF FindOpen
  <2> QED BY <2>1, <2>2
<1>3. ASSUME NEW h \in H, ResolveOpen(h) PROVE AlertAlone(H)'
  <2>1. PICK k \in alertCall[h].todo :
          /\ alertCall[h].phase = "resolve"
          /\ alertCall' = [alertCall EXCEPT ![h] =
               [alertCall[h] EXCEPT !.phase = "found", !.key = k, !.entity = Resolved,
                                    !.todo = @ \ {k}]]
          /\ UNCHANGED <<alerts, notices, reached>>
    BY <1>3 DEF ResolveOpen
  <2> DEFINE c == [alertCall[h] EXCEPT !.phase = "found", !.key = k, !.entity = Resolved,
                                       !.todo = @ \ {k}]
  <2>2. AlertKnows(alerts, reached, notices, c)
    BY <1>0, <2>1 DEF AlertKnows, AlertCall
  <2>3. alertCall' = [alertCall EXCEPT ![h] = c]
    BY <2>1
  <2> HIDE DEF c
  <2> QED BY <1>n, <2>1, <2>2, <2>3, AlertOnlyCallKnows
<1>4. ASSUME NEW h \in H, FindAlert(h) PROVE AlertAlone(H)'
  <2> DEFINE k == alertCall[h].level
             row == IF alerts[k] = None THEN [risk |-> k, status |-> "NEW"]
                                        ELSE Refreshed(alerts[k], k)
             c == [alertCall[h] EXCEPT !.phase = "found", !.key = k, !.insert = alerts[k] = None,
                                       !.entity = row]
  <2>1. /\ alertCall' = [alertCall EXCEPT ![h] = c] /\ UNCHANGED <<alerts, notices>>
        /\ k # "LOW" /\ reached' = reached \cup {k}
    BY <1>4 DEF FindAlert
  <2> HIDE DEF row
  <2>2. AlertKnows(alerts, reached', notices, c)
    BY <1>0, <2>1 DEF AlertKnows, AlertCall
  <2> QED BY <1>n, <2>1, <2>2, AlertOnlyCallKnows
<1>5. ASSUME NEW h \in H, RereadAlert(h) PROVE AlertAlone(H)'
  <2> DEFINE again == IF alertCall[h].insert THEN None ELSE alerts[alertCall[h].key]
             c == [alertCall[h] EXCEPT !.phase = "reread", !.again = again]
  <2>1. /\ alertCall' = [alertCall EXCEPT ![h] = c] /\ UNCHANGED <<alerts, notices, reached>>
        /\ alertCall[h].phase = "found"
    BY <1>5 DEF RereadAlert
  <2>2. AlertKnows(alerts, reached, notices, c)
    BY <1>0, <2>1 DEF AlertKnows, AlertCall
  <2> QED BY <1>n, <2>1, <2>2, AlertOnlyCallKnows
<1>6. ASSUME NEW h \in H, SaveAlert(h) PROVE AlertAlone(H)'
  <2> DEFINE o == alertCall[h]
             k == o.key
             done == o.level = "LOW" /\ o.todo = {}
             row == IF o.insert THEN o.entity ELSE SaveEntity(alerts[k], o.again, o.entity)
             c == [o EXCEPT !.phase = IF o.level = "LOW" THEN "resolve" ELSE "told"]
  <2>1. /\ k \in Keys /\ o.phase = "reread" /\ alerts \in [Keys -> Alert \cup {None}]
        /\ ~o.insert => alerts[k] \in AlertRows(k)
    BY <1>0, <1>6 DEF SaveAlert, AlertFits, AlertInv, AlertTypeOK
  <2>2. /\ alerts' = [alerts EXCEPT ![k] = row] /\ UNCHANGED notices
        /\ reached' = IF done THEN {} ELSE reached
        /\ IF done THEN AlertEnds(h) ELSE alertCall' = [alertCall EXCEPT ![h] = c]
    BY <1>6 DEF SaveAlert
  <2>3. ASSUME o.level = "LOW" PROVE row = Resolved
    BY <1>0, <2>1, <2>3, SaveAlone DEF AlertKnows
  <2> HIDE DEF row
  <2>4. alerts'[k] = row /\ \A j \in Keys \ {k} : alerts'[j] = alerts[j]
    BY <2>1, <2>2
  <2>5. CASE o.level = "LOW"
    <3>1. OpenIn(alerts') = OpenIn(alerts) \ {k}
      BY <2>3, <2>4, <2>5 DEF OpenIn, Resolved
    <3>2. OpenIn(alerts) \subseteq o.todo \cup {k} /\ ~o.insert
      BY <1>0, <2>1, <2>5 DEF AlertKnows
    <3>3. OpenIn(alerts') \subseteq o.todo
      BY <3>1, <3>2
    <3>4. CASE o.todo = {}
      BY <1>e, <1>n, <2>2, <2>5, <3>3, <3>4
    <3>5. CASE o.todo # {}
      <4>1. c.phase = "resolve" /\ c.level = "LOW" /\ c.todo = o.todo /\ c.insert = o.insert
        BY <1>0, <2>5 DEF AlertCall
      <4>2. AlertKnows(alerts', reached', notices', c)
        BY <3>2, <3>3, <4>1 DEF AlertKnows
      <4> QED BY <1>n, <2>2, <3>1, <3>5, <4>2, AlertOnlyCallKnows
    <3> QED BY <3>4, <3>5
  <2>6. CASE o.level # "LOW"
    <3>1. k \in reached /\ reached' = reached
      BY <1>0, <2>1, <2>2, <2>6 DEF AlertKnows
    <3>2. OpenIn(alerts') \subseteq reached'
      BY <1>n, <2>4, <3>1 DEF OpenIn
    <3>3. c.phase = "told" /\ c.key = k
      BY <1>0, <2>6 DEF AlertCall
    <3>4. AlertKnows(alerts', reached', notices', c)
      BY <2>1, <3>3 DEF AlertKnows
    <3> QED BY <1>n, <2>2, <2>6, <3>2, <3>4, AlertOnlyCallKnows
  <2> QED BY <2>5, <2>6
<1>7. ASSUME NEW h \in H, FindNotice(h) PROVE AlertAlone(H)'
  <2>1. CASE Untold(alertCall[h].key)
    <3> DEFINE c == [alertCall[h] EXCEPT !.phase = "tell"]
    <3>1. AlertKnows(alerts, reached, notices, c)
      BY <1>0, <1>7, <2>1 DEF AlertKnows, AlertCall, FindNotice, Untold
    <3> QED BY <1>7, <1>n, <2>1, <3>1, AlertOnlyCallKnows DEF FindNotice
  <2>2. CASE ~Untold(alertCall[h].key)
    BY <1>7, <1>e, <1>n, <2>2 DEF FindNotice
  <2> QED BY <2>1, <2>2
<1>8. ASSUME NEW h \in H, SaveNotice(h) PROVE AlertAlone(H)'
  <2>1. alertCall[h].key \in Keys /\ notices[alertCall[h].key] = 0
    BY <1>0, <1>8 DEF SaveNotice, AlertKnows
  <2>2. \A k \in Keys : notices'[k] \in {0, 1}
    BY <1>8, <1>n, <2>1 DEF SaveNotice
  <2> QED BY <1>8, <1>e, <1>n, <2>2 DEF SaveNotice
<1>9. ASSUME NEW h \in H, AlertAborts(h) PROVE AlertAlone(H)'
  BY <1>9, <1>e, <1>n DEF AlertAborts
<1>10. CASE MarksChange
  BY <1>10 DEF MarksChange, AlertAlone
<1>11. CASE UNCHANGED alertVars
  BY <1>11 DEF alertVars, AlertAlone
<1> QED
  BY <1>1, <1>2, <1>3, <1>4, <1>5, <1>6, <1>7, <1>8, <1>9, <1>10, <1>11 DEF AlertNext

LEMMA AlertAloneAlways ==
  ASSUME Serial(Handlers)
  PROVE  AlertSpec => []AlertAlone(Handlers)
<1>1. AlertInit => AlertAlone(Handlers)
  BY AlertInitAlone
<1>2. AlertInv /\ AlertAlone(Handlers) /\ [AlertNext(Handlers)]_alertVars => AlertAlone(Handlers)'
  BY AlertStepAlone
<1> QED BY AlertInitFits, AlertStepFits, <1>1, <1>2, PTL DEF AlertSpec

\* What a request at a time leaves of the alerts.
LEMMA AlertAloneMeans == \A H : AlertAlone(H) => ToldOnce /\ OpenAsReached
  BY DEF AlertAlone, ToldOnce, OpenAsReached, OpenIn

(* Served one request at a time, an alert is told once (persistAlert looks *)
(* for a notification of it), however often it is resolved and comes back. *)
THEOREM AlertsToldOnce == ASSUME Serial(Handlers) PROVE AlertSpec => []ToldOnce
<1>1. AlertAlone(Handlers) => ToldOnce
  BY AlertAloneMeans
<1> QED BY AlertAloneAlways, <1>1, PTL

(* Served one request at a time, an alert is open only for a level found   *)
(* since the student was LOW, wherever the evaluations in between died.    *)
THEOREM AlertsOpenAsReached == ASSUME Serial(Handlers) PROVE AlertSpec => []OpenAsReached
<1>1. AlertAlone(Handlers) => OpenAsReached
  BY AlertAloneMeans
<1> QED BY AlertAloneAlways, <1>1, PTL

-----------------------------------------------------------------------------
(* The gate.                                                               *)

\* What happens to permits: they are added, and change while they are pending.
Grows(old, new) ==
  /\ new \in Seq(Permit) /\ Len(old) =< Len(new) /\ Len(new) =< MaxPermits
  /\ \A i \in 1..Len(old) : /\ new[i].pupil = old[i].pupil
                            /\ old[i].status # "PENDING" => new[i] = old[i]

\* What a request carries about the permits of list.
GateFits(list, c) ==
  c.phase # "idle" =>
    /\ c.pupil \in Leavers /\ c.guardian \in Companions /\ c.permit \in 0..Len(list)
    /\ c.phase = "permit" => c.permit # 0
    /\ c.phase = "decide" /\ c.permit # 0 => list[c.permit].pupil = c.pupil

Spends(departure) == departure.status = "AUTHORIZED" /\ departure.permit # 0

\* An authorized departure has spent the permit it names, alone.
Backed(list, departure) ==
  /\ departure.permit \in 0..Len(list)
  /\ Spends(departure) => /\ list[departure.permit].status = "COMPLETED"
                          /\ list[departure.permit].pupil = departure.pupil

Ledger(list, left) ==
  \A d \in 1..Len(left) :
    /\ Backed(list, left[d])
    /\ \A e \in 1..Len(left) :
         Spends(left[d]) /\ Spends(left[e]) /\ left[d].permit = left[e].permit => d = e

GateInv ==
  /\ GateTypeOK /\ Len(permits) =< MaxPermits /\ Ledger(permits, departures)
  /\ \A h \in Handlers : GateFits(permits, gateCall[h])

-----------------------------------------------------------------------------
LEMMA NotAtGateFits == NotAtGate \in GateCall /\ \A list : GateFits(list, NotAtGate)
  BY GateAssumption DEF NotAtGate, GateCall, GateFits

LEMMA SamePermits == ASSUME GateInv PROVE Grows(permits, permits)
  BY DEF GateInv, GateTypeOK, Grows

LEMMA LedgerGrows ==
  ASSUME NEW old \in Seq(Permit), NEW new, NEW left \in Seq(Departure), Grows(old, new), Ledger(old, left)
  PROVE  Ledger(new, left)
<1>1. Len(old) \in Nat /\ Len(new) \in Nat
  BY DEF Grows
<1>2. ASSUME NEW d \in 1..Len(left) PROVE Backed(new, left[d])
  <2>1. Backed(old, left[d])
    BY DEF Ledger
  <2> QED BY <1>1, <2>1 DEF Backed, Grows, Spends
<1> QED BY <1>2 DEF Ledger

\* One departure more, which spends the permit it names or none.
LEMMA LedgerAppends ==
  ASSUME NEW old \in Seq(Permit), NEW new, NEW left \in Seq(Departure), NEW departure \in Departure,
         Grows(old, new), Ledger(old, left), Backed(new, departure),
         Spends(departure) => departure.permit \in 1..Len(old) /\ old[departure.permit].status = "PENDING"
  PROVE  Ledger(new, Append(left, departure))
<1> DEFINE all == Append(left, departure)
<1>1. /\ Len(all) = Len(left) + 1 /\ Len(left) \in Nat /\ all[Len(left) + 1] = departure
      /\ \A d \in 1..Len(left) : all[d] = left[d]
  OBVIOUS
<1>2. Ledger(new, left)
  BY LedgerGrows
<1>3. \A d \in 1..Len(left) : ~(Spends(left[d]) /\ Spends(departure) /\ left[d].permit = departure.permit)
  BY DEF Ledger, Backed
<1> HIDE DEF all
<1>4. ASSUME NEW d \in 1..Len(all) PROVE Backed(new, all[d])
  BY <1>1, <1>2 DEF Ledger
<1>5. ASSUME NEW d \in 1..Len(all), NEW e \in 1..Len(all),
             Spends(all[d]), Spends(all[e]), all[d].permit = all[e].permit
      PROVE  d = e
  <2>1. CASE d \in 1..Len(left) /\ e \in 1..Len(left)
    BY <1>1, <1>2, <1>5, <2>1 DEF Ledger
  <2>2. CASE d = Len(left) + 1 \/ e = Len(left) + 1
    BY <1>1, <1>3, <1>5, <2>2
  <2> QED BY <1>1, <2>1, <2>2
<1>6. Ledger(new, all)
  BY <1>4, <1>5 DEF Ledger
<1> QED BY <1>6 DEF all

-----------------------------------------------------------------------------
\* A step of h keeps the invariant, if the permits grow and the ledger is kept.
LEMMA GateOneCallFits ==
  ASSUME GateInv, NEW h \in Handlers, NEW c \in GateCall, gateCall' = [gateCall EXCEPT ![h] = c],
         UNCHANGED <<gateDay, links, activeGuardians>>, GateFits(permits', c),
         Grows(permits, permits'), departures' \in Seq(Departure), Ledger(permits', departures')
  PROVE  GateInv'
<1>t. /\ gateCall \in [Handlers -> GateCall] /\ permits \in Seq(Permit)
      /\ Len(permits) \in Nat /\ Len(permits') \in Nat
  BY DEF GateInv, GateTypeOK, Grows
<1>c. gateCall'[h] = c /\ \A g \in Handlers \ {h} : gateCall'[g] = gateCall[g]
  BY <1>t
<1>1. ASSUME NEW g \in Handlers PROVE GateFits(permits', gateCall'[g])
  <2>1. CASE g = h
    BY <1>c, <2>1
  <2>2. CASE g # h
    <3>1. gateCall'[g] = gateCall[g] /\ GateFits(permits, gateCall[g])
      BY <1>c, <2>2 DEF GateInv
    <3> QED BY <1>t, <3>1 DEF GateFits, Grows
  <2> QED BY <2>1, <2>2
<1>2. GateTypeOK' /\ Len(permits') =< MaxPermits
  BY <1>t DEF GateInv, GateTypeOK, Grows
<1> QED BY <1>1, <1>2 DEF GateInv

\* The same for a step that leaves the tables alone.
LEMMA GateCallFits ==
  ASSUME GateInv, NEW h \in Handlers, NEW c \in GateCall, gateCall' = [gateCall EXCEPT ![h] = c],
         UNCHANGED <<gateDay, links, activeGuardians, permits, departures>>, GateFits(permits, c)
  PROVE  GateInv'
<1>1. Grows(permits, permits') /\ GateFits(permits', c)
  BY SamePermits
<1>2. departures' \in Seq(Departure) /\ Ledger(permits', departures')
  BY DEF GateInv, GateTypeOK
<1> QED BY <1>1, <1>2, GateOneCallFits

-----------------------------------------------------------------------------
LEMMA GateInitFits == GateInit => GateInv
<1> SUFFICES ASSUME GateInit PROVE GateInv
  OBVIOUS
<1>1. gateCall \in [Handlers -> GateCall] /\ \A h \in Handlers : GateFits(permits, gateCall[h])
  BY NotAtGateFits DEF GateInit
<1>2. permits \in Seq(Permit) /\ departures \in Seq(Departure) /\ Len(permits) = 0 /\ Len(departures) = 0
  BY DEF GateInit
<1>3. gateDay \in GateDays /\ links \subseteq Companions \X Leavers /\ activeGuardians \subseteq Companions
  BY GateAssumption DEF GateInit, GateDays
<1> QED BY <1>1, <1>2, <1>3, GateAssumption DEF GateInv, GateTypeOK, Ledger

\* The permits only grow, whatever the step.
LEMMA PermitsGrow ==
  ASSUME GateInv, [GateNext(Handlers)]_gateVars
  PROVE  Grows(permits, permits')
<1>t. permits \in Seq(Permit) /\ Len(permits) \in Nat /\ Len(permits) =< MaxPermits
      /\ \A i \in 1..Len(permits) : permits[i] \in Permit
  BY DEF GateInv, GateTypeOK
<1>u. ASSUME permits' = permits PROVE Grows(permits, permits')
  BY <1>u, SamePermits
<1>s. ASSUME NEW i \in 1..Len(permits), Takeable(permits[i]), permits' = [permits EXCEPT ![i].status = "COMPLETED"]
      PROVE  Grows(permits, permits')
  <2> DEFINE new == [permits[i] EXCEPT !.status = "COMPLETED"]
  <2>1. new \in Permit /\ new.pupil = permits[i].pupil
    BY <1>t DEF Permit
  <2>2. permits' = [permits EXCEPT ![i] = new]
    BY <1>s
  <2> HIDE DEF new
  <2> QED BY <1>t, <1>s, <2>1, <2>2 DEF Grows, Takeable
<1>1. ASSUME NEW h \in Handlers, CreatePermit(h) PROVE Grows(permits, permits')
  <2>1. PICK p \in Leavers, on \in GateDays : Len(permits) < MaxPermits
          /\ permits' = Append(permits, [pupil |-> p, day |-> on, status |-> "PENDING"])
    BY <1>1 DEF CreatePermit
  <2>2. [pupil |-> p, day |-> on, status |-> "PENDING"] \in Permit
    BY DEF Permit
  <2>3. /\ permits' \in Seq(Permit) /\ Len(permits') = Len(permits) + 1
        /\ \A i \in 1..Len(permits) : permits'[i] = permits[i]
    BY <1>t, <2>1, <2>2
  <2> QED BY <1>t, <2>1, <2>3, GateAssumption DEF Grows
<1>2. ASSUME NEW h \in Handlers, ExpireStalePermits(h) PROVE Grows(permits, permits')
  <2> DEFINE New(i) == IF StalePermit(permits[i]) THEN [permits[i] EXCEPT !.status = "EXPIRED"]
                                                  ELSE permits[i]
  <2>1. ASSUME NEW i \in 1..Len(permits)
        PROVE  /\ New(i) \in Permit /\ New(i).pupil = permits[i].pupil
               /\ permits[i].status # "PENDING" => New(i) = permits[i]
    <3>1. permits[i] \in Permit
      BY <1>t
    <3> QED BY <3>1 DEF Permit, StalePermit
  <2>2. permits' = [i \in 1..Len(permits) |-> New(i)]
    BY <1>2 DEF ExpireStalePermits
  <2> HIDE DEF New
  <2>3. permits' \in Seq(Permit) /\ Len(permits') = Len(permits)
    BY <1>t, <2>1, <2>2
  <2>4. \A i \in 1..Len(permits) : permits'[i] = New(i)
    BY <2>2
  <2> QED BY <1>t, <2>1, <2>3, <2>4 DEF Grows
<1>3. ASSUME NEW h \in Handlers, CompletePermit(h) PROVE Grows(permits, permits')
  BY <1>3, <1>s DEF CompletePermit
<1>4. ASSUME NEW h \in Handlers, Authorize(h) PROVE Grows(permits, permits')
  <2>1. CASE UNCHANGED permits
    BY <1>u, <2>1
  <2>2. CASE /\ gateCall[h].permit # 0 /\ Takeable(permits[gateCall[h].permit])
             /\ permits' = [permits EXCEPT ![gateCall[h].permit].status = "COMPLETED"]
    <3>1. gateCall[h].permit \in 1..Len(permits)
      BY <1>4, <1>t, <2>2 DEF Authorize, GateInv, GateFits
    <3> QED BY <1>s, <2>2, <3>1
  <2> QED BY <1>4, <2>1, <2>2 DEF Authorize
<1>5. ASSUME NEW h \in Handlers,
             CheckGuardian(h) \/ CheckPermit(h) \/ RecordRejection(h) \/ ChangeGuardian(h) \/ GateAborts(h)
      PROVE  Grows(permits, permits')
  BY <1>5, <1>u DEF CheckGuardian, CheckPermit, RecordRejection, ChangeGuardian, GateAborts, gateTables
<1>6. CASE Midnight \/ UNCHANGED gateVars
  BY <1>6, <1>u DEF Midnight, gateVars, gateTables
<1> QED BY <1>1, <1>2, <1>3, <1>4, <1>5, <1>6 DEF GateNext

LEMMA GateStepFits ==
  ASSUME GateInv, [GateNext(Handlers)]_gateVars
  PROVE  GateInv'
<1>t. /\ permits \in Seq(Permit) /\ departures \in Seq(Departure) /\ Ledger(permits, departures)
      /\ gateCall \in [Handlers -> GateCall] /\ \A h \in Handlers : GateFits(permits, gateCall[h])
      /\ Len(permits) \in Nat /\ Len(permits) =< MaxPermits
  BY DEF GateInv, GateTypeOK
<1>g. Grows(permits, permits')
  BY PermitsGrow
\* A step that touches the permits, the guardians or the day only.
<1>p. ASSUME UNCHANGED <<departures, gateCall>>, gateDay' \in GateDays,
             links' \subseteq Companions \X Leavers, activeGuardians' \subseteq Companions
      PROVE  GateInv'
  <2>1. Ledger(permits', departures')
    BY <1>p, <1>t, <1>g, LedgerGrows
  <2>2. \A h \in Handlers : GateFits(permits', gateCall'[h])
    <3>1. Len(permits') \in Nat
      BY <1>g DEF Grows
    <3>2. ASSUME NEW h \in Handlers PROVE GateFits(permits', gateCall[h])
      <4>1. GateFits(permits, gateCall[h])
        BY <1>t
      <4> QED BY <1>t, <1>g, <3>1, <4>1 DEF GateFits, Grows
    <3> QED BY <1>p, <3>2
  <2>3. GateTypeOK' /\ Len(permits') =< MaxPermits
    BY <1>p, <1>t, <1>g DEF GateTypeOK, Grows
  <2> QED BY <2>1, <2>2, <2>3 DEF GateInv
\* A departure is written by h, whose request ends.
<1>d. ASSUME NEW h \in Handlers, gateCall[h].phase = "decide",
             departures' = Append(departures, DepartureOf(gateCall[h])), GateEnds(h),
             UNCHANGED <<gateDay, links, activeGuardians>>, Backed(permits', DepartureOf(gateCall[h])),
             Spends(DepartureOf(gateCall[h])) =>
               /\ DepartureOf(gateCall[h]).permit \in 1..Len(permits)
               /\ permits[DepartureOf(gateCall[h]).permit].status = "PENDING"
      PROVE  GateInv'
  <2>1. DepartureOf(gateCall[h]) \in Departure
    <3>1. gateCall[h] \in GateCall /\ GateFits(permits, gateCall[h])
      BY <1>t
    <3> QED BY <1>d, <3>1 DEF DepartureOf, Departure, GateCall, GateFits
  <2>2. Ledger(permits', departures') /\ departures' \in Seq(Departure)
    BY <1>d, <1>t, <1>g, <2>1, LedgerAppends
  <2>3. gateCall' = [gateCall EXCEPT ![h] = NotAtGate] /\ GateFits(permits', NotAtGate)
    BY <1>d, NotAtGateFits DEF GateEnds
  <2> QED BY <1>d, <1>g, <2>2, <2>3, NotAtGateFits, GateOneCallFits
<1>1. ASSUME NEW h \in Handlers, CreatePermit(h) \/ ExpireStalePermits(h) \/ CompletePermit(h)
      PROVE  GateInv'
  <2>1. UNCHANGED <<departures, gateCall, gateDay, links, activeGuardians>>
    BY <1>1 DEF CreatePermit, ExpireStalePermits, CompletePermit
  <2> QED BY <1>p, <2>1 DEF GateInv, GateTypeOK
<1>2. ASSUME NEW h \in Handlers, CheckGuardian(h) PROVE GateInv'
  <2>1. PICK p \in Leavers, g \in Companions, i \in 0..Len(permits), verdict \in {"AUTHORIZED", "REJECTED"} :
          gateCall' = [gateCall EXCEPT ![h] =
            [phase |-> IF i = 0 THEN "decide" ELSE "permit", pupil |-> p, guardian |-> g,
             permit |-> i, verdict |-> verdict]]
    BY <1>2 DEF CheckGuardian
  <2> DEFINE c == [phase |-> IF i = 0 THEN "decide" ELSE "permit", pupil |-> p, guardian |-> g,
                   permit |-> i, verdict |-> verdict]
  <2>2. i \in 0..MaxPermits
    BY <1>t, GateAssumption
  <2>3. c \in GateCall /\ GateFits(permits, c)
    BY <2>2 DEF GateCall, GateFits
  <2>4. UNCHANGED <<gateDay, links, activeGuardians, permits, departures>>
    BY <1>2 DEF CheckGuardian, gateTables
  <2> HIDE DEF c
  <2> QED BY <2>1, <2>3, <2>4, GateCallFits DEF c
<1>3. ASSUME NEW h \in Handlers, CheckPermit(h) PROVE GateInv'
  <2> DEFINE c == [gateCall[h] EXCEPT !.phase = "decide"]
  <2>1. gateCall[h] \in GateCall /\ GateFits(permits, gateCall[h]) /\ gateCall[h].phase = "permit"
        /\ permits[gateCall[h].permit].pupil = gateCall[h].pupil
    BY <1>3, <1>t DEF CheckPermit
  <2>2. c \in GateCall /\ GateFits(permits, c)
    BY <2>1 DEF GateCall, GateFits
  <2>3. /\ gateCall' = [gateCall EXCEPT ![h] = c]
        /\ UNCHANGED <<gateDay, links, activeGuardians, permits, departures>>
    BY <1>3 DEF CheckPermit, gateTables
  <2> HIDE DEF c
  <2> QED BY <2>2, <2>3, GateCallFits
<1>4. ASSUME NEW h \in Handlers, RecordRejection(h) PROVE GateInv'
  <2>1. /\ gateCall[h].phase = "decide" /\ DepartureOf(gateCall[h]).status = "REJECTED"
        /\ DepartureOf(gateCall[h]).permit = gateCall[h].permit /\ permits' = permits
    BY <1>4 DEF RecordRejection, DepartureOf
  <2>2. gateCall[h].permit \in 0..Len(permits)
    BY <1>t, <2>1 DEF GateFits
  <2>3. ~Spends(DepartureOf(gateCall[h])) /\ Backed(permits', DepartureOf(gateCall[h]))
    BY <2>1, <2>2 DEF Spends, Backed
  <2> QED BY <1>4, <1>d, <2>1, <2>3 DEF RecordRejection
<1>5. ASSUME NEW h \in Handlers, Authorize(h) PROVE GateInv'
  <2> DEFINE c == gateCall[h]
  <2>1. /\ c.phase = "decide" /\ DepartureOf(c).permit = c.permit /\ DepartureOf(c).pupil = c.pupil
        /\ c.permit \in 0..Len(permits) /\ (c.permit # 0 => permits[c.permit].pupil = c.pupil)
    BY <1>5, <1>t DEF Authorize, DepartureOf, GateFits
  <2>2. CASE c.permit = 0 /\ UNCHANGED permits
    <3>1. ~Spends(DepartureOf(c)) /\ Backed(permits', DepartureOf(c))
      BY <2>1, <2>2 DEF Spends, Backed
    <3> QED BY <1>5, <1>d, <2>1, <3>1 DEF Authorize
  <2>3. CASE /\ c.permit # 0 /\ Takeable(permits[c.permit])
             /\ permits' = [permits EXCEPT ![c.permit].status = "COMPLETED"]
    <3>1. c.permit \in 1..Len(permits) /\ permits[c.permit] \in Permit
      BY <1>t, <2>1, <2>3
    <3>2. /\ permits'[c.permit].status = "COMPLETED" /\ permits'[c.permit].pupil = c.pupil
          /\ Len(permits') = Len(permits) /\ permits[c.permit].status = "PENDING"
      BY <1>t, <2>1, <2>3, <3>1 DEF Permit, Takeable
    <3>3. Backed(permits', DepartureOf(c))
      BY <2>1, <3>2 DEF Backed
    <3> QED BY <1>5, <1>d, <2>1, <3>1, <3>2, <3>3 DEF Authorize
  <2> QED BY <1>5, <2>2, <2>3 DEF Authorize
<1>6. ASSUME NEW h \in Handlers, ChangeGuardian(h) PROVE GateInv'
  <2>1. /\ UNCHANGED <<departures, gateCall, gateDay>>
        /\ links' \subseteq Companions \X Leavers /\ activeGuardians' \subseteq Companions
    BY <1>6 DEF ChangeGuardian, GateInv, GateTypeOK
  <2> QED BY <1>p, <2>1 DEF GateInv, GateTypeOK
<1>7. ASSUME NEW h \in Handlers, GateAborts(h) PROVE GateInv'
  <2>1. /\ gateCall' = [gateCall EXCEPT ![h] = NotAtGate]
        /\ UNCHANGED <<gateDay, links, activeGuardians, permits, departures>>
    BY <1>7 DEF GateAborts, GateEnds, gateTables
  <2> QED BY <2>1, NotAtGateFits, GateCallFits
<1>8. CASE Midnight
  <2>1. gateDay' \in GateDays
    BY <1>8, GateAssumption DEF Midnight, GateInv, GateTypeOK, GateDays
  <2> QED BY <1>8, <1>p, <2>1 DEF Midnight, gateTables, GateInv, GateTypeOK
<1>9. CASE UNCHANGED gateVars
  BY <1>9, <1>p DEF gateVars, GateInv, GateTypeOK
<1> QED BY <1>1, <1>2, <1>3, <1>4, <1>5, <1>6, <1>7, <1>8, <1>9 DEF GateNext

-----------------------------------------------------------------------------
\* What the ledger says of the uses of a permit.
LEMMA LedgerMeansOnce == ASSUME GateInv PROVE PermitUsedOnce
<1> SUFFICES \A i \in 1..Len(permits) :
               /\ Cardinality(Uses(i)) <= 1
               /\ \A d \in Uses(i) : /\ departures[d].pupil = permits[i].pupil
                                     /\ permits[i].status = "COMPLETED"
  BY Zenon DEF PermitUsedOnce
<1> TAKE i \in 1..Len(permits)
<1>t. Len(permits) \in Nat /\ Ledger(permits, departures)
  BY DEF GateInv, GateTypeOK
<1>1. \A d \in Uses(i) : d \in 1..Len(departures) /\ Spends(departures[d]) /\ departures[d].permit = i
  BY <1>t DEF Uses, Spends
<1>2. \A d, e \in Uses(i) : d = e
  BY <1>t, <1>1 DEF Ledger
<1>3. Cardinality(Uses(i)) <= 1
  <2>1. CASE Uses(i) = {}
    BY <2>1, FS_EmptySet
  <2>2. CASE Uses(i) # {}
    <3>1. PICK d \in Uses(i) : TRUE
      BY <2>2
    <3>2. Uses(i) = {d}
      BY <1>2, <3>1
    <3>3. Cardinality({d}) = 1
      BY FS_Singleton
    <3> QED BY <3>2, <3>3
  <2> QED BY <2>1, <2>2
<1>4. \A d \in Uses(i) : departures[d].pupil = permits[i].pupil /\ permits[i].status = "COMPLETED"
  BY <1>t, <1>1 DEF Ledger, Backed
<1> QED BY <1>3, <1>4

(* Type correctness of the gate's tables and requests.                     *)
THEOREM GateTyped == GateSpec => []GateTypeOK
<1>1. GateInv => GateTypeOK
  BY DEF GateInv
<1> QED BY GateInitFits, GateStepFits, <1>1, PTL DEF GateSpec

(* A permit lets its own student out once (register takes it by an UPDATE  *)
(* that names the status it must still have), however many departures,     *)
(* completions by hand and expiries race for it.                           *)
THEOREM OneDeparturePerPermit == GateSpec => []PermitUsedOnce
<1> QED BY GateInitFits, GateStepFits, LedgerMeansOnce, PTL DEF GateSpec

(* A permit that was used or ran out never changes again.                  *)
THEOREM SpentStay == GateSpec => SpentPermitsStay
<1>1. GateInv /\ [GateNext(Handlers)]_gateVars =>
        [\A i \in 1..Len(permits) : permits[i].status # "PENDING" => permits'[i] = permits[i]]_gateVars
  BY PermitsGrow DEF Grows
<1> QED BY GateInitFits, GateStepFits, <1>1, PTL DEF GateSpec, SpentPermitsStay

-----------------------------------------------------------------------------
(* Served one request at a time.                                           *)
\* Whoever is about to leave was found with a guardian, and nobody changed that since.
Escorted(tied, active, c) ==
  c.phase # "idle" /\ c.verdict = "AUTHORIZED" =>
    <<c.guardian, c.pupil>> \in tied /\ c.guardian \in active

\* H are the requests that are served; the others never come.
GateAlone(H) ==
  /\ \A h \in Handlers : Escorted(links, activeGuardians, gateCall[h])
  /\ \A h \in Handlers \ H : gateCall[h] = NotAtGate

LEMMA GateOnlyCallKnows ==
  ASSUME NEW H \in SUBSET Handlers, Serial(H), GateInv, GateAlone(H), NEW h \in H, NEW c,
         gateCall' = [gateCall EXCEPT ![h] = c], Escorted(links', activeGuardians', c)
  PROVE  GateAlone(H)'
<1>1. gateCall'[h] = c /\ \A g \in Handlers \ {h} : gateCall'[g] = gateCall[g]
  BY DEF GateInv, GateTypeOK
<1>2. ASSUME NEW g \in Handlers \ {h} PROVE g \notin H /\ gateCall'[g] = NotAtGate
  BY <1>1, <1>2 DEF Serial, GateAlone
<1>3. \A tied, active : Escorted(tied, active, NotAtGate)
  BY DEF Escorted, NotAtGate
<1>4. \A g \in Handlers : Escorted(links', activeGuardians', gateCall'[g])
  BY <1>1, <1>2, <1>3
<1> QED BY <1>1, <1>2, <1>4 DEF GateAlone

LEMMA GateInitAlone == \A H : GateInit => GateAlone(H)
  BY DEF GateInit, GateAlone, Escorted, NotAtGate

LEMMA GateStepAlone ==
  ASSUME NEW H \in SUBSET Handlers, Serial(H), GateInv, GateAlone(H), [GateNext(H)]_gateVars
  PROVE  GateAlone(H)'
<1>t. gateCall \in [Handlers -> GateCall] /\ \A h \in Handlers : Escorted(links, activeGuardians, gateCall[h])
  BY DEF GateInv, GateTypeOK, GateAlone
<1>i. \A tied, active : Escorted(tied, active, NotAtGate)
  BY DEF Escorted, NotAtGate
<1>e. ASSUME NEW h \in H, GateEnds(h) PROVE GateAlone(H)'
  BY <1>e, <1>i, GateOnlyCallKnows DEF GateEnds
<1>u. ASSUME UNCHANGED <<links, activeGuardians, gateCall>> PROVE GateAlone(H)'
  BY <1>u DEF GateAlone
<1>1. ASSUME NEW h \in H, CreatePermit(h) \/ ExpireStalePermits(h) \/ CompletePermit(h)
      PROVE  GateAlone(H)'
  BY <1>1, <1>u DEF CreatePermit, ExpireStalePermits, CompletePermit
<1>2. ASSUME NEW h \in H, CheckGuardian(h) PROVE GateAlone(H)'
  <2>1. PICK p \in Leavers, g \in Companions, i \in 0..Len(permits), verdict \in {"AUTHORIZED", "REJECTED"} :
          /\ verdict = "AUTHORIZED" => Matches(g, p)
          /\ gateCall' = [gateCall EXCEPT ![h] =
               [phase |-> IF i = 0 THEN "decide" ELSE "permit", pupil |-> p, guardian |-> g,
                permit |-> i, verdict |-> verdict]]
          /\ UNCHANGED <<links, activeGuardians>>
    BY <1>2 DEF CheckGuardian, gateTables
  <2> DEFINE c == [phase |-> IF i = 0 THEN "decide" ELSE "permit", pupil |-> p, guardian |-> g,
                   permit |-> i, verdict |-> verdict]
  <2>2. Escorted(links', activeGuardians', c)
    BY <2>1 DEF Escorted, Matches
  <2>3. gateCall' = [gateCall EXCEPT ![h] = c]
    BY <2>1
  <2> HIDE DEF c
  <2> QED BY <2>2, <2>3, GateOnlyCallKnows
<1>3. ASSUME NEW h \in H, CheckPermit(h) PROVE GateAlone(H)'
  <2> DEFINE c == [gateCall[h] EXCEPT !.phase = "decide"]
  <2>1. gateCall[h].phase = "permit" /\ UNCHANGED <<links, activeGuardians>>
        /\ gateCall' = [gateCall EXCEPT ![h] = c]
    BY <1>3 DEF CheckPermit, gateTables
  <2>2. c.guardian = gateCall[h].guardian /\ c.pupil = gateCall[h].pupil
        /\ c.verdict = gateCall[h].verdict
    BY <1>t DEF GateCall
  <2> HIDE DEF c
  <2>3. Escorted(links', activeGuardians', c)
    BY <1>t, <2>1, <2>2 DEF Escorted
  <2> QED BY <2>1, <2>3, GateOnlyCallKnows
<1>4. ASSUME NEW h \in H, RecordRejection(h) \/ Authorize(h) \/ GateAborts(h) PROVE GateAlone(H)'
  BY <1>4, <1>e DEF RecordRejection, Authorize, GateAborts
<1>5. ASSUME NEW h \in H, ChangeGuardian(h) PROVE GateAlone(H)'
  <2>1. gateCall' = gateCall /\ gateCall[h].phase = "idle"
    BY <1>5 DEF ChangeGuardian
  <2>2. \A k \in Handlers : gateCall[k].phase = "idle"
    <3>1. \A k \in Handlers \ {h} : gateCall[k] = NotAtGate
      BY DEF Serial, GateAlone
    <3> QED BY <2>1, <3>1 DEF NotAtGate
  <2>3. \A k \in Handlers : Escorted(links', activeGuardians', gateCall'[k])
    BY <2>1, <2>2 DEF Escorted
  <2> QED BY <2>1, <2>3 DEF GateAlone
<1>6. CASE Midnight \/ UNCHANGED gateVars
  BY <1>6, <1>u DEF Midnight, gateTables, gateVars
<1> QED BY <1>1, <1>2, <1>3, <1>4, <1>5, <1>6 DEF GateNext

LEMMA EscortLeaves ==
  ASSUME NEW H \in SUBSET Handlers, GateInv, GateAlone(H), [GateNext(H)]_gateVars
  PROVE  LeavesWithGuardian
<1>t. departures \in Seq(Departure)
  BY DEF GateInv, GateTypeOK
<1>1. ASSUME departures' = departures PROVE LeavesWithGuardian
  BY <1>t, <1>1 DEF LeavesWithGuardian
<1>2. ASSUME NEW h \in H, RecordRejection(h) \/ Authorize(h) PROVE LeavesWithGuardian
  <2> DEFINE c == gateCall[h]  new == DepartureOf(c)
  <2>1. departures' = Append(departures, new) /\ c.phase = "decide"
    BY <1>2 DEF RecordRejection, Authorize
  <2>2. Escorted(links, activeGuardians, c)
    BY DEF GateAlone
  <2>3. new.status = c.verdict /\ new.guardian = c.guardian /\ new.pupil = c.pupil
    BY DEF DepartureOf
  <2> HIDE DEF new, c
  <2>4. \A d \in 1..Len(departures') : d > Len(departures) => departures'[d] = new
    BY <1>t, <2>1
  <2> QED BY <2>1, <2>2, <2>3, <2>4 DEF LeavesWithGuardian, Escorted
<1>3. ASSUME NEW h \in H,
             \/ CreatePermit(h) \/ ExpireStalePermits(h) \/ CompletePermit(h) \/ CheckGuardian(h)
             \/ CheckPermit(h) \/ ChangeGuardian(h) \/ GateAborts(h)
      PROVE  LeavesWithGuardian
  BY <1>1, <1>3 DEF CreatePermit, ExpireStalePermits, CompletePermit, CheckGuardian, CheckPermit,
                    ChangeGuardian, GateAborts, gateTables
<1>4. CASE Midnight \/ UNCHANGED gateVars
  BY <1>1, <1>4 DEF Midnight, gateTables, gateVars
<1> QED BY <1>2, <1>3, <1>4 DEF GateNext

(* Served one request at a time, nobody leaves but with a guardian who is  *)
(* linked and active at that moment, although register does not repeat     *)
(* checkGuardian in its transaction.                                       *)
THEOREM LeaveEscorted == ASSUME Serial(Handlers) PROVE GateSpec => [][LeavesWithGuardian]_gateVars
<1>1. GateInit => GateAlone(Handlers)
  BY GateInitAlone
<1>2. GateInv /\ GateAlone(Handlers) /\ [GateNext(Handlers)]_gateVars
        => GateAlone(Handlers)' /\ LeavesWithGuardian
  BY GateStepAlone, EscortLeaves
<1> QED BY GateInitFits, GateStepFits, <1>1, <1>2, PTL DEF GateSpec

-----------------------------------------------------------------------------
(* Enrollment.                                                             *)

\* The cells of the table: a student and the place of one of his rows; and the row.
Cells(E)      == {r \in Learners \X (1..MaxRows) : r[2] <= Len(E[r[1]])}
RowAt(E, r)   == E[r[1]][r[2]]
ActiveBy(E, g, via) == {r \in ActiveIn(E, g) : RowAt(E, r).via = via}

\* A request of the desk holds its student and the role, and knows his rows.
DeskFits(E, held, c) ==
  /\ c.op \in {"create", "transfer"} /\ LockedWithStudent(c.student) \subseteq held
  /\ c.student \in Students /\ c.group \in Groups /\ c.period \in Periods
  /\ c.starts \in Dates /\ c.ends \in Dates \cup {Open} /\ c.ends >= c.starts
  /\ c.op = "transfer" => c.ends = Open
  /\ c.phase \in {"group", "active"} => c.closes = 0
  /\ c.phase \in {"active", "save"} =>
       Cardinality(ActiveBy(E, c.group, "desk")) + 1 <= Capacity[c.group]
  /\ c.phase = "active" =>
       c.op = "transfer" /\ c.snap \in Book /\ c.snap[c.student] = E[c.student]
  /\ c.phase = "save" =>
       /\ AssertNoOverlap(E, c.student, c.period, c.starts, c.ends, c.closes)
       /\ c.closes # 0 =>
            /\ c.closes \in 1..Len(E[c.student]) /\ c.ends = Open
            /\ LET x == E[c.student][c.closes] IN
               x.ends = Open /\ x.group # c.group /\ x.starts <= c.starts - 1

\* A registration has newcomers without rows; past its role it holds the role.
BatchFits(E, lent, c) ==
  /\ c.batch \in [Newcomers -> Groups \cup {None}] /\ c.starts \in Dates
  /\ \A u \in BatchOf(c) : E[u] = <<>>
  /\ c.phase # "save_batch" => c.snap \in Book
  /\ c.phase # "role" => StudentRole \in lent

\* An edit counted the seats of its group, which it holds since.
EditFits(E, held, c) ==
  /\ c.student \in Students /\ c.group \in Groups /\ c.starts \in Dates
  /\ c.phase = "seats" => c.todo = {c.group}
  /\ c.phase = "save_batch" =>
       /\ GroupLock(c.group) \in held
       /\ Cardinality(ActiveBy(E, c.group, "edit")) + 1 <= Capacity[c.group]

EnrolFits(E, held, lent, c) ==
  /\ c.op = "none" <=> c.phase = "idle"
  /\ c.phase \in {"group", "active", "save"} => DeskFits(E, held, c)
  /\ c.phase \in {"role", "seats", "save_batch"} =>
       \/ c.op = "register" /\ BatchFits(E, lent, c)
       \/ c.op = "edit" /\ c.phase # "role" /\ EditFits(E, held, c)

\* A row locked by one request is locked by no other; no newcomer is in two batches.
LocksApart ==
  \A g, h \in Handlers : g # h => enrolRows[g] \cap (enrolRows[h] \cup enrolShared[h]) = {}

BatchesApart ==
  \A g, h \in Handlers : g # h /\ enrolCall[g].op = "register" /\ enrolCall[h].op = "register" =>
    BatchOf(enrolCall[g]) \cap BatchOf(enrolCall[h]) = {}

SeatsCounted ==
  \A g \in Groups, via \in {"desk", "edit"} :
    Cardinality(ActiveBy(enrollments, g, via)) <= Capacity[g]

EnrolInv ==
  /\ EnrollmentTypeOK /\ LocksApart /\ BatchesApart
  /\ SeatsCounted /\ CountExplained /\ DeskRowsApart
  /\ \A h \in Handlers : EnrolFits(enrollments, enrolRows[h], enrolShared[h], enrolCall[h])

-----------------------------------------------------------------------------
LEMMA CellsFinite ==
  ASSUME EnrollmentAssumption, NEW E
  PROVE  /\ IsFiniteSet(Cells(E))
         /\ \A g, via : /\ IsFiniteSet(ActiveIn(E, g)) /\ IsFiniteSet(BornClosed(E, g))
                       /\ IsFiniteSet(ActiveBy(E, g, via))
<1>1. IsFiniteSet(1..MaxRows)
  BY FS_Interval DEF EnrollmentAssumption
<1>2. IsFiniteSet(Learners \X (1..MaxRows))
  <2> DEFINE places == 1..MaxRows
  <2>1. IsFiniteSet(Learners) /\ IsFiniteSet(places)
    BY <1>1 DEF EnrollmentAssumption
  <2> HIDE DEF places
  <2>2. IsFiniteSet(Learners \X places)
    BY <2>1, FS_Product
  <2> QED BY <2>2 DEF places
<1>3. Cells(E) \subseteq Learners \X (1..MaxRows)
  BY DEF Cells
<1>4. ASSUME NEW g, NEW via
      PROVE  /\ ActiveIn(E, g) \subseteq Learners \X (1..MaxRows)
             /\ BornClosed(E, g) \subseteq Learners \X (1..MaxRows)
             /\ ActiveBy(E, g, via) \subseteq Learners \X (1..MaxRows)
  BY DEF ActiveIn, BornClosed, ActiveBy
<1> HIDE DEF Cells
<1> QED BY <1>2, <1>3, <1>4, FS_Subset

\* The rows of a group that are counted, as cells.
LEMMA CellsCounted ==
  /\ \A E, g, r : r \in ActiveIn(E, g) <=>
       r \in Cells(E) /\ RowAt(E, r).group = g /\ RowAt(E, r).ends = Open
  /\ \A E, g, r : r \in BornClosed(E, g) <=>
       r \in Cells(E) /\ RowAt(E, r).group = g /\ RowAt(E, r).via = "past"
  /\ \A E, g, via, r : r \in ActiveBy(E, g, via) <=>
       /\ r \in Cells(E) /\ RowAt(E, r).group = g /\ RowAt(E, r).ends = Open
       /\ RowAt(E, r).via = via
  BY DEF ActiveIn, BornClosed, ActiveBy, Cells, RowAt

\* One element may leave and one may come.
LEMMA SwapOne ==
  ASSUME NEW S, IsFiniteSet(S), NEW T, NEW x, NEW y, y \notin S, T \ {y} = S \ {x}
  PROVE  /\ Cardinality(S) \in Nat /\ Cardinality(T) \in Nat
         /\ Cardinality(T) = Cardinality(S) - (IF x \in S THEN 1 ELSE 0) + (IF y \in T THEN 1 ELSE 0)
<1> DEFINE R == S \ {x}
<1>1. IsFiniteSet(R) /\ Cardinality(R) = IF x \in S THEN Cardinality(S) - 1 ELSE Cardinality(S)
  BY FS_RemoveElement
<1>2. y \notin R /\ T = IF y \in T THEN R \cup {y} ELSE R
  OBVIOUS
<1> HIDE DEF R
<1>3. IsFiniteSet(R \cup {y}) /\ Cardinality(R \cup {y}) = Cardinality(R) + 1
  BY <1>1, <1>2, FS_AddElement
<1>4. IsFiniteSet(T) /\ Cardinality(T) = IF y \in T THEN Cardinality(R) + 1 ELSE Cardinality(R)
  BY <1>1, <1>2, <1>3
<1>5. Cardinality(S) \in Nat /\ Cardinality(T) \in Nat /\ Cardinality(R) \in Nat
  BY <1>1, <1>4, FS_CardinalityType
<1> QED BY <1>1, <1>4, <1>5

\* One row more, and one that may be closed.
Grown(E, F, new, row, closed) ==
  /\ new \notin Cells(E) /\ Cells(F) = Cells(E) \cup {new} /\ RowAt(F, new) = row
  /\ \A r \in Cells(E) : r # closed => RowAt(F, r) = RowAt(E, r)
  /\ closed \in Cells(E) =>
       /\ RowAt(F, closed).group = RowAt(E, closed).group
       /\ RowAt(F, closed).via = RowAt(E, closed).via
       /\ RowAt(E, closed).ends = Open /\ RowAt(F, closed).ends # Open

LEMMA OneMoreRow ==
  ASSUME EnrollmentAssumption, NEW E, NEW F, NEW new, NEW row, NEW closed,
         Grown(E, F, new, row, closed), NEW g
  PROVE  /\ Cardinality(ActiveIn(F, g)) =
              Cardinality(ActiveIn(E, g)) - (IF closed \in ActiveIn(E, g) THEN 1 ELSE 0)
                + (IF row.group = g /\ row.ends = Open THEN 1 ELSE 0)
         /\ Cardinality(BornClosed(F, g)) =
              Cardinality(BornClosed(E, g)) + (IF row.group = g /\ row.via = "past" THEN 1 ELSE 0)
         /\ \A via : Cardinality(ActiveBy(F, g, via)) <=
              Cardinality(ActiveBy(E, g, via))
                + (IF row.group = g /\ row.ends = Open /\ row.via = via THEN 1 ELSE 0)
         /\ Cardinality(ActiveIn(E, g)) \in Nat /\ Cardinality(BornClosed(E, g)) \in Nat
         /\ closed \in ActiveIn(E, g) => Cardinality(ActiveIn(E, g)) >= 1
<1>1. /\ Cardinality(ActiveIn(F, g)) =
           Cardinality(ActiveIn(E, g)) - (IF closed \in ActiveIn(E, g) THEN 1 ELSE 0)
             + (IF row.group = g /\ row.ends = Open THEN 1 ELSE 0)
      /\ Cardinality(ActiveIn(E, g)) \in Nat
  <2> DEFINE S == ActiveIn(E, g)  T == ActiveIn(F, g)
  <2>1. /\ \A r : r \in T \ {new} <=> r \in S \ {closed}
        /\ new \notin S /\ (new \in T <=> row.group = g /\ row.ends = Open)
    BY CellsCounted DEF Grown
  <2>2. IsFiniteSet(S)
    BY CellsFinite
  <2> HIDE DEF S, T
  <2>3. T \ {new} = S \ {closed}
    BY <2>1
  <2>4. Cardinality(T) = Cardinality(S) - (IF closed \in S THEN 1 ELSE 0) + (IF new \in T THEN 1 ELSE 0)
        /\ Cardinality(S) \in Nat
    BY <2>1, <2>2, <2>3, SwapOne
  <2> QED BY <2>1, <2>4 DEF S, T
<1>2. /\ Cardinality(BornClosed(F, g)) =
           Cardinality(BornClosed(E, g)) + (IF row.group = g /\ row.via = "past" THEN 1 ELSE 0)
      /\ Cardinality(BornClosed(E, g)) \in Nat
  <2> DEFINE S == BornClosed(E, g)  T == BornClosed(F, g)
  <2>1. /\ \A r : r \in T \ {new} <=> r \in S \ {new}
        /\ new \notin S /\ (new \in T <=> row.group = g /\ row.via = "past")
    BY CellsCounted DEF Grown
  <2>2. IsFiniteSet(S)
    BY CellsFinite
  <2> HIDE DEF S, T
  <2>3. T \ {new} = S \ {new}
    BY <2>1
  <2>4. Cardinality(T) = Cardinality(S) - (IF new \in S THEN 1 ELSE 0) + (IF new \in T THEN 1 ELSE 0)
        /\ Cardinality(S) \in Nat
    BY <2>1, <2>2, <2>3, SwapOne
  <2>5. Cardinality(T) = Cardinality(S) + (IF new \in T THEN 1 ELSE 0)
    BY <2>1, <2>4
  <2> QED BY <2>1, <2>4, <2>5 DEF S, T
<1>3. ASSUME NEW via
      PROVE  Cardinality(ActiveBy(F, g, via)) <=
               Cardinality(ActiveBy(E, g, via))
                 + (IF row.group = g /\ row.ends = Open /\ row.via = via THEN 1 ELSE 0)
  <2> DEFINE S == ActiveBy(E, g, via)  T == ActiveBy(F, g, via)
  <2>1. /\ \A r : r \in T \ {new} <=> r \in S \ {closed}
        /\ new \notin S /\ (new \in T <=> row.group = g /\ row.ends = Open /\ row.via = via)
    BY CellsCounted DEF Grown
  <2>2. IsFiniteSet(S)
    BY CellsFinite
  <2> HIDE DEF S, T
  <2>3. T \ {new} = S \ {closed}
    BY <2>1
  <2>4. Cardinality(T) = Cardinality(S) - (IF closed \in S THEN 1 ELSE 0) + (IF new \in T THEN 1 ELSE 0)
        /\ Cardinality(S) \in Nat
    BY <2>1, <2>2, <2>3, SwapOne
  <2>5. Cardinality(T) <= Cardinality(S) + (IF new \in T THEN 1 ELSE 0)
    BY <2>4
  <2> QED BY <2>1, <2>5 DEF S, T
<1>4. closed \in ActiveIn(E, g) => Cardinality(ActiveIn(E, g)) >= 1
  <2>1. ActiveIn(E, g) # {} => Cardinality(ActiveIn(E, g)) # 0
    BY CellsFinite, FS_EmptySet
  <2> QED BY <1>1, <2>1
<1> QED BY <1>1, <1>2, <1>3, <1>4

\* While there is room, a student has room for one row more.
LEMMA RoomForOne ==
  ASSUME EnrollmentAssumption, Room, NEW u \in Students, Len(enrollments[u]) \in Nat,
         Len(enrollments[u]) <= MaxRows
  PROVE  Len(enrollments[u]) + 1 <= MaxRows
<1> DEFINE n == Len(enrollments[u])  mine == {u} \X (1..n)
<1>1. mine \subseteq Written /\ Written \subseteq Cells(enrollments)
  BY DEF Written, Cells, Learners, EnrollmentAssumption
<1>2. IsFiniteSet(Written)
  BY <1>1, CellsFinite, FS_Subset
<1>3. IsFiniteSet({u}) /\ Cardinality({u}) = 1 /\ IsFiniteSet(1..n) /\ Cardinality(1..n) = n
  <2>1. n \in Int /\ 1 \in Int /\ n >= 0
    OBVIOUS
  <2> HIDE DEF n
  <2>2. IsFiniteSet(1..n) /\ Cardinality(1..n) = IF 1 > n THEN 0 ELSE n - 1 + 1
    BY <2>1, FS_Interval
  <2>3. IsFiniteSet({u}) /\ Cardinality({u}) = 1
    BY FS_Singleton
  <2> QED BY <2>1, <2>2, <2>3
<1>4. Cardinality(mine) = n
  <2> HIDE DEF n
  <2>1. Cardinality(mine) = Cardinality({u}) * Cardinality(1..n)
    BY <1>3, FS_Product
  <2> QED BY <1>3, <2>1 DEF n
<1> HIDE DEF mine
<1>5. Cardinality(mine) <= Cardinality(Written) /\ Cardinality(Written) \in Nat
  BY <1>1, <1>2, FS_Subset, FS_CardinalityType
<1>6. Cardinality(Written) < MaxRows /\ MaxRows \in Nat
  BY DEF Room, EnrollmentAssumption
<1> QED BY <1>4, <1>5, <1>6

-----------------------------------------------------------------------------
\* What a step of one request leaves of what the others rely on.
Undisturbed(E, F, c) ==
  /\ c.phase \in {"group", "active", "save"} =>
       /\ F[c.student] = E[c.student]
       /\ Cardinality(ActiveBy(F, c.group, "desk")) <= Cardinality(ActiveBy(E, c.group, "desk"))
  /\ c.op = "register" => \A u \in BatchOf(c) : F[u] = E[u]
  /\ c.op = "edit" /\ c.phase = "save_batch" =>
       Cardinality(ActiveBy(F, c.group, "edit")) <= Cardinality(ActiveBy(E, c.group, "edit"))

LEMMA UndisturbedFits ==
  ASSUME EnrollmentAssumption, NEW E, NEW F, NEW held, NEW lent, NEW c,
         EnrolFits(E, held, lent, c), Undisturbed(E, F, c)
  PROVE  EnrolFits(F, held, lent, c)
<1>1. \A g, via : /\ Cardinality(ActiveBy(E, g, via)) \in Nat
                 /\ Cardinality(ActiveBy(F, g, via)) \in Nat
  BY CellsFinite, FS_CardinalityType
<1>2. c.phase \in {"active", "save"} => Capacity[c.group] \in Nat
  BY DEF EnrolFits, DeskFits, EnrollmentAssumption
<1>3. c.op = "edit" /\ c.phase = "save_batch" => Capacity[c.group] \in Nat
  BY DEF EnrolFits, EditFits, EnrollmentAssumption
<1>4. ASSUME c.phase \in {"group", "active", "save"} PROVE DeskFits(F, held, c)
  <2>1. DeskFits(E, held, c) /\ F[c.student] = E[c.student]
    BY <1>4 DEF EnrolFits, Undisturbed
  <2>2. c.phase \in {"active", "save"} =>
          Cardinality(ActiveBy(F, c.group, "desk")) + 1 <= Capacity[c.group]
    BY <1>1, <1>2, <1>4, <2>1 DEF DeskFits, Undisturbed
  <2> QED BY <2>1, <2>2 DEF DeskFits, AssertNoOverlap
<1>5. ASSUME c.op = "register", BatchFits(E, lent, c) PROVE BatchFits(F, lent, c)
  BY <1>5 DEF BatchFits, Undisturbed
<1>6. ASSUME c.op = "edit", EditFits(E, held, c) PROVE EditFits(F, held, c)
  BY <1>1, <1>3, <1>6 DEF EditFits, Undisturbed
<1> QED BY <1>4, <1>5, <1>6 DEF EnrolFits

LEMMA NotEnrollingFits ==
  ASSUME EnrollmentAssumption
  PROVE  /\ NotEnrolling \in EnrollmentCall /\ NotEnrolling.op = "none" /\ NotEnrolling.phase = "idle"
         /\ \A E, held, lent : EnrolFits(E, held, lent, NotEnrolling)
<1>1. NotEnrolling \in EnrollmentCall
  BY DEF NotEnrolling, EnrollmentCall, EnrollmentAssumption
<1>2. NotEnrolling.op = "none" /\ NotEnrolling.phase = "idle"
  BY DEF NotEnrolling
<1> QED BY <1>1, <1>2 DEF EnrolFits

\* A step of h that leaves the tables alone.
LEMMA EnrolCallFits ==
  ASSUME EnrolInv, NEW h \in Handlers, NEW c \in EnrollmentCall,
         NEW held \in SUBSET RowLocks, NEW lent \in SUBSET RowLocks,
         enrolCall' = [enrolCall EXCEPT ![h] = c], enrolRows' = [enrolRows EXCEPT ![h] = held],
         enrolShared' = [enrolShared EXCEPT ![h] = lent], UNCHANGED enrolTables,
         EnrolFits(enrollments, held, lent, c),
         \A g \in Handlers \ {h} : /\ enrolRows[g] \cap (held \cup lent) = {}
                                  /\ held \cap enrolShared[g] = {},
         c.op = "register" => \A g \in Handlers \ {h} : enrolCall[g].op = "register" =>
           BatchOf(c) \cap BatchOf(enrolCall[g]) = {}
  PROVE  EnrolInv'
<1>t. /\ enrolCall \in [Handlers -> EnrollmentCall] /\ enrolRows \in [Handlers -> SUBSET RowLocks]
      /\ enrolShared \in [Handlers -> SUBSET RowLocks] /\ LocksApart /\ BatchesApart
  BY DEF EnrolInv, EnrollmentTypeOK
<1>1. /\ enrolCall'[h] = c /\ enrolRows'[h] = held /\ enrolShared'[h] = lent
      /\ \A g \in Handlers \ {h} : /\ enrolCall'[g] = enrolCall[g] /\ enrolRows'[g] = enrolRows[g]
                                   /\ enrolShared'[g] = enrolShared[g]
  BY <1>t
<1>2. enrollments' = enrollments /\ studentCount' = studentCount
  BY DEF enrolTables
<1>3. EnrollmentTypeOK'
  BY <1>t, <1>2 DEF EnrolInv, EnrollmentTypeOK
<1>4. LocksApart'
  BY <1>t, <1>1 DEF LocksApart
<1>5. BatchesApart'
  BY <1>t, <1>1 DEF BatchesApart
<1>6. \A g \in Handlers : EnrolFits(enrollments', enrolRows'[g], enrolShared'[g], enrolCall'[g])
  BY <1>1, <1>2 DEF EnrolInv
<1>7. (SeatsCounted /\ CountExplained /\ DeskRowsApart)'
  BY <1>2 DEF EnrolInv, SeatsCounted, CountExplained, DeskRowsApart
<1> QED BY <1>3, <1>4, <1>5, <1>6, <1>7 DEF EnrolInv

\* A commit of h, which then holds nothing.
LEMMA EnrolCommitFits ==
  ASSUME EnrollmentAssumption, EnrolInv, NEW h \in Handlers, EnrollmentEnds(h),
         enrollments' \in Book, \A u \in Learners : Len(enrollments'[u]) <= MaxRows,
         studentCount' \in [Groups -> Nat], SeatsCounted', CountExplained', DeskRowsApart',
         \A g \in Handlers \ {h} : Undisturbed(enrollments, enrollments', enrolCall[g])
  PROVE  EnrolInv'
<1>t. /\ enrolCall \in [Handlers -> EnrollmentCall] /\ enrolRows \in [Handlers -> SUBSET RowLocks]
      /\ enrolShared \in [Handlers -> SUBSET RowLocks] /\ LocksApart /\ BatchesApart
  BY DEF EnrolInv, EnrollmentTypeOK
<1>i. NotEnrolling \in EnrollmentCall /\ NotEnrolling.op = "none"
  BY NotEnrollingFits
<1>1. /\ enrolCall'[h] = NotEnrolling /\ enrolRows'[h] = {} /\ enrolShared'[h] = {}
      /\ \A g \in Handlers \ {h} : /\ enrolCall'[g] = enrolCall[g] /\ enrolRows'[g] = enrolRows[g]
                                   /\ enrolShared'[g] = enrolShared[g]
  BY <1>t DEF EnrollmentEnds
<1>2. EnrollmentTypeOK'
  BY <1>t, <1>i DEF EnrollmentTypeOK, EnrollmentEnds
<1>3. LocksApart'
  BY <1>t, <1>1 DEF LocksApart
<1>4. BatchesApart'
  BY <1>t, <1>1, <1>i DEF BatchesApart
<1>5. ASSUME NEW g \in Handlers
      PROVE  EnrolFits(enrollments', enrolRows'[g], enrolShared'[g], enrolCall'[g])
  <2>1. CASE g = h
    BY <1>1, <2>1, NotEnrollingFits
  <2>2. CASE g # h
    <3>1. EnrolFits(enrollments, enrolRows[g], enrolShared[g], enrolCall[g])
          /\ Undisturbed(enrollments, enrollments', enrolCall[g])
      BY <2>2 DEF EnrolInv
    <3>2. EnrolFits(enrollments', enrolRows[g], enrolShared[g], enrolCall[g])
      BY <3>1, UndisturbedFits
    <3> QED BY <1>1, <2>2, <3>2
  <2> QED BY <2>1, <2>2
<1> QED BY <1>2, <1>3, <1>4, <1>5 DEF EnrolInv

LEMMA EnrolInitFits == ASSUME EnrollmentAssumption PROVE EnrollmentInit => EnrolInv
<1> SUFFICES ASSUME EnrollmentInit PROVE EnrolInv
  OBVIOUS
<1>1. /\ enrollments \in Book /\ \A u \in Learners : Len(enrollments[u]) = 0
      /\ studentCount \in [Groups -> Nat] /\ \A g \in Groups : studentCount[g] = 0
  BY DEF EnrollmentInit, Book
<1>2. /\ \A h \in Handlers : enrolCall[h] = NotEnrolling /\ enrolRows[h] = {} /\ enrolShared[h] = {}
      /\ enrolCall \in [Handlers -> EnrollmentCall] /\ enrolRows \in [Handlers -> SUBSET RowLocks]
      /\ enrolShared \in [Handlers -> SUBSET RowLocks]
  BY NotEnrollingFits DEF EnrollmentInit
<1>3. EnrollmentTypeOK
  BY <1>1, <1>2 DEF EnrollmentTypeOK, EnrollmentAssumption
<1>4. LocksApart /\ BatchesApart
  BY <1>2, NotEnrollingFits DEF LocksApart, BatchesApart
<1>5. \A h \in Handlers : EnrolFits(enrollments, enrolRows[h], enrolShared[h], enrolCall[h])
  BY <1>2, NotEnrollingFits
<1>6. Cells(enrollments) = {}
  <2>1. ASSUME NEW r \in Cells(enrollments) PROVE FALSE
    <3>1. r[1] \in Learners /\ r[2] \in 1..MaxRows /\ r[2] <= Len(enrollments[r[1]])
      BY DEF Cells
    <3> QED BY <1>1, <3>1 DEF EnrollmentAssumption
  <2> QED BY <2>1
<1>7. \A g, via : /\ ActiveIn(enrollments, g) = {} /\ BornClosed(enrollments, g) = {}
                 /\ ActiveBy(enrollments, g, via) = {}
  BY <1>6, CellsCounted
<1>8. SeatsCounted /\ CountExplained
  <2>1. \A g \in Groups : Capacity[g] \in Nat
    BY DEF EnrollmentAssumption
  <2>2. Cardinality({}) = 0
    BY FS_EmptySet
  <2>3. SeatsCounted
    BY <1>7, <2>1, <2>2 DEF SeatsCounted
  <2>4. CountExplained
    <3>1. \A g \in Groups :
            Cardinality(ActiveIn(enrollments, g)) = 0 /\ Cardinality(BornClosed(enrollments, g)) = 0
      BY <1>7, <2>2
    <3> QED BY <1>1, <3>1 DEF CountExplained
  <2> QED BY <2>3, <2>4
<1>9. DeskRowsApart
  BY <1>1 DEF DeskRowsApart, Learners
<1> QED BY <1>3, <1>4, <1>5, <1>8, <1>9 DEF EnrolInv

-----------------------------------------------------------------------------
LEMMA BookRows ==
  ASSUME NEW E \in Book, NEW u \in Learners
  PROVE  /\ E[u] \in Seq(EnrollmentRow) /\ Len(E[u]) \in Nat
         /\ \A i \in 1..Len(E[u]) : E[u][i] \in EnrollmentRow
  BY DEF Book

\* What the commit of the desk writes for its student.
LEMMA SavedRows ==
  ASSUME EnrollmentAssumption, NEW rows \in Seq(EnrollmentRow), NEW c,
         c.group \in Groups, c.period \in Periods, c.starts \in Dates, c.ends \in Dates \cup {Open},
         c.closes # 0 => /\ c.closes \in 1..Len(rows)
                         /\ rows[c.closes].starts <= c.starts - 1
  PROVE  LET F == Saved(rows, c)
             new == [group |-> c.group, period |-> c.period, starts |-> c.starts, ends |-> c.ends,
                     via |-> IF c.ends = Open THEN "desk" ELSE "past"]
         IN  /\ F \in Seq(EnrollmentRow) /\ Len(F) = Len(rows) + 1 /\ F[Len(rows) + 1] = new
             /\ \A i \in 1..Len(rows) :
                  F[i] = IF i = c.closes THEN [rows[i] EXCEPT !.ends = c.starts - 1] ELSE rows[i]
<1> DEFINE new == [group |-> c.group, period |-> c.period, starts |-> c.starts, ends |-> c.ends,
                   via |-> IF c.ends = Open THEN "desk" ELSE "past"]
           old == [i \in 1..Len(rows) |-> IF i = c.closes THEN [rows[i] EXCEPT !.ends = c.starts - 1]
                                                         ELSE rows[i]]
<1>1. new \in EnrollmentRow
  BY DEF EnrollmentRow
<1>2. ASSUME NEW i \in 1..Len(rows) PROVE old[i] \in EnrollmentRow
  <2>1. rows[i] \in EnrollmentRow
    OBVIOUS
  <2>2. CASE i = c.closes
    <3>1. rows[i].starts \in Dates /\ c.starts - 1 \in Dates
      BY <2>1, <2>2 DEF EnrollmentRow, Dates, EnrollmentAssumption
    <3> QED BY <2>1, <2>2, <3>1 DEF EnrollmentRow
  <2> QED BY <2>1, <2>2
<1>3. old \in Seq(EnrollmentRow) /\ Len(old) = Len(rows)
  BY <1>2
<1>4. Saved(rows, c) = Append(old, new)
  BY DEF Saved
<1>5. \A i \in 1..Len(rows) :
        old[i] = IF i = c.closes THEN [rows[i] EXCEPT !.ends = c.starts - 1] ELSE rows[i]
  OBVIOUS
<1> HIDE DEF old, new
<1>6. /\ Append(old, new) \in Seq(EnrollmentRow) /\ Len(Append(old, new)) = Len(rows) + 1
      /\ Append(old, new)[Len(rows) + 1] = new
      /\ \A i \in 1..Len(rows) : Append(old, new)[i] = old[i]
  BY <1>1, <1>3
<1> QED BY <1>4, <1>5, <1>6 DEF new

\* The cells of a table in which one student has one row more.
LEMMA CellsGrow ==
  ASSUME EnrollmentAssumption, NEW E \in Book, NEW F \in Book, NEW u \in Learners,
         \A v \in Learners \ {u} : F[v] = E[v], Len(F[u]) = Len(E[u]) + 1, Len(F[u]) <= MaxRows
  PROVE  /\ <<u, Len(E[u]) + 1>> \notin Cells(E)
         /\ Cells(F) = Cells(E) \cup {<<u, Len(E[u]) + 1>>}
<1>1. \A v \in Learners : Len(E[v]) \in Nat
  BY BookRows
<1> DEFINE new == <<u, Len(E[u]) + 1>>
<1>2. new \in Learners \X (1..MaxRows) /\ new[1] = u /\ new[2] = Len(E[u]) + 1
  BY <1>1 DEF EnrollmentAssumption
<1>3. new \notin Cells(E)
  BY <1>1, <1>2 DEF Cells
<1>4. ASSUME NEW r \in Learners \X (1..MaxRows) PROVE r \in Cells(F) <=> r \in Cells(E) \/ r = new
  <2>1. r = <<r[1], r[2]>> /\ r[1] \in Learners /\ r[2] \in 1..MaxRows
    OBVIOUS
  <2>2. CASE r[1] # u
    BY <1>2, <2>1, <2>2 DEF Cells
  <2>3. CASE r[1] = u
    <3>1. r[2] <= Len(E[u]) + 1 <=> r[2] <= Len(E[u]) \/ r[2] = Len(E[u]) + 1
      BY <1>1, <2>1
    <3>2. r = new <=> r[2] = Len(E[u]) + 1
      BY <1>2, <2>1, <2>3
    <3> QED BY <2>1, <2>3, <3>1, <3>2 DEF Cells
  <2> QED BY <2>2, <2>3
<1>5. Cells(F) \subseteq Learners \X (1..MaxRows) /\ Cells(E) \subseteq Learners \X (1..MaxRows)
  BY DEF Cells
<1> HIDE DEF new
<1>6. Cells(F) = Cells(E) \cup {new}
  BY <1>2, <1>4, <1>5
<1> QED BY <1>3, <1>6 DEF new

LEMMA SaveEnrollmentFits ==
  ASSUME EnrollmentAssumption, EnrolInv, NEW h \in Handlers, SaveEnrollment(h)
  PROVE  EnrolInv'
<1> DEFINE c == enrolCall[h]  u == c.student  E == enrollments  F == enrollments'  n == Len(E[u])
           left == IF c.closes = 0 THEN None ELSE E[u][c.closes].group
           row == [group |-> c.group, period |-> c.period, starts |-> c.starts, ends |-> c.ends,
                   via |-> IF c.ends = Open THEN "desk" ELSE "past"]
           new == <<u, n + 1>>  closed == <<u, c.closes>>
<1>t. /\ E \in Book /\ \A v \in Learners : Len(E[v]) <= MaxRows
      /\ studentCount \in [Groups -> Nat] /\ EnrolFits(E, enrolRows[h], enrolShared[h], c)
      /\ SeatsCounted /\ CountExplained /\ DeskRowsApart /\ LocksApart
  BY DEF EnrolInv, EnrollmentTypeOK
<1>a. /\ c.phase = "save" /\ Room /\ EnrollmentEnds(h)
      /\ F = [E EXCEPT ![u] = Saved(E[u], c)] /\ studentCount' = CountAfter(c, left)
  BY DEF SaveEnrollment
<1>d. DeskFits(E, enrolRows[h], c) /\ c.op # "none"
  BY <1>t, <1>a DEF EnrolFits
<1>1. /\ u \in Students /\ u \in Learners /\ n \in Nat /\ E[u] \in Seq(EnrollmentRow)
      /\ \A i \in 1..n : E[u][i] \in EnrollmentRow
  BY <1>t, <1>d, BookRows DEF DeskFits, Learners
<1>2. n + 1 <= MaxRows
  BY <1>a, <1>1, <1>t, RoomForOne
<1>k. /\ c.group \in Groups /\ c.period \in Periods /\ c.starts \in Dates
      /\ c.ends \in Dates \cup {Open} /\ c.ends >= c.starts
      /\ AssertNoOverlap(E, u, c.period, c.starts, c.ends, c.closes)
      /\ Cardinality(ActiveBy(E, c.group, "desk")) + 1 <= Capacity[c.group]
      /\ c.closes # 0 => /\ c.closes \in 1..n /\ c.ends = Open /\ E[u][c.closes].ends = Open
                         /\ E[u][c.closes].group # c.group /\ E[u][c.closes].starts <= c.starts - 1
  BY <1>a, <1>d DEF DeskFits
<1>3. /\ Saved(E[u], c) \in Seq(EnrollmentRow) /\ Len(Saved(E[u], c)) = n + 1
      /\ Saved(E[u], c)[n + 1] = row
      /\ \A i \in 1..n :
           Saved(E[u], c)[i] = IF i = c.closes THEN [E[u][i] EXCEPT !.ends = c.starts - 1] ELSE E[u][i]
  <2> HIDE DEF c, u, E
  <2> QED BY <1>1, <1>k, SavedRows
<1>4. /\ F \in Book /\ F[u] = Saved(E[u], c) /\ \A v \in Learners \ {u} : F[v] = E[v]
  BY <1>a, <1>t, <1>1, <1>3 DEF Book
<1>5. \A v \in Learners : Len(F[v]) <= MaxRows
  BY <1>2, <1>3, <1>4, <1>t
<1>6. new \notin Cells(E) /\ Cells(F) = Cells(E) \cup {new}
  <2>1. /\ Len(F[u]) = Len(E[u]) + 1 /\ Len(F[u]) <= MaxRows
        /\ \A v \in Learners \ {u} : F[v] = E[v]
    BY <1>2, <1>3, <1>4
  <2> HIDE DEF c, u, E, F
  <2> QED BY <1>t, <1>1, <1>4, <2>1, CellsGrow
<1>7. RowAt(F, new) = row
  BY <1>3, <1>4 DEF RowAt
<1>8. ASSUME NEW r \in Cells(E), r # closed PROVE RowAt(F, r) = RowAt(E, r)
  <2>1. r = <<r[1], r[2]>> /\ r[1] \in Learners /\ r[2] \in 1..Len(E[r[1]])
    BY BookRows, <1>t DEF Cells, EnrollmentAssumption
  <2>2. CASE r[1] # u
    BY <1>4, <2>1, <2>2 DEF RowAt
  <2>3. CASE r[1] = u
    <3>1. r[2] # c.closes
      BY <1>8, <2>1, <2>3
    <3>2. r[2] \in 1..n /\ F[u][r[2]] = E[u][r[2]]
      BY <1>3, <1>4, <2>1, <2>3, <3>1
    <3> QED BY <2>3, <3>2 DEF RowAt
  <2> QED BY <2>2, <2>3
<1>9. closed \in Cells(E) <=> c.closes # 0
  BY <1>1, <1>2, <1>k DEF Cells, EnrollmentAssumption
<1>10. ASSUME c.closes # 0
       PROVE  /\ RowAt(F, closed).group = RowAt(E, closed).group
              /\ RowAt(F, closed).via = RowAt(E, closed).via
              /\ RowAt(E, closed).ends = Open /\ RowAt(F, closed).ends # Open
              /\ RowAt(E, closed).group = left
  <2>1. /\ RowAt(E, closed) = E[u][c.closes] /\ E[u][c.closes] \in EnrollmentRow
        /\ RowAt(F, closed) = [E[u][c.closes] EXCEPT !.ends = c.starts - 1]
    BY <1>1, <1>3, <1>4, <1>10, <1>k DEF RowAt
  <2>2. c.starts - 1 # Open
    BY <1>k DEF Dates, Open, EnrollmentAssumption
  <2> QED BY <1>10, <1>k, <2>1, <2>2 DEF EnrollmentRow
<1>e. row.group = c.group /\ row.ends = c.ends /\ row.via = (IF c.ends = Open THEN "desk" ELSE "past")
  OBVIOUS
<1>f. \A g : closed \in ActiveIn(E, g) <=> c.closes # 0 /\ g = left
  BY <1>9, <1>10, CellsCounted
<1> HIDE DEF c, u, n, row, new, closed, left
<1>11. ASSUME NEW g \in Groups
       PROVE  /\ Cardinality(ActiveIn(F, g)) =
                   Cardinality(ActiveIn(E, g)) - (IF c.closes # 0 /\ g = left THEN 1 ELSE 0)
                     + (IF c.group = g /\ c.ends = Open THEN 1 ELSE 0)
              /\ Cardinality(BornClosed(F, g)) =
                   Cardinality(BornClosed(E, g)) + (IF c.group = g /\ c.ends # Open THEN 1 ELSE 0)
              /\ \A via : Cardinality(ActiveBy(F, g, via)) <=
                   Cardinality(ActiveBy(E, g, via))
                     + (IF c.group = g /\ c.ends = Open /\ via = "desk" THEN 1 ELSE 0)
              /\ Cardinality(ActiveIn(E, g)) \in Nat /\ Cardinality(BornClosed(E, g)) \in Nat
              /\ c.closes # 0 /\ g = left => Cardinality(ActiveIn(E, g)) >= 1
  <2>0. Grown(E, F, new, row, closed)
    BY <1>6, <1>7, <1>8, <1>9, <1>10 DEF Grown
  <2> HIDE DEF E, F
  <2>1. /\ Cardinality(ActiveIn(F, g)) =
             Cardinality(ActiveIn(E, g)) - (IF closed \in ActiveIn(E, g) THEN 1 ELSE 0)
               + (IF row.group = g /\ row.ends = Open THEN 1 ELSE 0)
        /\ Cardinality(BornClosed(F, g)) =
             Cardinality(BornClosed(E, g)) + (IF row.group = g /\ row.via = "past" THEN 1 ELSE 0)
        /\ \A via : Cardinality(ActiveBy(F, g, via)) <=
             Cardinality(ActiveBy(E, g, via))
               + (IF row.group = g /\ row.ends = Open /\ row.via = via THEN 1 ELSE 0)
        /\ Cardinality(ActiveIn(E, g)) \in Nat /\ Cardinality(BornClosed(E, g)) \in Nat
        /\ closed \in ActiveIn(E, g) => Cardinality(ActiveIn(E, g)) >= 1
    BY <2>0, OneMoreRow
  <2> QED BY <1>e, <1>f, <2>1
<1>c. \A g, via : Cardinality(ActiveBy(E, g, via)) \in Nat /\ Cardinality(ActiveBy(F, g, via)) \in Nat
  BY CellsFinite, FS_CardinalityType
<1>12. SeatsCounted'
  <2> SUFFICES ASSUME NEW g \in Groups, NEW via \in {"desk", "edit"}
               PROVE  Cardinality(ActiveBy(F, g, via)) <= Capacity[g]
    BY DEF SeatsCounted
  <2>1. Capacity[g] \in Nat /\ Cardinality(ActiveBy(E, g, via)) <= Capacity[g]
    BY <1>t DEF SeatsCounted, EnrollmentAssumption
  <2> HIDE DEF E, F
  <2>2. CASE c.group = g /\ c.ends = Open /\ via = "desk"
    BY <1>11, <1>c, <1>k, <2>1, <2>2
  <2>3. CASE ~(c.group = g /\ c.ends = Open /\ via = "desk")
    BY <1>11, <1>c, <2>1, <2>3
  <2> QED BY <2>2, <2>3
<1>13. ASSUME NEW g \in Groups
       PROVE  /\ studentCount'[g] \in Nat
              /\ studentCount'[g] = Cardinality(ActiveIn(F, g)) + Cardinality(BornClosed(F, g))
  <2>1. studentCount[g] = Cardinality(ActiveIn(E, g)) + Cardinality(BornClosed(E, g))
        /\ studentCount[g] \in Nat
    BY <1>t DEF CountExplained
  <2>2. studentCount'[g] = IF g = c.group THEN Bumped(studentCount[g], 1)
                           ELSE IF g = left THEN Bumped(studentCount[g], -1) ELSE studentCount[g]
    BY <1>a DEF CountAfter
  <2>3. c.closes = 0 => left # g
    BY DEF left, EnrollmentAssumption
  <2>4. c.closes # 0 => left # c.group /\ c.ends = Open
    BY <1>k DEF left
  <2> HIDE DEF E, F
  <2>5. CASE g = c.group
    BY <1>11, <2>1, <2>2, <2>3, <2>4, <2>5 DEF Bumped
  <2>6. CASE g # c.group /\ g = left
    BY <1>11, <2>1, <2>2, <2>3, <2>4, <2>6 DEF Bumped
  <2>7. CASE g # c.group /\ g # left
    BY <1>11, <2>1, <2>2, <2>7
  <2> QED BY <2>5, <2>6, <2>7
<1>14. CountExplained' /\ studentCount' \in [Groups -> Nat]
  <2>1. studentCount' = [g \in Groups |-> studentCount'[g]]
    BY <1>a DEF CountAfter
  <2> QED BY <1>13, <2>1 DEF CountExplained
<1>15. DeskRowsApart'
  <2>1. \A v \in Students \ {u} : F[v] = E[v]
    BY <1>4 DEF Learners
  <2>2. ASSUME NEW i \in 1..Len(F[u]), NEW j \in 1..Len(F[u]), i # j, F[u][i].period = F[u][j].period,
               {F[u][i].via, F[u][j].via} \subseteq {"desk", "past"}
        PROVE  F[u][i].ends < F[u][j].starts \/ F[u][j].ends < F[u][i].starts
    <3>1. F[u][n + 1] = row /\ Len(F[u]) = n + 1 /\ n \in Nat
          /\ \A k \in 1..n : F[u][k] = IF k = c.closes THEN [E[u][k] EXCEPT !.ends = c.starts - 1] ELSE E[u][k]
      BY <1>1, <1>3, <1>4
    <3>2. ASSUME NEW k \in 1..n
          PROVE  /\ F[u][k].period = E[u][k].period /\ F[u][k].starts = E[u][k].starts
                 /\ F[u][k].via = E[u][k].via /\ E[u][k].ends \in Int /\ E[u][k].starts \in Int
                 /\ F[u][k].ends = (IF k = c.closes THEN c.starts - 1 ELSE E[u][k].ends)
      <4>1. E[u][k] \in EnrollmentRow
        BY <1>1
      <4>2. E[u][k].ends \in Int /\ E[u][k].starts \in Int
        BY <4>1 DEF EnrollmentRow, Dates, Open, EnrollmentAssumption
      <4> QED BY <3>1, <4>1, <4>2 DEF EnrollmentRow
    <3>3. c.starts \in Int /\ c.ends \in Int
      BY <1>k DEF Dates, Open, EnrollmentAssumption
    <3>4. row.period = c.period /\ row.starts = c.starts /\ row.ends = c.ends
      BY DEF row
    <3>5. ASSUME NEW k \in 1..n, F[u][k].period = c.period
          PROVE  F[u][k].ends < c.starts \/ c.ends < F[u][k].starts
      <4>1. CASE k = c.closes
        BY <3>2, <3>3, <4>1
      <4>2. CASE k # c.closes
        <5>1. k \in 1..Len(E[u])
          BY DEF n
        <5>2. E[u][k].period = c.period /\ F[u][k].ends = E[u][k].ends /\ F[u][k].starts = E[u][k].starts
              /\ E[u][k].ends \in Int /\ E[u][k].starts \in Int
          BY <3>2, <3>5, <4>2
        <5>3. ~(E[u][k].starts <= c.ends /\ E[u][k].ends >= c.starts)
          BY <1>k, <4>2, <5>1, <5>2 DEF AssertNoOverlap, Overlaps
        <5> QED BY <3>3, <5>2, <5>3
      <4> QED BY <4>1, <4>2
    <3>6. CASE i = n + 1
      <4>1. j \in 1..n /\ F[u][i] = row
        BY <2>2, <3>1, <3>6
      <4>2. F[u][j].ends < c.starts \/ c.ends < F[u][j].starts
        BY <2>2, <3>4, <3>5, <4>1
      <4> QED BY <3>4, <4>1, <4>2
    <3>7. CASE j = n + 1
      <4>1. i \in 1..n /\ F[u][j] = row
        BY <2>2, <3>1, <3>7
      <4>2. F[u][i].ends < c.starts \/ c.ends < F[u][i].starts
        BY <2>2, <3>4, <3>5, <4>1
      <4> QED BY <3>4, <4>1, <4>2
    <3>8. CASE i # n + 1 /\ j # n + 1
      <4>1. i \in 1..n /\ j \in 1..n
        BY <3>1, <3>8
      <4>2. E[u][i].ends < E[u][j].starts \/ E[u][j].ends < E[u][i].starts
        BY <1>1, <1>t, <2>2, <3>2, <4>1 DEF DeskRowsApart, n
      <4>3. \A k \in 1..n : F[u][k].ends <= E[u][k].ends
        <5> TAKE k \in 1..n
        <5>1. F[u][k].ends = (IF k = c.closes THEN c.starts - 1 ELSE E[u][k].ends) /\ E[u][k].ends \in Int
          BY <3>2
        <5>2. CASE k = c.closes
          <6>1. n \in Nat /\ c.closes # 0
            BY <3>1, <5>2
          <6>2. E[u][k].ends = Open
            BY <1>k, <5>2, <6>1
          <6>3. c.starts - 1 <= Open
            BY <1>k DEF Dates, Open, EnrollmentAssumption
          <6> QED BY <5>1, <5>2, <6>2, <6>3
        <5>3. CASE k # c.closes
          BY <5>1, <5>3
        <5> QED BY <5>2, <5>3
      <4>4. F[u][i].ends \in Int /\ F[u][j].ends \in Int
        BY <3>2, <3>3, <4>1
      <4> QED BY <3>2, <4>1, <4>2, <4>3, <4>4
    <3> QED BY <3>6, <3>7, <3>8
  <2> QED BY <1>t, <2>1, <2>2 DEF DeskRowsApart
<1>16. ASSUME NEW g \in Handlers \ {h} PROVE Undisturbed(E, F, enrolCall[g])
  <2>1. EnrolFits(E, enrolRows[g], enrolShared[g], enrolCall[g])
    BY DEF EnrolInv
  <2>2. enrolCall[g].phase \notin {"group", "active", "save"}
    <3>1. StudentRole \in enrolRows[h]
      BY <1>d DEF DeskFits, LockedWithStudent
    <3>2. StudentRole \notin enrolRows[g]
      BY <1>t, <3>1 DEF LocksApart
    <3> QED BY <2>1, <3>2 DEF EnrolFits, DeskFits, LockedWithStudent
  <2>3. enrolCall[g].op = "register" => \A v \in BatchOf(enrolCall[g]) : F[v] = E[v]
    BY <1>1, <1>4 DEF BatchOf, Learners, EnrollmentAssumption
  <2>4. ASSUME enrolCall[g].op = "edit", enrolCall[g].phase = "save_batch"
        PROVE  Cardinality(ActiveBy(F, enrolCall[g].group, "edit"))
                 <= Cardinality(ActiveBy(E, enrolCall[g].group, "edit"))
    <3>1. enrolCall[g].group \in Groups
      BY <2>1, <2>4 DEF EnrolFits, EditFits
    <3> HIDE DEF E, F
    <3> QED BY <1>11, <1>c, <3>1
  <2> QED BY <2>2, <2>3, <2>4 DEF Undisturbed
<1> QED BY <1>a, <1>4, <1>5, <1>12, <1>14, <1>15, <1>16, EnrolCommitFits

\* The seats of a group that a batch takes.
Joined(E, F, c) ==
  /\ \A u \in BatchOf(c) : E[u] = <<>>
  /\ \A u \in Learners \ BatchOf(c) : F[u] = E[u]
  /\ \A u \in BatchOf(c) : /\ Len(F[u]) = 1 /\ F[u][1].group = c.batch[u]
                           /\ F[u][1].ends = Open /\ F[u][1].via = "batch"

LEMMA BatchSeats ==
  ASSUME EnrollmentAssumption, NEW E, NEW F, NEW c, c.op = "register",
         Joined(E, F, c),
         NEW g \in Groups
  PROVE  /\ Cardinality(ActiveIn(F, g)) = Cardinality(ActiveIn(E, g)) + SeatsWanted(c, g)
         /\ BornClosed(F, g) = BornClosed(E, g)
         /\ \A via \in {"desk", "edit"} : ActiveBy(F, g, via) = ActiveBy(E, g, via)
         /\ SeatsWanted(c, g) \in Nat /\ Cardinality(ActiveIn(E, g)) \in Nat
<1> DEFINE mine == {u \in Newcomers : c.batch[u] = g}  new == mine \X {1}
<1>1. /\ mine = {u \in BatchOf(c) : c.batch[u] = g} /\ BatchOf(c) \subseteq Learners
      /\ mine \subseteq Learners
  BY DEF BatchOf, Learners, Present, EnrollmentAssumption
<1>2. IsFiniteSet(mine) /\ Cardinality(mine) \in Nat
  BY <1>1, FS_Subset, FS_CardinalityType DEF EnrollmentAssumption
<1>3. IsFiniteSet(new) /\ Cardinality(new) = Cardinality(mine)
  <2>1. IsFiniteSet({1}) /\ Cardinality({1}) = 1
    BY FS_Singleton
  <2> HIDE DEF mine
  <2>2. IsFiniteSet(mine \X {1}) /\ Cardinality(mine \X {1}) = Cardinality(mine) * Cardinality({1})
    BY <1>2, <2>1, FS_Product
  <2> QED BY <1>2, <2>1, <2>2
<1>4. ASSUME NEW r \in Learners \X (1..MaxRows)
      PROVE  /\ r[1] \notin BatchOf(c) => (r \in Cells(F) <=> r \in Cells(E)) /\ RowAt(F, r) = RowAt(E, r)
             /\ r[1] \in BatchOf(c) => /\ r \notin Cells(E)
                                       /\ r \in Cells(F) <=> r[2] = 1
                                       /\ r[2] = 1 => /\ RowAt(F, r).group = c.batch[r[1]]
                                                      /\ RowAt(F, r).ends = Open
                                                      /\ RowAt(F, r).via = "batch"
  <2>1. r[1] \in Learners /\ r[2] \in 1..MaxRows
    OBVIOUS
  <2>2. CASE r[1] \notin BatchOf(c)
    BY <2>1, <2>2 DEF Cells, RowAt, Joined
  <2>3. CASE r[1] \in BatchOf(c)
    <3>1. E[r[1]] = <<>> /\ Len(F[r[1]]) = 1
      BY <2>3 DEF Joined
    <3>2. Len(E[r[1]]) = 0
      BY <3>1
    <3>3. r \notin Cells(E)
      <4>1. ~(r[2] <= Len(E[r[1]]))
        BY <2>1, <3>2
      <4> QED BY <4>1 DEF Cells
    <3>5. r \in Cells(F) <=> r[2] = 1
      <4>1. r[2] <= Len(F[r[1]]) <=> r[2] = 1
        BY <2>1, <3>1
      <4> QED BY <4>1 DEF Cells
    <3>4. r[2] = 1 => RowAt(F, r) = F[r[1]][1]
      BY DEF RowAt
    <3> QED BY <2>3, <3>3, <3>4, <3>5 DEF Joined
  <2> QED BY <2>2, <2>3
<1>5. Cells(E) \subseteq Learners \X (1..MaxRows) /\ Cells(F) \subseteq Learners \X (1..MaxRows)
  BY DEF Cells
<1>6. ActiveIn(F, g) = ActiveIn(E, g) \cup new /\ ActiveIn(E, g) \cap new = {}
  <2>1. \A r \in new : r \in Learners \X (1..MaxRows) /\ r[1] \in BatchOf(c) /\ r[2] = 1
    BY <1>1 DEF EnrollmentAssumption
  <2>2. \A r \in Learners \X (1..MaxRows) : r \in new <=> r[1] \in mine /\ r[2] = 1
    OBVIOUS
  <2> QED BY <1>1, <1>4, <1>5, <2>1, <2>2, CellsCounted
<1>7. BornClosed(F, g) = BornClosed(E, g)
  <2>1. \A r : r \in BornClosed(F, g) <=> r \in BornClosed(E, g)
    BY <1>4, <1>5, CellsCounted
  <2> QED BY <2>1
<1>8. ASSUME NEW via \in {"desk", "edit"} PROVE ActiveBy(F, g, via) = ActiveBy(E, g, via)
  <2>1. \A r : r \in ActiveBy(F, g, via) <=> r \in ActiveBy(E, g, via)
    BY <1>4, <1>5, CellsCounted
  <2> QED BY <2>1
<1>9. IsFiniteSet(ActiveIn(E, g)) /\ Cardinality(ActiveIn(E, g)) \in Nat
  BY CellsFinite, FS_CardinalityType
<1>10. SeatsWanted(c, g) = Cardinality(mine)
  BY DEF SeatsWanted
<1> HIDE DEF mine, new
<1>11. Cardinality(ActiveIn(E, g) \cup new) = Cardinality(ActiveIn(E, g)) + Cardinality(new)
  <2>1. Cardinality(ActiveIn(E, g) \cap new) = 0
    BY <1>6, FS_EmptySet
  <2>2. Cardinality(ActiveIn(E, g) \cup new)
          = Cardinality(ActiveIn(E, g)) + Cardinality(new) - Cardinality(ActiveIn(E, g) \cap new)
    BY <1>3, <1>9, FS_Union
  <2>3. Cardinality(new) \in Nat
    BY <1>2, <1>3
  <2> QED BY <1>9, <2>1, <2>2, <2>3
<1> QED BY <1>2, <1>3, <1>6, <1>7, <1>8, <1>9, <1>10, <1>11

LEMMA RegisteredFits ==
  ASSUME EnrollmentAssumption, EnrolInv, NEW h \in Handlers, SaveBatch(h),
         enrolCall[h].op = "register"
  PROVE  EnrolInv'
<1> DEFINE c == enrolCall[h]  E == enrollments  F == enrollments'
           row(u) == [group |-> c.batch[u], period |-> PeriodOf[c.batch[u]], starts |-> c.starts,
                      ends |-> Open, via |-> "batch"]
<1>t. /\ E \in Book /\ \A v \in Learners : Len(E[v]) <= MaxRows
      /\ studentCount \in [Groups -> Nat] /\ EnrolFits(E, enrolRows[h], enrolShared[h], c)
      /\ SeatsCounted /\ CountExplained /\ DeskRowsApart /\ BatchesApart
  BY DEF EnrolInv, EnrollmentTypeOK
<1>a. /\ c.phase = "save_batch" /\ c.op = "register" /\ EnrollmentEnds(h)
      /\ F = [u \in Learners |-> IF u \in BatchOf(c) THEN Append(E[u], row(u)) ELSE E[u]]
      /\ studentCount' = [g \in Groups |-> studentCount[g] + SeatsWanted(c, g)]
  BY DEF SaveBatch
<1>b. BatchFits(E, enrolShared[h], c)
  BY <1>a, <1>t DEF EnrolFits
<1>1. BatchOf(c) \subseteq Learners /\ BatchOf(c) \cap Students = {}
  BY DEF BatchOf, Learners, EnrollmentAssumption
<1>2. \A u \in BatchOf(c) : E[u] = <<>> /\ c.batch[u] \in Groups /\ c.starts \in Dates
  BY <1>b DEF BatchFits, BatchOf, Present
<1>3. ASSUME NEW u \in BatchOf(c)
      PROVE  /\ F[u] \in Seq(EnrollmentRow) /\ Len(F[u]) = 1 /\ F[u][1].group = c.batch[u]
             /\ F[u][1].ends = Open /\ F[u][1].via = "batch"
  <2>1. row(u) \in EnrollmentRow
    BY <1>2 DEF EnrollmentRow, Periods
  <2>2. F[u] = Append(<<>>, row(u))
    BY <1>1, <1>2, <1>a
  <2>3. F[u] = <<row(u)>>
    BY <2>2
  <2> QED BY <2>1, <2>3
<1>4. \A u \in Learners \ BatchOf(c) : F[u] = E[u]
  BY <1>a
<1>5. F \in Book /\ \A v \in Learners : Len(F[v]) <= MaxRows
  <2>1. \A v \in Learners : F[v] \in Seq(EnrollmentRow)
    BY <1>3, <1>4, <1>t, BookRows
  <2>2. F = [v \in Learners |-> F[v]]
    BY <1>a
  <2>3. F \in Book
    BY <2>1, <2>2 DEF Book
  <2>4. 1 <= MaxRows
    BY DEF EnrollmentAssumption
  <2> QED BY <2>3, <2>4, <1>3, <1>4, <1>t
<1>6. ASSUME NEW g \in Groups
      PROVE  /\ Cardinality(ActiveIn(F, g)) = Cardinality(ActiveIn(E, g)) + SeatsWanted(c, g)
             /\ BornClosed(F, g) = BornClosed(E, g)
             /\ \A via \in {"desk", "edit"} : ActiveBy(F, g, via) = ActiveBy(E, g, via)
             /\ SeatsWanted(c, g) \in Nat /\ Cardinality(ActiveIn(E, g)) \in Nat
  <2>1. Joined(E, F, c)
    BY <1>2, <1>3, <1>4 DEF Joined
  <2> HIDE DEF c, E, F
  <2> QED BY <1>a, <2>1, BatchSeats
<1>7. SeatsCounted'
  BY <1>6, <1>t DEF SeatsCounted
<1>8. studentCount' \in [Groups -> Nat]
  <2>1. \A g \in Groups : studentCount[g] + SeatsWanted(c, g) \in Nat
    BY <1>6, <1>t
  <2> QED BY <1>a, <2>1
<1>9. CountExplained'
  <2> SUFFICES ASSUME NEW g \in Groups
               PROVE  studentCount'[g] = Cardinality(ActiveIn(F, g)) + Cardinality(BornClosed(F, g))
    BY DEF CountExplained
  <2>1. studentCount[g] = Cardinality(ActiveIn(E, g)) + Cardinality(BornClosed(E, g))
    BY <1>t DEF CountExplained
  <2>2. studentCount'[g] = studentCount[g] + SeatsWanted(c, g)
    BY <1>a
  <2>3. Cardinality(BornClosed(E, g)) \in Nat
    BY CellsFinite, FS_CardinalityType
  <2> HIDE DEF c, E, F
  <2> QED BY <1>6, <2>1, <2>2, <2>3
<1>10. DeskRowsApart'
  <2>1. \A u \in Students : F[u] = E[u]
    BY <1>1, <1>4 DEF Learners
  <2> HIDE DEF F
  <2> SUFFICES \A u \in Students : \A i, j \in 1..Len(F[u]) :
        i # j /\ F[u][i].period = F[u][j].period /\ {F[u][i].via, F[u][j].via} \subseteq {"desk", "past"}
          => F[u][i].ends < F[u][j].starts \/ F[u][j].ends < F[u][i].starts
    BY DEF DeskRowsApart, F
  <2> QED BY <1>t, <2>1 DEF DeskRowsApart
<1>11. ASSUME NEW g \in Handlers \ {h} PROVE Undisturbed(E, F, enrolCall[g])
  <2>1. EnrolFits(E, enrolRows[g], enrolShared[g], enrolCall[g])
    BY DEF EnrolInv
  <2>2. ASSUME enrolCall[g].phase \in {"group", "active", "save"}
        PROVE  /\ F[enrolCall[g].student] = E[enrolCall[g].student]
               /\ Cardinality(ActiveBy(F, enrolCall[g].group, "desk"))
                    <= Cardinality(ActiveBy(E, enrolCall[g].group, "desk"))
    <3>1. enrolCall[g].student \in Students /\ enrolCall[g].group \in Groups
      BY <2>1, <2>2 DEF EnrolFits, DeskFits
    <3>2. Cardinality(ActiveBy(E, enrolCall[g].group, "desk")) \in Nat
      BY CellsFinite, FS_CardinalityType
    <3>3. ActiveBy(F, enrolCall[g].group, "desk") = ActiveBy(E, enrolCall[g].group, "desk")
      BY <1>6, <3>1
    <3>4. F[enrolCall[g].student] = E[enrolCall[g].student]
      BY <1>1, <1>4, <3>1 DEF Learners
    <3> HIDE DEF E, F
    <3> QED BY <3>2, <3>3, <3>4
  <2>3. ASSUME enrolCall[g].op = "register" PROVE \A v \in BatchOf(enrolCall[g]) : F[v] = E[v]
    <3>1. BatchOf(enrolCall[g]) \cap BatchOf(c) = {}
      BY <1>a, <1>t, <2>3 DEF BatchesApart
    <3>2. BatchOf(enrolCall[g]) \subseteq Learners
      BY DEF BatchOf, Learners
    <3> QED BY <1>4, <3>1, <3>2
  <2>4. ASSUME enrolCall[g].op = "edit", enrolCall[g].phase = "save_batch"
        PROVE  Cardinality(ActiveBy(F, enrolCall[g].group, "edit"))
                 <= Cardinality(ActiveBy(E, enrolCall[g].group, "edit"))
    <3>1. enrolCall[g].group \in Groups
      BY <2>1, <2>4 DEF EnrolFits, EditFits
    <3>2. Cardinality(ActiveBy(E, enrolCall[g].group, "edit")) \in Nat
      BY CellsFinite, FS_CardinalityType
    <3>3. ActiveBy(F, enrolCall[g].group, "edit") = ActiveBy(E, enrolCall[g].group, "edit")
      BY <1>6, <3>1
    <3> HIDE DEF E, F
    <3> QED BY <3>2, <3>3
  <2> QED BY <2>2, <2>3, <2>4 DEF Undisturbed
<1> QED BY <1>a, <1>5, <1>7, <1>8, <1>9, <1>10, <1>11, EnrolCommitFits

LEMMA EditedFits ==
  ASSUME EnrollmentAssumption, EnrolInv, NEW h \in Handlers, SaveBatch(h),
         enrolCall[h].op = "edit"
  PROVE  EnrolInv'
<1> DEFINE c == enrolCall[h]  u == c.student  E == enrollments  F == enrollments'  n == Len(E[u])
           row == [group |-> c.group, period |-> PeriodOf[c.group], starts |-> c.starts,
                   ends |-> Open, via |-> "edit"]
           new == <<u, n + 1>>
<1>t. /\ E \in Book /\ \A v \in Learners : Len(E[v]) <= MaxRows
      /\ studentCount \in [Groups -> Nat] /\ EnrolFits(E, enrolRows[h], enrolShared[h], c)
      /\ SeatsCounted /\ CountExplained /\ DeskRowsApart /\ LocksApart
  BY DEF EnrolInv, EnrollmentTypeOK
<1>a. /\ c.phase = "save_batch" /\ c.op = "edit" /\ Room /\ EnrollmentEnds(h)
      /\ SFree(h, {UserRow(u)}) /\ F = [E EXCEPT ![u] = Append(E[u], row)]
      /\ studentCount' = [studentCount EXCEPT ![c.group] = studentCount[c.group] + 1]
  BY DEF SaveBatch
<1>b. /\ u \in Students /\ c.group \in Groups /\ c.starts \in Dates
      /\ GroupLock(c.group) \in enrolRows[h]
      /\ Cardinality(ActiveBy(E, c.group, "edit")) + 1 <= Capacity[c.group]
  BY <1>a, <1>t DEF EnrolFits, EditFits
<1>1. /\ u \in Learners /\ n \in Nat /\ E[u] \in Seq(EnrollmentRow)
  BY <1>t, <1>b, BookRows DEF Learners
<1>2. n + 1 <= MaxRows
  BY <1>a, <1>1, <1>b, <1>t, RoomForOne
<1>3. /\ Append(E[u], row) \in Seq(EnrollmentRow) /\ Len(Append(E[u], row)) = n + 1
      /\ Append(E[u], row)[n + 1] = row /\ \A i \in 1..n : Append(E[u], row)[i] = E[u][i]
  <2>1. row \in EnrollmentRow
    BY <1>b DEF EnrollmentRow, Periods
  <2> HIDE DEF row
  <2> QED BY <1>1, <2>1
<1>4. /\ F \in Book /\ F[u] = Append(E[u], row) /\ \A v \in Learners \ {u} : F[v] = E[v]
  BY <1>a, <1>t, <1>1, <1>3 DEF Book
<1>5. \A v \in Learners : Len(F[v]) <= MaxRows
  BY <1>2, <1>3, <1>4, <1>t
<1>6. new \notin Cells(E) /\ Cells(F) = Cells(E) \cup {new}
  <2>1. /\ Len(F[u]) = Len(E[u]) + 1 /\ Len(F[u]) <= MaxRows
        /\ \A v \in Learners \ {u} : F[v] = E[v]
    BY <1>2, <1>3, <1>4
  <2> HIDE DEF c, u, E, F
  <2> QED BY <1>t, <1>1, <1>4, <2>1, CellsGrow
<1>7. RowAt(F, new) = row
  BY <1>3, <1>4 DEF RowAt
<1>8. ASSUME NEW r \in Cells(E) PROVE RowAt(F, r) = RowAt(E, r)
  <2>1. r = <<r[1], r[2]>> /\ r[1] \in Learners /\ r[2] \in 1..Len(E[r[1]])
    BY BookRows, <1>t DEF Cells, EnrollmentAssumption
  <2>2. CASE r[1] # u
    BY <1>4, <2>1, <2>2 DEF RowAt
  <2>3. CASE r[1] = u
    BY <1>3, <1>4, <2>1, <2>3 DEF RowAt
  <2> QED BY <2>2, <2>3
<1>e. row.group = c.group /\ row.ends = Open /\ row.via = "edit"
  OBVIOUS
<1> HIDE DEF c, u, n, row, new
<1>11. ASSUME NEW g \in Groups
       PROVE  /\ Cardinality(ActiveIn(F, g)) =
                   Cardinality(ActiveIn(E, g)) + (IF c.group = g THEN 1 ELSE 0)
              /\ Cardinality(BornClosed(F, g)) = Cardinality(BornClosed(E, g))
              /\ \A via : Cardinality(ActiveBy(F, g, via)) <=
                   Cardinality(ActiveBy(E, g, via)) + (IF c.group = g /\ via = "edit" THEN 1 ELSE 0)
              /\ Cardinality(ActiveIn(E, g)) \in Nat /\ Cardinality(BornClosed(E, g)) \in Nat
  <2>0. new \notin ActiveIn(E, g)
    BY <1>6, CellsCounted
  <2>g. Grown(E, F, new, row, new)
    BY <1>6, <1>7, <1>8 DEF Grown
  <2> HIDE DEF E, F
  <2>1. /\ Cardinality(ActiveIn(F, g)) =
             Cardinality(ActiveIn(E, g)) - (IF new \in ActiveIn(E, g) THEN 1 ELSE 0)
               + (IF row.group = g /\ row.ends = Open THEN 1 ELSE 0)
        /\ Cardinality(BornClosed(F, g)) =
             Cardinality(BornClosed(E, g)) + (IF row.group = g /\ row.via = "past" THEN 1 ELSE 0)
        /\ \A via : Cardinality(ActiveBy(F, g, via)) <=
             Cardinality(ActiveBy(E, g, via))
               + (IF row.group = g /\ row.ends = Open /\ row.via = via THEN 1 ELSE 0)
        /\ Cardinality(ActiveIn(E, g)) \in Nat /\ Cardinality(BornClosed(E, g)) \in Nat
    BY <2>g, OneMoreRow
  <2> QED BY <1>e, <2>0, <2>1
<1>c. \A g, via : Cardinality(ActiveBy(E, g, via)) \in Nat /\ Cardinality(ActiveBy(F, g, via)) \in Nat
  BY CellsFinite, FS_CardinalityType
<1>12. SeatsCounted'
  <2> SUFFICES ASSUME NEW g \in Groups, NEW via \in {"desk", "edit"}
               PROVE  Cardinality(ActiveBy(F, g, via)) <= Capacity[g]
    BY DEF SeatsCounted
  <2>1. Capacity[g] \in Nat /\ Cardinality(ActiveBy(E, g, via)) <= Capacity[g]
    BY <1>t DEF SeatsCounted, EnrollmentAssumption
  <2> HIDE DEF E, F
  <2>2. CASE c.group = g /\ via = "edit"
    BY <1>11, <1>b, <1>c, <2>1, <2>2
  <2>3. CASE ~(c.group = g /\ via = "edit")
    BY <1>11, <1>c, <2>1, <2>3
  <2> QED BY <2>2, <2>3
<1>13. studentCount' \in [Groups -> Nat]
  BY <1>a, <1>b, <1>t
<1>14. CountExplained'
  <2> SUFFICES ASSUME NEW g \in Groups
               PROVE  studentCount'[g] = Cardinality(ActiveIn(F, g)) + Cardinality(BornClosed(F, g))
    BY DEF CountExplained
  <2>1. studentCount[g] = Cardinality(ActiveIn(E, g)) + Cardinality(BornClosed(E, g))
    BY <1>t DEF CountExplained
  <2>2. studentCount'[g] = studentCount[g] + (IF c.group = g THEN 1 ELSE 0)
    BY <1>a, <1>t
  <2> HIDE DEF E, F
  <2> QED BY <1>11, <2>1, <2>2
<1>15. DeskRowsApart'
  <2>1. \A v \in Students \ {u} : F[v] = E[v]
    BY <1>4 DEF Learners
  <2>2. ASSUME NEW i \in 1..Len(F[u]), NEW j \in 1..Len(F[u]), i # j, F[u][i].period = F[u][j].period,
               {F[u][i].via, F[u][j].via} \subseteq {"desk", "past"}
        PROVE  F[u][i].ends < F[u][j].starts \/ F[u][j].ends < F[u][i].starts
    <3>1. F[u][n + 1].via = "edit" /\ Len(F[u]) = n + 1 /\ n \in Nat /\ n = Len(E[u])
          /\ \A k \in 1..n : F[u][k] = E[u][k]
      BY <1>1, <1>3, <1>4, <1>e DEF n
    <3>2. i \in 1..n /\ j \in 1..n
      BY <2>2, <3>1
    <3>3. F[u][i] = E[u][i] /\ F[u][j] = E[u][j] /\ i \in 1..Len(E[u]) /\ j \in 1..Len(E[u])
      BY <3>1, <3>2
    <3>4. E[u][i].ends < E[u][j].starts \/ E[u][j].ends < E[u][i].starts
      BY <1>b, <1>t, <2>2, <3>3 DEF DeskRowsApart
    <3> QED BY <3>3, <3>4
  <2> QED BY <1>t, <2>1, <2>2 DEF DeskRowsApart
<1>16. ASSUME NEW g \in Handlers \ {h} PROVE Undisturbed(E, F, enrolCall[g])
  <2>1. EnrolFits(E, enrolRows[g], enrolShared[g], enrolCall[g])
    BY DEF EnrolInv
  <2>2. ASSUME enrolCall[g].phase \in {"group", "active", "save"}
        PROVE  /\ F[enrolCall[g].student] = E[enrolCall[g].student]
               /\ Cardinality(ActiveBy(F, enrolCall[g].group, "desk"))
                    <= Cardinality(ActiveBy(E, enrolCall[g].group, "desk"))
    <3>1. /\ enrolCall[g].student \in Students /\ enrolCall[g].group \in Groups
          /\ UserRow(enrolCall[g].student) \in enrolRows[g]
      BY <2>1, <2>2 DEF EnrolFits, DeskFits, LockedWithStudent
    <3>2. enrolCall[g].student # u
      BY <1>a, <3>1 DEF SFree, FreeOf
    <3>3. F[enrolCall[g].student] = E[enrolCall[g].student]
      BY <1>4, <3>1, <3>2 DEF Learners
    <3> HIDE DEF E, F
    <3> QED BY <1>11, <1>c, <3>1, <3>3
  <2>3. ASSUME enrolCall[g].op = "register" PROVE \A v \in BatchOf(enrolCall[g]) : F[v] = E[v]
    BY <1>b, <1>4 DEF BatchOf, Learners, EnrollmentAssumption
  <2>4. ASSUME enrolCall[g].op = "edit", enrolCall[g].phase = "save_batch"
        PROVE  Cardinality(ActiveBy(F, enrolCall[g].group, "edit"))
                 <= Cardinality(ActiveBy(E, enrolCall[g].group, "edit"))
    <3>1. enrolCall[g].group \in Groups /\ GroupLock(enrolCall[g].group) \in enrolRows[g]
      BY <2>1, <2>4 DEF EnrolFits, EditFits
    <3>2. enrolCall[g].group # c.group
      BY <1>b, <1>t, <3>1 DEF LocksApart
    <3> HIDE DEF E, F
    <3> QED BY <1>11, <1>c, <3>1, <3>2
  <2> QED BY <2>2, <2>3, <2>4 DEF Undisturbed
<1> QED BY <1>a, <1>4, <1>5, <1>12, <1>13, <1>14, <1>15, <1>16, EnrolCommitFits

-----------------------------------------------------------------------------
\* The seats counted in the whole group are the more.
LEMMA ByAtMostAll ==
  ASSUME EnrollmentAssumption, NEW E, NEW g \in Groups, HasSeats(E, g, 1), NEW via
  PROVE  Cardinality(ActiveBy(E, g, via)) + 1 <= Capacity[g]
<1>1. ActiveBy(E, g, via) \subseteq ActiveIn(E, g) /\ IsFiniteSet(ActiveIn(E, g))
  BY CellsFinite DEF ActiveBy
<1>2. /\ Cardinality(ActiveBy(E, g, via)) <= Cardinality(ActiveIn(E, g))
      /\ Cardinality(ActiveIn(E, g)) \in Nat /\ Cardinality(ActiveBy(E, g, via)) \in Nat
  BY <1>1, CellsFinite, FS_Subset, FS_CardinalityType
<1>3. Capacity[g] \in Nat
  BY DEF EnrollmentAssumption
<1> QED BY <1>2, <1>3 DEF HasSeats

LEMMA EnrolStepFits ==
  ASSUME EnrollmentAssumption, EnrolInv, [EnrollmentNext(Handlers)]_enrolVars
  PROVE  EnrolInv'
<1>i. /\ NotEnrolling \in EnrollmentCall /\ NotEnrolling.op = "none" /\ NotEnrolling.phase = "idle"
      /\ \A E, held, lent : EnrolFits(E, held, lent, NotEnrolling)
  BY NotEnrollingFits
<1>t. /\ enrollments \in Book /\ \A u \in Learners : Len(enrollments[u]) <= MaxRows
      /\ enrolCall \in [Handlers -> EnrollmentCall] /\ LocksApart /\ BatchesApart
      /\ enrolRows \in [Handlers -> SUBSET RowLocks] /\ enrolShared \in [Handlers -> SUBSET RowLocks]
      /\ \A h \in Handlers : EnrolFits(enrollments, enrolRows[h], enrolShared[h], enrolCall[h])
  BY DEF EnrolInv, EnrollmentTypeOK
<1>s. \A h \in Handlers : enrolRows' = enrolRows => enrolRows' = [enrolRows EXCEPT ![h] = enrolRows[h]]
  BY <1>t
<1>f. \A h \in Handlers :
        enrolShared' = enrolShared => enrolShared' = [enrolShared EXCEPT ![h] = enrolShared[h]]
  BY <1>t
\* What a request holds, the others do not.
<1>l. \A h \in Handlers : \A g \in Handlers \ {h} :
        /\ enrolRows[g] \cap (enrolRows[h] \cup enrolShared[h]) = {}
        /\ enrolRows[h] \cap enrolShared[g] = {}
  BY <1>t DEF LocksApart
<1>1. ASSUME UNCHANGED enrolVars PROVE EnrolInv'
  BY <1>1 DEF enrolVars, EnrolInv, EnrollmentTypeOK, LocksApart, BatchesApart, SeatsCounted,
              CountExplained, DeskRowsApart
<1>2. ASSUME NEW h \in Handlers, LockStudentUser(h) PROVE EnrolInv'
  <2>1. PICK op \in {"create", "transfer"}, u \in Students, g \in Groups, starts \in Dates,
             ends \in Dates \cup {Open}, p \in Periods :
          /\ enrolCall[h].phase = "idle" /\ XFree(h, LockedWithStudent(u))
          /\ ends >= starts /\ (op = "transfer" => ends = Open)
          /\ enrolRows' = [enrolRows EXCEPT ![h] = LockedWithStudent(u)]
          /\ enrolCall' = [enrolCall EXCEPT ![h] =
               [NotEnrolling EXCEPT !.phase = "group", !.op = op, !.student = u, !.group = g,
                                    !.period = p, !.starts = starts, !.ends = ends]]
          /\ UNCHANGED <<enrolTables, enrolShared>>
    BY <1>2 DEF LockStudentUser
  <2> DEFINE c == [NotEnrolling EXCEPT !.phase = "group", !.op = op, !.student = u, !.group = g,
                                       !.period = p, !.starts = starts, !.ends = ends]
  <2>2. /\ c \in EnrollmentCall /\ c.phase = "group" /\ c.op = op /\ c.student = u /\ c.group = g
        /\ c.period = p /\ c.starts = starts /\ c.ends = ends /\ c.closes = 0
    <3>1. NotEnrolling.closes = 0
      BY DEF NotEnrolling
    <3>2. u \in Learners
      BY DEF Learners
    <3> QED BY <1>i, <3>1, <3>2 DEF EnrollmentCall
  <2>3. LockedWithStudent(u) \in SUBSET RowLocks
    BY DEF LockedWithStudent, RowLocks
  <2> HIDE DEF c
  <2>4. EnrolFits(enrollments, LockedWithStudent(u), enrolShared[h], c)
    BY <2>1, <2>2 DEF EnrolFits, DeskFits
  <2>5. \A x \in Handlers \ {h} :
          /\ enrolRows[x] \cap (LockedWithStudent(u) \cup enrolShared[h]) = {}
          /\ LockedWithStudent(u) \cap enrolShared[x] = {}
    BY <1>l, <2>1 DEF XFree, FreeOf
  <2>6. enrolCall' = [enrolCall EXCEPT ![h] = c] /\ c.op # "register"
    BY <2>1, <2>2 DEF c
  <2> QED BY <1>f, <1>t, <2>1, <2>2, <2>3, <2>4, <2>5, <2>6, EnrolCallFits
<1>3. ASSUME NEW h \in Handlers, RequireGroup(h) PROVE EnrolInv'
  <2> DEFINE o == enrolCall[h]
  <2>1. /\ o.phase = "group" /\ HasSeats(enrollments, o.group, 1) /\ UNCHANGED <<enrolTables, enrolLocks>>
        /\ o \in EnrollmentCall /\ DeskFits(enrollments, enrolRows[h], o)
    BY <1>3, <1>t DEF RequireGroup, EnrolFits
  <2>2. Cardinality(ActiveBy(enrollments, o.group, "desk")) + 1 <= Capacity[o.group]
    BY <2>1, ByAtMostAll DEF DeskFits
  <2>3. CASE /\ o.op = "create"
             /\ AssertNoOverlap(enrollments, o.student, o.period, o.starts, o.ends, 0)
             /\ enrolCall' = [enrolCall EXCEPT ![h].phase = "save"]
    <3> DEFINE c == [o EXCEPT !.phase = "save"]
    <3>1. /\ c \in EnrollmentCall /\ c.phase = "save" /\ c.op = o.op /\ c.student = o.student
          /\ c.group = o.group /\ c.period = o.period /\ c.starts = o.starts /\ c.ends = o.ends
          /\ c.closes = o.closes
      BY <2>1 DEF EnrollmentCall
    <3>2. enrolCall' = [enrolCall EXCEPT ![h] = c]
      BY <2>3
    <3> HIDE DEF c, o
    <3>3. EnrolFits(enrollments, enrolRows[h], enrolShared[h], c)
      BY <2>1, <2>2, <2>3, <3>1 DEF EnrolFits, DeskFits
    <3> QED BY <1>f, <1>l, <1>s, <1>t, <2>1, <2>3, <3>1, <3>2, <3>3, EnrolCallFits DEF enrolLocks
  <2>4. CASE /\ o.op = "transfer"
             /\ enrolCall' = [enrolCall EXCEPT ![h].phase = "active", ![h].snap = enrollments]
    <3> DEFINE c == [o EXCEPT !.phase = "active", !.snap = enrollments]
    <3>1. /\ c \in EnrollmentCall /\ c.phase = "active" /\ c.op = o.op /\ c.student = o.student
          /\ c.group = o.group /\ c.period = o.period /\ c.starts = o.starts /\ c.ends = o.ends
          /\ c.closes = o.closes /\ c.snap = enrollments
      BY <1>t, <2>1 DEF EnrollmentCall
    <3>2. enrolCall' = [enrolCall EXCEPT ![h] = c]
      BY <2>4
    <3> HIDE DEF c, o
    <3>3. EnrolFits(enrollments, enrolRows[h], enrolShared[h], c)
      BY <1>t, <2>1, <2>2, <2>4, <3>1 DEF EnrolFits, DeskFits
    <3> QED BY <1>f, <1>l, <1>s, <1>t, <2>1, <2>4, <3>1, <3>2, <3>3, EnrolCallFits DEF enrolLocks
  <2> QED BY <1>3, <2>3, <2>4 DEF RequireGroup
<1>4. ASSUME NEW h \in Handlers, FindActive(h) PROVE EnrolInv'
  <2> DEFINE o == enrolCall[h]  u == o.student
  <2>1. PICK i \in LatestActive(enrollments, u) \cup {0} :
          /\ i # 0 => /\ enrollments[u][i].group # o.group
                      /\ MayClose(enrollments[u][i], o.starts)
          /\ AssertNoOverlap(o.snap, u, o.period, o.starts, Open, i)
          /\ enrolCall' = [enrolCall EXCEPT ![h].phase = "save", ![h].closes = i, ![h].snap = None]
    BY <1>4 DEF FindActive
  <2>2. /\ o.phase = "active" /\ UNCHANGED <<enrolTables, enrolLocks>>
        /\ o \in EnrollmentCall /\ DeskFits(enrollments, enrolRows[h], o)
    BY <1>4, <1>t DEF FindActive, EnrolFits
  <2>3. o.op = "transfer" /\ o.ends = Open /\ o.snap[u] = enrollments[u] /\ u \in Students
    BY <2>2 DEF DeskFits
  <2>4. i # 0 => i \in 1..Len(enrollments[u]) /\ enrollments[u][i].ends = Open
    BY DEF LatestActive, ActiveRows
  <2>5. i \in 0..MaxRows
    <3>1. Len(enrollments[u]) \in Nat /\ Len(enrollments[u]) <= MaxRows
      BY <1>t, <2>3, BookRows DEF Learners
    <3> QED BY <2>4, <3>1 DEF EnrollmentAssumption
  <2> DEFINE c == [o EXCEPT !.phase = "save", !.closes = i, !.snap = None]
  <2>6. /\ c \in EnrollmentCall /\ c.phase = "save" /\ c.op = o.op /\ c.student = o.student
        /\ c.group = o.group /\ c.period = o.period /\ c.starts = o.starts /\ c.ends = o.ends
        /\ c.closes = i
    BY <2>2, <2>5 DEF EnrollmentCall
  <2>7. enrolCall' = [enrolCall EXCEPT ![h] = c]
    BY <2>1
  <2>8. AssertNoOverlap(enrollments, u, o.period, o.starts, Open, i)
    BY <2>1, <2>3 DEF AssertNoOverlap
  <2>9. i # 0 => enrollments[u][i].group # o.group /\ enrollments[u][i].starts <= o.starts - 1
    BY <2>1 DEF MayClose
  <2> HIDE DEF c, o
  <2>10. EnrolFits(enrollments, enrolRows[h], enrolShared[h], c)
    BY <2>2, <2>3, <2>4, <2>6, <2>8, <2>9 DEF EnrolFits, DeskFits
  <2> QED BY <1>f, <1>l, <1>s, <1>t, <2>2, <2>3, <2>6, <2>7, <2>10, EnrolCallFits DEF enrolLocks
<1>5. ASSUME NEW h \in Handlers, SaveEnrollment(h) PROVE EnrolInv'
  BY <1>5, SaveEnrollmentFits
<1>6. ASSUME NEW h \in Handlers, Register(h) PROVE EnrolInv'
  <2>1. PICK batch \in [Newcomers -> Groups \cup {None}], starts \in Dates :
          /\ \A u \in Newcomers : Present(batch[u]) => enrollments[u] = <<>> /\ ~Registering(u)
          /\ enrolCall' = [enrolCall EXCEPT ![h] =
               [NotEnrolling EXCEPT !.phase = "role", !.op = "register", !.batch = batch,
                                    !.todo = {batch[u] : u \in Newcomers} \ {None},
                                    !.starts = starts, !.snap = enrollments]]
          /\ UNCHANGED <<enrolTables, enrolLocks>>
    BY <1>6 DEF Register
  <2> DEFINE todo == {batch[u] : u \in Newcomers} \ {None}
             c == [NotEnrolling EXCEPT !.phase = "role", !.op = "register", !.batch = batch,
                                       !.todo = todo, !.starts = starts, !.snap = enrollments]
  <2>2. /\ c \in EnrollmentCall /\ c.phase = "role" /\ c.op = "register" /\ c.batch = batch
        /\ c.starts = starts /\ c.snap = enrollments
    <3>1. todo \subseteq Groups
      OBVIOUS
    <3> HIDE DEF todo
    <3> QED BY <1>i, <1>t, <3>1 DEF EnrollmentCall
  <2>3. enrolCall' = [enrolCall EXCEPT ![h] = c]
    BY <2>1
  <2> HIDE DEF c
  <2>4. BatchOf(c) = {u \in Newcomers : Present(batch[u])}
    BY <2>2 DEF BatchOf
  <2>5. EnrolFits(enrollments, enrolRows[h], enrolShared[h], c)
    BY <1>t, <2>1, <2>2, <2>4 DEF EnrolFits, BatchFits
  <2>6. \A g \in Handlers \ {h} : enrolCall[g].op = "register" =>
          BatchOf(c) \cap BatchOf(enrolCall[g]) = {}
    BY <2>1, <2>4 DEF BatchOf, Registering
  <2> QED BY <1>f, <1>l, <1>s, <1>t, <2>1, <2>2, <2>3, <2>5, <2>6, EnrolCallFits DEF enrolLocks
<1>7. ASSUME NEW h \in Handlers, InsertRoles(h) PROVE EnrolInv'
  <2> DEFINE o == enrolCall[h]  c == [o EXCEPT !.phase = "seats"]
  <2>1. /\ o.phase = "role" /\ SFree(h, {StudentRole}) /\ UNCHANGED <<enrolTables, enrolRows>>
        /\ enrolShared' = [enrolShared EXCEPT ![h] = {StudentRole}]
        /\ enrolCall' = [enrolCall EXCEPT ![h] = c]
        /\ o \in EnrollmentCall /\ o.op = "register" /\ BatchFits(enrollments, enrolShared[h], o)
    BY <1>7, <1>t DEF InsertRoles, EnrolFits
  <2>2. /\ c \in EnrollmentCall /\ c.phase = "seats" /\ c.op = "register" /\ c.batch = o.batch
        /\ c.starts = o.starts /\ c.snap = o.snap
    BY <2>1 DEF EnrollmentCall
  <2>3. {StudentRole} \in SUBSET RowLocks
    BY DEF RowLocks
  <2> HIDE DEF c
  <2>4. BatchOf(c) = BatchOf(o)
    BY <2>2 DEF BatchOf
  <2>5. EnrolFits(enrollments, enrolRows[h], {StudentRole}, c)
    BY <2>1, <2>2, <2>4 DEF EnrolFits, BatchFits
  <2>6. \A g \in Handlers \ {h} :
          /\ enrolRows[g] \cap (enrolRows[h] \cup {StudentRole}) = {}
          /\ enrolRows[h] \cap enrolShared[g] = {}
    BY <1>l, <2>1 DEF SFree, FreeOf
  <2>7. \A g \in Handlers \ {h} : enrolCall[g].op = "register" =>
          BatchOf(c) \cap BatchOf(enrolCall[g]) = {}
    BY <1>t, <2>1, <2>4 DEF BatchesApart
  <2> QED BY <1>s, <1>t, <2>1, <2>2, <2>3, <2>5, <2>6, <2>7, EnrolCallFits
<1>8. ASSUME NEW h \in Handlers, AssignEnrollment(h) PROVE EnrolInv'
  <2>1. PICK u \in Students, g \in Groups, starts \in Dates :
          /\ enrolCall' = [enrolCall EXCEPT ![h] =
               [NotEnrolling EXCEPT !.phase = "seats", !.op = "edit", !.student = u, !.todo = {g},
                                    !.group = g, !.starts = starts]]
          /\ UNCHANGED <<enrolTables, enrolLocks>>
    BY <1>8 DEF AssignEnrollment
  <2> DEFINE c == [NotEnrolling EXCEPT !.phase = "seats", !.op = "edit", !.student = u, !.todo = {g},
                                       !.group = g, !.starts = starts]
  <2>2. /\ c \in EnrollmentCall /\ c.phase = "seats" /\ c.op = "edit" /\ c.student = u
        /\ c.group = g /\ c.todo = {g} /\ c.starts = starts
    <3>1. u \in Learners /\ {g} \subseteq Groups
      BY DEF Learners
    <3> QED BY <1>i, <3>1 DEF EnrollmentCall
  <2>3. enrolCall' = [enrolCall EXCEPT ![h] = c]
    BY <2>1
  <2> HIDE DEF c
  <2>4. EnrolFits(enrollments, enrolRows[h], enrolShared[h], c)
    BY <2>2 DEF EnrolFits, EditFits
  <2>5. /\ c.op # "register" /\ UNCHANGED enrolTables
        /\ enrolRows' = [enrolRows EXCEPT ![h] = enrolRows[h]]
        /\ enrolShared' = [enrolShared EXCEPT ![h] = enrolShared[h]]
    BY <1>f, <1>s, <2>1, <2>2 DEF enrolLocks
  <2> QED BY <1>l, <1>t, <2>2, <2>3, <2>4, <2>5, EnrolCallFits
<1>9. ASSUME NEW h \in Handlers, LockGroup(h) PROVE EnrolInv'
  <2> DEFINE o == enrolCall[h]
  <2>1. PICK g \in o.todo :
          /\ o.phase = "seats" /\ LockGroupRow(h, g)
          /\ HasSeats(IF o.op = "edit" THEN enrollments ELSE o.snap, g, SeatsWanted(o, g))
          /\ enrolCall' = [enrolCall EXCEPT ![h].todo = @ \ {g},
                                            ![h].phase = IF o.todo = {g} THEN "save_batch" ELSE "seats",
                                            ![h].snap = IF o.todo = {g} THEN None ELSE @]
          /\ UNCHANGED <<enrolTables, enrolShared>>
    BY <1>9 DEF LockGroup
  <2> DEFINE held == enrolRows[h] \cup {GroupLock(g)}
             phase == IF o.todo = {g} THEN "save_batch" ELSE "seats"
             snap == IF o.todo = {g} THEN None ELSE o.snap
             c == [o EXCEPT !.todo = o.todo \ {g}, !.phase = phase, !.snap = snap]
  <2>2. /\ o \in EnrollmentCall /\ EnrolFits(enrollments, enrolRows[h], enrolShared[h], o)
        /\ g \in Groups /\ o.todo \subseteq Groups
    <3>1. o \in EnrollmentCall /\ EnrolFits(enrollments, enrolRows[h], enrolShared[h], o)
      BY <1>t
    <3> QED BY <3>1 DEF EnrollmentCall
  <2>3. /\ c \in EnrollmentCall /\ c.phase = phase /\ c.op = o.op /\ c.student = o.student
        /\ c.group = o.group /\ c.starts = o.starts /\ c.batch = o.batch
        /\ c.todo = o.todo \ {g} /\ c.snap = snap
    <3>1. o.todo \ {g} \in SUBSET Groups /\ phase \in {"seats", "save_batch"}
      BY <2>2
    <3>2. snap \in Book \cup {None}
      BY <2>2 DEF EnrollmentCall
    <3>3. o \in EnrollmentCall
      BY <2>2
    <3> HIDE DEF phase, snap, o
    <3>4. c \in EnrollmentCall
      BY <3>1, <3>2, <3>3 DEF EnrollmentCall
    <3>5. /\ c.phase = phase /\ c.op = o.op /\ c.student = o.student
          /\ c.group = o.group /\ c.starts = o.starts /\ c.batch = o.batch
          /\ c.todo = o.todo \ {g} /\ c.snap = snap
      BY <3>3 DEF EnrollmentCall
    <3> QED BY <3>4, <3>5
  <2>4. /\ enrolRows' = [enrolRows EXCEPT ![h] = held] /\ enrolCall' = [enrolCall EXCEPT ![h] = c]
    BY <2>1 DEF LockGroupRow
  <2>5. held \in SUBSET RowLocks
    BY <1>t, <2>2 DEF RowLocks
  <2> HIDE DEF c, o
  <2>b. BatchOf(c) = BatchOf(o)
    BY <2>3 DEF BatchOf
  <2>6. ASSUME o.op = "register" PROVE EnrolFits(enrollments, held, enrolShared[h], c)
    <3>1. BatchFits(enrollments, enrolShared[h], o)
      BY <2>1, <2>2, <2>6 DEF EnrolFits
    <3>2. BatchFits(enrollments, enrolShared[h], c)
      BY <2>1, <2>3, <2>b, <3>1 DEF BatchFits
    <3> QED BY <2>3, <2>6, <3>2 DEF EnrolFits
  <2>7. ASSUME o.op = "edit" PROVE EnrolFits(enrollments, held, enrolShared[h], c)
    <3>1. EditFits(enrollments, enrolRows[h], o)
      BY <2>1, <2>2, <2>7 DEF EnrolFits
    <3>2. o.todo = {g} /\ g = o.group
      BY <2>1, <3>1 DEF EditFits
    <3>3. HasSeats(enrollments, g, 1)
      BY <2>1, <2>7 DEF SeatsWanted
    <3>4. Cardinality(ActiveBy(enrollments, g, "edit")) + 1 <= Capacity[g]
      BY <2>2, <3>3, ByAtMostAll
    <3>5. EditFits(enrollments, held, c)
      BY <2>3, <3>1, <3>2, <3>4 DEF EditFits
    <3> QED BY <2>3, <2>7, <3>2, <3>5 DEF EnrolFits
  <2>8. EnrolFits(enrollments, held, enrolShared[h], c)
    <3>1. o.op \in {"register", "edit"}
      BY <2>1, <2>2 DEF EnrolFits
    <3> QED BY <2>6, <2>7, <3>1
  <2>9. \A x \in Handlers \ {h} :
          /\ enrolRows[x] \cap (held \cup enrolShared[h]) = {}
          /\ held \cap enrolShared[x] = {}
    BY <1>l, <2>1 DEF LockGroupRow, XFree, FreeOf
  <2>10. c.op = "register" => \A x \in Handlers \ {h} : enrolCall[x].op = "register" =>
           BatchOf(c) \cap BatchOf(enrolCall[x]) = {}
    BY <1>t, <2>3, <2>b DEF BatchesApart, o
  <2> HIDE DEF held
  <2> QED BY <1>f, <1>t, <2>1, <2>3, <2>4, <2>5, <2>8, <2>9, <2>10, EnrolCallFits
<1>10. ASSUME NEW h \in Handlers, SaveBatch(h) PROVE EnrolInv'
  <2>1. enrolCall[h].op \in {"register", "edit"}
    BY <1>10 DEF SaveBatch
  <2> QED BY <1>10, <2>1, RegisteredFits, EditedFits
<1>11. ASSUME NEW h \in Handlers, EnrollmentAborts(h) PROVE EnrolInv'
  <2>1. /\ enrolCall' = [enrolCall EXCEPT ![h] = NotEnrolling] /\ UNCHANGED enrolTables
        /\ enrolRows' = [enrolRows EXCEPT ![h] = {}] /\ enrolShared' = [enrolShared EXCEPT ![h] = {}]
    BY <1>11 DEF EnrollmentAborts, EnrollmentEnds
  <2>2. {} \in SUBSET RowLocks /\ NotEnrolling.op # "register"
        /\ EnrolFits(enrollments, {}, {}, NotEnrolling)
    BY <1>i
  <2>3. \A x \in Handlers \ {h} : enrolRows[x] \cap ({} \cup {}) = {} /\ {} \cap enrolShared[x] = {}
    OBVIOUS
  <2> QED BY <1>i, <2>1, <2>2, <2>3, EnrolCallFits
<1> QED
  BY <1>1, <1>2, <1>3, <1>4, <1>5, <1>6, <1>7, <1>8, <1>9, <1>10, <1>11 DEF EnrollmentNext

\* A group all of whose rows the desk wrote, or all an edit, has as many as that wrote.
LEMMA SeatsMean == EnrolInv => SeatsByDeskOrEdit
<1> SUFFICES ASSUME EnrolInv, NEW g \in Groups,
                    \/ \A r \in ActiveIn(enrollments, g) : RowAt(enrollments, r).via = "desk"
                    \/ \A r \in ActiveIn(enrollments, g) : RowAt(enrollments, r).via = "edit"
             PROVE  Cardinality(ActiveIn(enrollments, g)) <= Capacity[g]
  BY DEF SeatsByDeskOrEdit, RowAt
<1>1. PICK via \in {"desk", "edit"} : \A r \in ActiveIn(enrollments, g) : RowAt(enrollments, r).via = via
  OBVIOUS
<1>2. ActiveBy(enrollments, g, via) = ActiveIn(enrollments, g)
  BY <1>1 DEF ActiveBy
<1> QED BY <1>2 DEF EnrolInv, SeatsCounted

(* Enrollment, whatever desk requests, registrations and edits race: the   *)
(* tables, locks and requests keep their types.                            *)
THEOREM EnrollmentTyped == EnrollmentSpec => []EnrollmentTypeOK
<1>1. EnrolInv => EnrollmentTypeOK
  BY DEF EnrolInv
<1> QED BY EnrolInitFits, EnrolStepFits, EnrollmentAssumption, <1>1, PTL DEF EnrollmentSpec

(* A group filled by the desk alone, or by edits alone, never exceeds its  *)
(* cupo, the rows of the desk never overlap, and student_count is the rows *)
(* there are and those created already ended, however the paths interleave.*)
THEOREM SeatsHold == EnrollmentSpec => [](DeskRowsApart /\ SeatsByDeskOrEdit /\ CountExplained)
<1>1. EnrolInv => DeskRowsApart /\ SeatsByDeskOrEdit /\ CountExplained
  BY SeatsMean DEF EnrolInv
<1> QED BY EnrolInitFits, EnrolStepFits, EnrollmentAssumption, <1>1, PTL DEF EnrollmentSpec

-----------------------------------------------------------------------------
(* The figures: the marks stay marks of lessons that started.              *)
LEMMA FiguresInitFits == FiguresInit => FiguresTypeOK
  BY TermAssumption DEF FiguresInit, FiguresTypeOK, TermAssumption

LEMMA FiguresStepFits ==
  ASSUME FiguresTypeOK, [FiguresNext]_figureVars
  PROVE  FiguresTypeOK'
<1> DEFINE MarkIn(S) == [lesson : S, learner : Classmates, status : MarkStatus]
<1>t. day \in 1..LastLesson /\ started \subseteq Lessons /\ register \in Seq(MarkIn(started))
  BY DEF FiguresTypeOK
<1>1. CASE UNCHANGED figureVars
  BY <1>t, <1>1 DEF figureVars, FiguresTypeOK
<1>2. CASE StartLesson
  <2>1. PICK l \in Lessons : started' = started \cup {l} /\ UNCHANGED <<day, register>>
    BY <1>2 DEF StartLesson
  <2>2. MarkIn(started) \subseteq MarkIn(started')
    BY <2>1
  <2> HIDE DEF MarkIn
  <2>3. register \in Seq(MarkIn(started'))
    BY <1>t, <2>2
  <2> QED BY <1>t, <2>1, <2>3 DEF FiguresTypeOK, MarkIn
<1>3. CASE MarkLearner
  <2>1. PICK l \in started : \E p \in Rosters[l.group], s \in MarkStatus :
          register' = Append(register, [lesson |-> l, learner |-> p, status |-> s])
    BY <1>3 DEF MarkLearner
  <2>2. PICK p \in Rosters[l.group], s \in MarkStatus :
          register' = Append(register, [lesson |-> l, learner |-> p, status |-> s])
    BY <2>1
  <2>3. l.group \in DOMAIN Rosters
    BY <1>t, TermAssumption DEF TermAssumption
  <2>4. p \in Classmates
    BY <2>3 DEF Classmates
  <2>5. [lesson |-> l, learner |-> p, status |-> s] \in MarkIn(started)
    BY <2>4
  <2>6. day' = day /\ started' = started
    BY <1>3 DEF MarkLearner
  <2> HIDE DEF MarkIn
  <2>7. register' \in Seq(MarkIn(started))
    BY <1>t, <2>2, <2>5
  <2> QED BY <1>t, <2>6, <2>7 DEF FiguresTypeOK, MarkIn
<1>4. CASE ChangeMark
  <2>1. PICK i \in DOMAIN register, s \in MarkStatus :
          register' = [register EXCEPT ![i].status = s] /\ UNCHANGED <<day, started>>
    BY <1>4 DEF ChangeMark
  <2>2. i \in 1..Len(register) /\ register[i] \in MarkIn(started)
    <3> HIDE DEF MarkIn
    <3>1. DOMAIN register = 1..Len(register)
      BY <1>t
    <3> QED BY <1>t, <2>1, <3>1
  <2>3. [register[i] EXCEPT !.status = s] \in MarkIn(started)
    BY <2>2
  <2> HIDE DEF MarkIn
  <2>4. register' \in Seq(MarkIn(started))
    BY <1>t, <2>1, <2>2, <2>3
  <2> QED BY <1>t, <2>1, <2>4 DEF FiguresTypeOK, MarkIn
<1>5. CASE DayPasses
  BY <1>t, <1>5, TermAssumption DEF DayPasses, FiguresTypeOK, TermAssumption
<1> QED BY <1>1, <1>2, <1>3, <1>4, <1>5 DEF FiguresNext

-----------------------------------------------------------------------------
(* The figures: the pages agree on the marks they count, because a mark is *)
(* of a student of the group, in a lesson that started, and there is one   *)
(* for each lesson and student.                                            *)

\* A sum over a set is what any order of its terms gives.
LEMMA SumOfIs ==
  ASSUME NEW S, IsFiniteSet(S), NEW w \in [S -> Nat]
  PROVE  \E g : Sums(g, w, S) /\ SumOf(w) = g[S]
<1> DEFINE IsFold(f) == f = [s \in SUBSET S |->
                 IF s = {} THEN 0 ELSE w[CHOOSE x \in s : TRUE] + f[s \ {CHOOSE x \in s : TRUE}]]
           fold == CHOOSE f : IsFold(f)
<1>1. SumOf(w) = fold[S]
  BY DEF SumOf, MapThenSumSet, MapThenFoldSet
<1>2. ASSUME NEW f PROVE IsFold(f) <=> IsFoldOf(f, w, S)
  BY DEF IsFoldOf, FirstOf
<1>3. IsFold(fold)
  <2>1. PICK h : IsFoldOf(h, w, S)
    BY FoldExists
  <2>2. IsFold(h)
    BY <1>2, <2>1
  <2> HIDE DEF IsFold
  <2> QED BY <2>2
<1>4. IsFoldOf(fold, w, S)
  <2> HIDE DEF IsFold, fold
  <2> QED BY <1>2, <1>3
<1>5. Sums(fold, w, S)
  <2> HIDE DEF IsFold, fold
  <2> QED BY <1>4, FoldSums
<1> HIDE DEF IsFold, fold
<1> QED BY <1>1, <1>5

LEMMA PartsCounted ==
  ASSUME NEW S, IsFiniteSet(S), NEW P, Disjoint(P, S),
         NEW w \in [S -> Nat], \A x \in S : w[x] = Cardinality(P[x])
  PROVE  SumOf(w) = Cardinality(UNION {P[x] : x \in S})
<1>1. PICK g : Sums(g, w, S) /\ SumOf(w) = g[S]
  BY SumOfIs
<1> QED BY <1>1, PartsAddUp

\* Every mark is of a student of the group, no student has two marks of one lesson,
\* and the lessons that started are of the days so far.
MarksInPlace ==
  /\ \A i \in DOMAIN register : register[i].learner \in Rosters[register[i].lesson.group]
  /\ \A i, j \in DOMAIN register :
       register[i].lesson = register[j].lesson /\ register[i].learner = register[j].learner => i = j
  /\ \A l \in started : l.date \in 1..day

FiguresInv == FiguresTypeOK /\ MarksInPlace

LEMMA RowsOfList == ASSUME NEW M, NEW list \in Seq(M) PROVE \A i \in DOMAIN list : list[i] \in M
  OBVIOUS

LEMMA MarksAre ==
  ASSUME FiguresTypeOK
  PROVE  /\ Len(register) \in Nat /\ DOMAIN register = 1..Len(register) /\ IsFiniteSet(DOMAIN register)
         /\ day \in 1..LastLesson /\ day \in Nat /\ IsFiniteSet(started) /\ started \subseteq Lessons
         /\ \A i \in DOMAIN register :
              /\ register[i].lesson \in started /\ register[i].lesson \in Lessons
              /\ register[i].learner \in Classmates /\ register[i].status \in MarkStatus
<1> PICK M : M = [lesson : started, learner : Classmates, status : MarkStatus]
  OBVIOUS
<1>1. register \in Seq(M)
  BY DEF FiguresTypeOK
<1>2. Len(register) \in Nat /\ DOMAIN register = 1..Len(register)
  BY <1>1
<1>3. IsFiniteSet(1..Len(register))
  BY <1>2, FS_Interval
<1>4. IsFiniteSet(started)
  BY TermAssumption, FS_Subset DEF FiguresTypeOK, TermAssumption
<1>5. \A i \in DOMAIN register : register[i] \in M
  BY <1>1, RowsOfList
<1>6. \A i \in DOMAIN register :
        /\ register[i].lesson \in started
        /\ register[i].learner \in Classmates /\ register[i].status \in MarkStatus
  BY <1>5
<1>7. day \in 1..LastLesson /\ started \subseteq Lessons /\ LastLesson \in Nat
  BY TermAssumption DEF FiguresTypeOK, TermAssumption
<1> QED BY <1>2, <1>3, <1>4, <1>6, <1>7

\* What a count counts.
Of(rows, s) == {i \in rows : register[i].status = s}

LEMMA CountIs ==
  ASSUME FiguresTypeOK, NEW rows \in SUBSET DOMAIN register
  PROVE  /\ DOMAIN Count(rows) = MarkStatus /\ IsFiniteSet(rows)
         /\ \A s \in MarkStatus : /\ Count(rows)[s] = Cardinality(Of(rows, s)) /\ Count(rows)[s] \in Nat
                                  /\ IsFiniteSet(Of(rows, s))
         /\ Total(Count(rows)) = Cardinality(rows) /\ Cardinality(rows) \in Nat
<1>1. IsFiniteSet(rows) /\ Cardinality(rows) \in Nat
  BY MarksAre, PartFinite
<1>2. ASSUME NEW s \in MarkStatus
      PROVE  Count(rows)[s] = Cardinality(Of(rows, s)) /\ Count(rows)[s] \in Nat /\ IsFiniteSet(Of(rows, s))
  <2>1. Of(rows, s) \in SUBSET rows
    BY DEF Of
  <2>2. IsFiniteSet(Of(rows, s)) /\ Cardinality(Of(rows, s)) \in Nat
    BY <1>1, <2>1, PartFinite
  <2>3. Count(rows)[s] = Cardinality(Of(rows, s))
    BY DEF Count, Of
  <2> QED BY <2>2, <2>3
<1>3. Total(Count(rows)) = Cardinality(rows)
  <2> DEFINE P == Of(rows, "PRESENT")  A == Of(rows, "ABSENT")  L == Of(rows, "LATE")  J == Of(rows, "JUSTIFIED")
  <2>1. rows = ((P \cup A) \cup L) \cup J
    BY MarksAre DEF Of, MarkStatus
  <2>2. P \cap A = {} /\ (P \cup A) \cap L = {} /\ ((P \cup A) \cup L) \cap J = {}
    BY DEF Of
  <2>3. IsFiniteSet(P) /\ IsFiniteSet(A) /\ IsFiniteSet(L) /\ IsFiniteSet(J)
    BY <1>2 DEF MarkStatus
  <2>4. Total(Count(rows)) = Cardinality(P) + Cardinality(A) + Cardinality(L) + Cardinality(J)
    BY <1>2 DEF Total, MarkStatus
  <2> HIDE DEF P, A, L, J
  <2>5. IsFiniteSet(P \cup A) /\ Cardinality(P \cup A) = Cardinality(P) + Cardinality(A)
    BY <2>2, <2>3, ApartAdd
  <2>6. IsFiniteSet((P \cup A) \cup L) /\ Cardinality((P \cup A) \cup L) = Cardinality(P) + Cardinality(A) + Cardinality(L)
    BY <2>2, <2>3, <2>5, ApartAdd
  <2>7. Cardinality(((P \cup A) \cup L) \cup J) = Cardinality(P) + Cardinality(A) + Cardinality(L) + Cardinality(J)
    BY <2>2, <2>3, <2>6, ApartAdd
  <2> QED BY <2>1, <2>4, <2>7
<1>4. DOMAIN Count(rows) = MarkStatus
  BY DEF Count
<1> QED BY <1>1, <1>2, <1>3, <1>4

\* GROUP BY: the rows of figures of any grouping add up to the figures of all rows.
LEMMA GroupsAddUp ==
  ASSUME FiguresTypeOK, NEW key, DOMAIN key \in SUBSET DOMAIN register
  PROVE  Tally(GroupedBy(key)) = Count(DOMAIN key)
<1> DEFINE rows == DOMAIN key
           K == {key[i] : i \in rows}
           RowsOf(k) == {i \in rows : key[i] = k}
           grouped == GroupedBy(key)
<1>1. IsFiniteSet(K)
  <2>1. IsFiniteSet(rows)
    BY MarksAre, PartFinite
  <2> HIDE DEF rows
  <2> QED BY <2>1, ImageFinite
<1>2. DOMAIN grouped = K /\ \A k \in K : grouped[k] = Count(RowsOf(k))
  BY DEF GroupedBy
<1>3. ASSUME NEW s \in MarkStatus
      PROVE  SumOf([k \in DOMAIN grouped |-> grouped[k][s]]) = Count(rows)[s]
  <2>1. PICK P : P = [k \in K |-> Of(RowsOf(k), s)]
    OBVIOUS
  <2>2. PICK w : w = [k \in DOMAIN grouped |-> grouped[k][s]]
    OBVIOUS
  <2>3. ASSUME NEW k \in K
        PROVE  w[k] = Cardinality(P[k]) /\ w[k] \in Nat /\ IsFiniteSet(P[k])
    <3>1. RowsOf(k) \in SUBSET DOMAIN register
      OBVIOUS
    <3>2. P[k] = Of(RowsOf(k), s) /\ w[k] = Count(RowsOf(k))[s]
      BY <1>2, <2>1, <2>2
    <3> HIDE DEF RowsOf
    <3> QED BY <3>1, <3>2, CountIs
  <2>4. w \in [K -> Nat]
    BY <1>2, <2>2, <2>3
  <2>5. Disjoint(P, K)
    BY <2>1, <2>3 DEF Disjoint, Of
  <2>6. UNION {P[k] : k \in K} = Of(rows, s)
    BY <2>1 DEF Of
  <2>7. Count(rows)[s] = Cardinality(Of(rows, s))
    BY CountIs
  <2> HIDE DEF K, grouped, rows
  <2>8. SumOf(w) = Cardinality(UNION {P[k] : k \in K})
    BY <1>1, <2>3, <2>4, <2>5, PartsCounted
  <2> QED BY <2>2, <2>6, <2>7, <2>8
<1>4. Tally(grouped) = [s \in MarkStatus |-> SumOf([k \in DOMAIN grouped |-> grouped[k][s]])]
  BY DEF Tally
<1>5. Count(rows) = [s \in MarkStatus |-> Count(rows)[s]]
  BY DEF Count
<1>6. Tally(grouped) = Count(rows)
  <2> HIDE DEF grouped, rows
  <2> QED BY <1>3, <1>4, <1>5
<1> QED BY <1>6

\* Rows told apart by what f gives them add up, too.
LEMMA SharesAddUp ==
  ASSUME FiguresTypeOK, NEW all \in SUBSET DOMAIN register, NEW S, IsFiniteSet(S),
         NEW P, \A x \in S : P[x] \in SUBSET all, \A i \in all : \E x \in S : i \in P[x],
         \A x, y \in S : x # y => P[x] \cap P[y] = {},
         NEW w, w = [x \in S |-> Cardinality(P[x])]
  PROVE  SumOf(w) = Cardinality(all)
<1>1. ASSUME NEW x \in S PROVE IsFiniteSet(P[x]) /\ Cardinality(P[x]) \in Nat
  <2>1. P[x] \in SUBSET DOMAIN register
    OBVIOUS
  <2> QED BY <2>1, MarksAre, PartFinite
<1>2. Disjoint(P, S)
  BY <1>1 DEF Disjoint
<1>3. w \in [S -> Nat] /\ \A x \in S : w[x] = Cardinality(P[x])
  BY <1>1
<1>4. UNION {P[x] : x \in S} = all
  OBVIOUS
<1> QED BY <1>2, <1>3, <1>4, PartsCounted

\* The breakdowns of one actor's pages add up to his counts.
LEMMA ScopeAddsUp ==
  ASSUME FiguresTypeOK, NEW a, NEW q
  PROVE  LET s == Summary(a, q) IN
         /\ Tally(s.byGroup) = s.counts /\ Tally(s.trend) = s.counts
         /\ Tally(StudentReportRows(a, q)) = s.counts
<1> DEFINE R == Scoped(a, Window(q))
           groups == [i \in R |-> register[i].lesson.group]
           months == [i \in R |-> MonthOf(register[i].lesson.date)]
           students == [i \in R |-> LET r == register[i] IN
                          <<r.learner, r.lesson.group, r.lesson.subject, r.lesson.teacher>>]
<1>1. R \in SUBSET DOMAIN register
  BY DEF Scoped
<1>2. DOMAIN groups = R /\ DOMAIN months = R /\ DOMAIN students = R
  OBVIOUS
<1>3. Tally(GroupedBy(groups)) = Count(R) /\ Tally(GroupedBy(months)) = Count(R) /\ Tally(GroupedBy(students)) = Count(R)
  <2> HIDE DEF groups, months, students, R
  <2> QED BY <1>1, <1>2, GroupsAddUp
<1>4. /\ Summary(a, q).byGroup = GroupedBy(groups) /\ Summary(a, q).trend = GroupedBy(months)
      /\ Summary(a, q).counts = Count(R) /\ StudentReportRows(a, q) = GroupedBy(students)
  BY DEF Summary, GroupRates, Trend, StatusCounts, StudentReportRows
<1> QED BY <1>3, <1>4

\* The classes with marks are among the sessions counted.
LEMMA LessonsCounted ==
  ASSUME FiguresTypeOK, NEW a, NEW q
  PROVE  Cardinality({register[i].lesson : i \in Scoped(a, q)}) <= SessionCount(a, q)
<1> DEFINE held == {l \in started : /\ a = "all" \/ l.teacher = a
                                   /\ Within(l.date, q)
                                   /\ Asked(l.group, q.group) /\ Asked(l.subject, q.subject)}
           marked == {register[i].lesson : i \in Scoped(a, q)}
<1>1. marked \in SUBSET held
  BY MarksAre DEF Scoped
<1>2. IsFiniteSet(held)
  BY MarksAre, PartFinite
<1>3. SessionCount(a, q) = Cardinality(held)
  BY DEF SessionCount
<1> HIDE DEF held, marked
<1>4. Cardinality(marked) <= Cardinality(held)
  BY <1>1, <1>2, PartFinite
<1> QED BY <1>3, <1>4 DEF marked

\* What an administrator or a teacher reaches is the same in both pages.
LEMMA SameMarks ==
  ASSUME NEW a, NEW q, q.subject = None
  PROVE  Scoped(a, q) = HistoryFilters(HistoryScope(IF a = "all" THEN "unrestricted" ELSE "teacher", a), q)
  BY DEF Scoped, HistoryFilters, HistoryScope, Asked

LEMMA TeachersFinite == IsFiniteSet(Lessons) => IsFiniteSet(Teachers)
<1>1. PICK f : f = [l \in Lessons |-> l.teacher]
  OBVIOUS
<1>2. Teachers = {f[l] : l \in Lessons}
  BY <1>1 DEF Teachers
<1> QED BY <1>2, ImageFinite

\* The teachers of the lessons share all marks.
LEMMA TeachersShare ==
  ASSUME FiguresTypeOK, NEW q
  PROVE  Total(Summary("all", q).counts) = SumOf([t \in Teachers |-> Total(Summary(t, q).counts)])
<1> DEFINE W == Window(q)
<1>1. PICK P : P = [t \in Teachers |-> Scoped(t, W)]
  OBVIOUS
<1>2. PICK w : w = [t \in Teachers |-> Total(Summary(t, q).counts)]
  OBVIOUS
<1>3. PICK all : all = Scoped("all", W)
  OBVIOUS
<1>4. all \in SUBSET DOMAIN register
  BY <1>3 DEF Scoped
<1>5. ASSUME NEW t \in Teachers PROVE P[t] \in SUBSET all /\ \A i \in P[t] : register[i].lesson.teacher = t
  BY <1>1, <1>3, TermAssumption DEF Scoped, TermAssumption
<1>6. \A i \in all : \E t \in Teachers : i \in P[t]
  <2> SUFFICES ASSUME NEW i \in all PROVE \E t \in Teachers : i \in P[t]
    OBVIOUS
  <2>1. register[i].lesson.teacher \in Teachers
    BY <1>4, MarksAre DEF Teachers
  <2>2. i \in P[register[i].lesson.teacher]
    BY <1>1, <1>3, <2>1 DEF Scoped
  <2> QED BY <2>1, <2>2
<1>7. ASSUME NEW t \in Teachers PROVE w[t] = Cardinality(P[t])
  <2>1. Scoped(t, W) \in SUBSET DOMAIN register
    BY DEF Scoped
  <2>2. w[t] = Total(Count(Scoped(t, W)))
    BY <1>2 DEF Summary, StatusCounts
  <2> HIDE DEF W
  <2> QED BY <1>1, <2>1, <2>2, CountIs
<1>8. w = [t \in Teachers |-> Cardinality(P[t])]
  BY <1>2, <1>7
<1>9. IsFiniteSet(Teachers)
  BY TermAssumption, TeachersFinite DEF TermAssumption
<1>10. SumOf(w) = Cardinality(all)
  BY <1>4, <1>5, <1>6, <1>8, <1>9, SharesAddUp
<1>11. Total(Summary("all", q).counts) = Total(Count(all))
  BY <1>3 DEF Summary, StatusCounts
<1> QED BY <1>2, <1>4, <1>10, <1>11, CountIs

\* The wards of a family share what it sees.
LEMMA WardsShare ==
  ASSUME FiguresTypeOK, NEW q, NEW wards \in SUBSET Classmates
  PROVE  Total(Summarize("represented", wards, q).counts) =
           SumOf([p \in wards |-> Total(Summarize("own", p, q).counts)])
<1>1. PICK P : P = [p \in wards |-> HistoryFilters(HistoryScope("own", p), q)]
  OBVIOUS
<1>2. PICK w : w = [p \in wards |-> Total(Summarize("own", p, q).counts)]
  OBVIOUS
<1>3. PICK all : all = HistoryFilters(HistoryScope("represented", wards), q)
  OBVIOUS
<1>4. all \in SUBSET DOMAIN register
  BY <1>3 DEF HistoryFilters, HistoryScope
<1>5. ASSUME NEW p \in wards PROVE P[p] \in SUBSET all /\ \A i \in P[p] : register[i].learner = p
  BY <1>1, <1>3 DEF HistoryFilters, HistoryScope
<1>6. \A i \in all : \E p \in wards : i \in P[p]
  BY <1>1, <1>3 DEF HistoryFilters, HistoryScope
<1>7. ASSUME NEW p \in wards PROVE w[p] = Cardinality(P[p])
  <2>1. P[p] \in SUBSET DOMAIN register
    BY <1>4, <1>5
  <2>2. w[p] = Total(Count(P[p]))
    BY <1>1, <1>2 DEF Summarize
  <2> QED BY <2>1, <2>2, CountIs
<1>8. w = [p \in wards |-> Cardinality(P[p])]
  BY <1>2, <1>7
<1>9. IsFiniteSet(wards)
  BY TermAssumption, FS_Subset DEF TermAssumption
<1>10. SumOf(w) = Cardinality(all)
  BY <1>4, <1>5, <1>6, <1>8, <1>9, SharesAddUp
<1>11. Total(Summarize("represented", wards, q).counts) = Total(Count(all))
  BY <1>3 DEF Summarize
<1> QED BY <1>2, <1>4, <1>10, <1>11, CountIs

LEMMA TotalsHold == ASSUME FiguresTypeOK PROVE TotalsAgree
<1>1. ASSUME NEW q \in Queries, NEW a \in Teachers \cup {"all"}
      PROVE  LET s == Summary(a, q) IN
             /\ Cardinality({register[i].lesson : i \in Scoped(a, Window(q))}) <= s.totalSessions
             /\ q.subject = None =>
                  s.counts = Summarize(IF a = "all" THEN "unrestricted" ELSE "teacher", a, Window(q)).counts
  <2>1. Summary(a, q).totalSessions = SessionCount(a, Window(q)) /\ Summary(a, q).counts = Count(Scoped(a, Window(q)))
    BY DEF Summary, StatusCounts
  <2>2. q.subject = None => Window(q).subject = None
    BY DEF Window
  <2>3. \A kind : Summarize(kind, a, Window(q)).counts = Count(HistoryFilters(HistoryScope(kind, a), Window(q)))
    BY DEF Summarize
  <2> QED BY <2>1, <2>2, <2>3, LessonsCounted, SameMarks
<1> QED BY <1>1, ScopeAddsUp, TeachersShare, WardsShare DEF TotalsAgree

-----------------------------------------------------------------------------
\* The absent marks of this month.
ThisMonth == [Anything EXCEPT !.from = MonthOf(day) * MonthDays + 1, !.to = (MonthOf(day) + 1) * MonthDays]

AbsentNow == {i \in DOMAIN register : register[i].status = "ABSENT" /\ InMonth(register[i].lesson.date)}

LEMMA DatesAre ==
  ASSUME FiguresInv
  PROVE  /\ FiguresTypeOK /\ day \in Nat /\ day >= 1 /\ day <= LastLesson /\ LastLesson \in Nat
         /\ \A i \in DOMAIN register : /\ register[i].lesson.date \in Nat /\ register[i].lesson.date >= 1
                                       /\ register[i].lesson.date <= day
<1>1. /\ day \in 1..LastLesson /\ day \in Nat /\ LastLesson \in Nat
      /\ \A i \in DOMAIN register : register[i].lesson \in started
  BY MarksAre, TermAssumption DEF FiguresInv, TermAssumption
<1>2. \A i \in DOMAIN register : register[i].lesson.date \in 1..day
  BY <1>1 DEF FiguresInv, MarksInPlace
<1> QED BY <1>1, <1>2 DEF FiguresInv

LEMMA MonthIs ==
  ASSUME NEW date \in Nat, date >= 1
  PROVE  /\ MonthOf(date) \in Nat /\ MonthDays * MonthOf(date) + 1 <= date
         /\ date <= MonthDays * MonthOf(date) + MonthDays
<1>1. MonthDays \in Nat /\ MonthDays > 0
  BY FiguresAssumption DEF FiguresAssumption
<1>2. PICK d \in Nat : d = date - 1
  OBVIOUS
<1>3. d \div MonthDays \in Nat /\ MonthDays * (d \div MonthDays) <= d /\ d < MonthDays * (d \div MonthDays) + MonthDays
  BY <1>1, DivIs
<1>4. MonthOf(date) = d \div MonthDays
  BY <1>2 DEF MonthOf
<1>5. MonthDays * MonthOf(date) \in Int
  BY <1>1, <1>3, <1>4, ProductGrows
<1> QED BY <1>1, <1>2, <1>3, <1>4, <1>5

LEMMA MonthWindow ==
  ASSUME FiguresInv, NEW date \in Nat, date >= 1
  PROVE  Within(date, ThisMonth) <=> InMonth(date)
<1>1. MonthDays \in Nat /\ MonthDays > 0 /\ None \notin Int
  BY FiguresAssumption, TermAssumption DEF FiguresAssumption, TermAssumption
<1>2. PICK m \in Nat : m = MonthOf(day)
  BY DatesAre, MonthIs
<1>3. PICK first \in Int : first = MonthDays * m
  BY <1>1, <1>2, ProductGrows
<1>4. m * MonthDays + 1 = first + 1 /\ (m + 1) * MonthDays = first + MonthDays
  BY <1>1, <1>2, <1>3
<1>5. ThisMonth.from = first + 1 /\ ThisMonth.to = first + MonthDays
  BY <1>2, <1>4 DEF ThisMonth, Anything
<1>6. Within(date, ThisMonth) <=> first + 1 <= date /\ date <= first + MonthDays
  <2>1. first + 1 # None /\ first + MonthDays # None
    BY <1>1, <1>3
  <2> QED BY <1>5, <2>1 DEF Within
<1>7. ASSUME first + 1 <= date, date <= first + MonthDays PROVE MonthOf(date) = m
  <2>1. PICK d \in Nat : d = date - 1
    OBVIOUS
  <2>2. MonthDays * m <= d /\ d < MonthDays * m + MonthDays
    BY <1>1, <1>3, <1>7, <2>1
  <2>3. d \div MonthDays = m
    BY <1>1, <1>2, <2>1, <2>2, DivUnique
  <2> QED BY <2>1, <2>3 DEF MonthOf
<1>8. ASSUME MonthOf(date) = m PROVE first + 1 <= date /\ date <= first + MonthDays
  BY <1>3, <1>8, MonthIs
<1> QED BY <1>2, <1>6, <1>7, <1>8 DEF InMonth

\* The months the rules look at hold this one.
LEMMA MonthEvaluated ==
  ASSUME FiguresInv, NEW p
  PROVE  {i \in EvaluatedMarks(p) : register[i].status = "ABSENT" /\ InMonth(register[i].lesson.date)}
           = {i \in AbsentNow : register[i].learner = p}
<1>1. ASSUME NEW i \in DOMAIN register, InMonth(register[i].lesson.date)
      PROVE  register[i].lesson.date >= day - PeriodDays
  <2>1. PICK date \in Nat : date = register[i].lesson.date /\ date >= 1
    BY DatesAre
  <2>2. PICK m \in Nat : m = MonthOf(day) /\ MonthOf(date) = m
    BY <1>1, <2>1, DatesAre, MonthIs DEF InMonth
  <2>3. MonthDays \in Nat /\ PeriodDays \in Nat /\ MonthDays <= PeriodDays /\ MonthDays > 0
    BY FiguresAssumption DEF FiguresAssumption
  <2>4. PICK first \in Int : first = MonthDays * m
    BY <2>3, <2>2, ProductGrows
  <2>5. first + 1 <= date /\ day <= first + MonthDays /\ day \in Nat
    BY <2>1, <2>2, <2>4, DatesAre, MonthIs
  <2> QED BY <2>1, <2>3, <2>5
<1> QED BY <1>1 DEF EvaluatedMarks, AbsentNow

LEMMA MonthShared ==
  ASSUME FiguresInv, NEW actor, ScopedStudents(actor) \subseteq Classmates
  PROVE  AbsencesThisMonth(actor) = Cardinality({i \in AbsentNow : register[i].learner \in ScopedStudents(actor)})
<1>1. PICK S : S = ScopedStudents(actor) /\ IsFiniteSet(S)
  BY TermAssumption, FS_Subset DEF TermAssumption
<1>2. PICK all : all = {i \in AbsentNow : register[i].learner \in S}
  OBVIOUS
<1>3. PICK P : P = [p \in S |-> {i \in AbsentNow : register[i].learner = p}]
  OBVIOUS
<1>4. PICK w : w = [p \in S |-> UnjustifiedMonth(EvaluatedMarks(p))]
  OBVIOUS
<1>5. ASSUME NEW p \in S PROVE w[p] = Cardinality(P[p])
  BY <1>3, <1>4, MonthEvaluated DEF UnjustifiedMonth
<1>6. w = [p \in S |-> Cardinality(P[p])]
  BY <1>4, <1>5
<1>7. FiguresTypeOK /\ all \in SUBSET DOMAIN register
  BY <1>2 DEF AbsentNow, FiguresInv
<1>8. /\ \A p \in S : P[p] \in SUBSET all
      /\ \A i \in all : \E p \in S : i \in P[p]
      /\ \A p, o \in S : p # o => P[p] \cap P[o] = {}
  BY <1>2, <1>3
<1>9. SumOf(w) = Cardinality(all)
  BY <1>1, <1>6, <1>7, <1>8, SharesAddUp
<1> QED BY <1>1, <1>2, <1>4, <1>9 DEF AbsencesThisMonth

LEMMA MonthsHold == ASSUME FiguresInv PROVE MonthAgrees
<1>1. FiguresTypeOK /\ \A i \in DOMAIN register : register[i].lesson.date \in Nat /\ register[i].lesson.date >= 1
  BY DatesAre
<1>2. AbsencesThisMonth("all") = Summarize("unrestricted", None, ThisMonth).counts["ABSENT"]
  <2>1. PICK rows \in SUBSET DOMAIN register : rows = HistoryFilters(HistoryScope("unrestricted", None), ThisMonth)
    BY DEF HistoryFilters, HistoryScope
  <2>2. ThisMonth.group = None /\ ThisMonth.status = None
    BY DEF ThisMonth, Anything
  <2>3. Of(rows, "ABSENT") = AbsentNow
    BY <1>1, <2>1, <2>2, MonthWindow DEF Of, AbsentNow, HistoryFilters, HistoryScope, Asked
  <2>4. Count(rows)["ABSENT"] = Cardinality(AbsentNow)
    BY <1>1, <2>3, CountIs DEF MarkStatus
  <2>5. ScopedStudents("all") = Classmates
    BY DEF ScopedStudents
  <2>6. {i \in AbsentNow : register[i].learner \in Classmates} = AbsentNow
    BY <1>1, MarksAre DEF AbsentNow
  <2>7. AbsencesThisMonth("all") = Cardinality(AbsentNow)
    BY <2>5, <2>6, MonthShared
  <2> QED BY <2>1, <2>4, <2>7 DEF Summarize
<1>3. ASSUME NEW t \in Teachers PROVE AbsencesThisMonth(t) >= StatusCounts(t, ThisMonth)["ABSENT"]
  <2>1. ScopedStudents(t) = UNION {Rosters[g] : g \in {l.group : l \in {k \in Lessons : k.teacher = t}}}
    BY TermAssumption DEF ScopedStudents, TermAssumption
  <2>2. ScopedStudents(t) \subseteq Classmates
    BY <2>1, TermAssumption DEF Classmates, TermAssumption
  <2>3. PICK mine : mine = {i \in AbsentNow : register[i].learner \in ScopedStudents(t)}
    OBVIOUS
  <2>4. PICK rows \in SUBSET DOMAIN register : rows = Scoped(t, ThisMonth)
    BY DEF Scoped
  <2>5. Of(rows, "ABSENT") \in SUBSET mine
    <3> SUFFICES ASSUME NEW i \in Of(rows, "ABSENT") PROVE i \in mine
      OBVIOUS
    <3>1. /\ i \in DOMAIN register /\ register[i].status = "ABSENT" /\ register[i].lesson.teacher = t
          /\ Within(register[i].lesson.date, ThisMonth)
      BY <2>4, TermAssumption DEF Of, Scoped, TermAssumption
    <3>2. i \in AbsentNow
      BY <1>1, <3>1, MonthWindow DEF AbsentNow
    <3>3. register[i].lesson \in Lessons /\ register[i].learner \in Rosters[register[i].lesson.group]
      BY <1>1, <3>1, MarksAre DEF FiguresInv, MarksInPlace
    <3>4. register[i].learner \in ScopedStudents(t)
      BY <2>1, <3>1, <3>3
    <3> QED BY <2>3, <3>2, <3>4
  <2>6. IsFiniteSet(mine)
    <3>1. mine \in SUBSET DOMAIN register
      BY <2>3 DEF AbsentNow
    <3> QED BY <1>1, <3>1, MarksAre, PartFinite
  <2>7. Cardinality(Of(rows, "ABSENT")) <= Cardinality(mine) /\ Cardinality(mine) \in Nat /\ Cardinality(Of(rows, "ABSENT")) \in Nat
    BY <2>5, <2>6, PartFinite
  <2>8. StatusCounts(t, ThisMonth)["ABSENT"] = Cardinality(Of(rows, "ABSENT"))
    BY <1>1, <2>4, CountIs DEF StatusCounts, MarkStatus
  <2>9. AbsencesThisMonth(t) = Cardinality(mine)
    BY <2>2, <2>3, MonthShared
  <2> QED BY <2>7, <2>8, <2>9
<1> QED BY <1>2, <1>3 DEF MonthAgrees, ThisMonth

-----------------------------------------------------------------------------
\* A rate of 100.00 % of fewer than 20000 is all of them.
LEMMA FullRate ==
  ASSUME NEW some \in Nat, NEW whole \in Nat, some <= whole, whole < 20000, Rounded(some, whole, 10000) = 10000
  PROVE  some = whole
<1>1. whole # 0
  BY DEF Rounded
<1>2. PICK a \in Nat, b \in Nat : a = 2 * some * 10000 + whole /\ b = 2 * whole /\ b > 0
  BY <1>1
<1>3. a \div b = 10000
  BY <1>1, <1>2 DEF Rounded
<1>4. b * 10000 <= a
  BY <1>2, <1>3, DivIs
<1> QED BY <1>2, <1>4

\* The rows of a set of marks of different students are as many as the students.
LEMMA LearnersCounted ==
  ASSUME FiguresTypeOK, NEW rows \in SUBSET DOMAIN register,
         \A i, j \in rows : register[i].learner = register[j].learner => i = j
  PROVE  Cardinality({register[i].learner : i \in rows}) = Cardinality(rows)
<1>1. IsFiniteSet(rows)
  BY MarksAre, PartFinite
<1>2. PICK T : T = {register[i].learner : i \in rows}
  OBVIOUS
<1>3. PICK f : f = [i \in rows |-> register[i].learner]
  OBVIOUS
<1>4. f \in Surjection(rows, T)
  BY <1>2, <1>3 DEF Surjection
<1>5. f \in Injection(rows, T)
  BY <1>2, <1>3 DEF Injection, IsInjective
<1>6. Cardinality(T) = Cardinality(rows)
  BY <1>1, <1>4, <1>5, FS_Surjection
<1> QED BY <1>2, <1>6

OneLessonADay ==
  \A k, l \in started : k.date = day /\ l.date = day /\ k.group = l.group => k = l

FullToday == TodayRate("all") = 10000

LEMMA FullHolds == ASSUME FiguresInv PROVE FullMeansEverybody
<1> SUFFICES ASSUME OneLessonADay, FullToday PROVE RegisteredToday("all") = ExpectedToday("all")
  BY DEF FullMeansEverybody, OneLessonADay, FullToday
<1>t. FiguresTypeOK
  BY DEF FiguresInv
<1>1. PICK rows \in SUBSET DOMAIN register : rows = Scoped("all", Today)
  BY DEF Scoped
<1>2. PICK expected : expected = UNION {Rosters[l.group] : l \in {k \in started : k.date = day}}
  OBVIOUS
<1>3. ASSUME NEW i \in rows
      PROVE  /\ register[i].lesson \in started /\ register[i].lesson.date = day
             /\ register[i].lesson.group \in DOMAIN Rosters
             /\ register[i].learner \in Rosters[register[i].lesson.group]
  <2>1. Today.from = day /\ Today.to = day /\ day # None
    BY DatesAre, TermAssumption DEF Today, Anything, TermAssumption
  <2>2. Within(register[i].lesson.date, Today)
    BY <1>1 DEF Scoped
  <2>3. register[i].lesson.date = day
    BY <2>1, <2>2, DatesAre DEF Within
  <2>4. register[i].lesson \in started /\ register[i].lesson \in Lessons
    BY <1>t, MarksAre
  <2> QED BY <2>3, <2>4, TermAssumption DEF TermAssumption, FiguresInv, MarksInPlace
<1>4. \A i, j \in rows : register[i].learner = register[j].learner => i = j
  <2> SUFFICES ASSUME NEW i \in rows, NEW j \in rows, register[i].learner = register[j].learner PROVE i = j
    OBVIOUS
  <2>1. register[i].lesson.group = register[j].lesson.group
    BY <1>3, TermAssumption DEF TermAssumption
  <2>2. register[i].lesson = register[j].lesson
    BY <1>3, <2>1 DEF OneLessonADay
  <2> QED BY <2>2 DEF FiguresInv, MarksInPlace
<1>5. PICK n \in Nat : n = Cardinality(rows)
  BY <1>t, CountIs
<1>6. PICK e \in Nat : e = Cardinality(expected) /\ e < 20000 /\ n <= e
  <2>1. PICK T : T = {register[i].learner : i \in rows}
    OBVIOUS
  <2>2. T \in SUBSET expected
    BY <1>2, <1>3, <2>1
  <2>3. expected \in SUBSET Classmates
    BY <1>2, <1>t, MarksAre, TermAssumption DEF Classmates, TermAssumption
  <2>4. IsFiniteSet(expected) /\ Cardinality(expected) <= Cardinality(Classmates)
        /\ Cardinality(Classmates) \in Nat /\ Cardinality(expected) \in Nat
    BY <2>3, TermAssumption, PartFinite DEF TermAssumption
  <2>5. Cardinality(T) <= Cardinality(expected)
    BY <2>2, <2>4, PartFinite
  <2>6. Cardinality(T) = n
    BY <1>t, <1>4, <1>5, <2>1, LearnersCounted
  <2> QED BY <2>4, <2>5, <2>6, SchoolAssumption DEF SchoolAssumption
<1>7. RegisteredToday("all") = n
  BY <1>t, <1>1, <1>4, <1>5, LearnersCounted DEF RegisteredToday
<1>8. ExpectedToday("all") = e
  <2>1. {k \in started : k.date = day /\ ("all" = "all" \/ k.teacher = "all")} = {k \in started : k.date = day}
    OBVIOUS
  <2> QED BY <1>2, <1>6, <2>1 DEF ExpectedToday
<1>9. PICK c : c = Count(rows) /\ Total(c) = n
      /\ c["PRESENT"] \in Nat /\ c["ABSENT"] \in Nat /\ c["LATE"] \in Nat /\ c["JUSTIFIED"] \in Nat
  BY <1>t, <1>5, CountIs DEF MarkStatus
<1>10. PICK some \in Nat : some = c["PRESENT"] + c["LATE"] /\ some <= n
  BY <1>9 DEF Total
<1>11. Rounded(some, e, 10000) = 10000
  <2>1. MaxOf(n, e) = e
    BY <1>6 DEF MaxOf
  <2>2. StatusCounts("all", Today) = c
    BY <1>1, <1>9 DEF StatusCounts
  <2>3. TodayRate("all") = Rounded(some, e, 10000)
    BY <1>8, <1>9, <1>10, <2>1, <2>2 DEF TodayRate, PresentismoRate
  <2> QED BY <2>3 DEF FullToday
<1>12. some = e
  BY <1>6, <1>10, <1>11, FullRate
<1> QED BY <1>6, <1>7, <1>8, <1>10, <1>12

-----------------------------------------------------------------------------
\* The longest of finitely many runs.
LEMMA LongestRun ==
  ASSUME NEW S, IsFiniteSet(S), NEW runs \in SUBSET SUBSET S, {} \in runs
  PROVE  /\ Max({Cardinality(run) : run \in runs}) \in Nat
         /\ \A run \in runs : Cardinality(run) \in Nat /\ Cardinality(run) <= Max({Cardinality(r) : r \in runs})
         /\ \E run \in runs : Cardinality(run) = Max({Cardinality(r) : r \in runs})
<1>1. PICK sizes : sizes = {Cardinality(run) : run \in runs}
  OBVIOUS
<1>2. PICK n \in Nat : n = Cardinality(S)
  BY FS_CardinalityType
<1> PICK m \in Nat : m = n + 1
  OBVIOUS
<1>3. ASSUME NEW run \in runs PROVE Cardinality(run) \in Nat /\ Cardinality(run) <= n
  <2>1. run \in SUBSET S
    OBVIOUS
  <2> QED BY <1>2, <2>1, PartFinite
<1>4. PICK more : more = {x + 1 : x \in sizes}
  OBVIOUS
<1>5. more \in SUBSET (1..m) /\ more # {}
  BY <1>1, <1>3, <1>4
<1>6. PICK y \in more : \A z \in more : z <= y
  BY <1>5, LastIn
<1>7. PICK x \in sizes : y = x + 1
  BY <1>4, <1>6
<1>8. ASSUME NEW z \in sizes PROVE z \in Nat /\ z <= x
  <2>1. z \in Nat /\ x \in Nat
    BY <1>1, <1>3, <1>7
  <2>2. z + 1 <= x + 1
    BY <1>4, <1>6, <1>7
  <2> QED BY <2>1, <2>2
<1>9. Max(sizes) \in sizes /\ \A z \in sizes : Max(sizes) >= z
  BY <1>7, <1>8 DEF Max
<1> QED BY <1>1, <1>8, <1>9

\* The runs of days among the days of absence, which the rules look for.
DayRuns(dates) ==
  {run \in SUBSET dates : \A a, b \in run : \A d \in 1..LastLesson : a < d /\ d < b => d \in run}

Longest(runs) == Max({Cardinality(run) : run \in runs})

LEMMA LongestDays ==
  ASSUME NEW dates, IsFiniteSet(dates)
  PROVE  /\ Longest(DayRuns(dates)) \in Nat /\ Longest(DayRuns(dates)) <= Cardinality(dates)
         /\ \E run \in DayRuns(dates) : Cardinality(run) = Longest(DayRuns(dates))
         /\ \A run \in DayRuns(dates) : Cardinality(run) <= Longest(DayRuns(dates))
<1>1. PICK runs : runs = DayRuns(dates)
  OBVIOUS
<1>2. runs \in SUBSET SUBSET dates /\ {} \in runs
  BY <1>1 DEF DayRuns
<1>3. /\ Longest(runs) \in Nat
      /\ \A run \in runs : Cardinality(run) \in Nat /\ Cardinality(run) <= Longest(runs)
      /\ \E run \in runs : Cardinality(run) = Longest(runs)
  BY <1>2, LongestRun DEF Longest
<1>4. PICK run \in runs : Cardinality(run) = Longest(runs)
  BY <1>3
<1>5. run \in SUBSET dates
  BY <1>2
<1>6. Cardinality(run) <= Cardinality(dates)
  BY <1>5, PartFinite
<1> QED BY <1>1, <1>3, <1>4, <1>6

LEMMA LongestGrows ==
  ASSUME NEW dates, IsFiniteSet(dates), NEW some \in SUBSET dates
  PROVE  Longest(DayRuns(some)) <= Longest(DayRuns(dates))
<1>1. IsFiniteSet(some)
  BY PartFinite
<1>2. PICK run \in DayRuns(some) : Cardinality(run) = Longest(DayRuns(some))
  BY <1>1, LongestDays
<1>3. run \in DayRuns(dates)
  BY DEF DayRuns
<1> QED BY <1>2, <1>3, LongestDays

\* The runs of absent marks, which the dashboard looks for.
MarkRuns(rows) ==
  {run \in SUBSET Of(rows, "ABSENT") :
     \A i, j \in run : \A k \in rows : Follows(i, k) /\ Follows(k, j) => k \in run}

LEMMA LongestMarks ==
  ASSUME FiguresTypeOK, NEW rows \in SUBSET DOMAIN register
  PROVE  /\ Longest(MarkRuns(rows)) \in Nat
         /\ \A run \in MarkRuns(rows) : Cardinality(run) <= Longest(MarkRuns(rows))
<1>1. PICK runs : runs = MarkRuns(rows)
  OBVIOUS
<1>2. PICK S : S = Of(rows, "ABSENT") /\ IsFiniteSet(S)
  BY CountIs DEF MarkStatus
<1>3. runs \in SUBSET SUBSET S /\ {} \in runs
  BY <1>1, <1>2 DEF MarkRuns
<1>4. Longest(runs) \in Nat /\ \A run \in runs : Cardinality(run) <= Longest(runs)
  BY <1>2, <1>3, LongestRun DEF Longest
<1> QED BY <1>1, <1>4

LEMMA RunsAre ==
  ASSUME NEW rows
  PROVE  CountConsecutiveAbsences(rows) = Longest(DayRuns(AbsentDates(rows)))
  BY DEF CountConsecutiveAbsences, Longest, DayRuns

LEMMA MarkRunsAre ==
  ASSUME NEW a, NEW q, NEW p
  PROVE  ConsecutiveMarks(a, q, p) = Longest(MarkRuns({i \in Scoped(a, q) : register[i].learner = p}))
  BY DEF ConsecutiveMarks, Longest, MarkRuns, Of

\* The days of absence are no more than the absent marks.
LEMMA AbsentDays ==
  ASSUME FiguresInv, NEW rows \in SUBSET DOMAIN register
  PROVE  /\ IsFiniteSet(AbsentDates(rows)) /\ AbsentDates(rows) \subseteq Nat
         /\ Cardinality(AbsentDates(rows)) \in Nat
         /\ Cardinality(AbsentDates(rows)) <= Cardinality(Of(rows, "ABSENT"))
<1>1. PICK S : S = Of(rows, "ABSENT") /\ IsFiniteSet(S)
  BY DatesAre, CountIs DEF MarkStatus
<1>2. PICK f : f = [i \in S |-> register[i].lesson.date]
  OBVIOUS
<1>3. AbsentDates(rows) = {f[i] : i \in S}
  BY <1>1, <1>2 DEF AbsentDates, Of
<1>4. AbsentDates(rows) \subseteq Nat
  BY DatesAre DEF AbsentDates
<1> QED BY <1>1, <1>3, <1>4, ImageFinite

LEMMA RunsHold == ASSUME FiguresInv PROVE RunsCompare
<1> DEFINE Even(rows) == \A i, j \in rows : register[i].lesson.date = register[j].lesson.date =>
                           (register[i].status = "ABSENT" <=> register[j].status = "ABSENT")
           since == [Anything EXCEPT !.from = day - PeriodDays]
<1> SUFFICES ASSUME NEW p \in Classmates, Even(EvaluatedMarks(p))
             PROVE  CountConsecutiveAbsences(EvaluatedMarks(p)) <= ConsecutiveMarks("all", since, p)
  BY DEF RunsCompare
<1>1. PICK rows \in SUBSET DOMAIN register : rows = EvaluatedMarks(p)
  BY DEF EvaluatedMarks
<1>2. {i \in Scoped("all", since) : register[i].learner = p} = rows
  <2>1. day - PeriodDays \in Int /\ None \notin Int
    BY DatesAre, FiguresAssumption, TermAssumption DEF FiguresAssumption, TermAssumption
  <2>2. /\ since.from = day - PeriodDays /\ since.from # None /\ since.to = None /\ since.group = None
        /\ since.subject = None /\ since.status = None
    BY <2>1 DEF Anything
  <2>3. \A i \in DOMAIN register : Within(register[i].lesson.date, since) <=> register[i].lesson.date >= day - PeriodDays
    BY <2>1, <2>2, DatesAre DEF Within
  <2> HIDE DEF since
  <2> QED BY <1>1, <2>2, <2>3 DEF Scoped, EvaluatedMarks, Asked
<1>3. PICK run \in DayRuns(AbsentDates(rows)) : Cardinality(run) = CountConsecutiveAbsences(rows)
  BY AbsentDays, LongestDays, RunsAre
<1>4. PICK found : found = {i \in Of(rows, "ABSENT") : register[i].lesson.date \in run}
  OBVIOUS
<1>5. found \in MarkRuns(rows)
  <2>1. ASSUME NEW i \in found, NEW j \in found, NEW k \in rows, Follows(i, k), Follows(k, j) PROVE k \in found
    <3>1. PICK a \in Nat, b \in Nat, d \in Nat :
            /\ a = register[i].lesson.date /\ b = register[j].lesson.date /\ d = register[k].lesson.date
            /\ d >= 1 /\ d <= LastLesson /\ LastLesson \in Nat
      <4>1. i \in DOMAIN register /\ j \in DOMAIN register /\ k \in DOMAIN register
        BY <1>4 DEF Of
      <4>2. day \in Nat /\ day <= LastLesson /\ LastLesson \in Nat /\ register[k].lesson.date <= day
        BY <4>1, DatesAre
      <4> QED BY <4>1, <4>2, DatesAre
    <3>2. a <= d /\ d <= b
      BY <2>1, <3>1 DEF Follows
    <3>3. a \in run /\ b \in run
      BY <1>4, <3>1
    <3>4. d \in run
      BY <3>1, <3>2, <3>3 DEF DayRuns
    <3>5. PICK m \in rows : register[m].status = "ABSENT" /\ register[m].lesson.date = d
      BY <3>4 DEF DayRuns, AbsentDates
    <3>6. register[k].status = "ABSENT"
      BY <1>1, <3>1, <3>5
    <3> QED BY <1>4, <3>1, <3>4, <3>6 DEF Of
  <2>2. found \in SUBSET Of(rows, "ABSENT")
    BY <1>4
  <2> QED BY <2>1, <2>2 DEF MarkRuns
<1>6. Cardinality(run) <= Cardinality(found) /\ Cardinality(run) \in Nat /\ Cardinality(found) \in Nat
  <2>1. PICK f : f = [i \in found |-> register[i].lesson.date]
    OBVIOUS
  <2>2. run = {f[i] : i \in found}
    <3>1. \A i \in found : f[i] \in run
      BY <1>4, <2>1
    <3>2. ASSUME NEW d \in run PROVE \E i \in found : f[i] = d
      <4>1. PICK i \in rows : register[i].status = "ABSENT" /\ register[i].lesson.date = d
        BY DEF DayRuns, AbsentDates
      <4>2. i \in found
        BY <1>4, <4>1 DEF Of
      <4> QED BY <2>1, <4>1, <4>2
    <3> QED BY <3>1, <3>2
  <2>3. found \in SUBSET DOMAIN register
    BY <1>4 DEF Of
  <2>4. IsFiniteSet(found) /\ Cardinality(found) \in Nat
    BY <2>3, DatesAre, CountIs
  <2> QED BY <2>2, <2>4, ImageFinite
<1>7. ConsecutiveMarks("all", since, p) = Longest(MarkRuns(rows))
  BY <1>2, MarkRunsAre
<1>8. Cardinality(found) <= Longest(MarkRuns(rows)) /\ Longest(MarkRuns(rows)) \in Nat
  BY <1>5, DatesAre, LongestMarks
<1> HIDE DEF since
<1> QED BY <1>1, <1>3, <1>6, <1>7, <1>8

-----------------------------------------------------------------------------
\* The risk of a student, from what he missed (this month and in all), what he came to
\* (late or excused, too) and his longest run of absent days.
HighBy(month, missed, came, run) ==
  \/ month >= MonthHigh
  \/ came + missed > 0 /\ Rounded(came, came + missed, 1000) < 10 * PercentMin
  \/ run >= RunHigh
  \/ missed >= PeriodHigh

RiskBy(month, missed, came, run) ==
  IF HighBy(month, missed, came, run) THEN 3 ELSE IF month >= MonthMedium THEN 2 ELSE 1

MissedMonth(p) == {i \in Of(EvaluatedMarks(p), "ABSENT") : InMonth(register[i].lesson.date)}
Missed(p) == Of(EvaluatedMarks(p), "ABSENT")
Came(p) == {i \in EvaluatedMarks(p) : register[i].status # "ABSENT"}
DaysMissed(p) == AbsentDates(EvaluatedMarks(p))

RiskKnown(p) ==
  /\ IsFiniteSet(MissedMonth(p)) /\ IsFiniteSet(Missed(p)) /\ IsFiniteSet(Came(p)) /\ IsFiniteSet(DaysMissed(p))
  /\ RiskLevel(p) = RiskBy(Cardinality(MissedMonth(p)), Cardinality(Missed(p)), Cardinality(Came(p)),
                           Longest(DayRuns(DaysMissed(p))))

LEMMA RiskIs == ASSUME FiguresInv, NEW p PROVE RiskKnown(p)
<1>1. PICK rows \in SUBSET DOMAIN register : rows = EvaluatedMarks(p)
  BY DEF EvaluatedMarks
<1>2. PICK c : c = Count(rows)
  OBVIOUS
<1>3. /\ \A s \in MarkStatus : c[s] = Cardinality(Of(rows, s)) /\ c[s] \in Nat /\ IsFiniteSet(Of(rows, s))
      /\ Total(c) = Cardinality(rows) /\ Cardinality(rows) \in Nat /\ IsFiniteSet(rows)
  BY <1>2, DatesAre, CountIs
<1>4. PICK missed \in Nat : missed = c["ABSENT"] /\ missed = Cardinality(Missed(p)) /\ IsFiniteSet(Missed(p))
  BY <1>1, <1>3 DEF Missed, MarkStatus
<1>5. PICK came \in Nat : came = c["PRESENT"] + c["LATE"] + c["JUSTIFIED"]
  BY <1>3 DEF MarkStatus
<1>6. Total(c) = came + missed
  BY <1>3, <1>4, <1>5 DEF Total, MarkStatus
<1>7. IsFiniteSet(Came(p)) /\ came = Cardinality(Came(p))
  <2>1. Came(p) \in SUBSET rows /\ Missed(p) \in SUBSET rows /\ rows = Came(p) \cup Missed(p) /\ Came(p) \cap Missed(p) = {}
    BY <1>1 DEF Came, Missed, Of
  <2>2. IsFiniteSet(Came(p)) /\ Cardinality(Came(p)) \in Nat
    BY <1>3, <2>1, PartFinite
  <2>3. Cardinality(Came(p) \cup Missed(p)) = Cardinality(Came(p)) + Cardinality(Missed(p))
    BY <1>4, <2>1, <2>2, ApartAdd
  <2>4. PICK n \in Nat : n = Cardinality(Came(p))
    BY <2>2
  <2>5. came + missed = n + missed
    BY <1>3, <1>4, <1>6, <2>1, <2>3, <2>4
  <2>6. came = n
    BY <2>5
  <2> QED BY <2>2, <2>4, <2>6
<1>8. PICK month \in Nat : month = Cardinality(MissedMonth(p)) /\ month = UnjustifiedMonth(rows) /\ IsFiniteSet(MissedMonth(p))
  <2>1. MissedMonth(p) \in SUBSET Missed(p)
    BY DEF MissedMonth, Missed
  <2>2. IsFiniteSet(MissedMonth(p)) /\ Cardinality(MissedMonth(p)) \in Nat
    BY <1>4, <2>1, PartFinite
  <2>3. MissedMonth(p) = {i \in rows : register[i].status = "ABSENT" /\ InMonth(register[i].lesson.date)}
    BY <1>1 DEF MissedMonth, Of
  <2> QED BY <2>2, <2>3 DEF UnjustifiedMonth
<1>9. PICK run \in Nat : run = CountConsecutiveAbsences(rows) /\ run = Longest(DayRuns(DaysMissed(p)))
  BY <1>1, AbsentDays, LongestDays, RunsAre DEF DaysMissed
<1>10. Total(c) > 0 => AttendancePercent(c) = Rounded(came, came + missed, 1000)
  BY <1>4, <1>5, <1>6 DEF AttendancePercent
<1>11. RiskLevel(p) = RiskBy(month, missed, came, run)
  <2>1. RiskLevel(p) = IF \/ month >= MonthHigh
                          \/ Total(c) > 0 /\ AttendancePercent(c) < 10 * PercentMin
                          \/ run >= RunHigh
                          \/ missed >= PeriodHigh
                       THEN 3 ELSE IF month >= MonthMedium THEN 2 ELSE 1
    BY <1>1, <1>2, <1>4, <1>8, <1>9 DEF RiskLevel
  <2> QED BY <1>4, <1>5, <1>6, <1>10, <2>1 DEF RiskBy, HighBy
<1>12. IsFiniteSet(DaysMissed(p))
  BY <1>1, AbsentDays DEF DaysMissed
<1> QED BY <1>4, <1>7, <1>8, <1>9, <1>11, <1>12 DEF RiskKnown

-----------------------------------------------------------------------------
\* A rate below a percentage.
LEMMA RateBelow ==
  ASSUME NEW some \in Nat, NEW whole \in Nat, whole > 0, NEW scale \in Nat, NEW k \in Nat
  PROVE  Rounded(some, whole, scale) < k <=> 2 * some * scale + whole < 2 * (whole * k)
<1>1. PICK x \in Nat : x = 2 * some * scale
  OBVIOUS
<1>2. PICK a \in Nat : a = x + whole
  OBVIOUS
<1>3. PICK b \in Nat : b = 2 * whole /\ b > 0
  OBVIOUS
<1>4. Rounded(some, whole, scale) = a \div b
  BY <1>1, <1>2, <1>3 DEF Rounded
<1>5. b * k = 2 * (whole * k)
  BY <1>3
<1>6. a \div b < k <=> a < b * k
  BY <1>2, <1>3, DivBelow
<1> QED BY <1>1, <1>2, <1>4, <1>5, <1>6

\* Whoever comes too rarely for the rules misses too much for the dashboard.
LEMMA RareIsCritical ==
  ASSUME NEW came \in Nat, NEW missed \in Nat, came + missed > 0,
         Rounded(came, came + missed, 1000) < 10 * PercentMin
  PROVE  missed > 0 /\ Rounded(missed, came + missed, 10000) >= 100 * CriticalRate
<1>1. PICK low \in Nat : low = PercentMin
  BY FiguresAssumption DEF FiguresAssumption
<1>2. PICK high \in Nat : high = CriticalRate /\ low + high <= 100
  BY <1>1, FiguresAssumption DEF FiguresAssumption
<1>3. PICK all \in Nat : all = came + missed /\ all > 0
  OBVIOUS
<1>4. PICK x \in Nat : x = all * low
  BY <1>3
<1>5. PICK y \in Nat : y = all * high
  BY <1>3
<1>6. x + y <= all * 100
  <2>1. PICK k \in Nat : k = low + high
    OBVIOUS
  <2>2. all * k <= all * 100
    BY <1>2, <2>1, ProductGrows
  <2>3. all * k = x + y
    BY <1>4, <1>5, <2>1
  <2> QED BY <2>2, <2>3
<1>7. 2000 * came + all < 20 * x
  <2>1. PICK k \in Nat : k = 10 * low
    OBVIOUS
  <2>2. 2 * came * 1000 + all < 2 * (all * k)
    BY <1>1, <1>3, <2>1, RateBelow
  <2>3. all * k = 10 * x
    BY <1>4, <2>1
  <2> QED BY <2>2, <2>3
<1>8. 200 * y < 20000 * missed
  BY <1>3, <1>6, <1>7
<1>9. ~(Rounded(missed, all, 10000) < 100 * high)
  <2>1. PICK k \in Nat : k = 100 * high
    OBVIOUS
  <2>2. all * k = 100 * y
    BY <1>5, <2>1
  <2>3. ~(2 * missed * 10000 + all < 2 * (all * k))
    BY <1>8, <2>2
  <2> QED BY <1>3, <2>1, <2>3, RateBelow
<1>10. Rounded(missed, all, 10000) \in Int
  <2>1. PICK a \in Nat, b \in Nat : a = 2 * missed * 10000 + all /\ b = 2 * all /\ b > 0
    BY <1>3
  <2>2. Rounded(missed, all, 10000) = a \div b
    BY <1>3, <2>1 DEF Rounded
  <2> QED BY <2>1, <2>2, DivIs
<1> QED BY <1>2, <1>3, <1>8, <1>9, <1>10

\* Missing more and coming less is no better.
LEMMA RarerIsRare ==
  ASSUME NEW came \in Nat, NEW missed \in Nat, came + missed > 0,
         Rounded(came, came + missed, 1000) < 10 * PercentMin,
         NEW less \in Nat, less <= came, NEW more \in Nat, missed <= more, less + more > 0
  PROVE  Rounded(less, less + more, 1000) < 10 * PercentMin
<1>1. PICK low \in Nat : low = PercentMin /\ low <= 100
  BY FiguresAssumption DEF FiguresAssumption
<1>2. PICK all \in Nat : all = came + missed /\ all > 0
  OBVIOUS
<1>3. PICK now \in Nat : now = less + more /\ now > 0
  OBVIOUS
<1>4. PICK c \in Nat : c = came * low
  BY <1>1
<1>5. PICK m \in Nat : m = missed * low
  BY <1>1
<1>6. PICK k \in Nat : k = 10 * low
  BY <1>1
<1>7. 2000 * came + all < 20 * (c + m)
  <2>1. 2 * came * 1000 + all < 2 * (all * k)
    BY <1>1, <1>2, <1>6, RateBelow
  <2>2. all * k = 10 * (c + m)
    BY <1>2, <1>4, <1>5, <1>6
  <2> QED BY <2>1, <2>2
<1>8. low >= 1
  BY <1>1, <1>4, <1>5, <1>7
<1>9. PICK d \in Nat : came = less + d
  <2>1. came - less \in Nat /\ came = less + (came - less)
    OBVIOUS
  <2> QED BY <2>1
<1>10. PICK e \in Nat : more = missed + e
  <2>1. more - missed \in Nat /\ more = missed + (more - missed)
    OBVIOUS
  <2> QED BY <2>1
<1>11. PICK dl \in Nat : dl = d * low /\ dl <= d * 100
  BY <1>1, ProductGrows
<1>12. PICK el \in Nat : el = e * low /\ e <= el
  <2>1. e * 1 <= e * low
    BY <1>1, <1>8, ProductGrows
  <2> QED BY <1>1, <2>1
<1>13. now * low = c - dl + m + el
  <2>1. less * low = c - dl
    BY <1>1, <1>4, <1>9, <1>11
  <2>2. more * low = m + el
    BY <1>1, <1>5, <1>10, <1>12
  <2>3. now * low = less * low + more * low
    BY <1>1, <1>3
  <2> QED BY <1>4, <1>5, <1>11, <1>12, <2>1, <2>2, <2>3
<1>14. 2000 * less + now < 20 * (c - dl + m + el)
  BY <1>2, <1>3, <1>7, <1>9, <1>10, <1>11, <1>12
<1>15. now * k = 10 * (c - dl + m + el)
  <2>1. now * k = 10 * (now * low)
    BY <1>1, <1>3, <1>6
  <2> QED BY <1>13, <2>1
<1>16. 2 * less * 1000 + now < 2 * (now * k)
  BY <1>14, <1>15
<1> QED BY <1>1, <1>3, <1>6, <1>16, RateBelow

\* Whoever the rules find at high risk missed something, and enough for the dashboard.
LEMMA HighIsCritical ==
  ASSUME NEW month \in Nat, NEW missed \in Nat, NEW came \in Nat, NEW run \in Nat,
         month <= missed, run <= missed, HighBy(month, missed, came, run)
  PROVE  /\ missed > 0
         /\ \/ Rounded(missed, came + missed, 10000) >= 100 * CriticalRate
            \/ missed >= CriticalAbsences
<1>1. /\ CriticalAbsences \in Nat /\ CriticalAbsences > 0
      /\ MonthHigh \in Nat /\ RunHigh \in Nat /\ PeriodHigh \in Nat
      /\ CriticalAbsences <= MonthHigh /\ CriticalAbsences <= RunHigh /\ CriticalAbsences <= PeriodHigh
  BY FiguresAssumption DEF FiguresAssumption
<1>2. CASE month >= MonthHigh \/ run >= RunHigh \/ missed >= PeriodHigh
  BY <1>1, <1>2
<1>3. CASE came + missed > 0 /\ Rounded(came, came + missed, 1000) < 10 * PercentMin
  BY <1>3, RareIsCritical
<1> QED BY <1>2, <1>3 DEF HighBy

LEMMA ShownHolds == ASSUME FiguresInv PROVE RiskShown
<1> DEFINE W == Window(Anything)
           InView(p) == \A i \in EvaluatedMarks(p) : Within(register[i].lesson.date, W)
<1> SUFFICES ASSUME NEW g \in DOMAIN Rosters, NEW p \in Rosters[g], RiskLevel(p) = 3, InView(p)
             PROVE  <<p, g>> \in DashboardAlerts("all", Anything)
  BY DEF RiskShown
<1>t. FiguresTypeOK
  BY DEF FiguresInv
<1>1. PICK rows \in SUBSET DOMAIN register : rows = EvaluatedMarks(p)
  BY DEF EvaluatedMarks
<1>2. \A i \in DOMAIN register : Within(register[i].lesson.date, W) => register[i].lesson.date >= day - PeriodDays
  <2>1. WindowDays \in Nat /\ PeriodDays \in Nat /\ WindowDays <= PeriodDays /\ WindowDays > 0 /\ None \notin Int
    BY FiguresAssumption, TermAssumption DEF FiguresAssumption, TermAssumption
  <2>2. day - (WindowDays - 1) \in Int /\ day \in Nat
    BY <2>1, DatesAre
  <2>3. W.from = day - (WindowDays - 1) /\ W.from # None
    BY <2>1, <2>2 DEF Window, Anything
  <2> HIDE DEF W
  <2>4. ASSUME NEW i \in DOMAIN register, Within(register[i].lesson.date, W)
        PROVE  register[i].lesson.date >= day - PeriodDays
    <3>1. day - (WindowDays - 1) <= register[i].lesson.date /\ register[i].lesson.date \in Nat
      BY <2>3, <2>4, DatesAre DEF Within
    <3> QED BY <2>1, <2>2, <3>1
  <2> QED BY <2>4
<1>3. {i \in Scoped("all", W) : register[i].learner = p} = rows
  <2>1. W.group = None /\ W.subject = None /\ W.status = None
    BY DEF Window, Anything
  <2>2. rows = {i \in DOMAIN register : register[i].learner = p /\ Within(register[i].lesson.date, W)}
    BY <1>1, <1>2 DEF EvaluatedMarks
  <2> HIDE DEF W
  <2> QED BY <2>1, <2>2 DEF Scoped, Asked
<1>4. \A i \in rows : register[i].lesson.group = g
  BY <1>1, <1>t, MarksAre, TermAssumption DEF TermAssumption, FiguresInv, MarksInPlace, EvaluatedMarks
<1> HIDE DEF W
<1>5. PICK key : key = [i \in Scoped("all", W) |-> <<register[i].learner, register[i].lesson.group>>]
  OBVIOUS
<1>6. {i \in DOMAIN key : key[i] = <<p, g>>} = rows
  BY <1>3, <1>4, <1>5
<1>7. PICK rates : rates = GroupedBy(key)
  OBVIOUS
<1>8. rows # {} => <<p, g>> \in DOMAIN rates
  BY <1>6, <1>7 DEF GroupedBy
<1>9. rows # {} => rates[<<p, g>>] = Count(rows)
  BY <1>6, <1>7 DEF GroupedBy
<1>10. PICK month \in Nat, missed \in Nat, came \in Nat, run \in Nat :
         /\ missed = Cardinality(Missed(p)) /\ came = Cardinality(Came(p))
         /\ month <= missed /\ run <= missed /\ RiskLevel(p) = RiskBy(month, missed, came, run)
         /\ IsFiniteSet(Missed(p)) /\ IsFiniteSet(Came(p))
  <2>1. RiskKnown(p)
    BY RiskIs
  <2>2. MissedMonth(p) \in SUBSET Missed(p)
    BY DEF MissedMonth, Missed
  <2>3. Cardinality(MissedMonth(p)) \in Nat /\ Cardinality(Missed(p)) \in Nat /\ Cardinality(MissedMonth(p)) <= Cardinality(Missed(p))
    BY <2>1, <2>2, PartFinite DEF RiskKnown
  <2>4. Cardinality(Came(p)) \in Nat
    BY <2>1, FS_CardinalityType DEF RiskKnown
  <2>5. PICK run \in Nat : run = Longest(DayRuns(DaysMissed(p))) /\ run <= Cardinality(DaysMissed(p))
    BY <2>1, LongestDays DEF RiskKnown
  <2>6. Cardinality(DaysMissed(p)) \in Nat /\ Cardinality(DaysMissed(p)) <= Cardinality(Missed(p))
    BY <1>1, AbsentDays DEF DaysMissed, Missed
  <2>7. run <= Cardinality(Missed(p))
    BY <2>3, <2>5, <2>6
  <2> QED BY <2>1, <2>3, <2>4, <2>5, <2>7 DEF RiskKnown
<1>11. /\ missed > 0
       /\ \/ Rounded(missed, came + missed, 10000) >= 100 * CriticalRate
          \/ missed >= CriticalAbsences
  <2>1. HighBy(month, missed, came, run)
    <3>1. RiskBy(month, missed, came, run) = 3
      BY <1>10
    <3> QED BY <3>1 DEF RiskBy
  <2> QED BY <1>10, <2>1, HighIsCritical
<1>12. rows # {} /\ Count(rows)["ABSENT"] = missed
  <2>1. Missed(p) = Of(rows, "ABSENT")
    BY <1>1 DEF Missed
  <2>2. Count(rows)["ABSENT"] = missed
    BY <1>t, <1>10, <2>1, CountIs DEF MarkStatus
  <2>3. rows # {}
    <3>1. Missed(p) # {}
      BY <1>10, <1>11, FS_EmptySet
    <3> QED BY <2>1, <3>1 DEF Of
  <2> QED BY <2>2, <2>3
<1>13. Total(Count(rows)) = came + missed
  <2>1. rows = Came(p) \cup Missed(p) /\ Came(p) \cap Missed(p) = {}
    BY <1>1 DEF Came, Missed, Of
  <2>2. Cardinality(Came(p) \cup Missed(p)) = came + missed
    BY <1>10, <2>1, ApartAdd
  <2> QED BY <1>t, <2>1, <2>2, CountIs
<1>14. /\ <<p, g>> \in DOMAIN rates /\ rates[<<p, g>>]["ABSENT"] = missed
       /\ Total(rates[<<p, g>>]) = came + missed
  BY <1>8, <1>9, <1>12, <1>13
<1>15. DashboardAlerts("all", Anything) =
         {k \in DOMAIN rates : LET absent == rates[k]["ABSENT"] IN
            /\ absent > 0
            /\ \/ Rounded(absent, Total(rates[k]), 10000) >= 100 * CriticalRate
               \/ ConsecutiveMarks("all", W, k[1]) >= CriticalAbsences
               \/ absent >= CriticalAbsences}
  BY <1>5, <1>7 DEF DashboardAlerts, W
<1> QED BY <1>11, <1>14, <1>15

-----------------------------------------------------------------------------
\* The same, of any list of marks on any day: what is compared of two of them.
KeptOf(list, today, p) ==
  {i \in DOMAIN list : list[i].learner = p /\ list[i].lesson.date >= today - PeriodDays}
MissedOf(list, today, p) == {i \in KeptOf(list, today, p) : list[i].status = "ABSENT"}
CameOf(list, today, p) == {i \in KeptOf(list, today, p) : list[i].status # "ABSENT"}
MonthMissedOf(list, today, p) ==
  {i \in MissedOf(list, today, p) : MonthOf(list[i].lesson.date) = MonthOf(today)}
DaysOf(list, today, p) == {list[i].lesson.date : i \in MissedOf(list, today, p)}

RiskSetsFinite(list, today, p) ==
  /\ IsFiniteSet(MissedOf(list, today, p)) /\ IsFiniteSet(CameOf(list, today, p))
  /\ IsFiniteSet(MonthMissedOf(list, today, p)) /\ IsFiniteSet(DaysOf(list, today, p))

RiskOf(list, today, p) ==
  RiskBy(Cardinality(MonthMissedOf(list, today, p)), Cardinality(MissedOf(list, today, p)),
         Cardinality(CameOf(list, today, p)), Longest(DayRuns(DaysOf(list, today, p))))

RisksKnown ==
  \A p \in Classmates : RiskSetsFinite(register, day, p) /\ RiskLevel(p) = RiskOf(register, day, p)

LEMMA RisksAre == FiguresInv => RisksKnown
<1> SUFFICES ASSUME FiguresInv, NEW p \in Classmates
             PROVE  RiskSetsFinite(register, day, p) /\ RiskLevel(p) = RiskOf(register, day, p)
  BY DEF RisksKnown
<1>1. RiskKnown(p)
  BY RiskIs
<1>2. /\ Missed(p) = MissedOf(register, day, p) /\ Came(p) = CameOf(register, day, p)
      /\ MissedMonth(p) = MonthMissedOf(register, day, p)
  BY DEF Missed, Came, MissedMonth, Of, EvaluatedMarks, KeptOf, MissedOf, CameOf, MonthMissedOf, InMonth
<1>3. DaysMissed(p) = DaysOf(register, day, p)
  BY DEF DaysMissed, AbsentDates, EvaluatedMarks, KeptOf, MissedOf, DaysOf
<1> QED BY <1>1, <1>2, <1>3 DEF RiskKnown, RiskSetsFinite, RiskOf

LEMMA RiskByGrows ==
  ASSUME NEW month \in Nat, NEW missed \in Nat, NEW came \in Nat, NEW run \in Nat,
         NEW months \in Nat, NEW more \in Nat, NEW less \in Nat, NEW runs \in Nat,
         month <= months, missed <= more, less <= came, run <= runs,
         came + missed > 0 => less + more > 0
  PROVE  RiskBy(months, more, less, runs) >= RiskBy(month, missed, came, run)
<1>1. MonthHigh \in Nat /\ RunHigh \in Nat /\ PeriodHigh \in Nat /\ MonthMedium \in Nat
  BY FiguresAssumption DEF FiguresAssumption
<1>2. ASSUME HighBy(month, missed, came, run) PROVE HighBy(months, more, less, runs)
  <2>1. CASE month >= MonthHigh \/ run >= RunHigh \/ missed >= PeriodHigh
    BY <1>1, <2>1 DEF HighBy
  <2>2. CASE came + missed > 0 /\ Rounded(came, came + missed, 1000) < 10 * PercentMin
    <3>1. less + more > 0
      BY <2>2
    <3>2. Rounded(less, less + more, 1000) < 10 * PercentMin
      BY <2>2, <3>1, RarerIsRare
    <3> QED BY <3>1, <3>2 DEF HighBy
  <2> QED BY <1>2, <2>1, <2>2 DEF HighBy
<1>3. month >= MonthMedium => months >= MonthMedium
  BY <1>1
<1> QED BY <1>2, <1>3 DEF RiskBy

\* One list of marks shows all absences of another one, and no more that came.
Worse(list, other) ==
  /\ \A i \in DOMAIN other :
       /\ i \in DOMAIN list /\ list[i].learner = other[i].learner /\ list[i].lesson = other[i].lesson
       /\ other[i].status = "ABSENT" => list[i].status = "ABSENT"
  /\ \A i \in DOMAIN list : list[i].status # "ABSENT" => i \in DOMAIN other /\ other[i].status # "ABSENT"

LEMMA WorseIsRiskier ==
  ASSUME NEW list, NEW other, NEW today, NEW p, Worse(list, other),
         RiskSetsFinite(list, today, p), RiskSetsFinite(other, today, p)
  PROVE  RiskOf(list, today, p) >= RiskOf(other, today, p)
<1>1. /\ MissedOf(other, today, p) \in SUBSET MissedOf(list, today, p)
      /\ CameOf(list, today, p) \in SUBSET CameOf(other, today, p)
      /\ KeptOf(other, today, p) \in SUBSET KeptOf(list, today, p)
  BY DEF Worse, KeptOf, MissedOf, CameOf
<1>2. MonthMissedOf(other, today, p) \in SUBSET MonthMissedOf(list, today, p)
  BY <1>1 DEF Worse, KeptOf, MissedOf, MonthMissedOf
<1>3. DaysOf(other, today, p) \in SUBSET DaysOf(list, today, p)
  BY <1>1 DEF Worse, KeptOf, MissedOf, DaysOf
<1>4. PICK month \in Nat, months \in Nat :
        month = Cardinality(MonthMissedOf(other, today, p)) /\ months = Cardinality(MonthMissedOf(list, today, p)) /\ month <= months
  BY <1>2, PartFinite DEF RiskSetsFinite
<1>5. PICK missed \in Nat, more \in Nat :
        missed = Cardinality(MissedOf(other, today, p)) /\ more = Cardinality(MissedOf(list, today, p)) /\ missed <= more
  BY <1>1, PartFinite DEF RiskSetsFinite
<1>6. PICK came \in Nat, less \in Nat :
        came = Cardinality(CameOf(other, today, p)) /\ less = Cardinality(CameOf(list, today, p)) /\ less <= came
  BY <1>1, PartFinite DEF RiskSetsFinite
<1>7. PICK run \in Nat, runs \in Nat :
        /\ run = Longest(DayRuns(DaysOf(other, today, p))) /\ runs = Longest(DayRuns(DaysOf(list, today, p)))
        /\ run <= runs
  BY <1>3, LongestDays, LongestGrows DEF RiskSetsFinite
<1>8. ASSUME came + missed > 0 PROVE less + more > 0
  <2>1. CameOf(other, today, p) # {} \/ MissedOf(other, today, p) # {}
    <3> SUFFICES ASSUME CameOf(other, today, p) = {}, MissedOf(other, today, p) = {} PROVE FALSE
      OBVIOUS
    <3>1. came = 0 /\ missed = 0
      BY <1>5, <1>6, FS_EmptySet
    <3> QED BY <1>8, <3>1
  <2>2. CameOf(list, today, p) # {} \/ MissedOf(list, today, p) # {}
    BY <1>1, <2>1 DEF CameOf, MissedOf
  <2>3. less # 0 \/ more # 0
    BY <1>5, <1>6, <2>2, FS_EmptySet DEF RiskSetsFinite
  <2> QED BY <2>3
<1>9. RiskBy(months, more, less, runs) >= RiskBy(month, missed, came, run)
  BY <1>4, <1>5, <1>6, <1>7, <1>8, RiskByGrows
<1> QED BY <1>4, <1>5, <1>6, <1>7, <1>9 DEF RiskOf

LEMMA RiskIsNumber == \A list, today, p : RiskOf(list, today, p) \in Nat
  BY DEF RiskOf, RiskBy

LEMMA StatusChanged ==
  ASSUME NEW S, NEW T, NEW mark \in [lesson : S, learner : T, status : MarkStatus], NEW s
  PROVE  /\ [mark EXCEPT !.status = s].learner = mark.learner
         /\ [mark EXCEPT !.status = s].lesson = mark.lesson
  OBVIOUS

LEMMA Appended ==
  ASSUME NEW M, NEW list \in Seq(M), NEW m, NEW n, n = Len(list)
  PROVE  /\ Len(Append(list, m)) = n + 1 /\ DOMAIN Append(list, m) = 1..(n + 1)
         /\ Append(list, m)[n + 1] = m /\ \A i \in 1..n : Append(list, m)[i] = list[i]
  OBVIOUS

LEMMA Changed ==
  ASSUME NEW M, NEW list \in Seq(M), NEW i, NEW m
  PROVE  Len([list EXCEPT ![i] = m]) = Len(list)
  OBVIOUS

\* A step of the classes shows more of the marks, or changes the status of one.
LEMMA RegisterMoves ==
  ASSUME FiguresTypeOK, [FiguresNext]_figureVars
  PROVE  \/ /\ DOMAIN register' = DOMAIN register /\ Len(register') = Len(register)
            /\ \A i \in DOMAIN register : /\ register'[i].learner = register[i].learner
                                          /\ register'[i].lesson = register[i].lesson
         \/ /\ DOMAIN register' = DOMAIN register \cup {Len(register')}
            /\ \A i \in DOMAIN register : register'[i] = register[i]
            /\ Len(register') > Len(register)
<1>t. Len(register) \in Nat /\ DOMAIN register = 1..Len(register)
  BY MarksAre
<1> PICK M : M = [lesson : started, learner : Classmates, status : MarkStatus]
  OBVIOUS
<1>r. register \in Seq(M)
  BY DEF FiguresTypeOK
<1>1. CASE register' = register
  BY <1>1
<1>2. CASE MarkLearner
  <2>1. PICK m : register' = Append(register, m)
    BY <1>2 DEF MarkLearner
  <2>2. PICK n \in Nat : n = Len(register)
    BY <1>t
  <2>3. Len(register') = n + 1 /\ DOMAIN register' = 1..(n + 1) /\ \A i \in 1..n : register'[i] = register[i]
    BY <1>r, <2>1, <2>2, Appended
  <2>4. 1..(n + 1) = 1..n \cup {n + 1} /\ n + 1 > n
    BY <2>2
  <2> QED BY <1>t, <2>2, <2>3, <2>4
<1>3. CASE ChangeMark
  <2>1. PICK i \in DOMAIN register, s \in MarkStatus : register' = [register EXCEPT ![i].status = s]
    BY <1>3 DEF ChangeMark
  <2>2. register[i] \in M
    BY <1>r, <2>1, RowsOfList
  <2>3. register' = [register EXCEPT ![i] = [register[i] EXCEPT !.status = s]]
    BY <2>1
  <2>4. PICK m : m = [register[i] EXCEPT !.status = s] /\ m.learner = register[i].learner /\ m.lesson = register[i].lesson
    BY <2>2, StatusChanged
  <2>5. DOMAIN register' = DOMAIN register /\ register'[i] = m /\ \A j \in DOMAIN register : j # i => register'[j] = register[j]
    BY <2>1, <2>3, <2>4
  <2>6. Len(register') = Len(register)
    BY <1>r, <1>t, <2>3, Changed
  <2> QED BY <2>4, <2>5, <2>6
<1> QED BY <1>1, <1>2, <1>3 DEF FiguresNext, StartLesson, DayPasses, figureVars

LEMMA RisksFollow ==
  ASSUME FiguresInv, FiguresInv', [FiguresNext]_figureVars
  PROVE  RiskFollows
<1>1. RisksKnown
  BY RisksAre
<1>2. RisksKnown'
  BY RisksAre, PTL
<1> SUFFICES ASSUME NEW p \in Classmates, day' = day
             PROVE  /\ Len(register') > Len(register) /\ register'[Len(register')].status = "ABSENT"
                       => RiskLevel(p)' >= RiskLevel(p)
                    /\ /\ Len(register') = Len(register)
                       /\ \A i \in DOMAIN register : register'[i] # register[i] =>
                            register[i].status = "ABSENT" /\ register'[i].status = "JUSTIFIED"
                       => RiskLevel(p)' <= RiskLevel(p)
  BY DEF RiskFollows
<1>3. /\ RiskLevel(p) = RiskOf(register, day, p) /\ RiskSetsFinite(register, day, p)
      /\ RiskLevel(p)' = RiskOf(register', day, p) /\ RiskSetsFinite(register', day, p)
  BY <1>1, <1>2 DEF RisksKnown
<1>t. Len(register) \in Nat
  BY MarksAre DEF FiguresInv
<1>4. ASSUME Len(register') > Len(register), register'[Len(register')].status = "ABSENT"
      PROVE  RiskLevel(p)' >= RiskLevel(p)
  <2>1. /\ DOMAIN register' = DOMAIN register \cup {Len(register')}
        /\ \A i \in DOMAIN register : register'[i] = register[i]
    BY <1>t, <1>4, RegisterMoves DEF FiguresInv
  <2>2. Worse(register', register)
    BY <1>4, <2>1 DEF Worse
  <2> QED BY <1>3, <2>2, WorseIsRiskier
<1>5. ASSUME Len(register') = Len(register),
             \A i \in DOMAIN register : register'[i] # register[i] =>
               register[i].status = "ABSENT" /\ register'[i].status = "JUSTIFIED"
      PROVE  RiskLevel(p)' <= RiskLevel(p)
  <2>1. /\ DOMAIN register' = DOMAIN register
        /\ \A i \in DOMAIN register : /\ register'[i].learner = register[i].learner
                                      /\ register'[i].lesson = register[i].lesson
    BY <1>t, <1>5, RegisterMoves DEF FiguresInv
  <2>2. Worse(register, register')
    BY <1>5, <2>1 DEF Worse
  <2>3. RiskOf(register, day, p) >= RiskOf(register', day, p)
    BY <1>3, <2>2, WorseIsRiskier
  <2> QED BY <1>3, <2>3, RiskIsNumber
<1> QED BY <1>4, <1>5

-----------------------------------------------------------------------------
LEMMA MarksStayInPlace ==
  ASSUME FiguresInv, [FiguresNext]_figureVars
  PROVE  MarksInPlace'
<1>t. /\ Len(register) \in Nat /\ DOMAIN register = 1..Len(register) /\ day \in Nat
      /\ \A i \in DOMAIN register : register[i].lesson \in started
  BY MarksAre DEF FiguresInv
<1> PICK M : M = [lesson : started, learner : Classmates, status : MarkStatus]
  OBVIOUS
<1>r. register \in Seq(M)
  BY DEF FiguresInv, FiguresTypeOK
<1>p. /\ \A i \in DOMAIN register : register[i].learner \in Rosters[register[i].lesson.group]
      /\ \A i, j \in DOMAIN register :
           register[i].lesson = register[j].lesson /\ register[i].learner = register[j].learner => i = j
      /\ \A l \in started : l.date \in 1..day
  BY DEF FiguresInv, MarksInPlace
<1>1. CASE UNCHANGED figureVars
  BY <1>p, <1>1 DEF MarksInPlace, figureVars
<1>2. CASE StartLesson
  <2>1. PICK l \in Lessons : l.date = day /\ started' = started \cup {l} /\ UNCHANGED <<day, register>>
    BY <1>2 DEF StartLesson
  <2>2. day \in 1..day
    BY <1>t, MarksAre DEF FiguresInv
  <2>3. \A k \in started' : k.date \in 1..day
    BY <1>p, <2>1, <2>2
  <2> QED BY <1>p, <2>1, <2>3 DEF MarksInPlace
<1>3. CASE MarkLearner
  <2>1. PICK l \in started : \E p \in Rosters[l.group], s \in MarkStatus :
          /\ MarkOf(l, p) = {} /\ register' = Append(register, [lesson |-> l, learner |-> p, status |-> s])
    BY <1>3 DEF MarkLearner
  <2>2. PICK p \in Rosters[l.group], s \in MarkStatus :
          MarkOf(l, p) = {} /\ register' = Append(register, [lesson |-> l, learner |-> p, status |-> s])
    BY <2>1
  <2>3. PICK m : m = [lesson |-> l, learner |-> p, status |-> s] /\ m.lesson = l /\ m.learner = p
    <3>1. /\ [lesson |-> l, learner |-> p, status |-> s].lesson = l
          /\ [lesson |-> l, learner |-> p, status |-> s].learner = p
      OBVIOUS
    <3> QED BY <3>1
  <2>4. PICK n \in Nat : n = Len(register)
    BY <1>t
  <2>5. /\ Len(register') = n + 1 /\ DOMAIN register' = 1..(n + 1)
        /\ register'[n + 1] = m /\ \A i \in 1..n : register'[i] = register[i]
    BY <1>r, <2>2, <2>3, <2>4, Appended
  <2>6. \A i \in 1..n : ~(register[i].lesson = l /\ register[i].learner = p)
    BY <1>t, <2>2, <2>4 DEF MarkOf
  <2>7. \A i \in 1..(n + 1) : i \in 1..n \/ i = n + 1
    BY <2>4
  <2>8. \A i \in DOMAIN register' : register'[i].learner \in Rosters[register'[i].lesson.group]
    BY <1>t, <1>p, <2>2, <2>3, <2>4, <2>5, <2>7
  <2>9. ASSUME NEW i \in DOMAIN register', NEW j \in DOMAIN register',
               register'[i].lesson = register'[j].lesson, register'[i].learner = register'[j].learner
        PROVE  i = j
    <3>1. CASE i \in 1..n /\ j \in 1..n
      BY <1>t, <1>p, <2>4, <2>5, <2>9, <3>1
    <3>2. CASE i = n + 1 /\ j \in 1..n
      BY <2>3, <2>5, <2>6, <2>9, <3>2
    <3>3. CASE j = n + 1 /\ i \in 1..n
      BY <2>3, <2>5, <2>6, <2>9, <3>3
    <3> QED BY <2>5, <2>7, <3>1, <3>2, <3>3
  <2>10. started' = started /\ day' = day
    BY <1>3 DEF MarkLearner
  <2> QED BY <1>p, <2>8, <2>9, <2>10 DEF MarksInPlace
<1>4. CASE ChangeMark
  <2>1. started' = started /\ day' = day /\ Len(register') = Len(register)
    <3>1. PICK i \in DOMAIN register, s \in MarkStatus : register' = [register EXCEPT ![i] = [register[i] EXCEPT !.status = s]]
      BY <1>4 DEF ChangeMark
    <3>2. Len(register') = Len(register)
      BY <1>r, <3>1, Changed
    <3> QED BY <1>4, <3>2 DEF ChangeMark
  <2>2. /\ DOMAIN register' = DOMAIN register
        /\ \A i \in DOMAIN register : /\ register'[i].learner = register[i].learner
                                      /\ register'[i].lesson = register[i].lesson
    BY <1>t, <2>1, RegisterMoves DEF FiguresInv
  <2> QED BY <1>p, <2>1, <2>2 DEF MarksInPlace
<1>5. CASE DayPasses
  <2>1. day' = day + 1 /\ UNCHANGED <<started, register>>
    BY <1>5 DEF DayPasses
  <2>2. \A l \in started : l.date \in 1..(day + 1)
    BY <1>t, <1>p
  <2> QED BY <1>p, <2>1, <2>2 DEF MarksInPlace
<1> QED BY <1>1, <1>2, <1>3, <1>4, <1>5 DEF FiguresNext

LEMMA FiguresStart == FiguresInit => FiguresInv
<1> SUFFICES ASSUME FiguresInit PROVE FiguresInv
  OBVIOUS
<1>1. started = {} /\ DOMAIN register = {}
  BY DEF FiguresInit
<1> QED BY <1>1, FiguresInitFits DEF FiguresInv, MarksInPlace

LEMMA FiguresGoOn == ASSUME FiguresInv, [FiguresNext]_figureVars PROVE FiguresInv'
  BY FiguresStepFits, MarksStayInPlace DEF FiguresInv

LEMMA FiguresMean == ASSUME FiguresInv PROVE FiguresAgree
  BY TotalsHold, MonthsHold, FullHolds, RunsHold, ShownHolds DEF FiguresAgree, FiguresInv

-----------------------------------------------------------------------------
(* The classroom as a whole: one part runs, for a crowd of requests.  The  *)
(* invariant is that of every part, and, when the crowd is one request,    *)
(* what holds of requests served one at a time.                            *)
PartsFit == AttendanceInv /\ AlertInv /\ GateInv /\ EnrolInv /\ FiguresInv

AloneFits == AttendAlone(crowd) /\ PagesInv /\ AlertAlone(crowd) /\ GateAlone(crowd)

ClassInv ==
  /\ crowd \in SUBSET Handlers /\ PartsFit
  /\ part \in {"enrollment", "attendance", "gate", "alerts", "figures"}
  /\ Alone => AloneFits

LEMMA AloneSerial == ASSUME RequestsAssumption, crowd \in SUBSET Handlers, Alone PROVE Serial(crowd)
<1>1. IsFiniteSet(crowd) /\ Cardinality(crowd) = 1
  BY FS_Subset DEF RequestsAssumption, Alone
<1>2. \E x : crowd = {x}
  BY <1>1, FS_Singleton
<1> QED BY <1>2 DEF Serial

LEMMA ClassInit ==
  ASSUME EnrollmentAssumption
  PROVE  Init => ClassInv
<1> SUFFICES ASSUME Init PROVE ClassInv
  OBVIOUS
<1>1. PartsFit
  BY AttendInitFits, AlertInitFits, GateInitFits, EnrolInitFits, FiguresStart DEF Init, PartsFit
<1>2. PagesInv
  <2>1. /\ Len(justifications) = 0
        /\ \A p \in Pupils : marks[p] = None
        /\ \A h \in Handlers : attendCall[h].phase = "idle"
    BY DEF Init, AttendanceInit, NotAttending
  <2>2. MarksTell(marks, justifications)
    BY <2>1, AttendanceAssumption DEF AttendanceAssumption, MarksTell
  <2> QED BY <2>1, <2>2 DEF PagesInv
<1>3. AloneFits
  BY <1>2, AttendInitAlone, AlertInitAlone, GateInitAlone DEF Init, AloneFits
<1> QED BY <1>1, <1>3 DEF Init, ClassInv

\* A step of the whole is a step of every part, or leaves it as it is.
LEMMA ClassStepParts ==
  ASSUME crowd \in SUBSET Handlers, [Next]_classVars
  PROVE  /\ crowd' = crowd /\ part' = part
         /\ [EnrollmentNext(crowd)]_enrolVars /\ [EnrollmentNext(Handlers)]_enrolVars
         /\ [AttendanceNext(crowd)]_attendVars /\ [AttendanceNext(Handlers)]_attendVars
         /\ [GateNext(crowd)]_gateVars /\ [GateNext(Handlers)]_gateVars
         /\ [AlertNext(crowd)]_alertVars /\ [AlertNext(Handlers)]_alertVars
         /\ [FiguresNext]_figureVars
<1>1. /\ EnrollmentNext(crowd) => EnrollmentNext(Handlers)
      /\ AttendanceNext(crowd) => AttendanceNext(Handlers)
      /\ GateNext(crowd) => GateNext(Handlers)
      /\ AlertNext(crowd) => AlertNext(Handlers)
  BY DEF EnrollmentNext, AttendanceNext, GateNext, AlertNext
<1>2. CASE UNCHANGED classVars
  BY <1>2 DEF classVars
<1>3. CASE Next
  BY <1>1, <1>3 DEF Next
<1> QED BY <1>2, <1>3

LEMMA ClassStep ==
  ASSUME RequestsAssumption, EnrollmentAssumption, AttendanceAssumption,
         ClassInv, [Next]_classVars
  PROVE  ClassInv'
<1>t. crowd \in SUBSET Handlers /\ PartsFit
  BY DEF ClassInv
<1>1. PartsFit'
  BY <1>t, ClassStepParts, AttendStepFits, AlertStepFits, GateStepFits, EnrolStepFits, FiguresGoOn
  DEF PartsFit
<1>2. crowd' = crowd /\ part' = part
  BY <1>t, ClassStepParts
<1>3. ASSUME Alone PROVE AloneFits'
  <2>1. Serial(crowd) /\ AloneFits
    BY <1>t, <1>3, AloneSerial DEF ClassInv
  <2>2. AttendAlone(crowd)'
    BY <1>t, <2>1, ClassStepParts, AttendStepAlone DEF PartsFit, AloneFits
  <2>3. PagesInv'
    BY <1>t, <2>1, ClassStepParts, PagesStep DEF PartsFit, AloneFits
  <2>4. AlertAlone(crowd)'
    BY <1>t, <2>1, ClassStepParts, AlertStepAlone DEF PartsFit, AloneFits
  <2>5. GateAlone(crowd)'
    BY <1>t, <2>1, ClassStepParts, GateStepAlone DEF PartsFit, AloneFits
  <2> QED BY <2>2, <2>3, <2>4, <2>5 DEF AloneFits
<1>4. Alone' => Alone
  BY <1>2 DEF Alone
<1> QED BY <1>1, <1>2, <1>3, <1>4, <1>t DEF ClassInv

LEMMA ClassAlways == Spec => []ClassInv
<1>1. Init => ClassInv
  BY ClassInit, EnrollmentAssumption
<1>2. ClassInv /\ [Next]_classVars => ClassInv'
  BY ClassStep, RequestsAssumption, EnrollmentAssumption, AttendanceAssumption
<1> QED BY <1>1, <1>2, PTL DEF Spec

(* Whatever part runs and however many requests it serves, its tables,     *)
(* locks and requests keep their types.                                    *)
THEOREM ClassroomTyped == Spec => []ClassroomTypeOK
<1>1. ClassInv => ClassroomTypeOK
  BY DEF ClassInv, PartsFit, ClassroomTypeOK, AttendanceInv, AlertInv, GateInv, EnrolInv, FiguresInv
<1> QED BY ClassAlways, <1>1, PTL

(* In the composition too, a group of the desk's students alone, or of     *)
(* edited ones alone, keeps to its seats; a group filled by registrations  *)
(* or imports is not claimed to.                                           *)
THEOREM SeatsAreKept == Spec => []SeatsKept
<1>1. ClassInv => SeatsKept
  BY SeatsMean DEF ClassInv, PartsFit, SeatsKept, EnrolInv
<1> QED BY ClassAlways, <1>1, PTL

(* One request at a time, an absence is justified once, an approved        *)
(* justification stays, and the pages offer what the handlers accept.      *)
THEOREM ApprovalsStay == Spec => []ApprovedStays
<1>1. ClassInv => ApprovedStays
  BY PagesMean, ReadersAgreeAlways
  DEF ClassInv, AloneFits, PartsFit, ApprovedStays, AttendAlone, ReviewsStand, Excusing,
      ApprovedNotAbsent, OneActiveJustification
<1> QED BY ClassAlways, <1>1, PTL

(* One evaluation at a time, an alert is told once, and open as reached.   *)
THEOREM AlertsAreAlone == Spec => []AlertsAlone
<1>1. ClassInv => AlertsAlone
  BY AlertAloneMeans DEF ClassInv, AloneFits, AlertsAlone
<1> QED BY ClassAlways, <1>1, PTL

(* The gate: a permit serves once and stays spent, whatever races; one     *)
(* request at a time, whoever leaves does so with a guardian.              *)
THEOREM GateIsKept == Spec => GateKept
<1>1. ClassInv => PermitUsedOnce
  BY LedgerMeansOnce DEF ClassInv, PartsFit
<1>2. ClassInv /\ [Next]_classVars =>
        [\A i \in 1..Len(permits) : permits[i].status # "PENDING" => permits'[i] = permits[i]]_gateVars
  BY ClassStepParts, PermitsGrow DEF ClassInv, PartsFit, Grows
<1>3. ClassInv /\ [Next]_classVars => [Alone => LeavesWithGuardian]_classVars
  BY ClassStepParts, EscortLeaves DEF ClassInv, PartsFit, AloneFits
<1> QED BY ClassAlways, <1>1, <1>2, <1>3, PTL DEF Spec, GateKept, SpentPermitsStay

(* Whatever is marked, changed or excused, in any order and on any day, the*)
(* pages of attendance agree on the marks they all count; on one day one   *)
(* more absence never lowers the risk of a student, nor does excusing one  *)
(* raise it.                                                               *)
THEOREM FiguresAreKept == Spec => FiguresKept
<1>1. ClassInv => (part = "figures" => FiguresAgree)
  BY FiguresMean DEF ClassInv, PartsFit
<1>2. ClassInv /\ ClassInv' /\ [Next]_classVars => [part = "figures" => RiskFollows]_classVars
  BY ClassStepParts, RisksFollow DEF ClassInv, PartsFit
<1> QED BY ClassAlways, <1>1, <1>2, PTL DEF Spec, FiguresKept

(* However evaluations overlap, the columns of an alert agree, and however *)
(* requests race with the closing of a session, marks change only in it.   *)
THEOREM RacesHold == Spec => []AlertColumnsAgree /\ MarkedWhileOpen
<1>1. ClassInv => AlertColumnsAgree
  BY DEF ClassInv, PartsFit, AlertInv, AlertRowsWhole, AlertColumnsAgree, AlertRows, Raised, Resolved
<1>2. ClassInv /\ [Next]_classVars =>
        [\A p \in Pupils : marks'[p] # marks[p] =>
           \/ session.status = "OPEN"
           \/ \E h \in Handlers : /\ attendCall[h].phase \in {"filed", "decide"}
                                  /\ attendCall'[h].phase = "idle"]_attendVars
  BY ClassStepParts, MarkingStep DEF ClassInv, PartsFit
<1> QED BY ClassAlways, <1>1, <1>2, PTL DEF Spec, MarkedWhileOpen
=============================================================================
