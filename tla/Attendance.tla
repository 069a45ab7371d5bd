------------------------------ MODULE Attendance ------------------------------
(***************************************************************************)
(* One class session with its marks, its code and the justifications of    *)
(* its absences.                                                           *)
(*                                                                         *)
(* The teacher's list and the redemption of a code lock the row of the     *)
(* session and read the marks in a snapshot.  The code is generated, and   *)
(* justifications are filed and reviewed, from rows read outside the       *)
(* transaction that saves them.                                            *)
(***************************************************************************)
EXTENDS Requests, Sequences

CONSTANTS
  Pupils,             \* the roster of the session
  Listable,           \* what a teacher's list may say (no guard tells LATE from PRESENT)
  MaxJustifications   \* bound

MarkStatus    == {"PRESENT", "ABSENT", "LATE", "JUSTIFIED"}
Justification == [pupil : Pupils, status : {"PENDING", "APPROVED", "REJECTED"}]
Mark          == [status : MarkStatus, just : {"NONE", "PENDING", "JUSTIFIED", "REJECTED"},
                  method : {"MANUAL", "TOKEN"}]
Session       == [status : {"OPEN", "CLOSED"}, code : BOOLEAN, closedAt : BOOLEAN]

ASSUME AttendanceAssumption ==
  Listable \subseteq MarkStatus /\ MaxJustifications \in Nat /\ None \notin Mark

VARIABLES
  session,        \* the row, or None before it is started
  classOver,      \* the end of the class, which is when its codes expire, has passed
  exempt,         \* an exception of the calendar justifies the absences of the day
  marks,          \* pupil -> row, or None
  justifications, \* rows, in order of id
  attendCall

attendTables == <<session, classOver, exempt, marks, justifications>>
attendVars   == <<session, classOver, exempt, marks, justifications, attendCall>>

-----------------------------------------------------------------------------
Sheet == [Pupils -> Mark \cup {None}]

AttendanceCall ==
  [ phase : {"idle", "code", "code_reread", "redeem", "records", "file", "filed",
             "review", "decide"},
    pupil : Pupils \cup {None},
    list  : [Pupils -> MarkStatus \cup {None}] \cup {None},
    exempt : BOOLEAN,
    entity : Session \cup Mark \cup {None},
    reread : Session \cup {None},
    id : Nat, seen : Justification \cup {None}, approve : BOOLEAN,
    snap : Sheet \cup {None} ]

NotAttending ==
  [ phase |-> "idle", pupil |-> None, list |-> None, exempt |-> FALSE, entity |-> None,
    reread |-> None, id |-> 0, seen |-> None, approve |-> FALSE, snap |-> None ]

\* Redeeming and marking hold the row of the session FOR UPDATE.
SessionFree(h) == \A g \in Handlers \ {h} : attendCall[g].phase \notin {"redeem", "records"}

\* The insert of a justification holds its mark in share mode (foreign key).
MarkFree(h, p) ==
  \A g \in Handlers \ {h} : attendCall[g].phase = "filed" => attendCall[g].pupil # p

AttendanceInit ==
  /\ session = None /\ classOver = FALSE /\ exempt = FALSE
  /\ marks = [p \in Pupils |-> None] /\ justifications = <<>>
  /\ attendCall = [h \in Handlers |-> NotAttending]

AttendanceEnds(h) == attendCall' = [attendCall EXCEPT ![h] = NotAttending]

\* A thrown check, a deadlock or a lost connection.
AttendanceAborts(h) ==
  /\ attendCall[h].phase # "idle" /\ AttendanceEnds(h)
  /\ UNCHANGED attendTables

AttendanceGoes(h, call) == attendCall' = [attendCall EXCEPT ![h] = call]

-----------------------------------------------------------------------------
(* Sessions and their codes                                                *)
CreateSession(h) ==
  /\ attendCall[h].phase = "idle" /\ session = None
  /\ session' = [status |-> "OPEN", code |-> FALSE, closedAt |-> FALSE]
  /\ UNCHANGED <<classOver, exempt, marks, justifications, attendCall>>

\* Slip: the session is closed without waiting for its row.
WithoutLock(h) == TRUE

\* closeSession: everything happens under the lock of the row.
CloseFree(h) == SessionFree(h)

CloseSession(h) ==
  /\ attendCall[h].phase = "idle" /\ CloseFree(h)
  /\ session # None /\ session.status = "OPEN"
  /\ session' = [status |-> "CLOSED", code |-> FALSE, closedAt |-> TRUE]
  /\ UNCHANGED <<classOver, exempt, marks, justifications, attendCall>>

\* generateToken: the session is read, without a lock ...
GenerateToken(h) ==
  /\ attendCall[h].phase = "idle" /\ session # None /\ session.status = "OPEN"
  /\ AttendanceGoes(h, [NotAttending EXCEPT !.phase = "code",
                                            !.entity = [session EXCEPT !.code = TRUE]])
  /\ UNCHANGED attendTables

\* ... save() reads it again ...
RereadSession(h) ==
  /\ attendCall[h].phase = "code"
  /\ AttendanceGoes(h, [attendCall[h] EXCEPT !.phase = "code_reread", !.reread = session])
  /\ UNCHANGED attendTables

\* ... and writes the columns that differ.
SaveToken(h) ==
  LET c == attendCall[h] IN
  /\ c.phase = "code_reread" /\ SessionFree(h)
  /\ session' = SaveEntity(session, c.reread, c.entity)
  /\ AttendanceEnds(h)
  /\ UNCHANGED <<classOver, exempt, marks, justifications>>

ClassEnds ==
  /\ ~classOver /\ classOver' = TRUE
  /\ UNCHANGED <<session, exempt, marks, justifications, attendCall>>

\* An exception is created, edited or removed (AttendanceCalendarExceptionsService).
ChangeException ==
  /\ exempt' = ~exempt
  /\ UNCHANGED <<session, classOver, marks, justifications, attendCall>>

-----------------------------------------------------------------------------
(* Marks                                                                   *)

\* redeemToken: the row found by its code is locked, and the mark is read.
RedeemToken(h) ==
  \E p \in Pupils :
    /\ attendCall[h].phase = "idle" /\ SessionFree(h)
    /\ session # None /\ session.code /\ session.status = "OPEN" /\ ~classOver
    /\ AttendanceGoes(h, [NotAttending EXCEPT !.phase = "redeem", !.pupil = p, !.snap = marks])
    /\ UNCHANGED attendTables

\* An existing mark keeps its justification status.
Redeemed(mark) ==
  IF mark = None THEN [status |-> "PRESENT", just |-> "NONE", method |-> "TOKEN"]
                 ELSE [mark EXCEPT !.status = "PRESENT", !.method = "TOKEN"]

\* A new mark is inserted; columns of an old one are updated.
SaveMark(row, seen, entity) == IF seen = None THEN entity ELSE SaveEntity(row, seen, entity)

SaveRedeemed(h) ==
  LET c == attendCall[h]  p == c.pupil IN
  /\ c.phase = "redeem" /\ MarkFree(h, p)
  /\ marks' = [marks EXCEPT ![p] = SaveMark(@, c.snap[p], Redeemed(c.snap[p]))]
  /\ AttendanceEnds(h)
  /\ UNCHANGED <<session, classOver, exempt, justifications>>

\* upsertRecords: the session is locked, the calendar is read, the roster and the
\* marks are read in the snapshot.
UpsertRecords(h) ==
  \E list \in [Pupils -> Listable \cup {None}] :
    /\ attendCall[h].phase = "idle" /\ SessionFree(h)
    /\ session # None /\ session.status = "OPEN"
    /\ \E p \in Pupils : Present(list[p])
    /\ AttendanceGoes(h, [NotAttending EXCEPT !.phase = "records", !.list = list,
                                              !.exempt = exempt, !.snap = marks])
    /\ UNCHANGED attendTables

\* applyCalendarExceptionStatus.
Excused(status, isExempt) == isExempt /\ status = "ABSENT"

\* Slip: an approved justification does not survive a new ABSENT.
JustificationDropped(mark, status) == FALSE

KeepApproved(mark, status) == mark.just = "JUSTIFIED" /\ status = "ABSENT"

Recorded(mark, status, isExempt) ==
  LET excused == Excused(status, isExempt)
      applied == IF excused THEN "JUSTIFIED" ELSE status
  IN  IF mark = None
      THEN [status |-> applied, just |-> IF excused THEN "JUSTIFIED" ELSE "NONE",
            method |-> "MANUAL"]
      ELSE [mark EXCEPT !.status = IF KeepApproved(mark, applied) THEN "JUSTIFIED" ELSE applied,
                        !.just = IF excused THEN "JUSTIFIED" ELSE @]

SaveRecords(h) ==
  LET c == attendCall[h]
      Listed(p) == Present(c.list[p])
  IN
  /\ c.phase = "records" /\ \A p \in Pupils : Listed(p) => MarkFree(h, p)
  /\ marks' = [p \in Pupils |->
       IF Listed(p) THEN SaveMark(marks[p], c.snap[p], Recorded(c.snap[p], c.list[p], c.exempt))
                    ELSE marks[p]]
  /\ AttendanceEnds(h)
  /\ UNCHANGED <<session, classOver, exempt, justifications>>

-----------------------------------------------------------------------------
(* Justifications                                                          *)

HasActive(p) ==
  \E i \in 1..Len(justifications) :
    justifications[i].pupil = p /\ justifications[i].status \in {"PENDING", "APPROVED"}

\* createJustification: the mark is read, and has no active justification ...
CreateJustification(h) ==
  \E p \in Pupils :
    /\ attendCall[h].phase = "idle" /\ marks[p] # None /\ marks[p].status = "ABSENT"
    /\ ~HasActive(p)
    /\ AttendanceGoes(h, [NotAttending EXCEPT !.phase = "file", !.pupil = p,
                                              !.entity = [marks[p] EXCEPT !.just = "PENDING"]])
    /\ UNCHANGED attendTables

\* ... then, in a transaction, one is inserted; the foreign key takes the mark in
\* share mode before the snapshot opens ...
InsertJustification(h) ==
  LET c == attendCall[h] IN
  /\ c.phase = "file" /\ Len(justifications) < MaxJustifications
  /\ AttendanceGoes(h, [c EXCEPT !.phase = "filed"])
  /\ UNCHANGED attendTables

\* ... and the mark read first is saved whole.
SaveJustification(h) ==
  LET c == attendCall[h]  p == c.pupil IN
  /\ c.phase = "filed" /\ MarkFree(h, p)
  /\ marks' = [marks EXCEPT ![p] = SaveEntity(@, @, c.entity)]
  /\ justifications' = Append(justifications, [pupil |-> p, status |-> "PENDING"])
  /\ AttendanceEnds(h)
  /\ UNCHANGED <<session, classOver, exempt>>

\* reviewJustification: the justification is read ...
ReviewJustification(h) ==
  \E i \in 1..Len(justifications), approve \in BOOLEAN :
    /\ attendCall[h].phase = "idle" /\ justifications[i].status = "PENDING"
    /\ AttendanceGoes(h, [NotAttending EXCEPT !.phase = "review", !.id = i, !.approve = approve,
                                              !.pupil = justifications[i].pupil])
    /\ UNCHANGED attendTables

\* ... the mark is read in the transaction, which opens its snapshot ...
ReadMark(h) ==
  LET c == attendCall[h] IN
  /\ c.phase = "review"
  /\ AttendanceGoes(h, [c EXCEPT !.phase = "decide", !.snap = marks, !.seen = justifications[c.id]])
  /\ UNCHANGED attendTables

Decided(mark, approve) ==
  [mark EXCEPT !.status = IF approve THEN "JUSTIFIED" ELSE "ABSENT",
               !.just = IF approve THEN "JUSTIFIED" ELSE "REJECTED"]

\* ... and both are saved.
SaveReview(h) ==
  LET c == attendCall[h]  p == c.pupil
      decision == [pupil |-> p, status |-> IF c.approve THEN "APPROVED" ELSE "REJECTED"]
  IN
  /\ c.phase = "decide" /\ MarkFree(h, p)
  /\ justifications' = [justifications EXCEPT ![c.id] = SaveEntity(@, c.seen, decision)]
  /\ marks' = [marks EXCEPT ![p] = SaveEntity(@, c.snap[p], Decided(c.snap[p], c.approve))]
  /\ AttendanceEnds(h)
  /\ UNCHANGED <<session, classOver, exempt>>

-----------------------------------------------------------------------------
AttendanceNext(H) ==
  \/ \E h \in H :
       \/ CreateSession(h) \/ CloseSession(h) \/ GenerateToken(h) \/ RereadSession(h)
       \/ SaveToken(h) \/ RedeemToken(h) \/ SaveRedeemed(h) \/ UpsertRecords(h)
       \/ SaveRecords(h) \/ CreateJustification(h) \/ InsertJustification(h)
       \/ SaveJustification(h) \/ ReviewJustification(h) \/ ReadMark(h) \/ SaveReview(h)
       \/ AttendanceAborts(h)
  \/ ClassEnds \/ ChangeException

AttendanceSpec == AttendanceInit /\ [][AttendanceNext(Handlers)]_attendVars

-----------------------------------------------------------------------------
(* Type correctness of the session, its marks, its justifications and the  *)
(* requests.                                                               *)
AttendanceTypeOK ==
  /\ session \in Session \cup {None} /\ exempt \in BOOLEAN /\ marks \in Sheet
  /\ justifications \in Seq(Justification)
  /\ attendCall \in [Handlers -> AttendanceCall]

(* A pupil is marked, by the teacher's list or a code, only while the      *)
(* session is open: a request that passed the check holds the row, so the  *)
(* session cannot be closed under it (upsertRecords, redeemToken).  After  *)
(* that, only justifications change a mark.                                *)
MarkedWhileOpen ==
  [][\A p \in Pupils : marks'[p] # marks[p] =>
       \/ session.status = "OPEN"
       \/ \E h \in Handlers : /\ attendCall[h].phase \in {"filed", "decide"}
                              /\ attendCall'[h].phase = "idle"
    ]_attendVars

(* Served one request at a time, an absence with an approved justification *)
(* never reads as an absence again, whatever lists, codes, exceptions and  *)
(* further justifications follow (keepApprovedJustification).              *)
ApprovedNotAbsent ==
  \A i \in 1..Len(justifications) : justifications[i].status = "APPROVED" =>
    marks[justifications[i].pupil].status # "ABSENT"

(* Served one request at a time, an absence has one active justification   *)
(* at most (JUSTIFICATION_ALREADY_ACTIVE); no index backs the check.       *)
OneActiveJustification ==
  \A i, j \in 1..Len(justifications) :
    /\ justifications[i].pupil = justifications[j].pupil
    /\ {justifications[i].status, justifications[j].status} \subseteq {"PENDING", "APPROVED"}
    => i = j
=============================================================================
