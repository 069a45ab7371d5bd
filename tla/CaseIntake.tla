------------------------------- MODULE CaseIntake -------------------------------
(***************************************************************************)
(* The opening of disciplinary cases at once: the number drawn from the    *)
(* year's sequence, the notices a reprimand issues to the guardians, the   *)
(* mails sent after the commit, and the receipt of each guardian.          *)
(***************************************************************************)
EXTENDS Requests, Sequences

CONSTANTS
  Tutors,      \* guardians of the student
  LastYear,    \* bound
  MaxFiles,    \* bound: cases opened
  MaxNotices   \* bound: notices issued

Years == 1..LastYear

ASSUME IntakeAssumption ==
  LastYear \in Nat \ {0} /\ MaxFiles \in Nat /\ MaxNotices \in Nat /\ None \notin 0..MaxFiles

Notice == [email : {"SKIPPED", "SENT", "FAILED"}, read : Handlers \cup {None}]

VARIABLES
  year,
  sequences,   \* disciplinary_case_sequences: year -> last_value, or None
  files,       \* disciplinary_cases with their notices, in the order they commit
  tutorLinks,  \* guardian_student_links of the student
  yearLock,    \* handler -> years of the sequence it has locked
  intake,      \* what each request is doing
  letters      \* history: mails that left, the nth of each notice

intakeTables == <<sequences, files, tutorLinks>>
intakeVars   == <<year, intakeTables, yearLock, intake, letters>>

Intake ==
  [ phase : {"idle", "sequence", "save", "mail", "sent", "failed", "read"},
    year : Years \cup {None}, number : 0..(MaxFiles + 1),
    tutors : SUBSET Tutors,     \* in the snapshot; then, those still to be mailed
    to : Tutors \cup {None} ]   \* the mail that is sent, or the guardian who reads

NoIntake == [phase |-> "idle", year |-> None, number |-> 0,
             tutors |-> {}, to |-> None]

IntakeInit ==
  /\ year = 1 /\ sequences = [y \in Years |-> None] /\ files = <<>> /\ letters = {}
  /\ tutorLinks = {}
  /\ yearLock = [h \in Handlers |-> {}] /\ intake = [h \in Handlers |-> NoIntake]

IntakeGoes(h, call) == intake' = [intake EXCEPT ![h] = call]

IntakeEnds(h) == IntakeGoes(h, NoIntake) /\ yearLock' = [yearLock EXCEPT ![h] = {}]

\* A check that fails, ROLLBACK, or the process stops: mails not sent are forgotten.
IntakeAborts(h) ==
  /\ intake[h].phase # "idle" /\ IntakeEnds(h)
  /\ UNCHANGED <<year, intakeTables, letters>>

Issued == {n \in (1..Len(files)) \X Tutors : n[2] \in DOMAIN files[n[1]].notices}

File(y, number) == CHOOSE f \in 1..Len(files) : files[f].year = y /\ files[f].number = number

-----------------------------------------------------------------------------
(* create                                                                  *)

\* The year is read before the transaction, whose snapshot is taken by its first
\* query (findEnrollment).
StartCase(h) ==
  \E direct \in BOOLEAN :
    /\ intake[h].phase = "idle" /\ Len(files) < MaxFiles
    /\ IntakeGoes(h, [NoIntake EXCEPT !.phase = "sequence", !.year = year,
                        !.tutors = IF direct THEN tutorLinks ELSE {}])
    /\ UNCHANGED <<year, intakeTables, yearLock, letters>>

\* Slip: the row of the year is read without FOR UPDATE.
NoWait(h, y) == TRUE

YearFree(h, y) == FreeOf(yearLock, h, {y})

\* The row of the year as it is now: 0 when the request has just inserted it.
LastValue(y) == IF Present(sequences[y]) THEN sequences[y] ELSE 0

\* nextCaseNumber: INSERT ... ON DUPLICATE KEY UPDATE waits for the row of the year.
DrawNumber(h) ==
  LET c == intake[h] IN
  /\ c.phase = "sequence" /\ YearFree(h, c.year)
  /\ yearLock' = [yearLock EXCEPT ![h] = {c.year}]
  /\ IntakeGoes(h, [c EXCEPT !.phase = "save", !.number = LastValue(c.year) + 1])
  /\ UNCHANGED <<year, intakeTables, letters>>

\* The case, a notice for each guardian in the snapshot, and COMMIT; the number is unique.
SaveCase(h) ==
  LET c == intake[h] IN
  /\ c.phase = "save" /\ Len(files) < MaxFiles
  /\ Cardinality(Issued) + Cardinality(c.tutors) <= MaxNotices
  /\ \A f \in 1..Len(files) : ~(files[f].year = c.year /\ files[f].number = c.number)
  /\ files' = Append(files, [year |-> c.year, number |-> c.number,
                             notices |-> [t \in c.tutors |-> [email |-> "SKIPPED", read |-> None]]])
  /\ sequences' = [sequences EXCEPT ![c.year] = c.number]
  /\ yearLock' = [yearLock EXCEPT ![h] = {}]
  /\ IntakeGoes(h, IF c.tutors = {} THEN NoIntake ELSE [c EXCEPT !.phase = "mail"])
  /\ UNCHANGED <<year, tutorLinks, letters>>

-----------------------------------------------------------------------------
(* dispatch                                                                *)
\* Slip: the mails leave before the commit.
OnceDrawn(c) == c.phase \in {"save", "mail"}

Committed(c) == c.phase = "mail"

NextMail(c) == IF c.tutors = {} THEN NoIntake ELSE [c EXCEPT !.phase = "mail", !.to = None]

\* The mails that left for the notice of a case to a guardian.
LettersFor(y, number, t) ==
  {l \in letters : l.year = y /\ l.number = number /\ l.to = t}

\* sendMail: it leaves, the server refuses it, or mail is not configured (which is
\* not recorded).
SendMail(h) ==
  \E t \in intake[h].tutors, result \in {"sent", "failed", "skipped"} :
    LET c    == [intake[h] EXCEPT !.tutors = @ \ {t}]
        mail == [year |-> c.year, number |-> c.number, to |-> t,
                 nth |-> Cardinality(LettersFor(c.year, c.number, t)) + 1]
    IN
    /\ Committed(intake[h])
    /\ letters' = IF result = "sent" THEN letters \cup {mail} ELSE letters
    /\ IntakeGoes(h, IF result = "skipped" THEN NextMail(c)
                     ELSE [c EXCEPT !.phase = result, !.to = t])
    /\ UNCHANGED <<year, intakeTables, yearLock>>

StatusFor(c) == IF c.phase = "sent" THEN "SENT" ELSE "FAILED"

\* The UPDATE of email_status ...
RecordMail(h) ==
  LET c == intake[h] IN
  /\ c.phase \in {"sent", "failed"}
  /\ files' = [files EXCEPT ![File(c.year, c.number)].notices[c.to].email = StatusFor(c)]
  /\ IntakeGoes(h, NextMail(c))
  /\ UNCHANGED <<year, sequences, tutorLinks, yearLock, letters>>

\* ... which, when it fails after a mail that left, is caught as a mail that failed.
RecordingFails(h) ==
  /\ intake[h].phase = "sent" /\ IntakeGoes(h, [intake[h] EXCEPT !.phase = "failed"])
  /\ UNCHANGED <<year, intakeTables, yearLock, letters>>

-----------------------------------------------------------------------------
(* confirmRead                                                             *)
\* findOwn: a notice of the guardian, who is still linked; one that is read is answered.
FindUnread(h) ==
  \E t \in tutorLinks, f \in 1..Len(files) :
    /\ intake[h].phase = "idle"
    /\ t \in DOMAIN files[f].notices /\ ~Present(files[f].notices[t].read)
    /\ IntakeGoes(h, [NoIntake EXCEPT !.phase = "read", !.year = files[f].year,
                                      !.number = files[f].number, !.to = t])
    /\ UNCHANGED <<year, intakeTables, yearLock, letters>>

\* Slip: the notice is updated by its key.
StillListed(notice) == TRUE

Unread(notice) == ~Present(notice.read)

\* UPDATE ... WHERE read_at IS NULL.
ConfirmRead(h) ==
  LET c == intake[h]
      f == File(c.year, c.number)
  IN
  /\ c.phase = "read"
  /\ files' = IF Unread(files[f].notices[c.to])
              THEN [files EXCEPT ![f].notices[c.to].read = h] ELSE files
  /\ IntakeEnds(h)
  /\ UNCHANGED <<year, sequences, tutorLinks, letters>>

-----------------------------------------------------------------------------
LinkTutor ==
  \E t \in Tutors :
    /\ tutorLinks' = IF t \in tutorLinks THEN tutorLinks \ {t} ELSE tutorLinks \cup {t}
    /\ UNCHANGED <<year, sequences, files, yearLock, intake, letters>>

YearPasses ==
  /\ year < LastYear /\ year' = year + 1
  /\ UNCHANGED <<intakeTables, yearLock, intake, letters>>

IntakeNext(H) ==
  \/ \E h \in H : \/ StartCase(h) \/ DrawNumber(h) \/ SaveCase(h)
                  \/ SendMail(h) \/ RecordMail(h) \/ RecordingFails(h)
                  \/ FindUnread(h) \/ ConfirmRead(h) \/ IntakeAborts(h)
  \/ LinkTutor
  \/ YearPasses

IntakeSpec == IntakeInit /\ [][IntakeNext(Handlers)]_intakeVars

-----------------------------------------------------------------------------
(* Type correctness of the cases, their notices and the requests.          *)
IntakeTypeOK ==
  /\ year \in Years /\ sequences \in [Years -> 0..MaxFiles \cup {None}]
  /\ \A f \in 1..Len(files) :
       /\ files[f].year \in Years /\ files[f].number \in 1..MaxFiles
       /\ DOMAIN files[f].notices \subseteq Tutors
       /\ \A t \in DOMAIN files[f].notices : files[f].notices[t] \in Notice
  /\ \A l \in letters : l.to \in Tutors /\ l.nth \in Nat
  /\ tutorLinks \subseteq Tutors /\ yearLock \in [Handlers -> SUBSET Years]
  /\ intake \in [Handlers -> Intake]

\* The cases of a year, up to the nth of all.
FiledUpTo(n, y) == {f \in 1..n : files[f].year = y}

(* The cases of a year are numbered without a gap in the order they are    *)
(* committed, whichever transactions are rolled back, and no opening is    *)
(* refused because of its number.                                          *)
NumbersInOrder ==
  /\ \A f \in 1..Len(files) : files[f].number = Cardinality(FiledUpTo(f, files[f].year))
  /\ \A h \in Handlers : intake[h].phase = "save" =>
       intake[h].number = Cardinality(FiledUpTo(Len(files), intake[h].year)) + 1

(* A mail leaves about a committed notice only, once for each, and one     *)
(* that reads as sent did leave.                                           *)
LettersAreReal ==
  /\ \A l \in letters : \E f \in 1..Len(files) :
       files[f].year = l.year /\ files[f].number = l.number /\ l.to \in DOMAIN files[f].notices
  /\ \A f \in 1..Len(files) : \A t \in DOMAIN files[f].notices :
       LET sent == LettersFor(files[f].year, files[f].number, t) IN
       /\ Cardinality(sent) <= 1
       /\ files[f].notices[t].email = "SENT" => sent # {}

(* The first receipt of a notice is kept.                                  *)
ReceiptKept ==
  [][\A f \in 1..Len(files) : \A t \in DOMAIN files[f].notices :
       Present(files[f].notices[t].read) =>
         files'[f].notices[t].read = files[f].notices[t].read]_intakeVars
=============================================================================
