---------------------------- MODULE Communications ----------------------------
(***************************************************************************)
(* A communication of the school: written, dated, aimed at an audience,    *)
(* read and acknowledged.  Its rows are saved as they were read, and its   *)
(* recipients are deleted and inserted again, each query by itself.        *)
(***************************************************************************)
EXTENDS Requests, Routes

CONSTANTS
  Readers,       \* active users
  Aims,          \* the names of roles that may be aimed at
  Managers,      \* those who read any published communication
  LastMoment     \* bound

Moments == 0..LastMoment
Targets == {"ALL", "GROUP"} \cup Aims

\* Roles of the database (Padre is "Padre de familia"; Orientador, Director and those
\* a school adds have one name only), and the names that are taken for the same role.
RoleNames    == {"Administrador", "Docente", "Estudiante", "Encargado", "Padre"}
RoleFamilies == {{"ADMIN", "Administrador"}, {"TEACHER", "Docente"}, {"STUDENT", "Estudiante"},
                 {"GUARDIAN", "Encargado", "Padre"}}

ASSUME CommunicationsAssumption ==
  /\ Aims \subseteq UNION RoleFamilies
  /\ Managers \subseteq Readers /\ LastMoment \in Nat

Communication ==
  [ status : {"DRAFT", "PUBLISHED", "ARCHIVED"},
    publish : Moments \cup {None}, expires : Moments \cup {None} ]

Read == [at : Moments, ack : Moments \cup {None}]

VARIABLES
  moment,         \* since the communication was created
  communication,  \* the row of communications, or None
  written,        \* history: it was created
  recipients,     \* communication_recipients: what it is aimed at
  reads,          \* communication_reads: reader -> row, or None
  writing         \* what each request is doing

commTables == <<communication, recipients, reads>>
commVars   == <<moment, commTables, written, writing>>

Writing ==
  [ phase : {"idle", "save", "clear", "aim", "find", "insert", "amend"},
    entity : Communication \cup {None}, targets : SUBSET Targets,
    reader : Readers \cup {None}, confirms : BOOLEAN, row : Read \cup {None} ]

NotWriting == [phase |-> "idle", entity |-> None, targets |-> {},
               reader |-> None, confirms |-> FALSE, row |-> None]

CommunicationsInit ==
  /\ moment = 0 /\ communication = None /\ written = FALSE /\ recipients = {}
  /\ reads = [r \in Readers |-> None]
  /\ writing = [h \in Handlers |-> NotWriting]

WritingGoes(h, call) == writing' = [writing EXCEPT ![h] = call]
WritingEnds(h) == WritingGoes(h, NotWriting)

\* An error of the database, or the process stops.
WritingAborts(h) ==
  /\ writing[h].phase # "idle" /\ WritingEnds(h)
  /\ UNCHANGED <<moment, commTables, written>>

\* assertDates.
DatesFit(start, expires) == Present(start) /\ Present(expires) => expires > start

\* createdAt is moment 0.
StartOf(entity) == IF Present(entity.publish) THEN entity.publish ELSE 0

\* normalizeRecipients: everybody, or the targets named, each once.
NormalTargets == {{"ALL"}} \cup ((SUBSET (Aims \cup {"GROUP"})) \ {{}})

-----------------------------------------------------------------------------
\* create: the row, and then its recipients.
CreateCommunication(h) ==
  \E entity \in Communication, targets \in NormalTargets :
    /\ writing[h].phase = "idle" /\ ~written
    /\ entity.status = "PUBLISHED" => Present(entity.publish)
    /\ DatesFit(StartOf(entity), entity.expires)
    /\ communication' = entity /\ written' = TRUE
    /\ WritingGoes(h, [NotWriting EXCEPT !.phase = "clear", !.targets = targets])
    /\ UNCHANGED <<moment, recipients, reads>>

DatesStillFit(entity) == DatesFit(StartOf(entity), entity.expires)

\* Publishing gives a date to a communication without one.
Published(row) ==
  [row EXCEPT !.status = "PUBLISHED", !.publish = IF Present(@) THEN @ ELSE moment]

\* What one update sends: a status or a date (or else recipients).
Edits(row) ==
  {Published(row)}
    \cup {[row EXCEPT !.status = status] : status \in {"DRAFT", "ARCHIVED"}}
    \cup {[row EXCEPT !.publish = at] : at \in Moments \cup {None}}
    \cup {[row EXCEPT !.expires = at] : at \in Moments \cup {None}}

\* update, publish, archive: the row as it is read, with what is sent.
EditCommunication(h) ==
  /\ writing[h].phase = "idle" /\ Present(communication)
  /\ \E entity \in Edits(communication) \cup {communication}, targets \in NormalTargets \cup {{}} :
       /\ entity = communication \/ targets = {}
       /\ DatesStillFit(entity)
       /\ WritingGoes(h, [NotWriting EXCEPT !.phase = "save", !.entity = entity,
                                            !.targets = targets])
  /\ UNCHANGED <<moment, commTables, written>>

\* repository.save: a row that was deleted meanwhile is inserted again.
SaveCommunication(h) ==
  LET c == writing[h] IN
  /\ c.phase = "save"
  /\ communication' = IF Present(communication)
                      THEN SaveEntity(communication, communication, c.entity) ELSE c.entity
  /\ WritingGoes(h, IF c.targets = {} THEN NotWriting ELSE [c EXCEPT !.phase = "clear", !.entity = None])
  /\ UNCHANGED <<moment, recipients, reads, written>>

NoTargets == {}

\* replaceRecipients: all are deleted ...
ClearTargets(h) ==
  /\ writing[h].phase = "clear"
  /\ recipients' = NoTargets
  /\ WritingGoes(h, [writing[h] EXCEPT !.phase = "aim"])
  /\ UNCHANGED <<moment, communication, reads, written>>

\* ... and the new ones inserted, while the communication exists.
InsertTargets(h) ==
  /\ writing[h].phase = "aim" /\ Present(communication)
  /\ recipients' = recipients \cup writing[h].targets
  /\ WritingEnds(h)
  /\ UNCHANGED <<moment, communication, reads, written>>

\* remove: the recipients and the reads go with it.
RemoveCommunication(h) ==
  /\ writing[h].phase = "idle" /\ Present(communication)
  /\ communication' = None /\ recipients' = {} /\ reads' = [r \in Readers |-> None]
  /\ UNCHANGED <<moment, written, writing>>

-----------------------------------------------------------------------------
(* The audience, in the two places where it is computed                    *)
Tie == {"none", "active", "former"}   \* a user's, or a linked student's, to the group

\* getUserTargetContext: the roles of the caller, which are one for an administrator,
\* with every name of each.
KnownAs(held) ==
  LET roles == Caller(held, {}).roles IN
  roles \cup UNION {names \in RoleFamilies : names \cap roles # {}}

\* buildFeedBase: a user who holds these roles, with this tie, is aimed at.
AimedAt(held, tie) ==
  \/ "ALL" \in recipients
  \/ KnownAs(held) \cap recipients # {}
  \/ "GROUP" \in recipients /\ tie = "active"

\* Slip: the ties to a group are left out of the estimate.
CountedByRole(held, tie) ==
  recipients = {} \/ "ALL" \in recipients \/ held \cap recipients # {}

\* estimateAudience: counted by the roles as the database names them, and by any tie.
Counted(held, tie) ==
  \/ recipients = {} \/ "ALL" \in recipients
  \/ held \cap recipients # {}
  \/ "GROUP" \in recipients /\ tie # "none"

\* The communication is in the feed at this moment.
InFeed ==
  /\ communication.status = "PUBLISHED"
  /\ Present(communication.publish) => communication.publish <= moment
  /\ Present(communication.expires) => communication.expires >= moment

\* assertReadable.
Readable(r) ==
  /\ communication.status = "PUBLISHED"
  /\ r \in Managers \/ (InFeed /\ \E held \in SUBSET RoleNames, tie \in Tie : AimedAt(held, tie))

\* markAsRead and confirmRead ...
OpenCommunication(h) ==
  \E r \in Readers, confirms \in BOOLEAN :
    /\ writing[h].phase = "idle" /\ Present(communication) /\ Readable(r)
    /\ WritingGoes(h, [NotWriting EXCEPT !.phase = "find", !.reader = r, !.confirms = confirms])
    /\ UNCHANGED <<moment, commTables, written>>

Confirmed(row) == IF Present(row.ack) THEN row ELSE [row EXCEPT !.ack = moment]

\* ... look for the reader's row, which a confirmation completes ...
FindRead(h) ==
  LET c == writing[h]
      row == reads[c.reader]
  IN
  /\ c.phase = "find"
  /\ IF Present(row) /\ ~c.confirms THEN WritingEnds(h)
     ELSE WritingGoes(h, [c EXCEPT !.phase = IF Present(row) THEN "amend" ELSE "insert",
            !.row = IF Present(row) THEN Confirmed(row)
                    ELSE [at |-> moment, ack |-> IF c.confirms THEN moment ELSE None]])
  /\ UNCHANGED <<moment, commTables, written>>

\* ... and save it: a reader has one row, and a row that went is inserted again.
SaveRead(h) ==
  LET c == writing[h]
      stored == reads[c.reader]
  IN
  /\ c.phase \in {"insert", "amend"} /\ Present(communication)
  /\ Present(stored) => c.phase = "amend"
  /\ reads' = [reads EXCEPT ![c.reader] =
                 IF Present(stored) THEN SaveEntity(stored, stored, c.row) ELSE c.row]
  /\ WritingEnds(h)
  /\ UNCHANGED <<moment, communication, recipients, written>>

-----------------------------------------------------------------------------
MomentPasses ==
  /\ written /\ moment < LastMoment /\ moment' = moment + 1
  /\ UNCHANGED <<commTables, written, writing>>

CommunicationsNext(H) ==
  \/ \E h \in H :
       \/ CreateCommunication(h) \/ EditCommunication(h) \/ SaveCommunication(h)
       \/ ClearTargets(h) \/ InsertTargets(h) \/ RemoveCommunication(h)
       \/ OpenCommunication(h) \/ FindRead(h) \/ SaveRead(h) \/ WritingAborts(h)
  \/ MomentPasses

CommunicationsSpec == CommunicationsInit /\ [][CommunicationsNext(Handlers)]_commVars

-----------------------------------------------------------------------------
(* Type correctness of the communication, its reads and the requests.      *)
CommunicationsTypeOK ==
  /\ moment \in Moments /\ communication \in Communication \cup {None} /\ written \in BOOLEAN
  /\ recipients \subseteq Targets /\ reads \in [Readers -> Read \cup {None}]
  /\ writing \in [Handlers -> Writing]

(* A communication never expires before its publication.                   *)
DatesInOrder ==
  Present(communication) => DatesFit(StartOf(communication), communication.expires)

(* Its recipients are those of one request: everybody, or targets by name. *)
TargetsOfOneRequest == recipients \in NormalTargets \cup {{}}

(* The audience told to the author and the feed part in known ways only.   *)
(* Who sees a communication and is not counted holds a role it is aimed at *)
(* by another name of the same role.  Who is counted and does not see it is*)
(* a former member of a group, or an administrator, whose other roles the  *)
(* feed forgets; or it has no recipients, and counts everybody.            *)
AudienceExplained ==
  \A held \in SUBSET RoleNames, tie \in Tie :
    /\ AimedAt(held, tie) /\ ~Counted(held, tie) =>
         \E names \in RoleFamilies : names \cap held # {} /\ names \cap recipients # {}
    /\ Counted(held, tie) /\ ~AimedAt(held, tie) =>
         recipients = {} \/ tie = "former" \/ "Administrador" \in held

(* The first reading of a communication and its first confirmation stay.   *)
ReadingKept ==
  \A r \in Readers : Present(reads[r]) /\ Present(reads'[r]) =>
    /\ reads'[r].at = reads[r].at
    /\ Present(reads[r].ack) => reads'[r].ack = reads[r].ack

(* Nobody is recorded as a reader of what is not published.                *)
OnlyPublishedIsRead ==
  \A r \in Readers : ~Present(reads[r]) /\ Present(reads'[r]) =>
    communication.status = "PUBLISHED"
=============================================================================
