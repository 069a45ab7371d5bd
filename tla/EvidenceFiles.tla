----------------------------- MODULE EvidenceFiles -----------------------------
(***************************************************************************)
(* Files on disk and the rows that name them: the evidence of a case       *)
(* (report, defense, receipt of a delivery) and of a justification.  A     *)
(* file is written before its row, and taken back when the row fails; no   *)
(* transaction covers the disk.                                            *)
(***************************************************************************)
EXTENDS Requests, Sequences

CONSTANTS
  MaxEvidence,       \* EVIDENCE_MAX_FILES
  MaxDefenseFiles,   \* PORTAL_DEFENSE_FILES
  LastMs,            \* bound: milliseconds in which files of a justification are named
  MaxNames,          \* bound: files of the case
  MaxRows            \* bound: rows past which no upload starts

ASSUME EvidenceAssumption ==
  MaxEvidence \in Nat /\ MaxDefenseFiles \in Nat /\ LastMs \in Nat
  /\ MaxNames \in Nat /\ MaxRows \in Nat

Origins == {"report", "defense", "receipt", "justification"}

\* A file of a case is named by the clock and random bytes, so never twice; one of a
\* justification by the clock and the name it is uploaded with.
FileNames == [origin : {"case"}, n : 1..MaxNames] \cup [origin : {"justification"}, n : 0..LastMs]

EvidenceRow == [origin : Origins, path : FileNames]

VARIABLES
  ms,
  disk,         \* files in storage
  evidence,     \* disciplinary_evidences and justification_evidences, committed
  named,        \* random names given to files of the case
  uploading,    \* what each request is doing
  reused,       \* history: names that two files were given
  leftBehind    \* history: files a stopped process or a later failure left on disk

evidenceVars == <<ms, disk, evidence, named, uploading, reused, leftBehind>>

Uploading ==
  [ phase : {"idle", "file", "row", "rest"}, origin : Origins \cup {None},
    files : Seq(FileNames), pending : 0..MaxDefenseFiles ]  \* files still to write

NotUploading == [phase |-> "idle", origin |-> None, files |-> <<>>, pending |-> 0]

EvidenceInit ==
  /\ ms = 0 /\ disk = {} /\ evidence = <<>> /\ named = 0 /\ reused = {} /\ leftBehind = {}
  /\ uploading = [h \in Handlers |-> NotUploading]

UploadGoes(h, call) == uploading' = [uploading EXCEPT ![h] = call]
UploadEnds(h) == UploadGoes(h, NotUploading)

RowsOf(origins) == {i \in 1..Len(evidence) : evidence[i].origin \in origins}

\* assertEvidenceCount, of all the evidence of the case.
BelowLimit == Cardinality(RowsOf({"report", "defense", "receipt"})) < MaxEvidence

\* upload, file (of a defense), recordDelivery and uploadEvidence, past their checks:
\* only the first counts what there is.
StartUpload(h) ==
  \E origin \in Origins, files \in 1..MaxDefenseFiles :
    /\ uploading[h].phase = "idle" /\ Len(evidence) < MaxRows
    /\ origin = "report" => BelowLimit
    /\ origin # "defense" => files = 1
    /\ UploadGoes(h, [phase |-> "file", origin |-> origin, files |-> <<>>, pending |-> files])
    /\ UNCHANGED <<ms, disk, evidence, named, reused, leftBehind>>

\* Slip: the files of a case are named by the clock alone.
ByTheClock(origin) ==
  IF origin = "justification" THEN [origin |-> "justification", n |-> ms]
  ELSE [origin |-> "case", n |-> ms + 1]

NewName(origin) ==
  IF origin = "justification" THEN [origin |-> "justification", n |-> ms]
  ELSE [origin |-> "case", n |-> named + 1]

\* writeFileSync: a file of that name is replaced.
WriteFile(h) ==
  LET c == uploading[h]
      name == NewName(c.origin)
  IN
  /\ c.phase = "file" /\ (c.origin # "justification" => named < MaxNames)
  /\ disk' = disk \cup {name}
  /\ reused' = IF name \in disk THEN reused \cup {name} ELSE reused
  /\ named' = IF c.origin = "justification" THEN named ELSE named + 1
  /\ UploadGoes(h, [c EXCEPT !.phase = "row", !.files = Append(@, name), !.pending = @ - 1])
  /\ UNCHANGED <<ms, evidence, leftBehind>>

\* The row of the file, in the transaction of a defense (which may write another file)
\* or of a delivery.
InsertRow(h) ==
  LET c == uploading[h] IN
  /\ c.phase = "row" /\ c.origin \in {"defense", "receipt"}
  /\ UploadGoes(h, [c EXCEPT !.phase = IF c.pending > 0 THEN "file" ELSE "rest"])
  /\ UNCHANGED <<ms, disk, evidence, named, reused, leftBehind>>

\* The row of the others, or COMMIT.
SaveRows(h) ==
  LET c == uploading[h] IN
  /\ IF c.origin \in {"defense", "receipt"} THEN c.phase = "rest" ELSE c.phase = "row"
  /\ evidence' = evidence \o [i \in 1..Len(c.files) |-> [origin |-> c.origin, path |-> c.files[i]]]
  /\ UploadEnds(h)
  /\ UNCHANGED <<ms, disk, named, reused, leftBehind>>

WrittenBy(c) == {c.files[i] : i \in 1..Len(c.files)}

\* What the catch of each upload unlinks: the receipt's sees the failure of its row only.
TakenBack(c) == IF c.origin = "receipt" /\ c.phase = "rest" THEN {} ELSE WrittenBy(c)

\* The row, or what follows it in its transaction, fails.
UploadFails(h) ==
  LET c == uploading[h] IN
  /\ c.phase \in {"row", "rest"} \/ (c.phase = "file" /\ c.files # <<>>)
  /\ disk' = disk \ TakenBack(c)
  /\ leftBehind' = IF c.origin = "receipt" /\ c.phase = "rest" THEN leftBehind \cup WrittenBy(c)
                   ELSE leftBehind
  /\ UploadEnds(h)
  /\ UNCHANGED <<ms, evidence, named, reused>>

\* The process stops: the database rolls back, the disk does not.
UploadDies(h) ==
  /\ uploading[h].phase # "idle"
  /\ leftBehind' = leftBehind \cup WrittenBy(uploading[h])
  /\ UploadEnds(h)
  /\ UNCHANGED <<ms, disk, evidence, named, reused>>

MsPasses ==
  /\ ms < LastMs /\ ms' = ms + 1
  /\ UNCHANGED <<disk, evidence, named, uploading, reused, leftBehind>>

EvidenceNext(H) ==
  \/ \E h \in H : \/ StartUpload(h) \/ WriteFile(h) \/ InsertRow(h) \/ SaveRows(h)
                  \/ UploadFails(h) \/ UploadDies(h)
  \/ MsPasses

EvidenceSpec == EvidenceInit /\ [][EvidenceNext(Handlers)]_evidenceVars

-----------------------------------------------------------------------------
(* Type correctness of the files, their rows and the uploads.              *)
EvidenceTypeOK ==
  /\ ms \in 0..LastMs /\ disk \subseteq FileNames /\ named \in 0..MaxNames
  /\ evidence \in Seq(EvidenceRow) /\ uploading \in [Handlers -> Uploading]
  /\ reused \subseteq FileNames /\ leftBehind \subseteq FileNames

(* Every row names a file that is on disk, and no other row of a case      *)
(* names it; two uploads to a justification that share an instant and a    *)
(* name share a file, which the failure of one takes from the other.       *)
RowsHaveFiles ==
  /\ \A i \in 1..Len(evidence) : evidence[i].path \in disk \cup reused
  /\ \A i, j \in RowsOf(Origins \ {"justification"}) :
       evidence[i].path = evidence[j].path => i = j
  /\ \A name \in reused : name.origin = "justification"

(* A file no row names is held by an upload under way, or was left by a    *)
(* process that stopped or by a delivery that failed after its receipt.    *)
OrphansExplained ==
  disk \subseteq {evidence[i].path : i \in 1..Len(evidence)} \cup leftBehind
                  \cup UNION {WrittenBy(uploading[h]) : h \in Handlers}

(* The evidence uploaded to a case stays within the limit, but for the     *)
(* uploads that were past the count.                                       *)
UploadsWithin(n) == Cardinality(RowsOf({"report"})) <= MaxEvidence + n - 1
=============================================================================
