------------------------------- MODULE Inquiries -------------------------------
(***************************************************************************)
(* The desk of an investigation: the conductor of a case observes, asks    *)
(* the reporter for information and the counselors for their opinion, and  *)
(* the director orders a precautionary measure.  All of it is rows of the  *)
(* case's history; the case's stage is read before the transaction that    *)
(* writes them, and what was asked is read in that transaction's snapshot. *)
(***************************************************************************)
EXTENDS Requests, DisciplinaryWorkflow, Sequences

CONSTANT MaxEntries   \* bound: rows of the history

Questions == {"INFO_REQUEST", "COUNSEL_REQUEST"}
Answers   == {"INFO_RESPONSE", "COUNSEL_OPINION"}

ASSUME InquiriesAssumption == MaxEntries \in Nat

VARIABLES
  caseStage,    \* disciplinary_cases.status of a case of due process
  entries,      \* its rows of disciplinary_case_events
  inquiry       \* what each request is doing

inquiryTables == <<caseStage, entries>>
inquiryVars   == <<inquiryTables, inquiry>>

\* A row answers another one (its payload's requestEventId), or none.
Entry == [type : {"OBSERVATION", "PRECAUTIONARY_MEASURE"} \cup Questions, to : {0}]
  \cup [type : Answers, to : 1..MaxEntries]

Inquiry == [phase : {"idle", "open", "write"}, entry : Entry \cup {None}]

NotInquiring == [phase |-> "idle", entry |-> None]

InquiriesInit ==
  /\ caseStage = "REPORTED" /\ entries = <<>>
  /\ inquiry = [h \in Handlers |-> NotInquiring]

InquiryGoes(h, call) == inquiry' = [inquiry EXCEPT ![h] = call]

\* A check that fails, or ROLLBACK.
InquiryAborts(h) ==
  /\ inquiry[h].phase # "idle" /\ InquiryGoes(h, NotInquiring)
  /\ UNCHANGED inquiryTables

EntriesOf(type) == {e \in 1..Len(entries) : entries[e].type = type}

AnswersTo(q) == {e \in 1..Len(entries) : entries[e].type \in Answers /\ entries[e].to = q}

-----------------------------------------------------------------------------
(* The guards on the case                                                  *)
FinalStages == {"FIRM", "DISMISSED", "ANNULLED"}

\* assertInvestigating, assertCounselStage, and the stage in order.
InStage(type) ==
  IF type \in {"OBSERVATION", "INFO_REQUEST", "INFO_RESPONSE"} THEN caseStage = "INVESTIGATING"
  ELSE caseStage \notin FinalStages

\* The case as it is read by observe, requestInformation, respond, requestCounsel,
\* issueCounsel and order.
ReadStage(h) ==
  \E row \in Entry :
    /\ inquiry[h].phase = "idle" /\ Len(entries) < MaxEntries
    /\ row.type = "INFO_RESPONSE" => row.to \in 1..Len(entries)
    /\ row.type = "COUNSEL_OPINION" => row.to = 1
    /\ InStage(row.type)
    /\ InquiryGoes(h, [phase |-> "open", entry |-> row])
    /\ UNCHANGED inquiryTables

-----------------------------------------------------------------------------
(* The reads of the transaction                                            *)

Unanswered(q) == q \in EntriesOf("INFO_REQUEST") /\ AnswersTo(q) = {}

\* openCounselRequest: the requests without an opinion; the code takes the first.
OpenCounsel == {q \in EntriesOf("COUNSEL_REQUEST") : AnswersTo(q) = {}}

MayAskCounsel == OpenCounsel = {}

\* The row that will be written, None when a check refuses it.
EntryFor(row) ==
  CASE row.type = "INFO_RESPONSE"   -> IF Unanswered(row.to) THEN row ELSE None
    [] row.type = "COUNSEL_REQUEST" -> IF MayAskCounsel THEN row ELSE None
    [] row.type = "COUNSEL_OPINION" ->
         IF OpenCounsel = {} THEN None
         ELSE [row EXCEPT !.to = CHOOSE q \in OpenCounsel : \A r \in OpenCounsel : q <= r]
    [] OTHER -> row

ReadEntries(h) ==
  LET row == EntryFor(inquiry[h].entry) IN
  /\ inquiry[h].phase = "open" /\ Present(row)
  /\ InquiryGoes(h, [phase |-> "write", entry |-> row])
  /\ UNCHANGED inquiryTables

\* writeEvent, and the rest of the transaction.
WriteEntry(h) ==
  /\ inquiry[h].phase = "write" /\ Len(entries) < MaxEntries
  /\ entries' = Append(entries, inquiry[h].entry)
  /\ InquiryGoes(h, NotInquiring)
  /\ UNCHANGED caseStage

\* Another handler, or the deadline timer, moves the case.
CaseMoves ==
  \E to \in Statuses :
    /\ CanTransition("DUE_PROCESS", caseStage, to) /\ caseStage' = to
    /\ UNCHANGED <<entries, inquiry>>

InquiriesNext(H) ==
  \/ \E h \in H : ReadStage(h) \/ ReadEntries(h) \/ WriteEntry(h) \/ InquiryAborts(h)
  \/ CaseMoves

InquiriesSpec == InquiriesInit /\ [][InquiriesNext(Handlers)]_inquiryVars

-----------------------------------------------------------------------------
(* Type correctness of the history and of the requests about it.           *)
InquiriesTypeOK ==
  /\ caseStage \in Statuses /\ entries \in Seq(Entry)
  /\ inquiry \in [Handlers -> Inquiry]

(* An answer names an earlier question of its own kind.                    *)
AnswersWhatWasAsked ==
  \A e \in 1..Len(entries) :
    entries[e].type \in Answers =>
      /\ entries[e].to < e
      /\ entries[entries[e].to].type =
           (IF entries[e].type = "INFO_RESPONSE" THEN "INFO_REQUEST" ELSE "COUNSEL_REQUEST")

(* Nothing but a precautionary measure or a request for an opinion is in   *)
(* the history of a case whose investigation has not started.              *)
NothingBeforeInvestigation ==
  caseStage = "REPORTED" =>
    EntriesOf("OBSERVATION") \cup EntriesOf("INFO_REQUEST") \cup EntriesOf("INFO_RESPONSE") = {}

(* A question gets one answer, but for requests served at the same time.   *)
AnsweredWithin(n) == \A q \in 1..Len(entries) : Cardinality(AnswersTo(q)) <= n

(* An opinion is asked for once until it is given, but for those requests. *)
OpenCounselWithin(n) == Cardinality(OpenCounsel) <= n
=============================================================================
