------------------------ MODULE DisciplinaryWorkflow ------------------------
(***************************************************************************)
(* The status machine of a disciplinary case (expediente): the two tables  *)
(* of disciplinary-workflow.ts, the test every handler runs before it      *)
(* moves a case, and the points a status takes off the conduct grade       *)
(* (conduct-grade.ts).                                                     *)
(***************************************************************************)

Tracks == {"DIRECT", "DUE_PROCESS"}

Statuses == {"REPORTED", "INVESTIGATING", "COMMUNICATED", "PENDING_RESOLUTION",
             "RESOLVED", "IN_APPEAL", "FIRM", "DISMISSED", "ANNULLED", "NOTIFIED"}

\* Slip: the investigation may be resolved without the formal charge.
WithoutCharge ==
  [ REPORTED           |-> {"INVESTIGATING", "ANNULLED"},
    INVESTIGATING      |-> {"COMMUNICATED", "RESOLVED", "DISMISSED", "ANNULLED"},
    COMMUNICATED       |-> {"PENDING_RESOLUTION", "ANNULLED"},
    PENDING_RESOLUTION |-> {"RESOLVED", "ANNULLED"},
    RESOLVED           |-> {"IN_APPEAL", "FIRM", "DISMISSED", "ANNULLED"},
    IN_APPEAL          |-> {"FIRM", "DISMISSED", "ANNULLED"},
    FIRM               |-> {"ANNULLED"},
    NOTIFIED           |-> {},
    DISMISSED          |-> {},
    ANNULLED           |-> {} ]

\* Slip: the charge may be resolved without waiting for the defense.
WithoutDefense == [WithoutCharge EXCEPT !.INVESTIGATING = @ \ {"RESOLVED"},
                                        !.COMMUNICATED = @ \cup {"RESOLVED"}]

\* The statuses a due-process case may move to.
DueProcessTransitions ==
  [ REPORTED           |-> {"INVESTIGATING", "ANNULLED"},
    INVESTIGATING      |-> {"COMMUNICATED", "DISMISSED", "ANNULLED"},
    COMMUNICATED       |-> {"PENDING_RESOLUTION", "ANNULLED"},
    PENDING_RESOLUTION |-> {"RESOLVED", "ANNULLED"},
    RESOLVED           |-> {"IN_APPEAL", "FIRM", "DISMISSED", "ANNULLED"},
    IN_APPEAL          |-> {"FIRM", "DISMISSED", "ANNULLED"},
    FIRM               |-> {"ANNULLED"},
    NOTIFIED           |-> {},
    DISMISSED          |-> {},
    ANNULLED           |-> {} ]

\* The statuses a direct reprimand may move to.
DirectTransitions ==
  [ NOTIFIED           |-> {"IN_APPEAL", "FIRM", "ANNULLED"},
    IN_APPEAL          |-> {"FIRM", "DISMISSED", "ANNULLED"},
    FIRM               |-> {"ANNULLED"},
    REPORTED           |-> {},
    INVESTIGATING      |-> {},
    COMMUNICATED       |-> {},
    PENDING_RESOLUTION |-> {},
    RESOLVED           |-> {},
    DISMISSED          |-> {},
    ANNULLED           |-> {} ]

CanTransition(track, from, to) ==
  to \in IF track = "DIRECT" THEN DirectTransitions[from]
                             ELSE DueProcessTransitions[from]

\* The status planCaseOpening gives a new case.
OpeningStatus(track) == IF track = "DUE_PROCESS" THEN "REPORTED" ELSE "NOTIFIED"

\* What a status does to the conduct grade.
DeductionState(status) ==
  IF status = "FIRM" THEN "APPLIED"
  ELSE IF status \in {"DISMISSED", "ANNULLED"} THEN "NONE" ELSE "PROPOSED"
=============================================================================
