------------------------------ MODULE Classroom ------------------------------
(***************************************************************************)
(* The classroom side: enrollment, attendance, the gate, the absenteeism   *)
(* alerts and the figures of a term share no row here, so one behaviour    *)
(* runs one of them.  part names it, and crowd holds the requests that are *)
(* served in it: one of them (Alone) is the program serving one request at *)
(* a time.                                                                 *)
(***************************************************************************)
EXTENDS Enrollment, Attendance, Departures, Absenteeism, Figures, JustificationPages

VARIABLES part, crowd

Alone == Cardinality(crowd) = 1

classVars == <<enrolVars, attendVars, gateVars, alertVars, figureVars, part, crowd>>

Init ==
  /\ EnrollmentInit /\ AttendanceInit /\ GateInit /\ AlertInit /\ FiguresInit
  /\ part \in {"enrollment", "attendance", "gate", "alerts", "figures"}
  /\ crowd \in (SUBSET Handlers) \ {{}} /\ (part = "figures" => crowd = Handlers)

Next ==
  /\ \/ /\ part = "enrollment" /\ EnrollmentNext(crowd)
        /\ UNCHANGED <<attendVars, gateVars, alertVars, figureVars>>
     \/ /\ part = "attendance" /\ AttendanceNext(crowd)
        /\ UNCHANGED <<enrolVars, gateVars, alertVars, figureVars>>
     \/ /\ part = "gate" /\ GateNext(crowd)
        /\ UNCHANGED <<enrolVars, attendVars, alertVars, figureVars>>
     \/ /\ part = "alerts" /\ AlertNext(crowd)
        /\ UNCHANGED <<enrolVars, attendVars, gateVars, figureVars>>
     \/ /\ part = "figures" /\ FiguresNext
        /\ UNCHANGED <<enrolVars, attendVars, gateVars, alertVars>>
  /\ UNCHANGED <<part, crowd>>

Spec == Init /\ [][Next]_classVars

-----------------------------------------------------------------------------
(* The type invariant of the part that runs: the others stay as they began.*)
ClassroomTypeOK ==
  CASE part = "enrollment" -> EnrollmentTypeOK
    [] part = "attendance" -> AttendanceTypeOK
    [] part = "gate"       -> GateTypeOK
    [] part = "alerts"     -> AlertTypeOK
    [] part = "figures"    -> FiguresTypeOK

(* The rows the enrollment desk leaves never overlap; a group all of whose *)
(* students came through the desk, or all by the edit of a user, keeps to  *)
(* its seats, which one filled by registrations or imports need not; the   *)
(* count of a group is its rows and the writes that are known to miss it.  *)
SeatsKept == part = "enrollment" => DeskRowsApart /\ SeatsByDeskOrEdit /\ CountExplained

-----------------------------------------------------------------------------
(* The properties that hold of one request at a time.                      *)

(* An absence has one active justification at most, with an approved one   *)
(* it never reads as absent again, and the pages offer and show what the   *)
(* handlers accept.                                                        *)
ApprovedStays ==
  Alone /\ part = "attendance" =>
    ApprovedNotAbsent /\ OneActiveJustification /\ OfferedAsAccepted /\ ReadersAgree

(* An alert is told once, however often it is resolved and comes back, and *)
(* it is open only for a level found since the student was LOW.            *)
AlertsAlone == Alone => ToldOnce /\ OpenAsReached

(* A permit lets one student out once and stays spent, whatever races; one *)
(* request at a time, whoever leaves does so with a guardian.              *)
GateKept ==
  []PermitUsedOnce /\ SpentPermitsStay /\ [][Alone => LeavesWithGuardian]_classVars

(* The pages of attendance agree on the marks they all count, and on one   *)
(* day the risk of a student follows his absences.                         *)
FiguresKept ==
  [](part = "figures" => FiguresAgree) /\ [][part = "figures" => RiskFollows]_classVars

=============================================================================
