------------------------------ MODULE Sanction ------------------------------
(***************************************************************************)
(* What the disciplinary component promises about the points a case takes  *)
(* off the conduct grade, whatever handlers bring it about:                *)
(*   - a due-process case takes points, and may be contested, only after   *)
(*     its family was told: a guardian was linked when something was sent, *)
(*     or a delivery by hand is on record.  A direct reprimand takes them  *)
(*     whether or not anybody was told;                                    *)
(*   - points are applied only while no recurso waits for its answer;      *)
(*   - a case that was cleared never takes points again.                   *)
(***************************************************************************)
VARIABLES
  deduction,   \* "PROPOSED", "APPLIED" or "NONE", as in conduct-grade.ts
  track,       \* "none" until the case exists, then for good the one it takes
  told,        \* the family was told, notified_at of the row
  contested    \* some recurso has no answer yet

Init == deduction = "PROPOSED" /\ track = "none" /\ ~ told /\ ~ contested

\* A direct reprimand is sent as the case is opened, to whom there is.
Open == /\ track = "none"
        /\ track' = "DIRECT" \/ (track' = "DUE_PROCESS" /\ ~ told')
        /\ UNCHANGED <<deduction, contested>>

\* Whatever is done to a case may tell its family, and nothing takes that back.
Goes == track # "none" /\ UNCHANGED track /\ (told => told')

\* The procedure owes the family the charge, before anything comes of it.
Charged == track = "DUE_PROCESS" => told

Tell == Goes /\ UNCHANGED <<deduction, contested>>

Contest == /\ deduction = "PROPOSED" /\ Charged
           /\ contested' = TRUE
           /\ Goes /\ UNCHANGED deduction

Answer == contested' = FALSE /\ Goes /\ UNCHANGED deduction

\* The answer to a recurso may settle the case in the same step.
ApplyPoints == /\ deduction = "PROPOSED" /\ Charged
               /\ deduction' = "APPLIED" /\ contested' = FALSE
               /\ Goes

Clear == /\ deduction # "NONE" /\ deduction' = "NONE"
         /\ contested' \in {contested, FALSE}
         /\ Goes

\* Points are never applied over a recurso that stays open: ApplyPoints may
\* close the one being answered and no step may leave another one behind.
Next == Open \/ Tell \/ Contest \/ Answer \/ ApplyPoints \/ Clear

Spec == Init /\ [][Next]_<<deduction, track, told, contested>>
=============================================================================
