------------------------------- MODULE MCOffice -------------------------------
(***************************************************************************)
(* The office side on a small instance for TLC: two requests, two          *)
(* guardians, and the sheets, groups, enrollments and thresholds below.    *)
(***************************************************************************)
EXTENDS Office, TLC

CONSTANTS i1, i2, ip

-----------------------------------------------------------------------------
Terms == {[group |-> "g1", period |-> 1], [group |-> "g2", period |-> 1], [group |-> "g2", period |-> 2]}
AlertLimits == {[recidivism |-> 2, conduct |-> 80], [recidivism |-> 3, conduct |-> 95]}

LoginMaxima == (i1 :> 1) @@ (i2 :> 1) @@ (ip :> 2)

Cells(i, m, role, status, section) ==
  [id |-> i, mail |-> m, formed |-> TRUE, role |-> role, status |-> status, section |-> section]
Ana == Cells("1", "ana", "", "activo", "A")
Eva == Cells("2", "eva", "estudiante", "", "A")
Leo == Cells("3", "leo", "", "desactivado", "A")

\* Rows refused for a status, a role or a key of another row; a section of none.
Files ==
  { <<Ana>>, <<Ana, Eva>>, <<Leo, Eva>>,
    <<[Eva EXCEPT !.mail = "ana", !.status = "?"], Ana>>,
    <<[Leo EXCEPT !.role = "docente"], [Ana EXCEPT !.section = "B", !.mail = "b"]>> }
ByHand == {[id |-> "1", mail |-> "iris"]}

GroupA == [name |-> "A", capacity |-> 1, period |-> 1]
GroupB == [name |-> "B", capacity |-> 2, period |-> 1]
Namesake == [GroupA EXCEPT !.period = 2]
Offered == {{GroupA, GroupB}, {GroupA, Namesake}}

Interchangeable == Permutations(Handlers) \cup Permutations(Tutors)
=============================================================================
