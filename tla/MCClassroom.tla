----------------------------- MODULE MCClassroom -----------------------------
(***************************************************************************)
(* The classroom side for TLC: its small sets, the lessons and the queries *)
(* of a term, and what may be swapped without changing a behaviour.        *)
(***************************************************************************)
EXTENDS Classroom, TLC

CONSTANTS u1, u2, n1, g1, g2, p1, l1, l2

Lesson(i, d, g, s, t) == [id |-> i, date |-> d, group |-> g, subject |-> s, teacher |-> t]

\* Two lessons of a group on one day, two teachers, a group of its own for y.
FiveLessons ==
  {Lesson(1, 1, "A", "maths", "t1"), Lesson(2, 1, "A", "music", "t2"),
   Lesson(3, 2, "A", "maths", "t1"), Lesson(4, 3, "A", "maths", "t1"),
   Lesson(5, 3, "B", "maths", "t1")}
TwoRosters == [g \in {"A", "B"} |-> IF g = "A" THEN {"x"} ELSE {"y"}]
ThreeQueries ==
  {Anything, [Anything EXCEPT !.from = 2, !.group = "A"],
   [Anything EXCEPT !.subject = "maths", !.status = "ABSENT", !.to = 3]}

OnePeriod == (g1 :> p1) @@ (g2 :> p1)
OneSeat   == (g1 :> 1) @@ (g2 :> 1)

\* Students and leavers never meet in a behaviour: they are swapped together.
Interchangeable ==
  Permutations(Handlers) \cup Permutations(Groups)
    \cup {(u1 :> u2) @@ (u2 :> u1) @@ (l1 :> l2) @@ (l2 :> l1)}
=============================================================================
