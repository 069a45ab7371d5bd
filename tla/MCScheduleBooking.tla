-------------------------- MODULE MCScheduleBooking --------------------------
(* Instances of ScheduleBooking for TLC: who teaches what, and the slots.  *)
EXTENDS ScheduleBooking, TLC

CONSTANTS a1, a2, t1, g1, g2, north, south, maths, art, s1, s2, s3

Block(type, active, start, order, lesson) ==
  [type |-> type, active |-> active, start |-> start, end |-> start + 1,
   order |-> order, lesson |-> lesson]
First    == Block("CLASS", TRUE, 1, 1, 1)
Second   == Block("CLASS", TRUE, 2, 2, 2)
Recess   == Block("BREAK", FALSE, 2, 2, 0)
AllShapes == {First, Second, Recess}
SeedSlots == (s1 :> First) @@ (s2 :> Second)

\* One teacher, two groups of one section.
OneTeacher == (a1 :> t1) @@ (a2 :> t1)
TwoGroups  == (a1 :> g1) @@ (a2 :> g2)
TwoOfferings == (a1 :> maths) @@ (a2 :> art)
OneSection  == (g1 :> north) @@ (g2 :> north)
TwoSections == (g1 :> north) @@ (g2 :> south)

\* The two assignments are alike, and so are the handlers.
Swapped == (a1 :> a2) @@ (a2 :> a1) @@ (g1 :> g2) @@ (g2 :> g1) @@ (maths :> art) @@ (art :> maths)
Same    == [x \in DOMAIN Swapped |-> x]
Interchangeable == {p @@ q : p \in Permutations(Handlers), q \in {Same, Swapped}}
=============================================================================
