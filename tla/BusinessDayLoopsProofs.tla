----------------------- MODULE BusinessDayLoopsProofs -----------------------
(***************************************************************************)
(* The loops of utils/business-days.ts compute the counting definitions,   *)
(* for every calendar, every start date and every number of days.          *)
(***************************************************************************)
EXTENDS BusinessDayLoops, Counting

\* Where a walk may stand: addBusinessDays never rests on a day off, and
\* businessDaysBetween never runs past its end date.
WalkShape ==
  /\ fn = "add" /\ tally = 0 => cursor = start \/ IsBusinessDay(cursor, off)
  /\ fn = "between" => cursor = start \/ cursor <= bound

LoopInv == TypeOK /\ LoopCounts /\ WalkShape

LEMMA LoopInit == Init => LoopInv
<1> SUFFICES ASSUME Init PROVE LoopInv
  OBVIOUS
<1>1. TypeOK /\ WalkShape
  BY LoopAssumption DEF Init, TypeOK, WalkShape
<1>2. BusinessDaysBetween(start, cursor, off) = 0
  BY <1>1, CountType DEF Init, TypeOK
<1> QED BY <1>1, <1>2 DEF LoopInv, LoopCounts, Init, TypeOK

LEMMA LoopStep == LoopInv /\ [Next]_vars => LoopInv'
<1> SUFFICES ASSUME LoopInv, [Next]_vars PROVE LoopInv'
  OBVIOUS
<1> USE DEF LoopInv, TypeOK
<1> DEFINE walked == BusinessDaysBetween(start, cursor, off)
<1>1. walked \in Nat
  BY CountType
<1>2. BusinessDaysBetween(start, cursor + 1, off) =
        IF IsBusinessDay(cursor + 1, off) THEN walked + 1 ELSE walked
  BY CountNextDate
<1>3. CASE AddIteration
  <2> USE <1>3 DEF AddIteration, args, NextDate, Counts
  <2>1. TypeOK' /\ WalkShape'
    BY DEF WalkShape
  <2>2. LoopCounts'
    BY <1>1, <1>2 DEF LoopCounts
  <2> QED BY <2>1, <2>2
<1>4. CASE BetweenIteration
  <2> USE <1>4 DEF BetweenIteration, args, NextDate, Counts, MoreDays
  <2>1. TypeOK' /\ WalkShape'
    BY DEF WalkShape
  <2>2. LoopCounts'
    BY <1>1, <1>2 DEF LoopCounts
  <2> QED BY <2>1, <2>2
<1>5. CASE UNCHANGED vars
  BY <1>5 DEF vars, LoopCounts, WalkShape
<1> QED BY <1>3, <1>4, <1>5 DEF Next

LEMMA LoopInvariance == Spec => []LoopInv
  BY LoopInit, LoopStep, PTL DEF Spec

\* Both loops of business-days.ts keep the count at every iteration.
THEOREM LoopsCount == Spec => []LoopCounts
  BY LoopInvariance, PTL DEF LoopInv

\* A worked date, or the start itself, is the only date with its count that
\* AddBusinessDays may choose.
LEMMA AddBusinessDaysUnique ==
  ASSUME NEW from \in Nat, NEW due \in Nat, from <= due, NEW nonWorking,
         due = from \/ IsBusinessDay(due, nonWorking)
  PROVE  due = AddBusinessDays(from, BusinessDaysBetween(from, due, nonWorking), nonWorking, due)
<1> DEFINE count == BusinessDaysBetween(from, due, nonWorking)
           Chosen(day) == /\ BusinessDaysBetween(from, day, nonWorking) = count
                          /\ day = from \/ IsBusinessDay(day, nonWorking)
<1>1. due \in from..due /\ Chosen(due)
  OBVIOUS
<1>2. ASSUME NEW day \in from..due, Chosen(day) PROVE day = due
  <2> SUFFICES ASSUME day < due PROVE FALSE
    BY <1>2
  <2>0. day \in Nat /\ from < due /\ IsBusinessDay(due, nonWorking)
    BY <1>2
  <2>1. BusinessDaysBetween(from, day, nonWorking) < count
    BY <2>0, CountMonotonic
  <2>2. BusinessDaysBetween(from, day, nonWorking) \in Nat /\ count \in Nat
    BY <2>0, CountType
  <2> QED BY <1>2, <2>1, <2>2
<1> QED BY <1>1, <1>2 DEF AddBusinessDays

\* addBusinessDays returns the date AddBusinessDays defines, and a step has run
\* out on exactly the dates after it: what planDeadline and assertOnTime compare.
THEOREM AddReturns == Spec => []AddReturnsDueDate
<1>1. LoopInv => AddReturnsDueDate
  <2> SUFFICES ASSUME LoopInv, fn = "add", tally = 0
               PROVE  /\ cursor = AddBusinessDays(start, bound, off, cursor)
                      /\ \A today \in start..(LastDay + MaxBound + 2) :
                           IsPast(start, bound, off, today) <=> today > cursor
    BY DEF AddReturnsDueDate
  <2>1. /\ start \in Nat /\ cursor \in Nat /\ start <= cursor /\ bound \in Nat
        /\ cursor = start \/ IsBusinessDay(cursor, off)
    BY DEF LoopInv, TypeOK, WalkShape
  <2>2. BusinessDaysBetween(start, cursor, off) = bound
    <3>1. BusinessDaysBetween(start, cursor, off) \in Nat
      BY <2>1, CountType
    <3> QED BY <3>1, <2>1 DEF LoopInv, LoopCounts
  <2>3. cursor = AddBusinessDays(start, bound, off, cursor)
    BY <2>1, <2>2, AddBusinessDaysUnique
  <2>4. ASSUME NEW today \in start..(LastDay + MaxBound + 2)
        PROVE  IsPast(start, bound, off, today) <=> today > cursor
    <3>0. today \in Nat
      BY <2>1, LoopAssumption
    <3>1. ASSUME today > cursor PROVE IsPast(start, bound, off, today)
      BY <3>0, <3>1, <2>1, <2>2 DEF IsPast
    <3>2. ASSUME NEW day \in start..today, day < today, ~ (today > cursor),
                 BusinessDaysBetween(start, day, off) = bound
          PROVE  FALSE
      <4>1. day \in Nat /\ day < cursor /\ start < cursor /\ IsBusinessDay(cursor, off)
        BY <3>0, <3>2, <2>1
      <4>2. BusinessDaysBetween(start, day, off) < BusinessDaysBetween(start, cursor, off)
        BY <4>1, <2>1, CountMonotonic
      <4> QED BY <4>2, <3>2, <2>2, <2>1
    <3> QED BY <3>0, <3>1, <3>2, <2>1 DEF IsPast
  <2> QED BY <2>3, <2>4
<1> QED BY <1>1, LoopInvariance, PTL

\* businessDaysBetween returns the number of business days up to its end date.
THEOREM BetweenReturns == Spec => []BetweenReturnsCount
<1>1. LoopInv => BetweenReturnsCount
  <2> SUFFICES ASSUME LoopInv, fn = "between", ~ (cursor < bound)
               PROVE  tally = IF bound <= start THEN 0 ELSE BusinessDaysBetween(start, bound, off)
    BY DEF BetweenReturnsCount, MoreDays
  <2>1. /\ start \in Nat /\ cursor \in Nat /\ start <= cursor /\ bound \in Nat
        /\ cursor = start \/ cursor <= bound
        /\ tally = BusinessDaysBetween(start, cursor, off)
    BY DEF LoopInv, TypeOK, WalkShape, LoopCounts
  <2>2. CASE bound <= start
    <3>1. cursor = start
      BY <2>1, <2>2
    <3> QED BY <2>1, <2>2, <3>1, CountType
  <2>3. CASE ~ (bound <= start)
    <3>1. cursor = bound
      BY <2>1, <2>3
    <3> QED BY <2>1, <2>3, <3>1
  <2> QED BY <2>2, <2>3
<1> QED BY <1>1, LoopInvariance, PTL

\* Both loops of business-days.ts return what the case model takes them to.
THEOREM LoopsAgree == Spec => []LoopsReturn
  BY AddReturns, BetweenReturns, PTL DEF LoopsReturn
=============================================================================
