-------------------------- MODULE BusinessDayLoops --------------------------
(***************************************************************************)
(* The two loops of utils/business-days.ts, one iteration per step, against*)
(* the counting definitions of BusinessDays that the case model uses.  A   *)
(* behaviour is one call: addBusinessDays(start, bound) walks until        *)
(* `tally`, the days that remain, is 0; businessDaysBetween(start, bound)  *)
(* walks to the date `bound` while `tally` counts.                         *)
(***************************************************************************)
EXTENDS BusinessDays

CONSTANTS
  LastDay,   \* bound: last date with a weekend or a day off
  MaxBound   \* bound: largest number of days, and last end date

ASSUME LoopAssumption == LastDay \in Nat /\ MaxBound \in Nat

VARIABLES fn, start, bound, off, cursor, tally

vars == <<fn, start, bound, off, cursor, tally>>
args == <<fn, start, bound, off>>

Init ==
  /\ fn \in {"add", "between"} /\ start \in 0..LastDay /\ bound \in 0..MaxBound
  /\ off \in SUBSET (0..LastDay)
  /\ cursor = start
  /\ tally = IF fn = "add" THEN bound ELSE 0

\* Slip: a day off in the middle of the step is counted as worked.
CountsEveryDay(day, nonWorking) == TRUE

Counts(day, nonWorking) == IsBusinessDay(day, nonWorking)

NextDate(day) == day + 1

AddIteration ==
  /\ fn = "add" /\ tally > 0
  /\ cursor' = NextDate(cursor)
  /\ tally' = IF Counts(NextDate(cursor), off) THEN tally - 1 ELSE tally
  /\ UNCHANGED args

\* Slip: the walk stops before the end date.
ShortOfEnd(day, end) == day + 1 < end

MoreDays(day, end) == day < end

BetweenIteration ==
  /\ fn = "between" /\ MoreDays(cursor, bound)
  /\ cursor' = NextDate(cursor)
  /\ tally' = IF Counts(NextDate(cursor), off) THEN tally + 1 ELSE tally
  /\ UNCHANGED args

Next == AddIteration \/ BetweenIteration
Spec == Init /\ [][Next]_vars

-----------------------------------------------------------------------------
TypeOK ==
  /\ fn \in {"add", "between"} /\ start \in Nat /\ bound \in Nat /\ off \subseteq Nat
  /\ cursor \in Nat /\ start <= cursor /\ tally \in Nat

\* Both loops keep the count: what addBusinessDays still has to walk and what
\* it walked make up the days asked for; businessDaysBetween counted exactly
\* the business days it passed.
LoopCounts ==
  LET walked == BusinessDaysBetween(start, cursor, off) IN
  IF fn = "add" THEN walked + tally = bound ELSE walked = tally

\* When addBusinessDays returns, its date is the one AddBusinessDays defines,
\* and the dates after it are the dates for which IsPast says the step ran out.
AddReturnsDueDate ==
  fn = "add" /\ tally = 0 =>
    /\ \A today \in start..(LastDay + MaxBound + 2) :
         IsPast(start, bound, off, today) <=> today > cursor
    /\ cursor = AddBusinessDays(start, bound, off, cursor)

\* When businessDaysBetween returns, it counted up to its end date.
BetweenReturnsCount ==
  fn = "between" /\ ~ MoreDays(cursor, bound) =>
    tally = IF bound <= start THEN 0 ELSE BusinessDaysBetween(start, bound, off)

\* Either loop returns what the case model takes its answer to be.
LoopsReturn == AddReturnsDueDate /\ BetweenReturnsCount
=============================================================================
