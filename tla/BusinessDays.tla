---------------------------- MODULE BusinessDays ----------------------------
(***************************************************************************)
(* Business-day arithmetic of utils/business-days.ts.  A date is a natural *)
(* number; `off` is the set of dates that are not worked: the Saturdays    *)
(* and Sundays together with the rows of non_working_days.                 *)
(***************************************************************************)
EXTENDS Naturals, FiniteSets

IsBusinessDay(day, off) == day \notin off

\* Business days strictly after start and up to end, end included.
BusinessDaysBetween(start, end, off) ==
  Cardinality({day \in (start + 1)..end : IsBusinessDay(day, off)})

\* today > addBusinessDays(start, days): the days run out before today.
IsPast(start, days, off, today) ==
  \E day \in start..today : day < today /\ BusinessDaysBetween(start, day, off) = days

\* addBusinessDays(start, days), when it is not after `horizon`.
AddBusinessDays(start, days, off, horizon) ==
  CHOOSE day \in start..horizon :
    /\ BusinessDaysBetween(start, day, off) = days
    /\ day = start \/ IsBusinessDay(day, off)
=============================================================================
