------------------------------- MODULE Requests -------------------------------
(***************************************************************************)
(* What the services that answer HTTP requests over MySQL share: the set   *)
(* of requests in flight, SELECT ... FOR UPDATE, and the save of a TypeORM *)
(* entity.                                                                 *)
(***************************************************************************)
EXTENDS Integers, FiniteSets

CONSTANTS
  Handlers,   \* requests in flight at the same time
  None        \* a null column, or no value

ASSUME RequestsAssumption == IsFiniteSet(Handlers)

Present(x) == x # None

\* No other request holds one of these rows: held is handler -> rows locked.
FreeOf(held, h, wanted) == \A g \in Handlers \ {h} : held[g] \cap wanted = {}

\* save(entity) reads the row again (reread) and updates the columns in which the
\* entity differs from what it read; the other columns stay as they are in the row.
SaveEntity(row, reread, entity) ==
  [c \in DOMAIN row |-> IF entity[c] # reread[c] THEN entity[c] ELSE row[c]]
=============================================================================
