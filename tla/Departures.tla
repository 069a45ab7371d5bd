------------------------------ MODULE Departures ------------------------------
(***************************************************************************)
(* The gate: departures of students with a guardian, and the permits that  *)
(* are scheduled for a day.  Nothing is locked: a departure is registered  *)
(* from rows read before its transaction, and a permit is taken by an      *)
(* UPDATE that names the status it must still have.                        *)
(***************************************************************************)
EXTENDS Requests, Sequences

CONSTANTS
  Leavers,      \* active students
  Companions,   \* users who may be linked to a student as guardians
  LastGateDay,  \* bound: days of the model
  MaxPermits,   \* bound
  MaxDepartures \* bound

GateDays == 1..LastGateDay

Permit    == [pupil : Leavers, day : GateDays, status : {"PENDING", "COMPLETED", "EXPIRED"}]
Departure == [pupil : Leavers, guardian : Companions, status : {"AUTHORIZED", "REJECTED"},
              permit : 0..MaxPermits]     \* 0 is NULL

ASSUME GateAssumption ==
  /\ LastGateDay \in Nat \ {0} /\ MaxPermits \in Nat /\ MaxDepartures \in Nat

VARIABLES
  gateDay,          \* today, in Costa Rica
  links,            \* guardian_student_links
  activeGuardians,  \* users.status = 'ACTIVE'
  permits,
  departures,
  gateCall

gateTables == <<links, activeGuardians, permits, departures>>
gateVars   == <<gateDay, links, activeGuardians, permits, departures, gateCall>>

-----------------------------------------------------------------------------
GateCall ==
  [ phase : {"idle", "permit", "decide"}, pupil : Leavers \cup {None},
    guardian : Companions \cup {None}, permit : 0..MaxPermits,
    verdict : {"AUTHORIZED", "REJECTED"} ]

NotAtGate ==
  [ phase |-> "idle", pupil |-> None, guardian |-> None, permit |-> 0,
    verdict |-> "REJECTED" ]

GateInit ==
  /\ gateDay = 1 /\ links = {} /\ activeGuardians = Companions
  /\ permits = <<>> /\ departures = <<>>
  /\ gateCall = [h \in Handlers |-> NotAtGate]

GateEnds(h) == gateCall' = [gateCall EXCEPT ![h] = NotAtGate]

\* A thrown check, a rollback or a lost connection.
GateAborts(h) ==
  /\ gateCall[h].phase # "idle" /\ GateEnds(h)
  /\ UNCHANGED <<gateDay, gateTables>>

-----------------------------------------------------------------------------
(* Scheduled permits                                                       *)
CreatePermit(h) ==
  \E p \in Leavers, day \in GateDays :
    /\ gateCall[h].phase = "idle" /\ day >= gateDay /\ Len(permits) < MaxPermits
    /\ permits' = Append(permits, [pupil |-> p, day |-> day, status |-> "PENDING"])
    /\ UNCHANGED <<gateDay, links, activeGuardians, departures, gateCall>>

StalePermit(permit) == permit.status = "PENDING" /\ permit.day < gateDay

\* expireStalePermits, which every list of permits and the day's counters begin with.
ExpireStalePermits(h) ==
  /\ gateCall[h].phase = "idle"
  /\ permits' = [i \in 1..Len(permits) |->
                   IF StalePermit(permits[i]) THEN [permits[i] EXCEPT !.status = "EXPIRED"]
                                              ELSE permits[i]]
  /\ UNCHANGED <<gateDay, links, activeGuardians, departures, gateCall>>

\* Slip: the UPDATE of a permit names its id only.
TakeableById(permit) == TRUE

Takeable(permit) == permit.status = "PENDING"

CompletePermit(h) ==
  \E i \in 1..Len(permits) :
    /\ gateCall[h].phase = "idle" /\ Takeable(permits[i])
    /\ permits' = [permits EXCEPT ![i].status = "COMPLETED"]
    /\ UNCHANGED <<gateDay, links, activeGuardians, departures, gateCall>>

-----------------------------------------------------------------------------
(* Departures                                                              *)

Matches(g, p) == <<g, p>> \in links /\ g \in activeGuardians

\* checkGuardian, by register and by validateGuardian (which leaves a trace of a
\* mismatch only).  A guard may also reject a guardian who matches.
CheckGuardian(h) ==
  \E p \in Leavers, g \in Companions, i \in 0..Len(permits), verdict \in {"AUTHORIZED", "REJECTED"} :
    /\ gateCall[h].phase = "idle"
    /\ verdict = "AUTHORIZED" => Matches(g, p)
    /\ gateCall' = [gateCall EXCEPT ![h] =
         [phase |-> IF i = 0 THEN "decide" ELSE "permit", pupil |-> p, guardian |-> g,
          permit |-> i, verdict |-> verdict]]
    /\ UNCHANGED <<gateDay, gateTables>>

\* register: the permit must be the student's, of today, and pending.
CheckPermit(h) ==
  LET c == gateCall[h] IN
  /\ c.phase = "permit"
  /\ permits[c.permit] = [pupil |-> c.pupil, day |-> gateDay, status |-> "PENDING"]
  /\ gateCall' = [gateCall EXCEPT ![h].phase = "decide"]
  /\ UNCHANGED <<gateDay, gateTables>>

DepartureOf(c) ==
  [pupil |-> c.pupil, guardian |-> c.guardian, status |-> c.verdict, permit |-> c.permit]

\* recordRejection: by the guard's decision, or because the guardian does not match.
RecordRejection(h) ==
  LET c == gateCall[h] IN
  /\ c.phase = "decide" /\ c.verdict = "REJECTED" /\ Len(departures) < MaxDepartures
  /\ departures' = Append(departures, DepartureOf(c))
  /\ GateEnds(h)
  /\ UNCHANGED <<gateDay, links, activeGuardians, permits>>

\* The transaction of register: the departure, and its permit if it is still pending.
Authorize(h) ==
  LET c == gateCall[h] IN
  /\ c.phase = "decide" /\ c.verdict = "AUTHORIZED" /\ Len(departures) < MaxDepartures
  /\ \/ c.permit = 0 /\ UNCHANGED permits
     \/ /\ c.permit # 0 /\ Takeable(permits[c.permit])
        /\ permits' = [permits EXCEPT ![c.permit].status = "COMPLETED"]
  /\ departures' = Append(departures, DepartureOf(c))
  /\ GateEnds(h)
  /\ UNCHANGED <<gateDay, links, activeGuardians>>

-----------------------------------------------------------------------------
\* The users module links, unlinks, deactivates and activates guardians.
ChangeGuardian(h) ==
  /\ gateCall[h].phase = "idle"
  /\ \E g \in Companions :
       \/ /\ \E p \in Leavers : links' = (links \cup {<<g, p>>}) \ (links \cap {<<g, p>>})
          /\ UNCHANGED activeGuardians
       \/ /\ activeGuardians' = (activeGuardians \cup {g}) \ (activeGuardians \cap {g})
          /\ UNCHANGED links
  /\ UNCHANGED <<gateDay, permits, departures, gateCall>>

Midnight ==
  /\ gateDay < LastGateDay /\ gateDay' = gateDay + 1
  /\ UNCHANGED <<gateTables, gateCall>>

GateNext(H) ==
  \/ \E h \in H :
       \/ CreatePermit(h) \/ ExpireStalePermits(h) \/ CompletePermit(h) \/ CheckGuardian(h)
       \/ CheckPermit(h) \/ RecordRejection(h) \/ Authorize(h) \/ ChangeGuardian(h)
       \/ GateAborts(h)
  \/ Midnight

GateSpec == GateInit /\ [][GateNext(Handlers)]_gateVars

-----------------------------------------------------------------------------
(* Type correctness of the gate's tables and requests.                     *)
GateTypeOK ==
  /\ gateDay \in GateDays /\ links \subseteq Companions \X Leavers
  /\ activeGuardians \subseteq Companions
  /\ permits \in Seq(Permit) /\ departures \in Seq(Departure)
  /\ gateCall \in [Handlers -> GateCall]

Uses(i) == {d \in 1..Len(departures) : departures[d].permit = i
                                       /\ departures[d].status = "AUTHORIZED"}

(* A permit lets its student out once: however many requests race, with    *)
(* each other, with the completion by hand and with the expiry on every    *)
(* listing, at most one authorized departure names it, the student is its  *)
(* own, and the permit then is and stays COMPLETED (register: "evita       *)
(* completar dos veces el mismo permiso en paralelo").                     *)
PermitUsedOnce ==
  \A i \in 1..Len(permits) :
    /\ Cardinality(Uses(i)) <= 1
    /\ \A d \in Uses(i) : /\ departures[d].pupil = permits[i].pupil
                          /\ permits[i].status = "COMPLETED"

(* A permit that was used or ran out never changes again.                  *)
SpentPermitsStay ==
  [][\A i \in 1..Len(permits) : permits[i].status # "PENDING" => permits'[i] = permits[i]]_gateVars

(* Served one request at a time, nobody leaves but with a guardian who is  *)
(* linked and active at that moment.  Two requests interleaved may let one *)
(* out with a guardian unlinked since (checkGuardian is not repeated).     *)
LeavesWithGuardian ==
  \A d \in 1..Len(departures') : d > Len(departures) /\ departures'[d].status = "AUTHORIZED" =>
    /\ <<departures'[d].guardian, departures'[d].pupil>> \in links
    /\ departures'[d].guardian \in activeGuardians
=============================================================================
