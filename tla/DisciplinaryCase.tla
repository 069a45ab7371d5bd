--------------------------- MODULE DisciplinaryCase ---------------------------
(***************************************************************************)
(* One disciplinary case (expediente) and everything that writes to it:    *)
(* the request handlers of the investigation, defense, delivery and        *)
(* appeals services and the hourly deadline reconciler.                    *)
(*                                                                         *)
(* A handler reads the case row before it opens its transaction, reads the *)
(* tables its guards need at the start of the transaction (the snapshot of *)
(* REPEATABLE READ) and then writes.  The three moments are three steps, so*)
(* handlers interleave exactly where the code awaits.  The row lock taken  *)
(* by the first write is held until the commit, hence all the writes of a  *)
(* transaction are one step.  With one handler the code runs serially.     *)
(***************************************************************************)
EXTENDS DisciplinaryWorkflow, BusinessDays, Sequences

CONSTANTS
  Handlers,           \* requests and reconcile passes in flight at the same time
  Operations,         \* the operations an instance exercises
  LastDay,            \* bound: the last date of the calendar
  Weekends,           \* its Saturdays and Sundays
  Severities,         \* the severities of infraction-severity.constant.ts
  DirectSeverities,   \* those whose cases take the DIRECT track
  InvestigationDays, DefenseDays, ResolutionDays, RevocationDays, AppealDays

Requests == {"start", "communicate", "deliverFormalCharge", "recordDelivery",
             "fileDefense", "resolve", "archive", "annul",
             "fileRevocation", "fileAppeal", "resolveRecurso"}

ASSUME ConstantsAssumption ==
  /\ Operations \subseteq Requests \cup {"reconcile", "calendar", "link"}
  /\ LastDay \in Nat /\ Weekends \subseteq 0..LastDay /\ DirectSeverities \subseteq Severities
  /\ Severities # {}
  /\ {InvestigationDays, DefenseDays, ResolutionDays, RevocationDays, AppealDays}
       \subseteq Nat \ {0}

VARIABLES
  row,             \* the disciplinary_cases row; status "none" before it exists
  appeals,         \* disciplinary_appeals, in id order
  defenses,        \* how many disciplinary_defenses rows
  communications,  \* disciplinary_communications, in id order
  bitacora,        \* the STATUS_CHANGE events of disciplinary_case_events
  elevations,      \* how many SUBSIDIARY_ELEVATED events
  today,           \* the institutional date
  daysOff,         \* non_working_days
  linked,          \* the student has a linked guardian
  call             \* the handlers in flight

tables == <<row, appeals, defenses, communications, bitacora, elevations>>
world  == <<today, daysOff, linked>>
vars   == <<row, appeals, defenses, communications, bitacora, elevations,
            today, daysOff, linked, call>>

-----------------------------------------------------------------------------
Days == 0..LastDay
Outcomes == {"none", "UPHOLD", "MODIFY", "DISMISS"}

Case == [ track : Tracks, status : Statuses \cup {"none"}, severity : Severities,
          resolutionOutcome : Outcomes, stepStartedOn : Days, stepBusinessDays : Nat,
          notifiedAt : BOOLEAN, firmAt : BOOLEAN, annulledAt : BOOLEAN ]

Appeal == [ kind : {"REVOCATION", "APPEAL"}, isSubsidiary : BOOLEAN,
            outcome : {"none", "REVOKE", "MODIFY", "UPHOLD"}, resolvedOn : Days ]

Communication ==
  [ kind : {"DIRECT_REPRIMAND", "FORMAL_CHARGE", "RESOLUTION", "APPEAL_RESOLUTION"},
    delivered : BOOLEAN ]

\* note is "deadline" for the reconciler (no actor), "request" for a handler.
StatusChange == [ from : Statuses, to : Statuses, note : {"request", "deadline"} ]

Call == [ phase : {"idle", "loaded", "checked"}, op : Requests \cup {"none", "reconcile"},
          seen : Case, on : Days, target : Nat, linked : BOOLEAN,
          expired : BOOLEAN, due : Days, read : SUBSET {"events", "tables"},
          elevated : BOOLEAN, defended : BOOLEAN, open : BOOLEAN, openAppeal : BOOLEAN,
          rejected : BOOLEAN, rejectedOn : Days ]

NoCase == [ track |-> "DIRECT", status |-> "none", severity |-> CHOOSE s \in Severities : TRUE,
            resolutionOutcome |-> "none", stepStartedOn |-> 0, stepBusinessDays |-> 0,
            notifiedAt |-> FALSE, firmAt |-> FALSE, annulledAt |-> FALSE ]

Idle == [ phase |-> "idle", op |-> "none", seen |-> NoCase, on |-> 0, target |-> 0,
          linked |-> FALSE, expired |-> FALSE, due |-> 0, read |-> {}, elevated |-> FALSE,
          defended |-> FALSE, open |-> FALSE, openAppeal |-> FALSE,
          rejected |-> FALSE, rejectedOn |-> 0 ]

NonWorkingDays == Weekends \cup daysOff

\* Slip: a recurso waiting for its answer carries a status word, not null.
FiledWithStatusWord(kind, subsidiary) ==
  [kind |-> kind, isSubsidiary |-> subsidiary, outcome |-> "PENDING", resolvedOn |-> 0]

Filed(kind, subsidiary) ==
  [kind |-> kind, isSubsidiary |-> subsidiary, outcome |-> "none", resolvedOn |-> 0]

Sent(kind, delivered) == [kind |-> kind, delivered |-> delivered]

\* Slip: the case is marked notified although the communication reached nobody.
NotifiedRegardless(had, reached) == TRUE

\* Slip: the charge that reached a guardian leaves no notified_at behind.
NoticeForgotten(had, reached) == had

\* notifiedAt is written when the communication reached a guardian.
NotifiedBy(had, reached) == had \/ reached

\* Slip: the case becomes firm and the date is forgotten.
FirmUndated(had, to) == had

\* firmAt is written together with the status FIRM.
FirmStamp(had, to) == had \/ to = "FIRM"

\* Slip: the status changes without its event.
ApplyUnlogged(seen, to, note) ==
  CanTransition(seen.track, seen.status, to) /\ UNCHANGED bitacora

\* workflow.apply: the guard is the status the handler read, the log names it.
Apply(seen, to, note) ==
  /\ CanTransition(seen.track, seen.status, to)
  /\ bitacora' = bitacora \cup {[from |-> seen.status, to |-> to, note |-> note]}

Done(h) == call' = [call EXCEPT ![h] = Idle]
-----------------------------------------------------------------------------
Init ==
  /\ row = NoCase /\ appeals = <<>> /\ defenses = 0 /\ communications = <<>>
  /\ bitacora = {} /\ elevations = 0
  /\ today = 0 /\ daysOff = {} /\ linked \in BOOLEAN
  /\ call = [h \in Handlers |-> Idle]

\* DisciplinaryCasesService.create: a direct reprimand is notified on the spot.
OpenCase(severity) ==
  LET track == IF severity \in DirectSeverities THEN "DIRECT" ELSE "DUE_PROCESS" IN
  /\ row.status = "none"
  /\ row' = [NoCase EXCEPT !.track = track, !.status = OpeningStatus(track),
               !.severity = severity, !.stepStartedOn = today,
               !.stepBusinessDays = IF track = "DIRECT" THEN RevocationDays ELSE 0,
               !.notifiedAt = NotifiedBy(FALSE, track = "DIRECT" /\ linked)]
  /\ communications' = IF track = "DIRECT" THEN <<Sent("DIRECT_REPRIMAND", FALSE)>> ELSE <<>>
  /\ UNCHANGED <<appeals, defenses, bitacora, elevations, today, daysOff, linked, call>>

-----------------------------------------------------------------------------
(* First await: the handler reads the row.  A request whose row fails a    *)
(* guard that looks at nothing else is answered with an error and changes  *)
(* nothing, so it never becomes a call in flight.                          *)

RevocationWindow ==
  \/ row.track = "DIRECT" /\ row.status = "NOTIFIED"
  \/ row.track = "DUE_PROCESS" /\ row.status = "RESOLVED"

\* Slip: cases in appeal are left out of the pass.
OpenWithoutAppeals == {"COMMUNICATED", "RESOLVED", "NOTIFIED"}

OpenForDeadline == {"COMMUNICATED", "RESOLVED", "NOTIFIED", "IN_APPEAL"}

\* Slip: the last day of the step already counts as past.
StepExpiredOnLastDay ==
  /\ row.stepBusinessDays > 0
  /\ IsPast(row.stepStartedOn, row.stepBusinessDays, NonWorkingDays, today + 1)

\* dueOn < today in planDeadline; a step of zero days has no deadline.
StepExpired ==
  /\ row.stepBusinessDays > 0
  /\ IsPast(row.stepStartedOn, row.stepBusinessDays, NonWorkingDays, today)

DueOn == AddBusinessDays(row.stepStartedOn, row.stepBusinessDays, NonWorkingDays, today)

\* A pass can only plan something for a step that expired or for an elevation.
Admits(op) ==
  CASE op = "start"       -> CanTransition(row.track, row.status, "INVESTIGATING")
    [] op \in {"communicate", "deliverFormalCharge"} ->
                             row.track = "DUE_PROCESS" /\ row.status = "INVESTIGATING"
    [] op = "fileDefense" -> /\ row.track = "DUE_PROCESS" /\ row.status = "COMMUNICATED"
                             /\ row.stepBusinessDays > 0
    [] op = "resolve"     -> CanTransition(row.track, row.status, "RESOLVED")
    [] op = "archive"     -> CanTransition(row.track, row.status, "DISMISSED")
    [] op = "annul"       -> CanTransition(row.track, row.status, "ANNULLED")
    [] op = "fileRevocation" -> RevocationWindow /\ row.stepBusinessDays > 0
    [] op = "fileAppeal"  -> row.status = "IN_APPEAL" /\ row.stepBusinessDays > 0
    [] op = "reconcile"   -> /\ row.status \in OpenForDeadline
                             /\ StepExpired \/ row.status = "IN_APPEAL"
    [] OTHER              -> TRUE

\* Filings, which compare a date with the deadline of the step they read.
Filings == {"fileDefense", "fileRevocation", "fileAppeal"}

\* The columns of the row a handler goes on to use; the others are blanked, so
\* that states differing only in a value nobody reads again are one state.
Read(op) ==
  [row EXCEPT !.stepStartedOn     = IF op \in Filings THEN @ ELSE 0,
              !.stepBusinessDays  = IF op \in Filings THEN @ ELSE 0,
              !.resolutionOutcome = IF op = "reconcile" THEN @ ELSE "none",
              !.severity   = IF op \in {"resolve", "resolveRecurso"} THEN @ ELSE NoCase.severity,
              !.notifiedAt = op \in {"recordDelivery", "resolveRecurso"} /\ @,
              !.firmAt = FALSE, !.annulledAt = FALSE]

Load(h, op) ==
  LET expires == op = "reconcile" /\ StepExpired IN
  /\ call[h].phase = "idle" /\ row.status # "none" /\ Admits(op)
  /\ call' = [call EXCEPT ![h] =
       [Idle EXCEPT !.phase = "loaded", !.op = op, !.seen = Read(op),
                    !.on = IF op \in {"archive", "annul", "resolveRecurso", "reconcile"}
                           THEN 0 ELSE today,
                    !.expired = expires, !.due = IF expires THEN DueOn ELSE 0]]
  /\ UNCHANGED <<tables, world>>

\* The request is refused by a later guard, its transaction rolls back, or
\* the process dies: nothing was written.
Abandon(h) ==
  /\ call[h].phase # "idle"
  /\ Done(h)
  /\ UNCHANGED <<tables, world>>

-----------------------------------------------------------------------------
(* Second await: the reads of the transaction, from the snapshot it opens. *)

Pass(h, op, target) ==
  /\ call[h].phase = "loaded" /\ call[h].op = op
  /\ call' = [call EXCEPT ![h] =
       [@ EXCEPT !.phase = "checked", !.target = target, !.linked = linked,
                 !.seen = [call[h].seen EXCEPT !.stepStartedOn = 0, !.stepBusinessDays = 0]]]
  /\ UNCHANGED <<tables, world>>

OnTime(h) == ~ IsPast(call[h].seen.stepStartedOn, call[h].seen.stepBusinessDays,
                      NonWorkingDays, call[h].on)

\* loadGuardians: a formal charge is sent to guardians, or handed over.
CheckCommunicate(h) == linked /\ Pass(h, "communicate", 0)
CheckDeliverFormalCharge(h) == ~ linked /\ Pass(h, "deliverFormalCharge", 0)

CheckDelivery(h) ==
  \E i \in DOMAIN communications :
    ~ communications[i].delivered /\ Pass(h, "recordDelivery", i)

CheckDefense(h) == defenses = 0 /\ OnTime(h) /\ Pass(h, "fileDefense", 0)

CheckRevocation(h) ==
  /\ OnTime(h)
  /\ \A i \in DOMAIN appeals : appeals[i].kind # "REVOCATION"
  /\ Pass(h, "fileRevocation", 0)

\* Slip: an appeal against a revocation that is not rejected yet.
AppealableAnyRevocation == \E i \in DOMAIN appeals :
  /\ appeals[i].kind = "REVOCATION" /\ \A j \in 1..(i - 1) : appeals[j].kind # "REVOCATION"
  /\ ~ appeals[i].isSubsidiary

\* The revocation was rejected, and it brought no subsidiary appeal along.
Appealable == \E i \in DOMAIN appeals :
  /\ appeals[i].kind = "REVOCATION" /\ \A j \in 1..(i - 1) : appeals[j].kind # "REVOCATION"
  /\ appeals[i].outcome = "UPHOLD" /\ ~ appeals[i].isSubsidiary

CheckAppeal(h) ==
  /\ Appealable
  /\ \A i \in DOMAIN appeals : appeals[i].kind # "APPEAL"
  /\ OnTime(h)
  /\ Pass(h, "fileAppeal", 0)

\* Slip: the outcome is not looked at.
AnyRecurso(i) == TRUE

Pending(i) == appeals[i].outcome = "none"

CheckRecurso(h) ==
  \E i \in DOMAIN appeals : Pending(i) /\ Pass(h, "resolveRecurso", i)

-----------------------------------------------------------------------------
(* The writes of each transaction.                                         *)

Start(h) ==
  LET seen == call[h].seen IN
  /\ call[h].phase = "loaded" /\ call[h].op = "start"
  /\ Apply(seen, "INVESTIGATING", "request")
  /\ row' = [row EXCEPT !.status = "INVESTIGATING", !.stepStartedOn = call[h].on,
                        !.stepBusinessDays = InvestigationDays]
  /\ Done(h)
  /\ UNCHANGED <<appeals, defenses, communications, elevations, world>>

Communicate(h) ==
  LET seen == call[h].seen IN
  /\ call[h].phase = "checked" /\ call[h].op = "communicate"
  /\ Apply(seen, "COMMUNICATED", "request")
  /\ row' = [row EXCEPT !.status = "COMMUNICATED", !.stepStartedOn = call[h].on,
                        !.stepBusinessDays = DefenseDays, !.notifiedAt = NotifiedBy(@, call[h].linked)]
  /\ communications' = Append(communications, Sent("FORMAL_CHARGE", FALSE))
  /\ Done(h)
  /\ UNCHANGED <<appeals, defenses, elevations, world>>

DeliverFormalCharge(h, deliveredOn) ==
  LET seen == call[h].seen IN
  /\ call[h].phase = "checked" /\ call[h].op = "deliverFormalCharge"
  /\ deliveredOn <= call[h].on
  /\ Apply(seen, "COMMUNICATED", "request")
  /\ row' = [row EXCEPT !.status = "COMMUNICATED", !.stepStartedOn = deliveredOn,
                        !.stepBusinessDays = DefenseDays, !.notifiedAt = TRUE]
  /\ communications' = Append(communications, Sent("FORMAL_CHARGE", TRUE))
  /\ Done(h)
  /\ UNCHANGED <<appeals, defenses, elevations, world>>

\* The clock restarts on the delivery date when the row read had no notice.
RecordDelivery(h, deliveredOn) ==
  /\ call[h].phase = "checked" /\ call[h].op = "recordDelivery"
  /\ deliveredOn <= call[h].on
  /\ communications' = [communications EXCEPT ![call[h].target].delivered = TRUE]
  /\ row' = IF call[h].seen.notifiedAt THEN row
            ELSE [row EXCEPT !.notifiedAt = TRUE, !.stepStartedOn = deliveredOn]
  /\ Done(h)
  /\ UNCHANGED <<appeals, defenses, bitacora, elevations, world>>

FileDefense(h) ==
  LET seen == call[h].seen IN
  /\ call[h].phase = "checked" /\ call[h].op = "fileDefense"
  /\ defenses' = defenses + 1
  /\ Apply(seen, "PENDING_RESOLUTION", "request")
  /\ row' = [row EXCEPT !.status = "PENDING_RESOLUTION", !.stepStartedOn = call[h].on,
                        !.stepBusinessDays = ResolutionDays]
  /\ Done(h)
  /\ UNCHANGED <<appeals, communications, elevations, world>>

\* "Modifica" needs another severity than the one read; the rest write back
\* the severity read.
Resolve(h, outcome, severity) ==
  LET seen == call[h].seen IN
  /\ call[h].phase = "loaded" /\ call[h].op = "resolve"
  /\ (outcome = "MODIFY") <=> (severity # seen.severity)
  /\ Apply(seen, "RESOLVED", "request")
  /\ row' = [row EXCEPT !.status = "RESOLVED", !.resolutionOutcome = outcome,
                        !.severity = severity, !.stepStartedOn = call[h].on,
                        !.stepBusinessDays = RevocationDays, !.notifiedAt = NotifiedBy(@, linked)]
  /\ communications' = Append(communications, Sent("RESOLUTION", FALSE))
  /\ Done(h)
  /\ UNCHANGED <<appeals, defenses, elevations, world>>

Archive(h) ==
  LET seen == call[h].seen IN
  /\ call[h].phase = "loaded" /\ call[h].op = "archive"
  /\ Apply(seen, "DISMISSED", "request")
  /\ row' = [row EXCEPT !.status = "DISMISSED", !.resolutionOutcome = "DISMISS",
                        !.stepBusinessDays = 0]
  /\ Done(h)
  /\ UNCHANGED <<appeals, defenses, communications, elevations, world>>

Annul(h) ==
  LET seen == call[h].seen IN
  /\ call[h].phase = "loaded" /\ call[h].op = "annul"
  /\ Apply(seen, "ANNULLED", "request")
  /\ row' = [row EXCEPT !.status = "ANNULLED", !.annulledAt = TRUE, !.stepBusinessDays = 0]
  /\ Done(h)
  /\ UNCHANGED <<appeals, defenses, communications, elevations, world>>

FileRevocation(h, subsidiary) ==
  LET seen == call[h].seen IN
  /\ call[h].phase = "checked" /\ call[h].op = "fileRevocation"
  /\ appeals' = Append(appeals, Filed("REVOCATION", subsidiary))
  /\ Apply(seen, "IN_APPEAL", "request")
  /\ row' = [row EXCEPT !.status = "IN_APPEAL", !.stepStartedOn = call[h].on,
                        !.stepBusinessDays = RevocationDays]
  /\ Done(h)
  /\ UNCHANGED <<defenses, communications, elevations, world>>

FileAppeal(h) ==
  /\ call[h].phase = "checked" /\ call[h].op = "fileAppeal"
  /\ appeals' = Append(appeals, Filed("APPEAL", FALSE))
  /\ row' = [row EXCEPT !.stepStartedOn = call[h].on, !.stepBusinessDays = AppealDays]
  /\ Done(h)
  /\ UNCHANGED <<defenses, communications, bitacora, elevations, world>>

-----------------------------------------------------------------------------
(* resolveRevocation and resolveAppeal: resolve() and applyOutcome().      *)

Resolves(h) == call[h].phase = "checked" /\ call[h].op = "resolveRecurso"

Answering(h) ==
  /\ communications' = Append(communications, Sent("APPEAL_RESOLUTION", FALSE))
  /\ Done(h)
  /\ UNCHANGED <<defenses, world>>

Answered(h, outcome) ==
  [appeals EXCEPT ![call[h].target].outcome = outcome,
                  ![call[h].target].resolvedOn =
                     IF outcome = "UPHOLD" /\ appeals[call[h].target].kind = "REVOCATION"
                     THEN today ELSE 0]

\* notifiedAt is set when guardians were notified and the row read had none.
NowNotified(h) == row.notifiedAt \/ (call[h].linked /\ ~ call[h].seen.notifiedAt)

\* A rejected revocation with subsidiary appeal goes up to the Dirección.
ElevateOnRejection(h) ==
  /\ Resolves(h)
  /\ appeals[call[h].target].kind = "REVOCATION" /\ appeals[call[h].target].isSubsidiary
  /\ Answering(h)
  /\ appeals' = Append(Answered(h, "UPHOLD"), Filed("APPEAL", TRUE))
  /\ row' = [row EXCEPT !.stepStartedOn = today, !.stepBusinessDays = AppealDays,
                        !.notifiedAt = NowNotified(h)]
  /\ elevations' = elevations + 1
  /\ UNCHANGED bitacora

\* Rejected without it, the window to appeal opens.
RejectRevocation(h) ==
  /\ Resolves(h)
  /\ appeals[call[h].target].kind = "REVOCATION" /\ ~ appeals[call[h].target].isSubsidiary
  /\ Answering(h)
  /\ appeals' = Answered(h, "UPHOLD")
  /\ row' = [row EXCEPT !.stepStartedOn = today, !.stepBusinessDays = RevocationDays,
                        !.notifiedAt = NowNotified(h)]
  /\ UNCHANGED <<bitacora, elevations>>

\* Every other outcome closes the case.  Only an appeal may be granted in
\* part, and that needs another severity than the one read.
CloseRecurso(h, outcome, severity) ==
  LET seen == call[h].seen
      to   == IF outcome = "REVOKE" THEN "DISMISSED" ELSE "FIRM" IN
  /\ Resolves(h)
  /\ outcome # "REVOKE" => appeals[call[h].target].kind = "APPEAL"
  /\ (outcome = "MODIFY") <=> (severity # seen.severity)
  /\ Answering(h)
  /\ appeals' = Answered(h, outcome)
  /\ Apply(seen, to, "request")
  /\ row' = [row EXCEPT !.status = to, !.severity = severity, !.stepBusinessDays = 0,
                        !.firmAt = FirmStamp(@, to), !.notifiedAt = NowNotified(h)]
  /\ UNCHANGED elevations

-----------------------------------------------------------------------------
(* reconcileDeadlines, for this case: the row and the calendar come from   *)
(* Load, the three counts of snapshot() from concurrent queries, and       *)
(* planDeadline decides on what they returned.                             *)

ReadEvents(h) ==
  /\ call[h].op = "reconcile" /\ "events" \notin call[h].read
  /\ call' = [call EXCEPT ![h].read = @ \cup {"events"}, ![h].elevated = elevations > 0]
  /\ UNCHANGED <<tables, world>>

RejectedSubsidiary ==
  {i \in DOMAIN appeals : /\ appeals[i].kind = "REVOCATION" /\ appeals[i].isSubsidiary
                          /\ appeals[i].outcome = "UPHOLD"}

Open(kinds) == \E i \in DOMAIN appeals : appeals[i].kind \in kinds /\ appeals[i].outcome = "none"

ReadTables(h) ==
  /\ call[h].op = "reconcile" /\ "tables" \notin call[h].read
  /\ \E on \in IF RejectedSubsidiary = {} THEN {0}
              ELSE {appeals[i].resolvedOn : i \in {j \in RejectedSubsidiary :
                                                   \A k \in RejectedSubsidiary : j <= k}} :
       call' = [call EXCEPT ![h].read = @ \cup {"tables"}, ![h].defended = defenses > 0,
                            ![h].open = Open({"REVOCATION", "APPEAL"}),
                            ![h].openAppeal = Open({"APPEAL"}),
                            ![h].rejected = RejectedSubsidiary # {}, ![h].rejectedOn = on]
  /\ UNCHANGED <<tables, world>>

SnapshotTaken(h) == call[h].op = "reconcile" /\ call[h].read = {"events", "tables"}

PlansElevation(c) == c.seen.status = "IN_APPEAL" /\ ~ c.elevated /\ c.rejected /\ ~ c.openAppeal

PlansPending(c) == c.seen.status = "COMMUNICATED" /\ ~ c.defended /\ c.expired

\* Slip: the open recurso is not looked at.
PlansFirmOverRecurso(c) == c.seen.status \in {"RESOLVED", "NOTIFIED", "IN_APPEAL"} /\ c.expired

PlansFirm(c) ==
  /\ c.seen.status \in {"RESOLVED", "NOTIFIED", "IN_APPEAL"}
  /\ ~ c.open /\ c.expired

FirmTarget(seen) ==
  IF seen.track = "DUE_PROCESS" /\ seen.resolutionOutcome = "DISMISS" THEN "DISMISSED" ELSE "FIRM"

Elevate(h) ==
  /\ SnapshotTaken(h) /\ PlansElevation(call[h])
  /\ row' = [row EXCEPT !.stepStartedOn = call[h].rejectedOn, !.stepBusinessDays = AppealDays]
  /\ elevations' = elevations + 1
  /\ Done(h)
  /\ UNCHANGED <<appeals, defenses, communications, bitacora, world>>

\* The pass plans nothing for the case.
NothingDue(h) ==
  /\ SnapshotTaken(h)
  /\ ~ PlansElevation(call[h]) /\ ~ PlansPending(call[h]) /\ ~ PlansFirm(call[h])
  /\ Done(h)
  /\ UNCHANGED <<tables, world>>

\* "Sin descargo": the resolution step starts on the day the defense expired.
ExpireDefense(h) ==
  /\ SnapshotTaken(h) /\ ~ PlansElevation(call[h]) /\ PlansPending(call[h])
  /\ Apply(call[h].seen, "PENDING_RESOLUTION", "deadline")
  /\ row' = [row EXCEPT !.status = "PENDING_RESOLUTION", !.stepStartedOn = call[h].due,
                        !.stepBusinessDays = ResolutionDays]
  /\ Done(h)
  /\ UNCHANGED <<appeals, defenses, communications, elevations, world>>

\* "Plazo de recursos vencido".
ExpireRecursos(h) ==
  LET to == FirmTarget(call[h].seen) IN
  /\ SnapshotTaken(h) /\ ~ PlansElevation(call[h]) /\ PlansFirm(call[h])
  /\ Apply(call[h].seen, to, "deadline")
  /\ row' = [row EXCEPT !.status = to, !.firmAt = FirmStamp(@, to)]
  /\ Done(h)
  /\ UNCHANGED <<appeals, defenses, communications, elevations, world>>

-----------------------------------------------------------------------------
(* The calendar, the passing of days and the guardian links.               *)

Tick == /\ today < LastDay
        /\ today' = today + 1
        /\ UNCHANGED <<tables, daysOff, linked, call>>

ChangeCalendar ==
  /\ "calendar" \in Operations
  /\ \E day \in Days : daysOff' = IF day \in daysOff THEN daysOff \ {day} ELSE daysOff \cup {day}
  /\ UNCHANGED <<tables, today, linked, call>>

ChangeLink ==
  /\ "link" \in Operations
  /\ linked' = ~ linked
  /\ UNCHANGED <<tables, today, daysOff, call>>

Checks(h) ==
  \/ CheckCommunicate(h) \/ CheckDeliverFormalCharge(h) \/ CheckDelivery(h)
  \/ CheckDefense(h) \/ CheckRevocation(h) \/ CheckAppeal(h) \/ CheckRecurso(h)

Commits(h) ==
  \/ Start(h) \/ Communicate(h) \/ FileDefense(h) \/ Archive(h) \/ Annul(h) \/ FileAppeal(h)
  \/ \E day \in Days : DeliverFormalCharge(h, day) \/ RecordDelivery(h, day)
  \/ \E o \in Outcomes \ {"none"}, s \in Severities : Resolve(h, o, s)
  \/ \E b \in BOOLEAN : FileRevocation(h, b)
  \/ ElevateOnRejection(h) \/ RejectRevocation(h)
  \/ \E o \in {"REVOKE", "MODIFY", "UPHOLD"}, s \in Severities : CloseRecurso(h, o, s)

Reconciles(h) ==
  \/ ReadEvents(h) \/ ReadTables(h)
  \/ Elevate(h) \/ NothingDue(h) \/ ExpireDefense(h) \/ ExpireRecursos(h)

Next ==
  \/ \E s \in Severities : OpenCase(s)
  \/ \E h \in Handlers :
       \/ \E op \in Operations \ {"calendar", "link"} : Load(h, op)
       \/ Abandon(h) \/ Checks(h) \/ Commits(h) \/ Reconciles(h)
  \/ Tick \/ ChangeCalendar \/ ChangeLink

Spec == Init /\ [][Next]_vars

\* A request ends; the hourly timer keeps starting passes whatever requests
\* come in between, and a pass goes on to its end: from some moment on the
\* database answers it.
FairSpec ==
  /\ Spec
  /\ \A h \in Handlers :
       /\ WF_vars(Abandon(h)) /\ SF_vars(Load(h, "reconcile")) /\ WF_vars(Reconciles(h))
       /\ <>[][~ (call[h].op = "reconcile" /\ Abandon(h))]_vars

-----------------------------------------------------------------------------
TypeOK ==
  /\ row \in Case /\ appeals \in Seq(Appeal) /\ defenses \in Nat
  /\ communications \in Seq(Communication) /\ bitacora \subseteq StatusChange
  /\ elevations \in Nat /\ today \in Days /\ daysOff \subseteq Days /\ linked \in BOOLEAN
  /\ call \in [Handlers -> Call]

Issued(kind) == \E i \in DOMAIN communications : communications[i].kind = kind

(* Properties of every interleaving.                                       *)

\* The bitácora explains the case: its status, and the status every entry
\* starts from, is the opening one or the end of another entry.  Handlers log
\* the status they read, which may no longer be the status they replace.
LogExplainsStatus ==
  LET explained == {OpeningStatus(row.track)} \cup {e.to : e \in bitacora} IN
  row.status # "none" => /\ row.status \in explained
                         /\ \A e \in bitacora : e.from \in explained

\* A due-process case only reaches a sanction through the procedure, however
\* its handlers interleave: nobody waits for a defense before the formal charge
\* was issued, and nothing becomes final before the resolution was.
DueProcess ==
  row.track = "DUE_PROCESS" =>
    /\ row.status \in {"COMMUNICATED", "PENDING_RESOLUTION", "RESOLVED", "IN_APPEAL", "FIRM"}
         => Issued("FORMAL_CHARGE")
    /\ row.status \in {"RESOLVED", "IN_APPEAL", "FIRM"}
         => Issued("RESOLUTION") /\ row.resolutionOutcome # "none"

\* Before a case is resolved the family was heard, or the reconciler recorded
\* that the term for the defense ran out ("Sin descargo").
Heard ==
  row.track = "DUE_PROCESS"
    /\ row.status \in {"PENDING_RESOLUTION", "RESOLVED", "IN_APPEAL", "FIRM"}
  => \/ defenses > 0
     \/ [from |-> "COMMUNICATED", to |-> "PENDING_RESOLUTION", note |-> "deadline"] \in bitacora

\* A case in appeal has a recurso, and a firm case the date it became firm.
StageIsBacked ==
  /\ row.status = "IN_APPEAL" => appeals # <<>>
  /\ row.status = "FIRM" => row.firmAt
  /\ row.status = "ANNULLED" => row.annulledAt

Answers == {i \in DOMAIN appeals : appeals[i].outcome # "none"}
Letters == {i \in DOMAIN communications : communications[i].kind = "APPEAL_RESOLUTION"}

\* resolve() asks whether a recurso is pending without locking it, so requests
\* that asked before the first answer all answer it, each with a letter to the
\* family and each over the answer before.  Nobody who asks later does: in all
\* there are as many letters as requests for each recurso answered at most, and
\* one for each at least.
AnsweredByTheInFlight ==
  /\ Cardinality(Answers) <= Cardinality(Letters)
  /\ Cardinality(Letters) <= Cardinality(Handlers) * Cardinality(Answers)

\* Without a guardian to notify, the case counts as notified only on the
\* strength of a recorded physical delivery (the links do not change).
NoticeIsReal ==
  row.notifiedAt /\ ~ linked => \E i \in DOMAIN communications : communications[i].delivered

-----------------------------------------------------------------------------
(* Properties of the code run serially: one handler at a time.             *)

OfKind(kind) == {i \in DOMAIN appeals : appeals[i].kind = kind}

\* At most one revocation and one appeal; an appeal follows a rejected
\* revocation, and was elevated, once, exactly when that one asked for it.
RecursosInOrder ==
  /\ Cardinality(OfKind("REVOCATION")) <= 1 /\ Cardinality(OfKind("APPEAL")) <= 1
  /\ \A i \in OfKind("APPEAL") : \E j \in OfKind("REVOCATION") :
       /\ j < i /\ appeals[j].outcome = "UPHOLD"
       /\ appeals[i].isSubsidiary = appeals[j].isSubsidiary
  /\ elevations = Cardinality({i \in OfKind("APPEAL") : appeals[i].isSubsidiary})

\* What the deadline pass closes had run out: as many business days as the
\* step allows passed after the day it started, all of them before today.
NothingExpiresEarly ==
  [][\A e \in bitacora' \ bitacora : e.note = "deadline" =>
       Cardinality({d \in Days : /\ row.stepStartedOn < d /\ d < today
                                 /\ d \notin NonWorkingDays}) >= row.stepBusinessDays]_vars

\* A step that ran out, with nothing left to wait for, is closed by the timer.
RanOut ==
  /\ StepExpired
  /\ \/ row.status = "COMMUNICATED" /\ defenses = 0
     \/ row.status \in {"RESOLVED", "NOTIFIED", "IN_APPEAL"} /\ ~ Open({"REVOCATION", "APPEAL"})

ExpiredStepsClose == RanOut ~> ~ RanOut

\* The promise about conduct points, kept by every handler: a due-process case
\* takes none before its family was told, no case takes any over a recurso that
\* waits, and a case that was cleared takes none again.
Promise == INSTANCE Sanction WITH
             deduction <- DeductionState(row.status),
             track     <- IF row.status = "none" THEN "none" ELSE row.track,
             told      <- row.notifiedAt,
             contested <- Open({"REVOCATION", "APPEAL"})
KeepsPromise == Promise!Spec

-----------------------------------------------------------------------------
(* What the repository says of the program and some behaviour breaks.      *)

\* workflow.spec.ts:52, "no reabre uno anulado".
AnnulledStays == [][row.status = "ANNULLED" => row'.status = "ANNULLED"]_vars

\* A resolution that dismisses proposes no points (investigation.service
\* line 306) and ends dismissed (deadline-reconcile.spec.ts:61).
DismissedTakesNoPoints ==
  row.track = "DUE_PROCESS" /\ row.resolutionOutcome = "DISMISS" => row.status # "FIRM"

\* A rejected revocation opens the window to appeal (appeals.service line 307,
\* spec line 137): the step counts from the rejection on.
AppealWindowFromRejection ==
  \A i \in DOMAIN appeals :
    /\ row.status = "IN_APPEAL" /\ appeals[i].kind = "REVOCATION"
    /\ appeals[i].outcome = "UPHOLD" /\ ~ appeals[i].isSubsidiary
    => row.stepStartedOn >= appeals[i].resolvedOn
=============================================================================
