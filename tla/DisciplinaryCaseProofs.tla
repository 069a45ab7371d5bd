----------------------- MODULE DisciplinaryCaseProofs -----------------------
(***************************************************************************)
(* Theorems about DisciplinaryCase, and about the pages of AppealCenter    *)
(* that show the case, for every number of handlers, every calendar, every *)
(* set of operations and all step lengths.                                 *)
(***************************************************************************)
EXTENDS AppealCenter, Counting, SequenceTheorems

-----------------------------------------------------------------------------
(* Types.                                                                  *)

TablesTyped ==
  /\ row \in Case /\ appeals \in Seq(Appeal) /\ defenses \in Nat
  /\ communications \in Seq(Communication) /\ bitacora \subseteq StatusChange
  /\ elevations \in Nat

WorldTyped == today \in Days /\ daysOff \subseteq Days /\ linked \in BOOLEAN

CallsTyped == call \in [Handlers -> Call]

LEMMA TypeParts == TypeOK <=> TablesTyped /\ WorldTyped /\ CallsTyped
  BY DEF TypeOK, TablesTyped, WorldTyped, CallsTyped

LEMMA NoCaseTyped == NoCase \in Case
<1>1. (CHOOSE s \in Severities : TRUE) \in Severities
  BY ConstantsAssumption
<1>2. 0 \in Days
  BY ConstantsAssumption DEF Days
<1> QED BY <1>1, <1>2 DEF NoCase, Case, Tracks, Outcomes

LEMMA IdleTyped == Idle \in Call
<1>1. 0 \in Days
  BY ConstantsAssumption DEF Days
<1> QED BY <1>1, NoCaseTyped DEF Idle, Call

LEMMA InitTyped == Init => TypeOK
<1>1. 0 \in Days
  BY ConstantsAssumption DEF Days
<1> QED BY <1>1, NoCaseTyped, IdleTyped DEF Init, TypeOK

\* A handler that ends leaves the other calls as they are.
LEMMA DoneTyped == ASSUME NEW h \in Handlers, CallsTyped, Done(h) PROVE CallsTyped'
  BY IdleTyped DEF Done, CallsTyped

\* A sequence keeps its type when a field of one record changes.
LEMMA ChangedTyped ==
  ASSUME NEW S, NEW seq \in Seq(S), NEW i, NEW e, i \in DOMAIN seq => e \in S
  PROVE  [seq EXCEPT ![i] = e] \in Seq(S)
<1>1. CASE i \in DOMAIN seq
  BY <1>1, ExceptSeq, LenProperties
<1>2. CASE i \notin DOMAIN seq
  <2>1. [seq EXCEPT ![i] = e] = seq
    BY <1>2, LenProperties
  <2> QED BY <2>1
<1> QED BY <1>1, <1>2

\* The date the reconciler computes for a step that ran out is a calendar date.
LEMMA DueOnTyped == ASSUME TypeOK, StepExpired PROVE DueOn \in Days
<1>1. /\ row.stepStartedOn \in Nat /\ row.stepBusinessDays \in Nat /\ today \in Nat
      /\ today <= LastDay
  BY ConstantsAssumption DEF TypeOK, Case, Days
<1>2. DueOn \in row.stepStartedOn..today
  BY <1>1, DueDateExists DEF StepExpired, DueOn
<1> QED BY <1>1, <1>2, ConstantsAssumption DEF Days

-----------------------------------------------------------------------------
(* Calls in flight.                                                        *)

\* A handler in flight read a case that exists, and the track never changes.
Following ==
  \A h \in Handlers :
    \/ call[h] = Idle
    \/ /\ call[h].phase # "idle" /\ call[h].op # "none" /\ row.status # "none"
       /\ call[h].seen.status \in Statuses /\ call[h].seen.track = row.track

\* What apply logs is a status change between statuses of the case.
LEMMA ApplyTyped ==
  ASSUME TypeOK, NEW seen \in Case, seen.status \in Statuses,
         NEW to \in Statuses, NEW note \in {"request", "deadline"}, Apply(seen, to, note)
  PROVE  bitacora' \subseteq StatusChange
  BY DEF Apply, TypeOK, StatusChange

LEMMA RequestInFlight ==
  ASSUME NEW h \in Handlers, TypeOK, Following, call[h].phase # "idle" \/ call[h].op # "none"
  PROVE  /\ call[h] \in Call /\ call[h].seen \in Case /\ row.status # "none"
         /\ call[h].seen.status \in Statuses /\ call[h].seen.track = row.track
  BY DEF TypeOK, Following, Idle, Call

LEMMA AnsweredTyped ==
  ASSUME NEW h \in Handlers, NEW outcome \in {"REVOKE", "MODIFY", "UPHOLD"}, TypeOK
  PROVE  Answered(h, outcome) \in Seq(Appeal)
<1> DEFINE t == call[h].target
           on == IF outcome = "UPHOLD" /\ appeals[t].kind = "REVOCATION" THEN today ELSE 0
           e == [appeals[t] EXCEPT !.outcome = outcome, !.resolvedOn = on]
<1>1. appeals \in Seq(Appeal) /\ 0 \in Days /\ today \in Days
  BY ConstantsAssumption DEF TypeOK, Days
<1>2. t \in DOMAIN appeals => e \in Appeal
  <2>1. t \in DOMAIN appeals => appeals[t] \in Appeal
    BY <1>1, ElementOfSeq, LenProperties
  <2>2. on \in Days
    BY <1>1
  <2> QED BY <2>1, <2>2 DEF Appeal
<1>3. Answered(h, outcome) = [appeals EXCEPT ![t] = e]
  BY <1>1, LenProperties DEF Answered
<1> HIDE DEF t, e
<1>4. [appeals EXCEPT ![t] = e] \in Seq(Appeal)
  BY <1>1, <1>2, ChangedTyped
<1> QED BY <1>3, <1>4

\* The row applyOutcome closes a case with.
LEMMA ClosedTyped ==
  ASSUME NEW r \in Case, NEW to \in Statuses, NEW severity \in Severities,
         NEW firm \in BOOLEAN, NEW notified \in BOOLEAN
  PROVE  [r EXCEPT !.status = to, !.severity = severity, !.stepBusinessDays = 0,
                   !.firmAt = firm, !.notifiedAt = notified] \in Case
  BY DEF Case

LEMMA CommitsTyped ==
  ASSUME NEW h \in Handlers, TypeOK, Following, Commits(h)
  PROVE  TypeOK'
<1>1. /\ 0 \in Days /\ today \in Days
      /\ {InvestigationDays, DefenseDays, ResolutionDays, RevocationDays, AppealDays} \subseteq Nat
  BY ConstantsAssumption DEF Days, TypeOK
<1>2. /\ call[h] \in Call /\ call[h].seen \in Case
      /\ call[h].seen.status \in Statuses
  <2>1. call[h].phase # "idle"
    BY DEF Commits, Start, Communicate, FileDefense, Archive, Annul, FileAppeal,
           DeliverFormalCharge, RecordDelivery, Resolve, FileRevocation,
           ElevateOnRejection, RejectRevocation, CloseRecurso, Resolves
  <2> QED BY <2>1, RequestInFlight
<1>3. CASE Start(h)
  <2> USE <1>3 DEF Start
  <2>1. row' \in Case
    BY <1>1, <1>2 DEF TypeOK, Case, Call, Statuses
  <2>2. bitacora' \subseteq StatusChange
    BY <1>2, ApplyTyped DEF Statuses
  <2>3. CallsTyped'
    BY DoneTyped, TypeParts
  <2> QED BY <2>1, <2>2, <2>3 DEF TypeOK, CallsTyped, world
<1>4. CASE Communicate(h)
  <2> USE <1>4 DEF Communicate
  <2>1. row' \in Case
    BY <1>1, <1>2 DEF TypeOK, Case, Call, Statuses, NotifiedBy
  <2>2. bitacora' \subseteq StatusChange
    BY <1>2, ApplyTyped DEF Statuses
  <2>3. communications' \in Seq(Communication)
    BY DEF TypeOK, Sent, Communication
  <2>4. CallsTyped'
    BY DoneTyped, TypeParts
  <2> QED BY <2>1, <2>2, <2>3, <2>4 DEF TypeOK, CallsTyped, world
<1>5. CASE FileDefense(h)
  <2> USE <1>5 DEF FileDefense
  <2>1. row' \in Case
    BY <1>1, <1>2 DEF TypeOK, Case, Call, Statuses
  <2>2. bitacora' \subseteq StatusChange
    BY <1>2, ApplyTyped DEF Statuses
  <2>3. CallsTyped'
    BY DoneTyped, TypeParts
  <2> QED BY <2>1, <2>2, <2>3 DEF TypeOK, CallsTyped, world
<1>6. CASE Archive(h)
  <2> USE <1>6 DEF Archive
  <2>1. row' \in Case
    BY <1>1, <1>2 DEF TypeOK, Case, Call, Statuses, Outcomes
  <2>2. bitacora' \subseteq StatusChange
    BY <1>2, ApplyTyped DEF Statuses
  <2>3. CallsTyped'
    BY DoneTyped, TypeParts
  <2> QED BY <2>1, <2>2, <2>3 DEF TypeOK, CallsTyped, world
<1>7. CASE Annul(h)
  <2> USE <1>7 DEF Annul
  <2>1. row' \in Case
    BY <1>1, <1>2 DEF TypeOK, Case, Call, Statuses
  <2>2. bitacora' \subseteq StatusChange
    BY <1>2, ApplyTyped DEF Statuses
  <2>3. CallsTyped'
    BY DoneTyped, TypeParts
  <2> QED BY <2>1, <2>2, <2>3 DEF TypeOK, CallsTyped, world
<1>8. CASE FileAppeal(h)
  <2> USE <1>8 DEF FileAppeal
  <2>1. row' \in Case
    BY <1>1, <1>2 DEF TypeOK, Case, Call
  <2>2. appeals' \in Seq(Appeal)
    BY <1>1 DEF TypeOK, Filed, Appeal
  <2>3. CallsTyped'
    BY DoneTyped, TypeParts
  <2> QED BY <2>1, <2>2, <2>3 DEF TypeOK, CallsTyped, world
<1>9. ASSUME NEW day \in Days, DeliverFormalCharge(h, day) PROVE TypeOK'
  <2> USE <1>9 DEF DeliverFormalCharge
  <2>1. row' \in Case
    BY <1>1, <1>2 DEF TypeOK, Case, Call, Statuses
  <2>2. bitacora' \subseteq StatusChange
    BY <1>2, ApplyTyped DEF Statuses
  <2>3. communications' \in Seq(Communication)
    BY DEF TypeOK, Sent, Communication
  <2>4. CallsTyped'
    BY DoneTyped, TypeParts
  <2> QED BY <2>1, <2>2, <2>3, <2>4 DEF TypeOK, CallsTyped, world
<1>10. ASSUME NEW day \in Days, RecordDelivery(h, day) PROVE TypeOK'
  <2> USE <1>10 DEF RecordDelivery
  <2>1. row' \in Case
    BY <1>1, <1>2 DEF TypeOK, Case, Call
  <2>2. communications' \in Seq(Communication)
    <3> DEFINE t == call[h].target
               e == [communications[t] EXCEPT !.delivered = TRUE]
    <3>1. communications' = [communications EXCEPT ![t] = e]
      OBVIOUS
    <3>2. t \in DOMAIN communications => e \in Communication
      <4>1. t \in DOMAIN communications => communications[t] \in Communication
        BY ElementOfSeq, LenProperties DEF TypeOK
      <4> QED BY <4>1 DEF Communication
    <3> HIDE DEF t, e
    <3>3. communications \in Seq(Communication)
      BY DEF TypeOK
    <3>4. [communications EXCEPT ![t] = e] \in Seq(Communication)
      BY <3>2, <3>3, ChangedTyped
    <3> QED BY <3>1, <3>4
  <2>3. CallsTyped'
    BY DoneTyped, TypeParts
  <2> QED BY <2>1, <2>2, <2>3 DEF TypeOK, CallsTyped, world
<1>11. ASSUME NEW outcome \in Outcomes, NEW severity \in Severities, Resolve(h, outcome, severity)
       PROVE  TypeOK'
  <2> USE <1>11 DEF Resolve
  <2>1. row' \in Case
    BY <1>1, <1>2 DEF TypeOK, Case, Call, Statuses, NotifiedBy
  <2>2. bitacora' \subseteq StatusChange
    BY <1>2, ApplyTyped DEF Statuses
  <2>3. communications' \in Seq(Communication)
    BY DEF TypeOK, Sent, Communication
  <2>4. CallsTyped'
    BY DoneTyped, TypeParts
  <2> QED BY <2>1, <2>2, <2>3, <2>4 DEF TypeOK, CallsTyped, world
<1>12. ASSUME NEW subsidiary \in BOOLEAN, FileRevocation(h, subsidiary) PROVE TypeOK'
  <2> USE <1>12 DEF FileRevocation
  <2>1. row' \in Case
    BY <1>1, <1>2 DEF TypeOK, Case, Call, Statuses
  <2>2. bitacora' \subseteq StatusChange
    BY <1>2, ApplyTyped DEF Statuses
  <2>3. appeals' \in Seq(Appeal)
    BY <1>1 DEF TypeOK, Filed, Appeal
  <2>4. CallsTyped'
    BY DoneTyped, TypeParts
  <2> QED BY <2>1, <2>2, <2>3, <2>4 DEF TypeOK, CallsTyped, world
<1>13. ASSUME Answering(h)
       PROVE  communications' \in Seq(Communication) /\ CallsTyped'
              /\ defenses' \in Nat /\ WorldTyped'
  <2>1. communications' \in Seq(Communication)
    BY <1>13 DEF Answering, TypeOK, Sent, Communication
  <2>2. CallsTyped'
    BY <1>13, DoneTyped, TypeParts DEF Answering
  <2> QED BY <1>13, <2>1, <2>2 DEF Answering, TypeOK, WorldTyped, world
<1>14. CASE ElevateOnRejection(h)
  <2> USE <1>14 DEF ElevateOnRejection
  <2>1. row' \in Case
    BY <1>1, <1>2 DEF TypeOK, Case, NowNotified, Call
  <2>2. appeals' \in Seq(Appeal)
    <3>1. Answered(h, "UPHOLD") \in Seq(Appeal) /\ Filed("APPEAL", TRUE) \in Appeal
      BY <1>1, AnsweredTyped DEF Filed, Appeal
    <3>2. Append(Answered(h, "UPHOLD"), Filed("APPEAL", TRUE)) \in Seq(Appeal)
      BY <3>1, AppendProperties
    <3> QED BY <3>2
  <2>3. elevations' \in Nat /\ bitacora' \subseteq StatusChange
    BY DEF TypeOK
  <2> QED BY <1>13, <2>1, <2>2, <2>3 DEF TypeOK, CallsTyped, WorldTyped
<1>15. CASE RejectRevocation(h)
  <2> USE <1>15 DEF RejectRevocation
  <2>1. row' \in Case
    BY <1>1, <1>2 DEF TypeOK, Case, NowNotified, Call
  <2> QED BY <1>13, AnsweredTyped, <2>1 DEF TypeOK, CallsTyped, WorldTyped
<1>16. ASSUME NEW outcome \in {"REVOKE", "MODIFY", "UPHOLD"}, NEW severity \in Severities,
              CloseRecurso(h, outcome, severity)
       PROVE  TypeOK'
  <2> DEFINE to == IF outcome = "REVOKE" THEN "DISMISSED" ELSE "FIRM"
  <2>1. /\ to \in Statuses /\ row \in Case
        /\ NowNotified(h) \in BOOLEAN /\ FirmStamp(row.firmAt, to) \in BOOLEAN
    BY <1>2 DEF TypeOK, Case, Call, NowNotified, FirmStamp, Statuses
  <2>2. row' = [row EXCEPT !.status = to, !.severity = severity, !.stepBusinessDays = 0,
                           !.firmAt = FirmStamp(row.firmAt, to), !.notifiedAt = NowNotified(h)]
    BY <1>16 DEF CloseRecurso
  <2>3. bitacora' \subseteq StatusChange
    BY <1>2, <1>16, <2>1, ApplyTyped DEF CloseRecurso
  <2> HIDE DEF to
  <2>4. row' \in Case
    BY <2>1, <2>2, ClosedTyped
  <2> QED BY <1>13, AnsweredTyped, <1>16, <2>3, <2>4 DEF CloseRecurso, TypeOK, CallsTyped, WorldTyped
<1> QED
  BY <1>3, <1>4, <1>5, <1>6, <1>7, <1>8, <1>9, <1>10, <1>11, <1>12, <1>14, <1>15, <1>16
  DEF Commits

LEMMA SingletonTyped == ASSUME NEW S, NEW e \in S PROVE <<e>> \in Seq(S)
  OBVIOUS

LEMMA OpenCaseTyped == ASSUME NEW s \in Severities, TypeOK, OpenCase(s) PROVE TypeOK'
<1> DEFINE track == IF s \in DirectSeverities THEN "DIRECT" ELSE "DUE_PROCESS"
<1>1. /\ track \in Tracks /\ OpeningStatus(track) \in Statuses
      /\ (IF track = "DIRECT" THEN RevocationDays ELSE 0) \in Nat
      /\ NotifiedBy(FALSE, track = "DIRECT" /\ linked) \in BOOLEAN
  BY ConstantsAssumption DEF Tracks, OpeningStatus, Statuses, NotifiedBy, TypeOK
<1>2. row' = [NoCase EXCEPT !.track = track, !.status = OpeningStatus(track),
                !.severity = s, !.stepStartedOn = today,
                !.stepBusinessDays = IF track = "DIRECT" THEN RevocationDays ELSE 0,
                !.notifiedAt = NotifiedBy(FALSE, track = "DIRECT" /\ linked)]
  BY DEF OpenCase
<1>3. communications' \in Seq(Communication)
  <2>1. Sent("DIRECT_REPRIMAND", FALSE) \in Communication
    BY DEF Sent, Communication
  <2>2. communications' = <<Sent("DIRECT_REPRIMAND", FALSE)>> \/ communications' = << >>
    BY DEF OpenCase
  <2>3. <<Sent("DIRECT_REPRIMAND", FALSE)>> \in Seq(Communication) /\ << >> \in Seq(Communication)
    BY <2>1, SingletonTyped, EmptySeq
  <2> QED BY <2>2, <2>3
<1> HIDE DEF track
<1>4. today \in Days
  BY DEF TypeOK
<1>5. row' \in Case
  BY <1>1, <1>2, <1>4, NoCaseTyped DEF Case
<1> QED BY <1>3, <1>5 DEF OpenCase, TypeOK

\* The columns a handler reads are those of the row, or blank.
LEMMA ReadTyped ==
  ASSUME TypeOK, NEW op
  PROVE  /\ Read(op) \in Case
         /\ Read(op).status = row.status /\ Read(op).track = row.track
<1>1. 0 \in Days /\ NoCase.severity \in Severities /\ row \in Case
  BY ConstantsAssumption, NoCaseTyped DEF Days, Case, TypeOK
<1> QED BY <1>1 DEF Read, Case, Outcomes

LEMMA LoadTyped ==
  ASSUME NEW h \in Handlers, NEW op \in Operations \ {"calendar", "link"}, TypeOK, Load(h, op)
  PROVE  TypeOK'
<1> DEFINE expires == op = "reconcile" /\ StepExpired
           due == IF expires THEN DueOn ELSE 0
           on == IF op \in {"archive", "annul", "resolveRecurso", "reconcile"} THEN 0 ELSE today
           new == [Idle EXCEPT !.phase = "loaded", !.op = op, !.seen = Read(op), !.on = on,
                               !.expired = expires, !.due = due]
<1>1. op \in Requests \cup {"none", "reconcile"} /\ expires \in BOOLEAN
  BY ConstantsAssumption DEF StepExpired
<1>5. due \in Days /\ on \in Days
  BY ConstantsAssumption, DueOnTyped DEF TypeOK, Days
<1>2. call' = [call EXCEPT ![h] = new]
  BY DEF Load
<1>3. Read(op) \in Case
  BY ReadTyped
<1> HIDE DEF expires, due, on
<1>4. new \in Call
  BY <1>1, <1>3, <1>5, IdleTyped DEF Call
<1> HIDE DEF new
<1> QED BY <1>2, <1>4 DEF Load, TypeOK, tables, world

LEMMA AbandonTyped == ASSUME NEW h \in Handlers, TypeOK, Abandon(h) PROVE TypeOK'
  BY DoneTyped, TypeParts DEF Abandon, TypeOK, CallsTyped, tables, world

LEMMA PassTyped ==
  ASSUME NEW h \in Handlers, NEW op, NEW target \in Nat, TypeOK, Pass(h, op, target)
  PROVE  TypeOK'
<1> DEFINE new == [call[h] EXCEPT !.phase = "checked", !.target = target, !.linked = linked,
                     !.seen = [call[h].seen EXCEPT !.stepStartedOn = 0, !.stepBusinessDays = 0]]
<1>1. 0 \in Days /\ linked \in BOOLEAN /\ call[h] \in Call
  BY ConstantsAssumption DEF Days, TypeOK
<1>2. call' = [call EXCEPT ![h] = new]
  BY DEF Pass, TypeOK
<1>3. [call[h].seen EXCEPT !.stepStartedOn = 0, !.stepBusinessDays = 0] \in Case
  BY <1>1 DEF Call, Case
<1>4. new \in Call
  BY <1>1, <1>3 DEF Call
<1> HIDE DEF new
<1> QED BY <1>2, <1>4 DEF Pass, TypeOK, tables, world

\* Every check ends in Pass, with a row number or none.
LEMMA ChecksPass ==
  ASSUME NEW h \in Handlers, TypeOK, Checks(h)
  PROVE  \E op \in Requests, target \in Nat : Pass(h, op, target)
<1>1. DOMAIN appeals \subseteq Nat /\ DOMAIN communications \subseteq Nat
  BY LenProperties DEF TypeOK
<1> QED BY <1>1 DEF Checks, CheckCommunicate, CheckDeliverFormalCharge, CheckDelivery,
                    CheckDefense, CheckRevocation, CheckAppeal, CheckRecurso, Requests

LEMMA ChecksTyped == ASSUME NEW h \in Handlers, TypeOK, Checks(h) PROVE TypeOK'
  BY ChecksPass, PassTyped

LEMMA ReconcilesTyped ==
  ASSUME NEW h \in Handlers, TypeOK, Following, Reconciles(h)
  PROVE  TypeOK'
<1>1. /\ 0 \in Days /\ AppealDays \in Nat /\ ResolutionDays \in Nat
      /\ call[h] \in Call /\ row \in Case /\ appeals \in Seq(Appeal)
  BY ConstantsAssumption DEF Days, TypeOK
<1>2. call[h].seen \in Case /\ call[h].seen.status \in Statuses
  <2>1. call[h].op # "none"
    BY DEF Reconciles, ReadEvents, ReadTables, Elevate, NothingDue, ExpireDefense,
           ExpireRecursos, SnapshotTaken
  <2> QED BY <2>1, RequestInFlight
<1>3. CASE ReadEvents(h)
  <2> DEFINE new == [call[h] EXCEPT !.read = @ \cup {"events"}, !.elevated = elevations > 0]
  <2>1. call' = [call EXCEPT ![h] = new]
    BY <1>1, <1>3 DEF ReadEvents, TypeOK
  <2>2. (elevations > 0) \in BOOLEAN /\ call[h].read \cup {"events"} \in SUBSET {"events", "tables"}
    BY <1>1 DEF Call
  <2>3. new \in Call
    BY <1>1, <2>2 DEF Call
  <2> HIDE DEF new
  <2> QED BY <1>3, <2>1, <2>3 DEF ReadEvents, TypeOK, tables, world
<1>4. CASE ReadTables(h)
  <2>1. PICK on \in IF RejectedSubsidiary = {} THEN {0}
                    ELSE {appeals[i].resolvedOn : i \in {j \in RejectedSubsidiary :
                                                         \A k \in RejectedSubsidiary : j <= k}} :
          call' = [call EXCEPT ![h].read = @ \cup {"tables"}, ![h].defended = defenses > 0,
                            ![h].open = Open({"REVOCATION", "APPEAL"}),
                            ![h].openAppeal = Open({"APPEAL"}),
                            ![h].rejected = RejectedSubsidiary # {}, ![h].rejectedOn = on]
    BY <1>4 DEF ReadTables
  <2>2. on \in Days
    <3>1. ASSUME NEW i \in RejectedSubsidiary PROVE appeals[i].resolvedOn \in Days
      <4>1. appeals[i] \in Appeal
        BY <1>1, ElementOfSeq, LenProperties DEF RejectedSubsidiary
      <4> QED BY <4>1 DEF Appeal
    <3> QED BY <1>1, <2>1, <3>1
  <2> DEFINE read       == call[h].read \cup {"tables"}
             defended   == defenses > 0
             open       == Open({"REVOCATION", "APPEAL"})
             openAppeal == Open({"APPEAL"})
             rejected   == RejectedSubsidiary # {}
             new == [call[h] EXCEPT !.read = read, !.defended = defended, !.open = open,
                       !.openAppeal = openAppeal, !.rejected = rejected, !.rejectedOn = on]
  <2>3. call' = [call EXCEPT ![h] = new]
    BY <1>1, <2>1 DEF TypeOK
  <2>4. /\ read \in SUBSET {"events", "tables"} /\ defended \in BOOLEAN
        /\ open \in BOOLEAN /\ openAppeal \in BOOLEAN /\ rejected \in BOOLEAN
    BY <1>1 DEF Open, Call
  <2> HIDE DEF read, defended, open, openAppeal, rejected
  <2>5. call[h] \in Call
    BY <1>1
  <2>6. new \in Call
    BY <2>2, <2>4, <2>5 DEF Call
  <2> HIDE DEF new
  <2> QED BY <1>4, <2>3, <2>6 DEF ReadTables, TypeOK, tables, world
<1>5. CASE Elevate(h)
  <2>1. row' \in Case
    BY <1>1, <1>5 DEF Elevate, Case, Call
  <2>2. elevations' \in Nat
    BY <1>5 DEF Elevate, TypeOK
  <2>3. CallsTyped'
    BY <1>5, DoneTyped, TypeParts DEF Elevate
  <2> QED BY <1>5, <2>1, <2>2, <2>3 DEF Elevate, TypeOK, CallsTyped, world
<1>6. CASE NothingDue(h)
  BY <1>6, DoneTyped, TypeParts DEF NothingDue, TypeOK, CallsTyped, tables, world
<1>7. CASE ExpireDefense(h)
  <2>1. row' \in Case
    BY <1>1, <1>7 DEF ExpireDefense, Case, Call, Statuses
  <2>2. bitacora' \subseteq StatusChange
    BY <1>2, <1>7, ApplyTyped DEF ExpireDefense, Statuses
  <2>3. CallsTyped'
    BY <1>7, DoneTyped, TypeParts DEF ExpireDefense
  <2> QED BY <1>7, <2>1, <2>2, <2>3 DEF ExpireDefense, TypeOK, CallsTyped, world
<1>8. CASE ExpireRecursos(h)
  <2> DEFINE to == FirmTarget(call[h].seen)
  <2>1. to \in Statuses /\ FirmStamp(row.firmAt, to) \in BOOLEAN
    BY <1>1 DEF FirmTarget, Statuses, FirmStamp, Case
  <2>2. row' = [row EXCEPT !.status = to, !.firmAt = FirmStamp(row.firmAt, to)]
    BY <1>8 DEF ExpireRecursos
  <2>3. bitacora' \subseteq StatusChange
    BY <1>2, <1>8, <2>1, ApplyTyped DEF ExpireRecursos
  <2>4. CallsTyped'
    BY <1>8, DoneTyped, TypeParts DEF ExpireRecursos
  <2> HIDE DEF to
  <2>5. row' \in Case
    BY <1>1, <2>1, <2>2 DEF Case
  <2> QED BY <1>8, <2>3, <2>4, <2>5 DEF ExpireRecursos, TypeOK, CallsTyped, world
<1> QED BY <1>3, <1>4, <1>5, <1>6, <1>7, <1>8 DEF Reconciles

LEMMA WorldStepTyped == ASSUME TypeOK, Tick \/ ChangeCalendar \/ ChangeLink PROVE TypeOK'
<1>1. CASE Tick
  BY <1>1, ConstantsAssumption DEF TypeOK, Tick, tables, Days
<1>2. CASE ChangeCalendar
  BY <1>2 DEF TypeOK, ChangeCalendar, tables
<1>3. CASE ChangeLink
  BY <1>3 DEF TypeOK, ChangeLink, tables
<1> QED BY <1>1, <1>2, <1>3

LEMMA NextTyped == ASSUME TypeOK, Following, [Next]_vars PROVE TypeOK'
<1>1. CASE UNCHANGED vars
  BY <1>1 DEF vars, TypeOK
<1>2. CASE Next
  BY <1>2, OpenCaseTyped, LoadTyped, AbandonTyped, ChecksTyped, CommitsTyped,
     ReconcilesTyped, WorldStepTyped DEF Next
<1> QED BY <1>1, <1>2
-----------------------------------------------------------------------------
(* What the writes of a handler do to the case, whatever it read: the facts*)
(* the invariants below rest on.                                           *)

\* Nothing the case has on record is ever taken off it.
RecordGrows ==
  /\ row'.track = row.track /\ defenses <= defenses' /\ bitacora \subseteq bitacora'
  /\ appeals # << >> => appeals' # << >>
  /\ row.resolutionOutcome # "none" => row'.resolutionOutcome # "none"
  /\ row.notifiedAt => row'.notifiedAt
  /\ row.firmAt => row'.firmAt
  /\ row.annulledAt => row'.annulledAt
  /\ \A kind : Issued(kind) => Issued(kind)'

\* The status only moves along the workflow, from the status the handler read.
StatusMoves(h) ==
  \/ row'.status = row.status /\ bitacora' = bitacora
  \/ \E note \in {"request", "deadline"} : Apply(call[h].seen, row'.status, note)

\* communicate() goes on only with guardians to send the charge to.
ChargeLinked ==
  \A h \in Handlers :
    call[h].phase = "checked" /\ call[h].op = "communicate" => call[h].linked

\* What a handler leaves behind when it moves the case to a status.
SinDescargo == [from |-> "COMMUNICATED", to |-> "PENDING_RESOLUTION", note |-> "deadline"]

StatusBacked ==
  row'.status # row.status =>
    /\ row'.status = "COMMUNICATED" =>
         Issued("FORMAL_CHARGE")' /\ (ChargeLinked => row'.notifiedAt)
    /\ row'.status = "PENDING_RESOLUTION" => defenses' > 0 \/ SinDescargo \in bitacora'
    /\ row'.status = "RESOLVED" => Issued("RESOLUTION")' /\ row'.resolutionOutcome # "none"
    /\ row'.status = "IN_APPEAL" => appeals' # << >>
    /\ row'.status = "FIRM" => row'.firmAt
    /\ row'.status = "ANNULLED" => row'.annulledAt

\* A communication appended is issued, and the earlier ones stay issued.
LEMMA AppendIssues ==
  ASSUME NEW seq \in Seq(Communication), NEW e \in Communication
  PROVE  /\ \E i \in DOMAIN Append(seq, e) : Append(seq, e)[i].kind = e.kind
         /\ \A kind : (\E i \in DOMAIN seq : seq[i].kind = kind)
                     => \E i \in DOMAIN Append(seq, e) : Append(seq, e)[i].kind = kind
<1>1. /\ Len(seq) \in Nat /\ DOMAIN seq = 1..Len(seq)
      /\ DOMAIN Append(seq, e) = 1..(Len(seq) + 1)
      /\ Append(seq, e)[Len(seq) + 1] = e
      /\ \A i \in 1..Len(seq) : Append(seq, e)[i] = seq[i]
  BY LenProperties, AppendProperties
<1>2. \E i \in DOMAIN Append(seq, e) : Append(seq, e)[i].kind = e.kind
  BY <1>1
<1>3. ASSUME NEW kind, NEW i \in DOMAIN seq, seq[i].kind = kind
      PROVE  \E j \in DOMAIN Append(seq, e) : Append(seq, e)[j].kind = kind
  <2>1. i \in DOMAIN Append(seq, e) /\ Append(seq, e)[i] = seq[i]
    BY <1>1, <1>3
  <2> QED BY <1>3, <2>1
<1> QED BY <1>2, <1>3
LEMMA IssuedByAppend ==
  ASSUME TypeOK, NEW e \in Communication, communications' = Append(communications, e)
  PROVE  Issued(e.kind)' /\ \A kind : Issued(kind) => Issued(kind)'
<1>1. /\ \E i \in DOMAIN communications' : communications'[i].kind = e.kind
      /\ \A kind : (\E i \in DOMAIN communications : communications[i].kind = kind)
                  => \E i \in DOMAIN communications' : communications'[i].kind = kind
  <2>1. communications \in Seq(Communication)
    BY DEF TypeOK
  <2>2. /\ \E i \in DOMAIN Append(communications, e) : Append(communications, e)[i].kind = e.kind
        /\ \A kind : (\E i \in DOMAIN communications : communications[i].kind = kind)
             => \E i \in DOMAIN Append(communications, e) : Append(communications, e)[i].kind = kind
    BY <2>1, AppendIssues
  <2> QED BY <2>2
<1> QED BY <1>1 DEF Issued

LEMMA SentTyped ==
  ASSUME NEW kind \in {"DIRECT_REPRIMAND", "FORMAL_CHARGE", "RESOLUTION", "APPEAL_RESOLUTION"},
         NEW delivered \in BOOLEAN
  PROVE  Sent(kind, delivered) \in Communication /\ Sent(kind, delivered).kind = kind
  BY DEF Sent, Communication

\* A recurso filed is there, and an answer drops none.
LEMMA AppealsKept ==
  ASSUME TypeOK, NEW h, NEW outcome, NEW e \in Appeal
  PROVE  /\ appeals # << >> => Answered(h, outcome) # << >>
         /\ Append(appeals, e) # << >>
<1>1. appeals \in Seq(Appeal)
  BY DEF TypeOK
<1>2. appeals # << >> => Answered(h, outcome) # << >>
  <2>1. DOMAIN Answered(h, outcome) = DOMAIN appeals
    BY DEF Answered
  <2>2. appeals # << >> => 1 \in DOMAIN appeals
    BY <1>1, EmptySeq, LenProperties
  <2>3. 1 \notin DOMAIN << >>
    OBVIOUS
  <2> QED BY <2>1, <2>2, <2>3
<1>3. Append(appeals, e) # << >>
  BY <1>1, AppendProperties
<1> QED BY <1>2, <1>3

LEMMA CommitEffects ==
  ASSUME NEW h \in Handlers, TypeOK, Following, Commits(h)
  PROVE  RecordGrows /\ StatusMoves(h) /\ StatusBacked /\ row'.status # "none"
<1> USE DEF RecordGrows, StatusMoves, StatusBacked, Apply, tables, world
<1>1. row \in Case /\ bitacora \subseteq StatusChange /\ defenses \in Nat /\ row.status # "none"
  <2>1. call[h].phase # "idle"
    BY DEF Commits, Start, Communicate, FileDefense, Archive, Annul, FileAppeal,
           DeliverFormalCharge, RecordDelivery, Resolve, FileRevocation,
           ElevateOnRejection, RejectRevocation, CloseRecurso, Resolves
  <2> QED BY <2>1, RequestInFlight DEF TypeOK
<1>2. ASSUME UNCHANGED communications PROVE \A kind : Issued(kind) => Issued(kind)'
  BY <1>2 DEF Issued
<1>3. CASE Start(h)
  BY <1>1, <1>2, <1>3 DEF Start, Case
<1>4. CASE Communicate(h)
  <2>1. Issued("FORMAL_CHARGE")' /\ \A kind : Issued(kind) => Issued(kind)'
    BY <1>4, IssuedByAppend, SentTyped DEF Communicate
  <2>2. (row.notifiedAt => row'.notifiedAt) /\ (call[h].linked => row'.notifiedAt)
    BY <1>1, <1>4 DEF Communicate, NotifiedBy, Case
  <2>3. ChargeLinked => call[h].linked
    BY <1>4 DEF Communicate, ChargeLinked
  <2>4. /\ row'.status = "COMMUNICATED" /\ row'.track = row.track
        /\ row'.resolutionOutcome = row.resolutionOutcome
        /\ row'.firmAt = row.firmAt /\ row'.annulledAt = row.annulledAt
        /\ UNCHANGED <<appeals, defenses>> /\ Apply(call[h].seen, "COMMUNICATED", "request")
    BY <1>1, <1>4 DEF Communicate, Case
  <2> HIDE DEF Apply
  <2>5. bitacora \subseteq bitacora'
    BY <2>4 DEF Apply
  <2> QED BY <1>1, <2>1, <2>2, <2>3, <2>4, <2>5
<1>5. CASE FileDefense(h)
  BY <1>1, <1>2, <1>5 DEF FileDefense, Case
<1>6. CASE Archive(h)
  BY <1>1, <1>2, <1>6 DEF Archive, Case
<1>7. CASE Annul(h)
  BY <1>1, <1>2, <1>7 DEF Annul, Case
<1>8. CASE FileAppeal(h)
  <2>1. Filed("APPEAL", FALSE) \in Appeal
    BY ConstantsAssumption DEF Filed, Appeal, Days
  <2>2. appeals' # << >>
    BY <1>8, <2>1, AppealsKept DEF FileAppeal
  <2>3. /\ row'.status = row.status /\ row'.track = row.track
        /\ row'.resolutionOutcome = row.resolutionOutcome /\ row'.notifiedAt = row.notifiedAt
        /\ row'.firmAt = row.firmAt /\ row'.annulledAt = row.annulledAt
        /\ bitacora' = bitacora
    BY <1>1, <1>8 DEF FileAppeal, Case
  <2>4. UNCHANGED defenses /\ \A kind : Issued(kind) => Issued(kind)'
    BY <1>2, <1>8 DEF FileAppeal
  <2> QED BY <1>1, <2>2, <2>3, <2>4
<1>9. ASSUME NEW day \in Days, DeliverFormalCharge(h, day)
      PROVE  RecordGrows /\ StatusMoves(h) /\ StatusBacked /\ row'.status # "none"
  <2>1. Issued("FORMAL_CHARGE")' /\ \A kind : Issued(kind) => Issued(kind)'
    BY <1>9, IssuedByAppend, SentTyped DEF DeliverFormalCharge
  <2> QED BY <1>1, <1>9, <2>1 DEF DeliverFormalCharge, Case
<1>10. ASSUME NEW day \in Days, RecordDelivery(h, day)
       PROVE  RecordGrows /\ StatusMoves(h) /\ StatusBacked /\ row'.status # "none"
  <2>1. \A kind : Issued(kind) => Issued(kind)'
    <3>1. /\ DOMAIN communications' = DOMAIN communications
          /\ \A i \in DOMAIN communications : communications'[i].kind = communications[i].kind
      <4>1. \A i \in DOMAIN communications : communications[i] \in Communication
        BY ElementOfSeq, LenProperties DEF TypeOK
      <4> QED BY <1>10, <4>1 DEF RecordDelivery, Communication
    <3> QED BY <3>1 DEF Issued
  <2> QED BY <1>1, <1>10, <2>1 DEF RecordDelivery, Case
<1>11. ASSUME NEW outcome \in Outcomes \ {"none"}, NEW severity \in Severities,
              Resolve(h, outcome, severity)
       PROVE  RecordGrows /\ StatusMoves(h) /\ StatusBacked /\ row'.status # "none"
  <2>1. Issued("RESOLUTION")' /\ \A kind : Issued(kind) => Issued(kind)'
    BY <1>11, IssuedByAppend, SentTyped DEF Resolve
  <2> QED BY <1>1, <1>11, <2>1 DEF Resolve, NotifiedBy, Case
<1>12. ASSUME NEW subsidiary \in BOOLEAN, FileRevocation(h, subsidiary)
       PROVE  RecordGrows /\ StatusMoves(h) /\ StatusBacked /\ row'.status # "none"
  <2>1. Filed("REVOCATION", subsidiary) \in Appeal
    BY ConstantsAssumption DEF Filed, Appeal, Days
  <2>2. appeals' # << >>
    BY <1>12, <2>1, AppealsKept DEF FileRevocation
  <2> QED BY <1>1, <1>2, <1>12, <2>2 DEF FileRevocation, Case
<1>13. Filed("APPEAL", TRUE) \in Appeal
  BY ConstantsAssumption DEF Filed, Appeal, Days
<1>14. ASSUME Answering(h)
       PROVE  UNCHANGED defenses /\ \A kind : Issued(kind) => Issued(kind)'
  BY <1>14, IssuedByAppend, SentTyped DEF Answering
<1>15. CASE ElevateOnRejection(h)
  <2>1. appeals' # << >>
    <3>1. Answered(h, "UPHOLD") \in Seq(Appeal)
      BY AnsweredTyped
    <3>2. Append(Answered(h, "UPHOLD"), Filed("APPEAL", TRUE)) # << >>
      BY <1>13, <3>1, AppendProperties
    <3> QED BY <1>15, <3>2 DEF ElevateOnRejection
  <2>2. /\ row'.status = row.status /\ row'.track = row.track
        /\ row'.resolutionOutcome = row.resolutionOutcome
        /\ row'.firmAt = row.firmAt /\ row'.annulledAt = row.annulledAt
        /\ row.notifiedAt => row'.notifiedAt
        /\ bitacora' = bitacora
    BY <1>1, <1>15 DEF ElevateOnRejection, NowNotified, Case
  <2>3. UNCHANGED defenses /\ \A kind : Issued(kind) => Issued(kind)'
    BY <1>14, <1>15 DEF ElevateOnRejection
  <2> QED BY <1>1, <2>1, <2>2, <2>3
<1>16. CASE RejectRevocation(h)
  <2>1. appeals # << >> => appeals' # << >>
    BY <1>13, <1>16, AppealsKept DEF RejectRevocation
  <2> QED BY <1>1, <1>16, <1>14, <2>1 DEF RejectRevocation, NowNotified, Case
<1>17. ASSUME NEW outcome \in {"REVOKE", "MODIFY", "UPHOLD"}, NEW severity \in Severities,
              CloseRecurso(h, outcome, severity)
       PROVE  RecordGrows /\ StatusMoves(h) /\ StatusBacked /\ row'.status # "none"
  <2>1. appeals # << >> => appeals' # << >>
    BY <1>13, <1>17, AppealsKept DEF CloseRecurso
  <2> DEFINE to == IF outcome = "REVOKE" THEN "DISMISSED" ELSE "FIRM"
  <2>2. /\ row' = [row EXCEPT !.status = to, !.severity = severity, !.stepBusinessDays = 0,
                              !.firmAt = FirmStamp(row.firmAt, to), !.notifiedAt = NowNotified(h)]
        /\ Apply(call[h].seen, to, "request")
        /\ Answering(h)
    BY <1>17 DEF CloseRecurso
  <2>3. row'.status = to /\ to \in {"DISMISSED", "FIRM"} /\ (to = "FIRM" => row'.firmAt)
    BY <1>1, <2>2 DEF Case, FirmStamp
  <2>4. RecordGrows
    BY <1>1, <1>14, <2>1, <2>2 DEF Case, FirmStamp, NowNotified
  <2>5. StatusMoves(h)
    BY <2>2, <2>3
  <2> QED BY <2>3, <2>4, <2>5
<1> QED
  BY <1>3, <1>4, <1>5, <1>6, <1>7, <1>8, <1>9, <1>10, <1>11, <1>12, <1>15, <1>16, <1>17
  DEF Commits
LEMMA ReconcileEffects ==
  ASSUME NEW h \in Handlers, TypeOK, Following, Reconciles(h)
  PROVE  RecordGrows /\ StatusMoves(h) /\ StatusBacked /\ row'.status # "none"
<1> USE DEF RecordGrows, StatusMoves, StatusBacked, tables, world
<1>1. /\ row \in Case /\ row.status # "none" /\ call[h].seen.status \in Statuses
      /\ defenses \in Nat
  <2>1. call[h].op # "none"
    BY DEF Reconciles, ReadEvents, ReadTables, Elevate, NothingDue, ExpireDefense,
           ExpireRecursos, SnapshotTaken
  <2> QED BY <2>1, RequestInFlight DEF TypeOK
<1>2. ASSUME UNCHANGED communications PROVE \A kind : Issued(kind) => Issued(kind)'
  BY <1>2 DEF Issued
<1>3. CASE ReadEvents(h) \/ ReadTables(h) \/ NothingDue(h)
  <2>1. row' = row /\ UNCHANGED <<appeals, defenses, communications, bitacora>>
    BY <1>3 DEF ReadEvents, ReadTables, NothingDue
  <2> QED BY <1>1, <1>2, <2>1
<1>4. CASE Elevate(h)
  BY <1>1, <1>2, <1>4 DEF Elevate, Case
<1>5. CASE ExpireDefense(h)
  <2>1. SinDescargo \in bitacora'
    BY <1>5 DEF ExpireDefense, PlansPending, Apply, SinDescargo
  <2> QED BY <1>1, <1>2, <1>5, <2>1 DEF ExpireDefense, Case, Apply
<1>6. CASE ExpireRecursos(h)
  <2> DEFINE to == FirmTarget(call[h].seen)
  <2>1. /\ row' = [row EXCEPT !.status = to, !.firmAt = FirmStamp(row.firmAt, to)]
        /\ Apply(call[h].seen, to, "deadline")
        /\ UNCHANGED <<appeals, defenses, communications>>
    BY <1>6 DEF ExpireRecursos
  <2>2. row'.status = to /\ to \in {"DISMISSED", "FIRM"} /\ (to = "FIRM" => row'.firmAt)
    BY <1>1, <2>1 DEF Case, FirmStamp, FirmTarget
  <2> HIDE DEF to
  <2>3. RecordGrows
    BY <1>1, <1>2, <2>1 DEF Case, FirmStamp, Apply
  <2>4. StatusMoves(h)
    BY <2>1, <2>2
  <2> QED BY <2>2, <2>3, <2>4
<1> QED BY <1>3, <1>4, <1>5, <1>6 DEF Reconciles

\* The handlers the step is not of keep what they read; the one it is of keeps
\* it too, or ends.
LEMMA CallsFollow ==
  ASSUME NEW h \in Handlers, TypeOK, Following, Checks(h) \/ Commits(h) \/ Reconciles(h)
  PROVE  \A g \in Handlers :
           \/ call'[g] = Idle
           \/ /\ call'[g].phase # "idle" /\ call'[g].op # "none" /\ call[g].op # "none"
              /\ call'[g].seen.status = call[g].seen.status
              /\ call'[g].seen.track = call[g].seen.track
<1>1. call \in [Handlers -> Call] /\ \A g \in Handlers : call[g] \in Call /\ call[g].seen \in Case
  BY DEF TypeOK, Call
<1>2. \A g \in Handlers :
        call[g] = Idle \/ (call[g].phase # "idle" /\ call[g].op # "none")
  BY DEF Following
<1>3. CASE Done(h)
  BY <1>1, <1>2, <1>3 DEF Done
<1>4. ASSUME NEW op \in Requests, NEW target \in Nat, Pass(h, op, target)
      PROVE  \A g \in Handlers :
           \/ call'[g] = Idle
           \/ /\ call'[g].phase # "idle" /\ call'[g].op # "none" /\ call[g].op # "none"
              /\ call'[g].seen.status = call[g].seen.status
              /\ call'[g].seen.track = call[g].seen.track
  <2>1. /\ call[h].op = op /\ op # "none"
        /\ call'[h].phase = "checked" /\ call'[h].op = op
        /\ call'[h].seen = [call[h].seen EXCEPT !.stepStartedOn = 0, !.stepBusinessDays = 0]
        /\ \A g \in Handlers \ {h} : call'[g] = call[g]
    BY <1>1, <1>4 DEF Pass, Call, Requests
  <2>2. call'[h].seen.status = call[h].seen.status /\ call'[h].seen.track = call[h].seen.track
    BY <1>1, <2>1 DEF Case
  <2> QED BY <1>2, <2>1, <2>2
<1>5. CASE ReadEvents(h) \/ ReadTables(h)
  <2>1. /\ call[h].op = "reconcile"
        /\ call'[h].phase = call[h].phase /\ call'[h].op = call[h].op /\ call'[h].seen = call[h].seen
        /\ \A g \in Handlers \ {h} : call'[g] = call[g]
    <3>1. CASE ReadEvents(h)
      BY <1>1, <3>1 DEF ReadEvents, Call
    <3>2. CASE ReadTables(h)
      <4>1. PICK on :
              call' = [call EXCEPT ![h].read = @ \cup {"tables"}, ![h].defended = defenses > 0,
                            ![h].open = Open({"REVOCATION", "APPEAL"}),
                            ![h].openAppeal = Open({"APPEAL"}),
                            ![h].rejected = RejectedSubsidiary # {}, ![h].rejectedOn = on]
        BY <3>2 DEF ReadTables
      <4>2. call[h].op = "reconcile"
        BY <3>2 DEF ReadTables
      <4> DEFINE new == [call[h] EXCEPT !.read = @ \cup {"tables"}, !.defended = defenses > 0,
                            !.open = Open({"REVOCATION", "APPEAL"}),
                            !.openAppeal = Open({"APPEAL"}),
                            !.rejected = RejectedSubsidiary # {}, !.rejectedOn = on]
      <4>3. call' = [call EXCEPT ![h] = new]
        BY <1>1, <4>1
      <4>4. new.phase = call[h].phase /\ new.op = call[h].op /\ new.seen = call[h].seen
        BY <1>1 DEF Call
      <4> HIDE DEF new
      <4> QED BY <1>1, <4>2, <4>3, <4>4
    <3> QED BY <1>5, <3>1, <3>2
  <2>2. call[h] # Idle
    BY <2>1 DEF Idle
  <2> QED BY <1>2, <2>1, <2>2
<1>6. CASE Checks(h)
  BY <1>4, <1>6, ChecksPass
<1>7. CASE Commits(h)
  BY <1>3, <1>7 DEF Commits, Start, Communicate, FileDefense, Archive, Annul, FileAppeal,
         DeliverFormalCharge, RecordDelivery, Resolve, FileRevocation,
         ElevateOnRejection, RejectRevocation, CloseRecurso, Answering
<1>8. CASE Reconciles(h)
  BY <1>3, <1>5, <1>8 DEF Reconciles, Elevate, NothingDue, ExpireDefense, ExpireRecursos
<1> QED BY <1>6, <1>7, <1>8
LEMMA HandlerEffects ==
  ASSUME NEW h \in Handlers, TypeOK, Following, Checks(h) \/ Commits(h) \/ Reconciles(h)
  PROVE  /\ RecordGrows /\ StatusMoves(h) /\ StatusBacked /\ row'.status # "none"
         /\ call[h] # Idle
<1>1. CASE Checks(h)
  <2>1. row' = row /\ UNCHANGED <<appeals, defenses, communications, bitacora>>
        /\ call[h].phase = "loaded"
    BY <1>1, ChecksPass DEF Pass, tables
  <2>2. row.status # "none" /\ defenses \in Nat /\ call[h] # Idle
    BY <2>1, RequestInFlight DEF TypeOK, Idle
  <2> QED BY <2>1, <2>2 DEF RecordGrows, StatusMoves, StatusBacked, Issued
<1>2. CASE Commits(h)
  <2>1. call[h].phase # "idle"
    BY <1>2 DEF Commits, Start, Communicate, FileDefense, Archive, Annul, FileAppeal,
           DeliverFormalCharge, RecordDelivery, Resolve, FileRevocation,
           ElevateOnRejection, RejectRevocation, CloseRecurso, Resolves
  <2> QED BY <1>2, <2>1, CommitEffects DEF Idle
<1>3. CASE Reconciles(h)
  <2>1. call[h].op # "none"
    BY <1>3 DEF Reconciles, ReadEvents, ReadTables, Elevate, NothingDue, ExpireDefense,
           ExpireRecursos, SnapshotTaken
  <2> QED BY <1>3, <2>1, ReconcileEffects DEF Idle
<1> QED BY <1>1, <1>2, <1>3

\* A step opens the case, or is a handler's, or leaves the tables alone.
LEMMA StepKinds ==
  ASSUME Next
  PROVE  \/ \E s \in Severities : OpenCase(s)
         \/ \E h \in Handlers : Checks(h) \/ Commits(h) \/ Reconciles(h)
         \/ \E h \in Handlers, op \in Operations \ {"calendar", "link"} : Load(h, op)
         \/ UNCHANGED tables /\ \E h \in Handlers : Done(h)
         \/ UNCHANGED <<tables, call>>
  BY DEF Next, Abandon, Tick, ChangeCalendar, ChangeLink

\* What Load puts into a call.
LEMMA LoadSeen ==
  ASSUME NEW h \in Handlers, NEW op \in Operations \ {"calendar", "link"}, TypeOK, Load(h, op)
  PROVE  /\ row.status \in Statuses
         /\ call'[h].phase = "loaded" /\ call'[h].op = op /\ op # "none"
         /\ call'[h].seen.status = row.status /\ call'[h].seen.track = row.track
         /\ \A g \in Handlers \ {h} : call'[g] = call[g]
         /\ row' = row /\ UNCHANGED <<appeals, defenses, communications, bitacora>>
<1>1. /\ row' = row /\ UNCHANGED <<appeals, defenses, communications, bitacora>>
      /\ row.status # "none" /\ row \in Case /\ call \in [Handlers -> Call]
  BY DEF Load, tables, TypeOK
<1>2. /\ call'[h].phase = "loaded" /\ call'[h].op = op /\ call'[h].seen = Read(op)
      /\ \A g \in Handlers \ {h} : call'[g] = call[g]
  BY <1>1 DEF Load, Idle
<1>3. op # "none"
  BY ConstantsAssumption DEF Requests
<1> QED BY <1>1, <1>2, <1>3, ReadTyped DEF Case

LEMMA FollowingKept == ASSUME TypeOK, Following, [Next]_vars PROVE Following'
<1>1. CASE UNCHANGED vars
  BY <1>1 DEF vars, Following
<1>2. ASSUME NEW s \in Severities, OpenCase(s) PROVE Following'
  BY <1>2 DEF OpenCase, Following
<1>3. ASSUME NEW h \in Handlers, Checks(h) \/ Commits(h) \/ Reconciles(h) PROVE Following'
  <2>1. row'.track = row.track /\ row'.status # "none"
    BY <1>3, HandlerEffects DEF RecordGrows
  <2>2. ASSUME NEW g \in Handlers, call'[g] # Idle
        PROVE  /\ call'[g].phase # "idle" /\ call'[g].op # "none"
               /\ call'[g].seen.status \in Statuses /\ call'[g].seen.track = row'.track
    <3>1. /\ call'[g].phase # "idle" /\ call'[g].op # "none" /\ call[g].op # "none"
          /\ call'[g].seen.status = call[g].seen.status
          /\ call'[g].seen.track = call[g].seen.track
      BY <1>3, <2>2, CallsFollow
    <3>2. call[g].seen.status \in Statuses /\ call[g].seen.track = row.track
      BY <3>1, RequestInFlight
    <3> QED BY <2>1, <3>1, <3>2
  <2> QED BY <2>1, <2>2 DEF Following
<1>4. ASSUME NEW h \in Handlers, NEW op \in Operations \ {"calendar", "link"}, Load(h, op)
      PROVE  Following'
  <2>1. row.status # "none"
    BY <1>4 DEF Load
  <2> QED BY <1>4, <2>1, LoadSeen DEF Following
<1>5. ASSUME NEW h \in Handlers, UNCHANGED tables, Done(h) PROVE Following'
  BY <1>5 DEF Following, Done, tables, TypeOK
<1>6. ASSUME UNCHANGED <<tables, call>> PROVE Following'
  BY <1>6 DEF Following, tables
<1> QED BY <1>1, <1>2, <1>3, <1>4, <1>5, <1>6, StepKinds

-----------------------------------------------------------------------------
(* The theorems.                                                           *)

\* The inductive invariant all the others are proved on.
LEMMA Reachable == Spec => [](TypeOK /\ Following)
<1>1. Init => TypeOK /\ Following
  BY InitTyped DEF Init, Following
<1>2. TypeOK /\ Following /\ [Next]_vars => (TypeOK /\ Following)'
  BY NextTyped, FollowingKept
<1> QED BY <1>1, <1>2, PTL DEF Spec

\* Whatever requests and passes interleave, the rows stay rows of their
\* tables: statuses, outcomes and dates are ones the entities can hold, and
\* the date a pass computes for a step that ran out is one of the calendar.
THEOREM TypeCorrect == Spec => []TypeOK
  BY Reachable, PTL

\* A case in appeal has a recurso, a firm one its date, an annulled one its
\* mark: each handler writes the status and what backs it together.
THEOREM StagesBacked == Spec => []StageIsBacked
<1>1. Init => StageIsBacked
  BY DEF Init, StageIsBacked, NoCase
<1>2. TypeOK /\ Following /\ StageIsBacked /\ [Next]_vars => StageIsBacked'
  <2> SUFFICES ASSUME TypeOK, Following, StageIsBacked, [Next]_vars PROVE StageIsBacked'
    OBVIOUS
  <2>1. CASE UNCHANGED vars
    BY <2>1 DEF vars, StageIsBacked
  <2>2. ASSUME NEW s \in Severities, OpenCase(s) PROVE StageIsBacked'
    <3>1. row'.status \in {"REPORTED", "NOTIFIED"}
      BY <2>2, NoCaseTyped DEF OpenCase, OpeningStatus, Case
    <3> QED BY <3>1 DEF StageIsBacked
  <2>3. ASSUME NEW h \in Handlers, Checks(h) \/ Commits(h) \/ Reconciles(h) PROVE StageIsBacked'
    BY <2>3, HandlerEffects DEF StageIsBacked, RecordGrows, StatusBacked
  <2>4. ASSUME UNCHANGED tables PROVE StageIsBacked'
    BY <2>4 DEF StageIsBacked, tables
  <2> QED BY <2>1, <2>2, <2>3, <2>4, StepKinds DEF Load
<1> QED BY <1>1, <1>2, Reachable, PTL DEF Spec
Explained == {OpeningStatus(row.track)} \cup {e.to : e \in bitacora}

\* LogExplainsStatus, of the case and of what every handler read of it.
LogExplainsReads ==
  /\ row.status = "none" => bitacora = {}
  /\ row.status # "none" => row.status \in Explained
  /\ \A e \in bitacora : e.from \in Explained
  /\ \A h \in Handlers : call[h] # Idle => call[h].seen.status \in Explained

LEMMA LogExplainsReadsKept ==
  ASSUME TypeOK, Following, LogExplainsReads, [Next]_vars
  PROVE  LogExplainsReads'
<1>1. CASE UNCHANGED vars
  BY <1>1 DEF vars, LogExplainsReads, Explained
<1>2. ASSUME NEW s \in Severities, OpenCase(s) PROVE LogExplainsReads'
  <2>1. row'.status = OpeningStatus(row'.track) /\ bitacora' = {} /\ UNCHANGED call
    BY <1>2, NoCaseTyped DEF OpenCase, Case, LogExplainsReads
  <2>2. OpeningStatus(row'.track) # "none" /\ \A h \in Handlers : call[h] = Idle
    BY <1>2 DEF OpeningStatus, OpenCase, Following
  <2> QED BY <2>1, <2>2 DEF LogExplainsReads, Explained
<1>3. ASSUME NEW h \in Handlers, Checks(h) \/ Commits(h) \/ Reconciles(h)
      PROVE  LogExplainsReads'
  <2>1. /\ row'.track = row.track /\ bitacora \subseteq bitacora' /\ row'.status # "none"
        /\ StatusMoves(h) /\ call[h] # Idle
    BY <1>3, HandlerEffects DEF RecordGrows
  <2>2. Explained \subseteq Explained'
    BY <2>1 DEF Explained
  <2>3. \A g \in Handlers : call'[g] # Idle => call'[g].seen.status \in Explained'
    <3>1. ASSUME NEW g \in Handlers, call'[g] # Idle
          PROVE  call[g] # Idle /\ call'[g].seen.status = call[g].seen.status
      <4>1. call[g].op # "none" /\ call'[g].seen.status = call[g].seen.status
        BY <1>3, <3>1, CallsFollow
      <4> QED BY <4>1 DEF Idle
    <3> QED BY <2>2, <3>1 DEF LogExplainsReads
  <2>4. CASE row'.status = row.status /\ bitacora' = bitacora
    BY <2>1, <2>2, <2>3, <2>4 DEF LogExplainsReads
  <2>5. ASSUME NEW note \in {"request", "deadline"}, Apply(call[h].seen, row'.status, note)
        PROVE  LogExplainsReads'
    <3>1. bitacora' = bitacora \cup
            {[from |-> call[h].seen.status, to |-> row'.status, note |-> note]}
      BY <2>5 DEF Apply
    <3>2. call[h].seen.status \in Explained
      BY <2>1 DEF LogExplainsReads
    <3>3. row'.status \in Explained'
      <4> DEFINE e == [from |-> call[h].seen.status, to |-> row'.status, note |-> note]
      <4>1. e \in bitacora' /\ e.to = row'.status
        BY <3>1
      <4> HIDE DEF e
      <4> QED BY <4>1 DEF Explained
    <3>4. \A e \in bitacora' : e.from \in Explained'
      BY <2>2, <3>1, <3>2 DEF LogExplainsReads
    <3> QED BY <2>1, <2>3, <3>3, <3>4 DEF LogExplainsReads
  <2> QED BY <2>1, <2>4, <2>5 DEF StatusMoves
<1>4. ASSUME NEW h \in Handlers, NEW op \in Operations \ {"calendar", "link"}, Load(h, op)
      PROVE  LogExplainsReads'
  <2>1. row.status # "none"
    BY <1>4 DEF Load
  <2> QED BY <1>4, <2>1, LoadSeen DEF LogExplainsReads, Explained
<1>5. ASSUME NEW h \in Handlers, UNCHANGED tables, Done(h) PROVE LogExplainsReads'
  BY <1>5 DEF LogExplainsReads, Explained, Done, tables, TypeOK
<1>6. ASSUME UNCHANGED <<tables, call>> PROVE LogExplainsReads'
  BY <1>6 DEF LogExplainsReads, Explained, tables
<1> QED BY <1>1, <1>2, <1>3, <1>4, <1>5, <1>6, StepKinds

\* The bitácora explains the case although handlers log a status that may be
\* stale: what they read was explained when they read it, and stays so.
THEOREM LogExplains == Spec => []LogExplainsStatus
<1>1. Init => LogExplainsReads
  BY DEF Init, LogExplainsReads, NoCase
<1>2. LogExplainsReads => LogExplainsStatus
  BY DEF LogExplainsReads, LogExplainsStatus, Explained
<1> QED BY <1>1, <1>2, LogExplainsReadsKept, Reachable, PTL DEF Spec

-----------------------------------------------------------------------------
\* What a due-process case has on record when it reaches a status.
Milestones(status) ==
  /\ status \in {"COMMUNICATED", "PENDING_RESOLUTION", "RESOLVED", "IN_APPEAL", "FIRM"}
       => Issued("FORMAL_CHARGE") /\ row.notifiedAt
  /\ status \in {"PENDING_RESOLUTION", "RESOLVED", "IN_APPEAL", "FIRM"}
       => defenses > 0 \/ SinDescargo \in bitacora
  /\ status \in {"RESOLVED", "IN_APPEAL", "FIRM"}
       => Issued("RESOLUTION") /\ row.resolutionOutcome # "none"

Reached == {status \in Statuses : Milestones(status)}

\* DueProcess and Heard, of the case and of what every handler read of it.
ProcessFollowed ==
  row.track = "DUE_PROCESS" =>
    /\ row.status # "none" => row.status \in Reached
    /\ \A h \in Handlers : call[h] # Idle => call[h].seen.status \in Reached

LEMMA ReachedGrows == ASSUME TypeOK, TypeOK', RecordGrows PROVE Reached \subseteq Reached'
<1>1. defenses \in Nat /\ defenses' \in Nat
  BY DEF TypeOK
<1> QED BY <1>1 DEF Reached, Milestones, RecordGrows

LEMMA ChargeLinkedKept ==
  ASSUME TypeOK, Following, ChargeLinked, [Next]_vars
  PROVE  ChargeLinked'
<1>1. call \in [Handlers -> Call]
  BY DEF TypeOK
<1>2. CASE UNCHANGED call
  BY <1>2 DEF ChargeLinked
<1>3. ASSUME NEW h \in Handlers, Done(h) PROVE ChargeLinked'
  BY <1>1, <1>3 DEF Done, ChargeLinked, Idle
<1>4. ASSUME NEW h \in Handlers, NEW op \in Operations \ {"calendar", "link"}, Load(h, op)
      PROVE  ChargeLinked'
  BY <1>4, LoadSeen DEF ChargeLinked
<1>5. ASSUME NEW h \in Handlers, Checks(h) PROVE ChargeLinked'
  <2>1. ASSUME NEW op, NEW target, Pass(h, op, target), op = "communicate" => linked
        PROVE  ChargeLinked'
    <3>1. /\ call'[h].op = op /\ call'[h].linked = linked
          /\ \A g \in Handlers \ {h} : call'[g] = call[g]
      BY <1>1, <2>1 DEF Pass, Call
    <3> QED BY <2>1, <3>1 DEF ChargeLinked
  <2> QED
    BY <1>5, <2>1 DEF Checks, CheckCommunicate, CheckDeliverFormalCharge, CheckDelivery, CheckDefense,
       CheckRevocation, CheckAppeal, CheckRecurso
<1>6. ASSUME NEW h \in Handlers, ReadEvents(h) \/ ReadTables(h) PROVE ChargeLinked'
  <2>1. call'[h].op # "communicate" /\ \A g \in Handlers \ {h} : call'[g] = call[g]
    <3>1. CASE ReadEvents(h)
      BY <1>1, <3>1 DEF ReadEvents, Call
    <3>2. CASE ReadTables(h)
      <4>1. PICK on :
              call' = [call EXCEPT ![h].read = @ \cup {"tables"}, ![h].defended = defenses > 0,
                            ![h].open = Open({"REVOCATION", "APPEAL"}),
                            ![h].openAppeal = Open({"APPEAL"}),
                            ![h].rejected = RejectedSubsidiary # {}, ![h].rejectedOn = on]
        BY <3>2 DEF ReadTables
      <4> DEFINE new == [call[h] EXCEPT !.read = @ \cup {"tables"}, !.defended = defenses > 0,
                            !.open = Open({"REVOCATION", "APPEAL"}),
                            !.openAppeal = Open({"APPEAL"}),
                            !.rejected = RejectedSubsidiary # {}, !.rejectedOn = on]
      <4>2. call' = [call EXCEPT ![h] = new]
        BY <1>1, <4>1
      <4>3. new.op = call[h].op
        BY <1>1 DEF Call
      <4>4. call[h].op = "reconcile"
        BY <3>2 DEF ReadTables
      <4> HIDE DEF new
      <4> QED BY <1>1, <4>2, <4>3, <4>4
    <3> QED BY <1>6, <3>1, <3>2
  <2> QED BY <2>1 DEF ChargeLinked
<1>7. ASSUME NEW h \in Handlers, Commits(h) PROVE Done(h)
  BY <1>7 DEF Commits, Start, Communicate, FileDefense, Archive, Annul, FileAppeal,
         DeliverFormalCharge, RecordDelivery, Resolve, FileRevocation,
         ElevateOnRejection, RejectRevocation, CloseRecurso, Answering
<1>8. ASSUME NEW h \in Handlers, Reconciles(h)
      PROVE  Done(h) \/ ReadEvents(h) \/ ReadTables(h)
  BY <1>8 DEF Reconciles, Elevate, NothingDue, ExpireDefense, ExpireRecursos
<1>9. ASSUME NEW s \in Severities, OpenCase(s) PROVE UNCHANGED call
  BY <1>9 DEF OpenCase
<1>10. UNCHANGED vars => UNCHANGED call
  BY DEF vars
<1> QED BY <1>2, <1>3, <1>4, <1>5, <1>6, <1>7, <1>8, <1>9, <1>10, StepKinds

LEMMA ProcessFollowedKept ==
  ASSUME TypeOK, TypeOK', Following, ChargeLinked, ProcessFollowed, [Next]_vars
  PROVE  ProcessFollowed'
<1>1. CASE UNCHANGED vars
  BY <1>1 DEF vars, ProcessFollowed, Reached, Milestones, Issued
<1>2. ASSUME NEW s \in Severities, OpenCase(s) PROVE ProcessFollowed'
  <2>1. row'.status \in {"REPORTED", "NOTIFIED"} /\ UNCHANGED call
    BY <1>2, NoCaseTyped DEF OpenCase, OpeningStatus, Case
  <2>2. \A h \in Handlers : call[h] = Idle
    BY <1>2 DEF OpenCase, Following
  <2> QED BY <2>1, <2>2 DEF ProcessFollowed, Reached, Milestones, Statuses
<1>3. ASSUME NEW h \in Handlers, Checks(h) \/ Commits(h) \/ Reconciles(h), row'.track = "DUE_PROCESS"
      PROVE  ProcessFollowed'
  <2>1. RecordGrows /\ StatusMoves(h) /\ StatusBacked /\ call[h] # Idle /\ row'.status # "none"
    BY <1>3, HandlerEffects
  <2>2. row.track = "DUE_PROCESS"
    BY <1>3, <2>1 DEF RecordGrows
  <2>3. \A g \in Handlers : call'[g] # Idle => call'[g].seen.status \in Reached'
    <3>1. ASSUME NEW g \in Handlers, call'[g] # Idle
          PROVE  call[g] # Idle /\ call'[g].seen.status = call[g].seen.status
      <4>1. call[g].op # "none" /\ call'[g].seen.status = call[g].seen.status
        BY <1>3, <3>1, CallsFollow
      <4> QED BY <4>1 DEF Idle
    <3> QED BY <2>1, <2>2, <3>1, ReachedGrows DEF ProcessFollowed
  <2>4. CASE row'.status = row.status
    BY <2>1, <2>2, <2>3, <2>4, ReachedGrows DEF ProcessFollowed
  <2>5. ASSUME NEW note \in {"request", "deadline"}, Apply(call[h].seen, row'.status, note),
               row'.status # row.status
        PROVE  row'.status \in Reached'
    <3>1. /\ call[h].seen.track = "DUE_PROCESS" /\ call[h].seen.status \in Statuses
          /\ call[h].seen.status \in Reached'
      BY <2>1, <2>2, ReachedGrows DEF Following, ProcessFollowed
    <3>2. row'.status \in DueProcessTransitions[call[h].seen.status]
      BY <2>5, <3>1 DEF Apply, CanTransition
    <3>3. /\ row'.status = "COMMUNICATED" => Issued("FORMAL_CHARGE")' /\ row'.notifiedAt
          /\ row'.status = "PENDING_RESOLUTION" => defenses' > 0 \/ SinDescargo \in bitacora'
          /\ row'.status = "RESOLVED" => Issued("RESOLUTION")' /\ row'.resolutionOutcome # "none"
      BY <2>1, <2>5 DEF StatusBacked
    <3>4. /\ row'.status \in Statuses
          /\ row'.status = "PENDING_RESOLUTION" => call[h].seen.status = "COMMUNICATED"
          /\ row'.status = "RESOLVED" => call[h].seen.status = "PENDING_RESOLUTION"
          /\ row'.status = "IN_APPEAL" => call[h].seen.status = "RESOLVED"
          /\ row'.status = "FIRM" => call[h].seen.status \in {"RESOLVED", "IN_APPEAL"}
      BY <3>1, <3>2 DEF DueProcessTransitions, Statuses
    <3> QED BY <3>1, <3>3, <3>4 DEF Reached, Milestones
  <2> QED BY <2>1, <2>3, <2>4, <2>5 DEF StatusMoves, ProcessFollowed
<1>4. ASSUME NEW h \in Handlers, NEW op \in Operations \ {"calendar", "link"}, Load(h, op)
      PROVE  ProcessFollowed'
  <2>1. /\ UNCHANGED <<row, appeals, defenses, communications, bitacora>>
        /\ row.status # "none"
    BY <1>4 DEF Load, tables
  <2>2. Reached' = Reached
    BY <2>1 DEF Reached, Milestones, Issued
  <2> QED BY <1>4, <2>1, <2>2, LoadSeen DEF ProcessFollowed
<1>5. ASSUME UNCHANGED tables PROVE UNCHANGED <<Reached, row>>
  BY <1>5 DEF tables, Reached, Milestones, Issued
<1>6. ASSUME NEW h \in Handlers, UNCHANGED tables, Done(h) PROVE ProcessFollowed'
  BY <1>5, <1>6 DEF ProcessFollowed, Done, TypeOK
<1>7. ASSUME UNCHANGED <<tables, call>> PROVE ProcessFollowed'
  BY <1>5, <1>7 DEF ProcessFollowed
<1>8. row'.track # "DUE_PROCESS" => ProcessFollowed'
  BY DEF ProcessFollowed
<1> QED BY <1>1, <1>2, <1>3, <1>4, <1>6, <1>7, <1>8, StepKinds

LEMMA ProcessAlwaysFollowed == Spec => []ProcessFollowed
<1>1. Init => ProcessFollowed /\ ChargeLinked
  BY DEF Init, ProcessFollowed, ChargeLinked, NoCase, Idle
<1>2. TypeOK /\ TypeOK' /\ Following /\ (ProcessFollowed /\ ChargeLinked) /\ [Next]_vars
        => (ProcessFollowed /\ ChargeLinked)'
  BY ProcessFollowedKept, ChargeLinkedKept
<1> QED BY <1>1, <1>2, Reachable, PTL DEF Spec

\* No interleaving of handlers takes a due-process case to a sanction without
\* the formal charge and the resolution: a stale status was reached by them
\* too, and communications are never withdrawn.
THEOREM ProcedureFollowed == Spec => []DueProcess
<1>1. ProcessFollowed => DueProcess
  BY DEF ProcessFollowed, DueProcess, Reached, Milestones
<1> QED BY <1>1, ProcessAlwaysFollowed, PTL

\* Nor without the defense, or the record that its term ran out.
THEOREM FamilyHeard == Spec => []Heard
<1>1. ProcessFollowed => Heard
  BY DEF ProcessFollowed, Heard, Reached, Milestones, SinDescargo
<1> QED BY <1>1, ProcessAlwaysFollowed, PTL
-----------------------------------------------------------------------------
(* The notice.                                                             *)

Delivered == \E i \in DOMAIN communications : communications[i].delivered

\* No communication goes, nor does the delivery of one.
DeliveriesStand ==
  \A i \in DOMAIN communications :
    i \in DOMAIN communications' /\ (communications[i].delivered => communications'[i].delivered)

\* NoticeIsReal, with what the handlers in flight know: the link they found is
\* there, and the communication they deliver exists.
NoticeInv ==
  /\ NoticeIsReal
  /\ \A h \in Handlers :
       /\ call[h].linked => linked
       /\ call[h].phase = "checked" /\ call[h].op = "recordDelivery"
            => call[h].target \in DOMAIN communications

\* A step that takes the notice of a case from where it may come from.
NoticeMoves ==
  /\ UNCHANGED linked /\ DeliveriesStand
  /\ row'.notifiedAt => row.notifiedAt \/ linked \/ Delivered'

LEMMA AppendedDeliveries ==
  ASSUME NEW e \in Communication, TypeOK, communications' = Append(communications, e)
  PROVE  DeliveriesStand /\ (e.delivered => Delivered')
<1>1. /\ Len(communications) \in Nat /\ DOMAIN communications = 1..Len(communications)
      /\ DOMAIN communications' = 1..(Len(communications) + 1)
      /\ communications'[Len(communications) + 1] = e
      /\ \A i \in 1..Len(communications) : communications'[i] = communications[i]
  <2>1. communications \in Seq(Communication)
    BY DEF TypeOK
  <2> QED BY <2>1, LenProperties, AppendProperties
<1> QED BY <1>1 DEF DeliveriesStand, Delivered

LEMMA NoticeCommits ==
  ASSUME NEW h \in Handlers, TypeOK, Following, NoticeInv, Commits(h)
  PROVE  NoticeMoves
<1> USE DEF world, NotifiedBy
<1>1. row \in Case /\ linked \in BOOLEAN
  BY DEF TypeOK
<1>2. call[h].linked => linked
  BY DEF NoticeInv
<1>3. ASSUME UNCHANGED <<communications, linked>>, row'.notifiedAt => row.notifiedAt PROVE NoticeMoves
  BY <1>3 DEF NoticeMoves, DeliveriesStand
<1>4. ASSUME NEW kind \in {"DIRECT_REPRIMAND", "FORMAL_CHARGE", "RESOLUTION", "APPEAL_RESOLUTION"},
             communications' = Append(communications, Sent(kind, FALSE)), UNCHANGED linked,
             row'.notifiedAt => row.notifiedAt \/ linked
      PROVE  NoticeMoves
  BY <1>4, SentTyped, AppendedDeliveries DEF NoticeMoves
<1>5. ASSUME Answering(h), row'.notifiedAt = NowNotified(h) PROVE NoticeMoves
  BY <1>2, <1>4, <1>5 DEF Answering, NowNotified
<1>6. CASE Start(h) \/ FileDefense(h) \/ Archive(h) \/ Annul(h) \/ FileAppeal(h)
           \/ \E b \in BOOLEAN : FileRevocation(h, b)
  <2>1. UNCHANGED <<communications, linked>>
    BY <1>6 DEF Start, FileDefense, Archive, Annul, FileAppeal, FileRevocation
  <2>2. row'.notifiedAt = row.notifiedAt
    BY <1>1, <1>6 DEF Start, FileDefense, Archive, Annul, FileAppeal, FileRevocation, Case
  <2> QED BY <1>3, <2>1, <2>2
<1>7. CASE Communicate(h)
  <2>1. row'.notifiedAt = (row.notifiedAt \/ call[h].linked)
    BY <1>1, <1>7 DEF Communicate, Case
  <2> QED BY <1>2, <1>4, <1>7, <2>1 DEF Communicate
<1>8. ASSUME NEW day \in Days, DeliverFormalCharge(h, day) PROVE NoticeMoves
  <2>1. Sent("FORMAL_CHARGE", TRUE).delivered
    BY DEF Sent
  <2>2. DeliveriesStand /\ Delivered'
    BY <1>8, <2>1, SentTyped, AppendedDeliveries DEF DeliverFormalCharge
  <2> QED BY <1>8, <2>2 DEF NoticeMoves, DeliverFormalCharge
<1>9. ASSUME NEW day \in Days, RecordDelivery(h, day) PROVE NoticeMoves
  <2>1. call[h].target \in DOMAIN communications
    BY <1>9 DEF NoticeInv, RecordDelivery
  <2>2. \A i \in DOMAIN communications : communications[i] \in Communication
    BY ElementOfSeq, LenProperties DEF TypeOK
  <2>3. /\ DOMAIN communications' = DOMAIN communications
        /\ communications'[call[h].target].delivered
        /\ \A i \in DOMAIN communications :
             communications[i].delivered => communications'[i].delivered
    BY <1>9, <2>1, <2>2 DEF RecordDelivery, Communication
  <2> QED BY <1>9, <2>1, <2>3 DEF NoticeMoves, DeliveriesStand, Delivered, RecordDelivery
<1>10. ASSUME NEW outcome, NEW severity, Resolve(h, outcome, severity) PROVE NoticeMoves
  <2>1. row'.notifiedAt = (row.notifiedAt \/ linked)
    BY <1>1, <1>10 DEF Resolve, Case
  <2> QED BY <1>4, <1>10, <2>1 DEF Resolve
<1>11. CASE ElevateOnRejection(h)
  BY <1>1, <1>5, <1>11 DEF ElevateOnRejection, Case
<1>12. CASE RejectRevocation(h)
  BY <1>1, <1>5, <1>12 DEF RejectRevocation, Case
<1>13. ASSUME NEW outcome, NEW severity, CloseRecurso(h, outcome, severity) PROVE NoticeMoves
  <2>1. Answering(h) /\ row'.notifiedAt = NowNotified(h)
    BY <1>1, <1>13 DEF CloseRecurso, Case
  <2> QED BY <1>5, <2>1
<1> QED BY <1>6, <1>7, <1>8, <1>9, <1>10, <1>11, <1>12, <1>13 DEF Commits

LEMMA NoticeReconciles ==
  ASSUME NEW h \in Handlers, TypeOK, Reconciles(h)
  PROVE  NoticeMoves
<1>1. row \in Case
  BY DEF TypeOK
<1>2. ASSUME UNCHANGED <<communications, world>>, row'.notifiedAt = row.notifiedAt PROVE NoticeMoves
  BY <1>2 DEF NoticeMoves, DeliveriesStand, world
<1>3. CASE ReadEvents(h) \/ ReadTables(h) \/ NothingDue(h)
  <2>1. UNCHANGED tables /\ UNCHANGED world
    BY <1>3 DEF ReadEvents, ReadTables, NothingDue
  <2> QED BY <1>2, <2>1 DEF tables
<1>4. CASE Elevate(h)
  BY <1>1, <1>2, <1>4 DEF Elevate, Case
<1>5. CASE ExpireDefense(h)
  BY <1>1, <1>2, <1>5 DEF ExpireDefense, Case
<1>6. CASE ExpireRecursos(h)
  BY <1>1, <1>2, <1>6 DEF ExpireRecursos, Case
<1> QED BY <1>3, <1>4, <1>5, <1>6 DEF Reconciles

\* What a handler's step leaves in the calls: a check brings in the link and
\* the communication it found, the rest keep what they had or end.
LEMMA CallsKnow ==
  ASSUME NEW h \in Handlers, TypeOK, Checks(h) \/ Commits(h) \/ Reconciles(h), NEW g \in Handlers
  PROVE  \/ call'[g] = Idle
         \/ /\ call'[g].linked = call[g].linked /\ call'[g].phase = call[g].phase
            /\ call'[g].op = call[g].op /\ call'[g].target = call[g].target
         \/ /\ call'[g].linked = linked
            /\ call'[g].op = "recordDelivery" => call'[g].target \in DOMAIN communications
<1>1. call \in [Handlers -> Call] /\ call[h] \in Call
  BY DEF TypeOK
<1>2. CASE Done(h)
  BY <1>1, <1>2 DEF Done
<1>3. ASSUME NEW op, NEW target, Pass(h, op, target),
             op = "recordDelivery" => target \in DOMAIN communications
      PROVE  \/ UNCHANGED call[g]
             \/ /\ call'[g].linked = linked
                /\ call'[g].op = "recordDelivery" => call'[g].target \in DOMAIN communications
  <2>1. /\ call[h].op = op /\ call'[h].op = call[h].op /\ call'[h].linked = linked
        /\ call'[h].target = target /\ \A k \in Handlers \ {h} : call'[k] = call[k]
    BY <1>1, <1>3 DEF Pass, Call
  <2> QED BY <1>3, <2>1
<1>4. CASE Checks(h)
  BY <1>3, <1>4 DEF Checks, CheckCommunicate, CheckDeliverFormalCharge, CheckDelivery, CheckDefense,
       CheckRevocation, CheckAppeal, CheckRecurso
<1>5. CASE Commits(h)
  <2>1. Done(h)
    BY <1>5 DEF Commits, Start, Communicate, FileDefense, Archive, Annul, FileAppeal,
         DeliverFormalCharge, RecordDelivery, Resolve, FileRevocation,
         ElevateOnRejection, RejectRevocation, CloseRecurso, Answering
  <2> QED BY <1>2, <2>1
<1>6. CASE ReadEvents(h)
  BY <1>1, <1>6 DEF ReadEvents, Call
<1>7. CASE ReadTables(h)
  <2>1. PICK on :
          call' = [call EXCEPT ![h].read = @ \cup {"tables"}, ![h].defended = defenses > 0,
                        ![h].open = Open({"REVOCATION", "APPEAL"}),
                        ![h].openAppeal = Open({"APPEAL"}),
                        ![h].rejected = RejectedSubsidiary # {}, ![h].rejectedOn = on]
    BY <1>7 DEF ReadTables
  <2> DEFINE new == [call[h] EXCEPT !.read = @ \cup {"tables"}, !.defended = defenses > 0,
                       !.open = Open({"REVOCATION", "APPEAL"}), !.openAppeal = Open({"APPEAL"}),
                       !.rejected = RejectedSubsidiary # {}, !.rejectedOn = on]
  <2>2. call' = [call EXCEPT ![h] = new]
    BY <1>1, <2>1
  <2>3. /\ new.linked = call[h].linked /\ new.phase = call[h].phase
        /\ new.op = call[h].op /\ new.target = call[h].target
    BY <1>1 DEF Call
  <2> HIDE DEF new
  <2> QED BY <1>1, <2>2, <2>3
<1>8. CASE Reconciles(h)
  BY <1>2, <1>6, <1>7, <1>8 DEF Reconciles, Elevate, NothingDue, ExpireDefense, ExpireRecursos
<1> QED BY <1>4, <1>5, <1>8

LEMMA NoticeKept ==
  ASSUME "link" \notin Operations, TypeOK, Following, NoticeInv, [Next]_vars
  PROVE  NoticeInv'
<1>1. CASE UNCHANGED vars
  BY <1>1 DEF vars, NoticeInv, NoticeIsReal
<1>2. ASSUME NEW s \in Severities, OpenCase(s) PROVE NoticeInv'
  <2>1. UNCHANGED <<linked, call>> /\ \A h \in Handlers : call[h] = Idle
    BY <1>2 DEF OpenCase, Following
  <2>2. row'.notifiedAt => linked
    BY <1>2, NoCaseTyped DEF OpenCase, NotifiedBy, Case
  <2> QED BY <2>1, <2>2 DEF NoticeInv, NoticeIsReal, Idle
<1>3. ASSUME NEW h \in Handlers, Checks(h) \/ Commits(h) \/ Reconciles(h) PROVE NoticeInv'
  <2>1. NoticeMoves
    <3>1. CASE Checks(h)
      <4>1. UNCHANGED tables /\ UNCHANGED world
        BY <3>1, ChecksPass DEF Pass
      <4> QED BY <4>1 DEF tables, world, NoticeMoves, DeliveriesStand
    <3> QED BY <1>3, <3>1, NoticeCommits, NoticeReconciles
  <2>2. NoticeIsReal'
    BY <2>1 DEF NoticeInv, NoticeIsReal, NoticeMoves, DeliveriesStand, Delivered
  <2>3. ASSUME NEW g \in Handlers
        PROVE  /\ call'[g].linked => linked'
               /\ call'[g].phase = "checked" /\ call'[g].op = "recordDelivery"
                    => call'[g].target \in DOMAIN communications'
    BY <1>3, <2>1, CallsKnow DEF NoticeMoves, DeliveriesStand, NoticeInv, Idle
  <2> QED BY <2>2, <2>3 DEF NoticeInv
<1>4. ASSUME NEW h \in Handlers, NEW op \in Operations \ {"calendar", "link"}, Load(h, op)
      PROVE  NoticeInv'
  <2>1. UNCHANGED <<row, communications, linked>> /\ call \in [Handlers -> Call]
    BY <1>4 DEF Load, tables, world, TypeOK
  <2>2. /\ call'[h].phase = "loaded" /\ ~ call'[h].linked
        /\ \A g \in Handlers \ {h} : call'[g] = call[g]
    BY <1>4, <2>1 DEF Load, Idle
  <2> QED BY <2>1, <2>2 DEF NoticeInv, NoticeIsReal
<1>5. CASE \E h \in Handlers : Abandon(h)
  <2>1. UNCHANGED <<row, communications, linked>> /\ call \in [Handlers -> Call]
    BY <1>5 DEF Abandon, tables, world, TypeOK
  <2>2. \A g \in Handlers : call'[g] = call[g] \/ call'[g] = Idle
    BY <1>5, <2>1 DEF Abandon, Done
  <2> QED BY <2>1, <2>2 DEF NoticeInv, NoticeIsReal, Idle
<1>6. CASE Tick \/ ChangeCalendar \/ ChangeLink
  <2>1. UNCHANGED <<row, communications, linked, call>>
    BY <1>6 DEF Tick, ChangeCalendar, ChangeLink, tables
  <2> QED BY <2>1 DEF NoticeInv, NoticeIsReal
<1> QED BY <1>1, <1>2, <1>3, <1>4, <1>5, <1>6 DEF Next

\* As long as the guardian links stand (guardian-student-links.service.ts),
\* no interleaving marks a case as notified that neither reached a guardian
\* nor was handed over: whoever writes notified_at found the link or records
\* the delivery, and no delivery is taken back.
THEOREM NoticesAreReal ==
  ASSUME "link" \notin Operations
  PROVE  Spec => []NoticeIsReal
<1>1. Init => NoticeInv
  BY DEF Init, NoticeInv, NoticeIsReal, NoCase, Idle
<1>2. TypeOK /\ Following /\ NoticeInv /\ [Next]_vars => NoticeInv'
  BY NoticeKept
<1>3. NoticeInv => NoticeIsReal
  BY DEF NoticeInv
<1> QED BY <1>1, <1>2, <1>3, Reachable, PTL DEF Spec
-----------------------------------------------------------------------------
(* The code run serially: one handler at a time.                           *)

Serial == \A g, h \in Handlers : g = h

\* A revocation, then perhaps the appeal it leads to; the elevation is counted
\* with the subsidiary appeal.
InOrder ==
  /\ Len(appeals) <= 2
  /\ Len(appeals) >= 1 => appeals[1].kind = "REVOCATION"
  /\ Len(appeals) = 1 => ~ (appeals[1].isSubsidiary /\ appeals[1].outcome = "UPHOLD")
  /\ Len(appeals) = 2 => /\ appeals[2].kind = "APPEAL" /\ appeals[1].outcome = "UPHOLD"
                         /\ appeals[2].isSubsidiary = appeals[1].isSubsidiary
  /\ elevations = IF Len(appeals) = 2 /\ appeals[1].isSubsidiary THEN 1 ELSE 0

\* What the handler found is still so when it writes.
FoundStands(c) ==
  /\ c.phase = "checked" /\ c.op = "fileRevocation" => Len(appeals) = 0
  /\ c.phase = "checked" /\ c.op = "fileAppeal"
       => Len(appeals) = 1 /\ appeals[1].outcome = "UPHOLD"
  /\ c.phase = "checked" /\ c.op = "resolveRecurso"
       => c.target \in 1..Len(appeals) /\ appeals[c.target].outcome = "none"
  /\ c.op = "reconcile" /\ "events" \in c.read => c.elevated = (elevations > 0)
  /\ c.op = "reconcile" /\ "tables" \in c.read => c.rejected = (RejectedSubsidiary # {})

SerialInv == InOrder /\ \A h \in Handlers : FoundStands(call[h])

AnswersKept ==
  \A i \in DOMAIN appeals : appeals[i].outcome # "none" => appeals'[i].outcome = appeals[i].outcome

LEMMA RowsOfAppeals ==
  ASSUME TypeOK
  PROVE  /\ appeals \in Seq(Appeal) /\ Len(appeals) \in Nat /\ DOMAIN appeals = 1..Len(appeals)
         /\ \A i \in 1..Len(appeals) : appeals[i] \in Appeal
         /\ elevations \in Nat
  BY LenProperties, ElementOfSeq DEF TypeOK

\* What an answer leaves in the recursos.
LEMMA AnsweredRows ==
  ASSUME NEW h \in Handlers, NEW outcome \in {"REVOKE", "MODIFY", "UPHOLD"}, TypeOK,
         call[h].target \in 1..Len(appeals)
  PROVE  LET t == call[h].target  new == Answered(h, outcome) IN
         /\ new \in Seq(Appeal) /\ Len(new) = Len(appeals)
         /\ new[t].outcome = outcome /\ new[t].kind = appeals[t].kind
         /\ new[t].isSubsidiary = appeals[t].isSubsidiary
         /\ \A i \in 1..Len(appeals) : i # t => new[i] = appeals[i]
<1> DEFINE t == call[h].target
           on == IF outcome = "UPHOLD" /\ appeals[t].kind = "REVOCATION" THEN today ELSE 0
           e == [appeals[t] EXCEPT !.outcome = outcome, !.resolvedOn = on]
<1>1. /\ appeals \in Seq(Appeal) /\ DOMAIN appeals = 1..Len(appeals) /\ Len(appeals) \in Nat
      /\ appeals[t] \in Appeal
  BY RowsOfAppeals
<1>2. Answered(h, outcome) = [appeals EXCEPT ![t] = e]
  BY <1>1 DEF Answered
<1>3. e.outcome = outcome /\ e.kind = appeals[t].kind /\ e.isSubsidiary = appeals[t].isSubsidiary
  BY <1>1 DEF Appeal
<1> HIDE DEF e
<1>4. Answered(h, outcome) \in Seq(Appeal)
  BY AnsweredTyped
<1>5. DOMAIN Answered(h, outcome) = 1..Len(appeals)
  BY <1>1, <1>2
<1>6. Len(Answered(h, outcome)) = Len(appeals)
  BY <1>1, <1>4, <1>5, LenProperties
<1> QED BY <1>1, <1>2, <1>3, <1>4, <1>6

\* A recurso filed goes to the end and leaves the others alone.
LEMMA FiledRows ==
  ASSUME NEW seq \in Seq(Appeal), NEW e \in Appeal
  PROVE  /\ Len(Append(seq, e)) = Len(seq) + 1 /\ Append(seq, e)[Len(seq) + 1] = e
         /\ \A i \in 1..Len(seq) : Append(seq, e)[i] = seq[i]
  BY AppendProperties, LenProperties

LEMMA FiledTyped ==
  ASSUME NEW kind \in {"REVOCATION", "APPEAL"}, NEW subsidiary \in BOOLEAN
  PROVE  LET e == Filed(kind, subsidiary) IN
         e \in Appeal /\ e.kind = kind /\ e.isSubsidiary = subsidiary /\ e.outcome = "none"
  BY ConstantsAssumption DEF Filed, Appeal, Days

LEMMA SerialCommits ==
  ASSUME NEW h \in Handlers, TypeOK, SerialInv, Commits(h)
  PROVE  InOrder' /\ AnswersKept
<1>1. /\ appeals \in Seq(Appeal) /\ Len(appeals) \in Nat /\ DOMAIN appeals = 1..Len(appeals)
      /\ \A i \in 1..Len(appeals) : appeals[i] \in Appeal
      /\ elevations \in Nat
  BY RowsOfAppeals
<1>2. InOrder /\ FoundStands(call[h])
  BY DEF SerialInv
<1>3. ASSUME UNCHANGED <<appeals, elevations>> PROVE InOrder' /\ AnswersKept
  BY <1>2, <1>3 DEF InOrder, AnswersKept
<1>4. CASE \/ Start(h) \/ Communicate(h) \/ FileDefense(h) \/ Archive(h) \/ Annul(h)
           \/ \E day \in Days : DeliverFormalCharge(h, day) \/ RecordDelivery(h, day)
           \/ \E o \in Outcomes \ {"none"}, s \in Severities : Resolve(h, o, s)
  BY <1>3, <1>4 DEF Start, Communicate, FileDefense, Archive, Annul, DeliverFormalCharge,
       RecordDelivery, Resolve
<1>5. ASSUME NEW subsidiary \in BOOLEAN, FileRevocation(h, subsidiary)
      PROVE  InOrder' /\ AnswersKept
  <2>1. /\ Len(appeals) = 0 /\ UNCHANGED elevations
        /\ appeals' = Append(appeals, Filed("REVOCATION", subsidiary))
    BY <1>2, <1>5 DEF FileRevocation, FoundStands
  <2>2. /\ Len(appeals') = 1 /\ appeals'[1].kind = "REVOCATION" /\ appeals'[1].outcome = "none"
    BY <1>1, <2>1, FiledTyped, FiledRows
  <2> QED BY <1>1, <1>2, <2>1, <2>2 DEF InOrder, AnswersKept
<1>6. CASE FileAppeal(h)
  <2>1. /\ Len(appeals) = 1 /\ appeals[1].outcome = "UPHOLD" /\ UNCHANGED elevations
        /\ appeals' = Append(appeals, Filed("APPEAL", FALSE))
    BY <1>2, <1>6 DEF FileAppeal, FoundStands
  <2>5. Len(appeals) = 1 /\ appeals[1].outcome = "UPHOLD" /\ UNCHANGED elevations
    BY <2>1
  <2> DEFINE e == Filed("APPEAL", FALSE)
  <2>2. e \in Appeal /\ e.kind = "APPEAL" /\ e.isSubsidiary = FALSE
    BY FiledTyped
  <2> HIDE DEF e
  <2>3. Len(appeals') = 2 /\ appeals'[2] = e /\ appeals'[1] = appeals[1]
    <3>1. /\ Len(appeals') = Len(appeals) + 1 /\ appeals'[Len(appeals) + 1] = e
          /\ \A i \in 1..Len(appeals) : appeals'[i] = appeals[i]
      BY <1>1, <2>1, <2>2, FiledRows DEF e
    <3> QED BY <2>5, <3>1
  <2>4. appeals[1].isSubsidiary = FALSE /\ appeals[1].kind = "REVOCATION" /\ elevations = 0
    BY <1>1, <1>2, <2>1 DEF InOrder, Appeal
  <2>6. InOrder'
    <3>1. appeals'[2].isSubsidiary = appeals'[1].isSubsidiary
      BY <2>2, <2>3, <2>4
    <3>2. elevations' = IF Len(appeals') = 2 /\ appeals'[1].isSubsidiary THEN 1 ELSE 0
      BY <2>3, <2>4, <2>5
    <3>3. /\ appeals'[1].kind = "REVOCATION" /\ appeals'[1].outcome = "UPHOLD"
          /\ appeals'[2].kind = "APPEAL" /\ Len(appeals') = 2
      BY <2>2, <2>3, <2>4, <2>5
    <3> QED BY <3>1, <3>2, <3>3 DEF InOrder
  <2> QED BY <1>1, <2>3, <2>5, <2>6 DEF AnswersKept
<1>7. ASSUME Resolves(h)
      PROVE  /\ call[h].target \in 1..Len(appeals) /\ appeals[call[h].target].outcome = "none"
             /\ Len(appeals) \in {1, 2} /\ (Len(appeals) = 2 => call[h].target = 2)
  BY <1>1, <1>2, <1>7 DEF Resolves, FoundStands, InOrder
<1>8. CASE ElevateOnRejection(h)
  <2> DEFINE new == Answered(h, "UPHOLD")
  <2>1. /\ Resolves(h) /\ appeals[call[h].target].kind = "REVOCATION"
        /\ appeals[call[h].target].isSubsidiary /\ elevations' = elevations + 1
        /\ appeals' = Append(new, Filed("APPEAL", TRUE))
    BY <1>8 DEF ElevateOnRejection
  <2>2. Len(appeals) = 1 /\ call[h].target = 1 /\ appeals[1].outcome = "none"
    BY <1>1, <1>2, <1>7, <2>1 DEF InOrder
  <2>3. /\ new \in Seq(Appeal) /\ Len(new) = 1 /\ new[1].outcome = "UPHOLD"
        /\ new[1].kind = "REVOCATION" /\ new[1].isSubsidiary = TRUE
    <3>1. appeals[1].isSubsidiary = TRUE
      BY <1>1, <2>1, <2>2 DEF Appeal
    <3> QED BY <2>1, <2>2, <3>1, AnsweredRows
  <2> DEFINE e == Filed("APPEAL", TRUE)
  <2>4. e \in Appeal /\ e.kind = "APPEAL" /\ e.isSubsidiary = TRUE
    BY FiledTyped
  <2> HIDE DEF new, e
  <2>5. Len(appeals') = 2 /\ appeals'[1] = new[1] /\ appeals'[2] = e
    <3>1. /\ Len(appeals') = Len(new) + 1 /\ appeals'[Len(new) + 1] = e
          /\ \A i \in 1..Len(new) : appeals'[i] = new[i]
      BY <2>1, <2>3, <2>4, FiledRows DEF e
    <3> QED BY <2>3, <3>1
  <2>6. elevations' = 1
    BY <1>2, <2>1, <2>2 DEF InOrder
  <2>7. InOrder'
    <3>1. appeals'[2].isSubsidiary = appeals'[1].isSubsidiary
      BY <2>3, <2>4, <2>5
    <3>2. elevations' = IF Len(appeals') = 2 /\ appeals'[1].isSubsidiary THEN 1 ELSE 0
      BY <2>3, <2>5, <2>6
    <3>3. /\ appeals'[1].kind = "REVOCATION" /\ appeals'[1].outcome = "UPHOLD"
          /\ appeals'[2].kind = "APPEAL" /\ Len(appeals') = 2
      BY <2>3, <2>4, <2>5
    <3> QED BY <3>1, <3>2, <3>3 DEF InOrder
  <2> QED BY <1>1, <2>2, <2>7 DEF AnswersKept
<1>9. CASE RejectRevocation(h)
  <2>1. /\ Resolves(h) /\ appeals[call[h].target].kind = "REVOCATION"
        /\ ~ appeals[call[h].target].isSubsidiary /\ elevations' = elevations
        /\ appeals' = Answered(h, "UPHOLD")
    BY <1>9 DEF RejectRevocation
  <2>2. Len(appeals) = 1 /\ call[h].target = 1 /\ appeals[1].outcome = "none"
    BY <1>1, <1>2, <1>7, <2>1 DEF InOrder
  <2>3. Len(appeals') = 1 /\ appeals'[1].kind = "REVOCATION" /\ ~ appeals'[1].isSubsidiary
    BY <2>1, <2>2, AnsweredRows
  <2> QED BY <1>1, <1>2, <2>1, <2>2, <2>3 DEF InOrder, AnswersKept
<1>10. ASSUME NEW outcome \in {"REVOKE", "MODIFY", "UPHOLD"}, NEW severity \in Severities,
              CloseRecurso(h, outcome, severity)
       PROVE  InOrder' /\ AnswersKept
  <2>1. /\ Resolves(h) /\ elevations' = elevations /\ appeals' = Answered(h, outcome)
        /\ outcome # "REVOKE" => appeals[call[h].target].kind = "APPEAL"
    BY <1>10 DEF CloseRecurso
  <2>2. /\ Len(appeals') = Len(appeals) /\ appeals'[call[h].target].outcome = outcome
        /\ appeals'[call[h].target].kind = appeals[call[h].target].kind
        /\ appeals'[call[h].target].isSubsidiary = appeals[call[h].target].isSubsidiary
        /\ \A i \in 1..Len(appeals) : i # call[h].target => appeals'[i] = appeals[i]
    BY <1>7, <2>1, AnsweredRows
  <2>3. AnswersKept
    BY <1>1, <1>7, <2>1, <2>2 DEF AnswersKept
  <2>4. CASE Len(appeals) = 1
    <3>1. call[h].target = 1 /\ outcome = "REVOKE"
      BY <1>1, <1>2, <1>7, <2>1, <2>4 DEF InOrder
    <3> QED BY <1>1, <1>2, <2>1, <2>2, <2>3, <2>4, <3>1 DEF InOrder
  <2>5. CASE Len(appeals) = 2
    <3>1. call[h].target = 2 /\ appeals'[1] = appeals[1]
      BY <1>7, <2>1, <2>2, <2>5
    <3> QED BY <1>1, <1>2, <2>1, <2>2, <2>3, <2>5, <3>1 DEF InOrder
  <2> QED BY <1>7, <2>1, <2>4, <2>5
<1> QED BY <1>4, <1>5, <1>6, <1>8, <1>9, <1>10 DEF Commits

\* In the order of the recursos a rejected subsidiary revocation was elevated.
LEMMA NothingToElevate ==
  ASSUME TypeOK, InOrder, elevations = 0
  PROVE  RejectedSubsidiary = {}
<1>1. ASSUME NEW i \in RejectedSubsidiary PROVE FALSE
  <2>1. /\ i \in 1..Len(appeals) /\ appeals[i].kind = "REVOCATION"
        /\ appeals[i].isSubsidiary /\ appeals[i].outcome = "UPHOLD"
    BY <1>1, RowsOfAppeals DEF RejectedSubsidiary
  <2>2. i = 1 /\ Len(appeals) \in {1, 2}
    BY <2>1, RowsOfAppeals DEF InOrder
  <2> QED BY <2>1, <2>2 DEF InOrder
<1> QED BY <1>1

LEMMA SerialReconciles ==
  ASSUME NEW h \in Handlers, TypeOK, SerialInv, Reconciles(h)
  PROVE  UNCHANGED <<appeals, elevations>>
<1>1. ~ Elevate(h)
  <2> SUFFICES ASSUME Elevate(h) PROVE FALSE
    OBVIOUS
  <2>1. /\ call[h].op = "reconcile" /\ call[h].read = {"events", "tables"}
        /\ ~ call[h].elevated /\ call[h].rejected
    BY DEF Elevate, SnapshotTaken, PlansElevation
  <2>2. InOrder /\ FoundStands(call[h])
    BY DEF SerialInv
  <2>3. ~ (elevations > 0) /\ RejectedSubsidiary # {}
    BY <2>1, <2>2 DEF FoundStands
  <2> QED BY <2>2, <2>3, RowsOfAppeals, NothingToElevate
<1>2. CASE ReadEvents(h) \/ ReadTables(h) \/ NothingDue(h)
  <2>1. UNCHANGED tables
    BY <1>2 DEF ReadEvents, ReadTables, NothingDue
  <2> QED BY <2>1 DEF tables
<1>3. CASE ExpireDefense(h) \/ ExpireRecursos(h)
  BY <1>3 DEF ExpireDefense, ExpireRecursos
<1> QED BY <1>1, <1>2, <1>3 DEF Reconciles

\* What the reads of the reconciler leave in its call.
LEMMA ReadsFound ==
  ASSUME NEW h \in Handlers, TypeOK, SerialInv, ReadEvents(h) \/ ReadTables(h)
  PROVE  FoundStands(call[h])'
<1>1. /\ call \in [Handlers -> Call] /\ call[h] \in Call /\ call[h].op = "reconcile"
      /\ UNCHANGED tables
  BY DEF ReadEvents, ReadTables, TypeOK
<1>2. UNCHANGED <<appeals, elevations, RejectedSubsidiary>>
  BY <1>1 DEF tables, RejectedSubsidiary
<1>3. FoundStands(call[h])
  BY DEF SerialInv
<1>4. CASE ReadEvents(h)
  <2>1. /\ call'[h].op = "reconcile" /\ call'[h].read = call[h].read \cup {"events"}
        /\ call'[h].elevated = (elevations > 0) /\ call'[h].rejected = call[h].rejected
    BY <1>1, <1>4 DEF ReadEvents, Call
  <2> QED BY <1>1, <1>2, <1>3, <2>1 DEF FoundStands
<1>5. CASE ReadTables(h)
  <2>1. PICK on :
          call' = [call EXCEPT ![h].read = @ \cup {"tables"}, ![h].defended = defenses > 0,
                        ![h].open = Open({"REVOCATION", "APPEAL"}),
                        ![h].openAppeal = Open({"APPEAL"}),
                        ![h].rejected = RejectedSubsidiary # {}, ![h].rejectedOn = on]
    BY <1>5 DEF ReadTables
  <2> DEFINE new == [call[h] EXCEPT !.read = @ \cup {"tables"}, !.defended = defenses > 0,
                       !.open = Open({"REVOCATION", "APPEAL"}), !.openAppeal = Open({"APPEAL"}),
                       !.rejected = RejectedSubsidiary # {}, !.rejectedOn = on]
  <2>2. call' = [call EXCEPT ![h] = new]
    BY <1>1, <2>1
  <2>3. /\ new.op = "reconcile" /\ new.read = call[h].read \cup {"tables"}
        /\ new.elevated = call[h].elevated /\ new.rejected = (RejectedSubsidiary # {})
    BY <1>1 DEF Call
  <2> HIDE DEF new
  <2>4. call'[h] = new
    BY <1>1, <2>2
  <2> QED BY <1>1, <1>2, <1>3, <2>3, <2>4 DEF FoundStands
<1> QED BY <1>4, <1>5

LEMMA ChecksFound ==
  ASSUME NEW h \in Handlers, TypeOK, SerialInv, Checks(h)
  PROVE  UNCHANGED tables /\ FoundStands(call[h])'
<1>1. call[h] \in Call /\ call \in [Handlers -> Call]
  BY DEF TypeOK
<1>2. ASSUME NEW op \in Requests, NEW target \in Nat, Pass(h, op, target),
             op = "fileRevocation" => Len(appeals) = 0,
             op = "fileAppeal" => Len(appeals) = 1 /\ appeals[1].outcome = "UPHOLD",
             op = "resolveRecurso" => target \in 1..Len(appeals) /\ appeals[target].outcome = "none"
      PROVE  UNCHANGED tables /\ FoundStands(call[h])'
  <2>1. /\ UNCHANGED tables /\ call[h].op = op /\ call'[h].op = call[h].op
        /\ call'[h].target = target
    BY <1>1, <1>2 DEF Pass, Call
  <2>2. UNCHANGED appeals /\ op # "reconcile"
    BY <2>1 DEF tables, Requests
  <2> QED BY <1>2, <2>1, <2>2 DEF FoundStands
<1>3. /\ Len(appeals) \in Nat /\ DOMAIN appeals = 1..Len(appeals) /\ DOMAIN communications \subseteq Nat
  BY RowsOfAppeals, LenProperties DEF TypeOK
<1>4. CASE CheckRevocation(h)
  <2>1. Len(appeals) = 0
    BY <1>3, <1>4 DEF CheckRevocation, SerialInv, InOrder
  <2> QED BY <1>2, <1>4, <2>1 DEF CheckRevocation, Requests
<1>5. CASE CheckAppeal(h)
  <2>1. PICK i \in 1..Len(appeals) : appeals[i].kind = "REVOCATION" /\ appeals[i].outcome = "UPHOLD"
    BY <1>3, <1>5 DEF CheckAppeal, Appealable
  <2>2. \A j \in 1..Len(appeals) : appeals[j].kind # "APPEAL"
    BY <1>3, <1>5 DEF CheckAppeal
  <2>3. Len(appeals) = 1 /\ i = 1
    BY <1>3, <2>1, <2>2 DEF SerialInv, InOrder
  <2> QED BY <1>2, <1>5, <2>1, <2>3 DEF CheckAppeal, Requests
<1>6. CASE CheckRecurso(h)
  BY <1>2, <1>3, <1>6 DEF CheckRecurso, Pending, Requests
<1>7. CASE CheckCommunicate(h) \/ CheckDeliverFormalCharge(h) \/ CheckDelivery(h) \/ CheckDefense(h)
  BY <1>2, <1>3, <1>7 DEF CheckCommunicate, CheckDeliverFormalCharge, CheckDelivery, CheckDefense,
       Requests
<1> QED BY <1>4, <1>5, <1>6, <1>7 DEF Checks

\* One step of the code run serially.
LEMMA SerialKept ==
  ASSUME Serial, TypeOK, SerialInv, [Next]_vars
  PROVE  SerialInv' /\ AnswersKept
<1>1. call \in [Handlers -> Call]
  BY DEF TypeOK
<1>2. ASSUME UNCHANGED <<appeals, elevations>>
      PROVE  /\ InOrder' /\ AnswersKept
             /\ \A h \in Handlers : call'[h] = call[h] \/ call'[h] = Idle => FoundStands(call[h])'
  BY <1>2 DEF SerialInv, InOrder, AnswersKept, FoundStands, RejectedSubsidiary, Idle
<1>3. ASSUME UNCHANGED tables PROVE UNCHANGED <<appeals, elevations>>
  BY <1>3 DEF tables
<1>4. CASE UNCHANGED vars
  BY <1>2, <1>4 DEF vars, SerialInv
<1>5. ASSUME NEW s \in Severities, OpenCase(s) PROVE SerialInv' /\ AnswersKept
  BY <1>2, <1>5 DEF OpenCase, SerialInv
<1>6. ASSUME NEW h \in Handlers, NEW op \in Operations \ {"calendar", "link"}, Load(h, op)
      PROVE  SerialInv' /\ AnswersKept
  <2>1. call'[h].phase = "loaded" /\ call'[h].read = {} /\ \A g \in Handlers : g = h
    BY <1>1, <1>6 DEF Load, Idle, Serial
  <2>2. FoundStands(call[h])'
    BY <2>1 DEF FoundStands
  <2> QED BY <1>2, <1>3, <1>6, <2>1, <2>2 DEF Load, SerialInv
<1>7. ASSUME NEW h \in Handlers, Abandon(h) PROVE SerialInv' /\ AnswersKept
  <2>1. \A g \in Handlers : call'[g] = call[g] \/ call'[g] = Idle
    BY <1>1, <1>7 DEF Abandon, Done
  <2> QED BY <1>2, <1>3, <1>7, <2>1 DEF Abandon, SerialInv
<1>8. CASE Tick \/ ChangeCalendar \/ ChangeLink
  <2>1. UNCHANGED tables /\ UNCHANGED call
    BY <1>8 DEF Tick, ChangeCalendar, ChangeLink
  <2> QED BY <1>2, <1>3, <2>1 DEF SerialInv
<1>9. ASSUME NEW h \in Handlers, Checks(h) PROVE SerialInv' /\ AnswersKept
  BY <1>2, <1>3, <1>9, ChecksFound DEF SerialInv, Serial
<1>10. ASSUME NEW h \in Handlers, Done(h), InOrder', AnswersKept PROVE SerialInv' /\ AnswersKept
  <2>1. \A g \in Handlers : call'[g] = Idle
    BY <1>1, <1>10 DEF Done, Serial
  <2> QED BY <1>10, <2>1 DEF SerialInv, FoundStands, Idle
<1>11. ASSUME NEW h \in Handlers, Commits(h) PROVE SerialInv' /\ AnswersKept
  <2>1. Done(h)
    BY <1>11 DEF Commits, Start, Communicate, FileDefense, Archive, Annul, FileAppeal,
         DeliverFormalCharge, RecordDelivery, Resolve, FileRevocation,
         ElevateOnRejection, RejectRevocation, CloseRecurso, Answering
  <2> QED BY <1>10, <1>11, <2>1, SerialCommits
<1>12. ASSUME NEW h \in Handlers, Reconciles(h) PROVE SerialInv' /\ AnswersKept
  <2>1. InOrder' /\ AnswersKept
    BY <1>2, <1>12, SerialReconciles
  <2>2. CASE ReadEvents(h) \/ ReadTables(h)
    BY <2>1, <2>2, ReadsFound DEF SerialInv, Serial
  <2>3. CASE Elevate(h) \/ NothingDue(h) \/ ExpireDefense(h) \/ ExpireRecursos(h)
    BY <1>10, <2>1, <2>3 DEF Elevate, NothingDue, ExpireDefense, ExpireRecursos
  <2> QED BY <1>12, <2>2, <2>3 DEF Reconciles
<1> QED BY <1>4, <1>5, <1>6, <1>7, <1>8, <1>9, <1>11, <1>12 DEF Next

LEMMA InitInOrder == Init => SerialInv
<1> SUFFICES ASSUME Init PROVE SerialInv
  OBVIOUS
<1>1. Len(appeals) = 0 /\ elevations = 0 /\ \A h \in Handlers : call[h] = Idle
  BY DEF Init
<1> QED BY <1>1 DEF SerialInv, InOrder, FoundStands, Idle

\* The invariant in the words of the property.
LEMMA OrderMeans == ASSUME TypeOK, InOrder PROVE RecursosInOrder
<1>1. /\ Len(appeals) \in {0, 1, 2} /\ DOMAIN appeals = 1..Len(appeals)
      /\ \A i \in 1..Len(appeals) : appeals[i].isSubsidiary \in BOOLEAN
  BY RowsOfAppeals DEF InOrder, Appeal
<1>2. OfKind("REVOCATION") = IF Len(appeals) = 0 THEN {} ELSE {1}
  BY <1>1 DEF OfKind, InOrder
<1>3. OfKind("APPEAL") = IF Len(appeals) = 2 THEN {2} ELSE {}
  BY <1>1 DEF OfKind, InOrder
<1>4. {i \in OfKind("APPEAL") : appeals[i].isSubsidiary}
        = IF Len(appeals) = 2 /\ appeals[1].isSubsidiary THEN {2} ELSE {}
  BY <1>1, <1>3 DEF InOrder
<1>5. Cardinality({}) = 0 /\ Cardinality({1}) = 1 /\ Cardinality({2}) = 1
  BY FS_EmptySet, FS_Singleton
<1>6. Cardinality(OfKind("REVOCATION")) <= 1 /\ Cardinality(OfKind("APPEAL")) <= 1
  <2>1. OfKind("REVOCATION") \in {{}, {1}} /\ OfKind("APPEAL") \in {{}, {2}}
    BY <1>2, <1>3
  <2>2. Cardinality(OfKind("REVOCATION")) \in {0, 1} /\ Cardinality(OfKind("APPEAL")) \in {0, 1}
    BY <1>5, <2>1
  <2> QED BY <2>2
<1>7. \A i \in OfKind("APPEAL") : \E j \in OfKind("REVOCATION") :
        /\ j < i /\ appeals[j].outcome = "UPHOLD"
        /\ appeals[i].isSubsidiary = appeals[j].isSubsidiary
  BY <1>1, <1>2, <1>3 DEF InOrder
<1>8. elevations = Cardinality({i \in OfKind("APPEAL") : appeals[i].isSubsidiary})
  BY <1>4, <1>5 DEF InOrder
<1> QED BY <1>6, <1>7, <1>8 DEF RecursosInOrder

LEMMA SeriallyInOrder == ASSUME Serial PROVE Spec => []SerialInv
<1>1. TypeOK /\ SerialInv /\ [Next]_vars => SerialInv'
  BY SerialKept
<1> QED BY <1>1, InitInOrder, TypeCorrect, PTL DEF Spec

\* Run serially, the appeals service keeps one revocation and one appeal, the
\* appeal only after the rejection it contests, elevated once when asked for.
THEOREM RecursosKeepOrder == ASSUME Serial PROVE Spec => []RecursosInOrder
<1>1. TypeOK /\ SerialInv => RecursosInOrder
  BY OrderMeans DEF SerialInv
<1> QED BY <1>1, SeriallyInOrder, TypeCorrect, PTL

-----------------------------------------------------------------------------
(* The promise about conduct points, kept by the code run serially.        *)

Points  == DeductionState(row.status)
Track   == IF row.status = "none" THEN "none" ELSE row.track
Told    == row.notifiedAt
Charged == Track = "DUE_PROCESS" => Told
Waiting == Open({"REVOCATION", "APPEAL"})

\* The case a handler in flight read is the case it writes.
KnowsRow(c) ==
  c.phase # "idle" =>
    /\ c.seen.status = row.status
    /\ c.op = "fileAppeal" => row.status = "IN_APPEAL"
    /\ c.op = "reconcile" /\ "tables" \in c.read => c.open = Waiting

CurrentInv ==
  /\ \A h \in Handlers : KnowsRow(call[h])
  /\ row.status = "none" => communications = << >>

LEMMA CurrentKept ==
  ASSUME Serial, TypeOK, Following, CurrentInv, [Next]_vars
  PROVE  CurrentInv'
<1>1. call \in [Handlers -> Call]
  BY DEF TypeOK
<1>2. ASSUME UNCHANGED tables
      PROVE  /\ (row.status = "none" => communications = << >>)'
             /\ \A h \in Handlers : call'[h] = call[h] \/ call'[h] = Idle => KnowsRow(call[h])'
  <2>1. UNCHANGED <<row, communications, Waiting>>
    BY <1>2 DEF tables, Waiting, Open
  <2>2. ASSUME NEW h \in Handlers, call'[h] = call[h] \/ call'[h] = Idle PROVE KnowsRow(call[h])'
    BY <2>1, <2>2 DEF CurrentInv, KnowsRow, Idle
  <2> QED BY <2>1, <2>2 DEF CurrentInv
<1>3. CASE UNCHANGED vars
  <2>1. UNCHANGED tables /\ UNCHANGED call
    BY <1>3 DEF vars, tables
  <2> QED BY <1>2, <2>1 DEF CurrentInv
<1>4. ASSUME NEW s \in Severities, OpenCase(s) PROVE CurrentInv'
  <2>1. UNCHANGED call /\ \A h \in Handlers : call[h] = Idle
    BY <1>4 DEF OpenCase, Following
  <2>2. row'.status # "none"
    BY <1>4, NoCaseTyped DEF OpenCase, OpeningStatus, Case
  <2> QED BY <2>1, <2>2 DEF CurrentInv, KnowsRow, Idle
<1>5. ASSUME NEW h \in Handlers, NEW op \in Operations \ {"calendar", "link"}, Load(h, op)
      PROVE  CurrentInv'
  <2>1. UNCHANGED tables /\ call'[h].read = {} /\ call'[h].op = op
    BY <1>1, <1>5 DEF Load, Idle
  <2>2. call'[h].seen.status = row.status
    BY <1>5, LoadSeen
  <2>3. op = "fileAppeal" => row.status = "IN_APPEAL"
    BY <1>5 DEF Load, Admits
  <2>4. UNCHANGED row
    BY <2>1 DEF tables
  <2>5. KnowsRow(call[h])'
    BY <2>1, <2>2, <2>3, <2>4 DEF KnowsRow
  <2> QED BY <1>2, <2>1, <2>5 DEF CurrentInv, Serial
<1>6. ASSUME NEW h \in Handlers, Abandon(h) PROVE CurrentInv'
  <2>1. UNCHANGED tables /\ \A g \in Handlers : call'[g] = call[g] \/ call'[g] = Idle
    BY <1>1, <1>6 DEF Abandon, Done
  <2> QED BY <1>2, <2>1 DEF CurrentInv
<1>7. CASE Tick \/ ChangeCalendar \/ ChangeLink
  <2>1. UNCHANGED tables /\ UNCHANGED call
    BY <1>7 DEF Tick, ChangeCalendar, ChangeLink
  <2> QED BY <1>2, <2>1 DEF CurrentInv
<1>8. ASSUME NEW h \in Handlers, Checks(h) PROVE CurrentInv'
  <2>1. PICK op \in Requests, target \in Nat : Pass(h, op, target)
    BY <1>8, ChecksPass
  <2>2. /\ UNCHANGED tables /\ call[h].op = op /\ call'[h].op = op /\ call[h].phase = "loaded"
        /\ call'[h].seen = [call[h].seen EXCEPT !.stepStartedOn = 0, !.stepBusinessDays = 0]
    BY <1>1, <2>1 DEF Pass, Call
  <2>3. call'[h].seen.status = call[h].seen.status
    BY <1>1, <2>2 DEF Call, Case
  <2>4. op # "reconcile" /\ UNCHANGED row
    BY <2>2 DEF Requests, tables
  <2>5. KnowsRow(call[h])'
    BY <2>2, <2>3, <2>4 DEF KnowsRow, CurrentInv
  <2> QED BY <1>2, <2>2, <2>5 DEF CurrentInv, Serial
<1>9. ASSUME NEW h \in Handlers, Commits(h) \/ Reconciles(h), Done(h) PROVE CurrentInv'
  <2>1. \A g \in Handlers : call'[g] = Idle
    BY <1>1, <1>9 DEF Done, Serial
  <2>2. RecordGrows /\ row'.status # "none" /\ call[h] # Idle
    BY <1>9, HandlerEffects
  <2>3. row.status # "none"
    BY <2>2 DEF Following
  <2> QED BY <2>1, <2>2, <2>3 DEF CurrentInv, KnowsRow, RecordGrows, Idle
<1>10. ASSUME NEW h \in Handlers, Commits(h) PROVE CurrentInv'
  <2>1. Done(h)
    BY <1>10 DEF Commits, Start, Communicate, FileDefense, Archive, Annul, FileAppeal,
         DeliverFormalCharge, RecordDelivery, Resolve, FileRevocation,
         ElevateOnRejection, RejectRevocation, CloseRecurso, Answering
  <2> QED BY <1>9, <1>10, <2>1
<1>11. ASSUME NEW h \in Handlers, ReadEvents(h) PROVE CurrentInv'
  <2>1. /\ UNCHANGED tables /\ call[h].op = "reconcile"
        /\ call'[h] = [call[h] EXCEPT !.read = @ \cup {"events"}, !.elevated = elevations > 0]
    BY <1>1, <1>11 DEF ReadEvents
  <2>2. /\ call'[h].op = "reconcile" /\ call'[h].phase = call[h].phase
        /\ call'[h].seen = call[h].seen /\ call'[h].open = call[h].open
        /\ call'[h].read = call[h].read \cup {"events"}
    BY <1>1, <2>1 DEF Call
  <2>3. UNCHANGED <<row, Waiting>>
    BY <2>1 DEF tables, Waiting, Open
  <2>4. KnowsRow(call[h])'
    BY <2>1, <2>2, <2>3 DEF KnowsRow, CurrentInv
  <2> QED BY <1>2, <2>1, <2>4 DEF CurrentInv, Serial
<1>12. ASSUME NEW h \in Handlers, ReadTables(h) PROVE CurrentInv'
  <2>1. PICK on :
          call' = [call EXCEPT ![h].read = @ \cup {"tables"}, ![h].defended = defenses > 0,
                        ![h].open = Open({"REVOCATION", "APPEAL"}),
                        ![h].openAppeal = Open({"APPEAL"}),
                        ![h].rejected = RejectedSubsidiary # {}, ![h].rejectedOn = on]
    BY <1>12 DEF ReadTables
  <2> DEFINE new == [call[h] EXCEPT !.read = @ \cup {"tables"}, !.defended = defenses > 0,
                       !.open = Open({"REVOCATION", "APPEAL"}), !.openAppeal = Open({"APPEAL"}),
                       !.rejected = RejectedSubsidiary # {}, !.rejectedOn = on]
  <2>2. call' = [call EXCEPT ![h] = new]
    BY <1>1, <2>1
  <2>3. /\ new.op = call[h].op /\ new.phase = call[h].phase /\ new.seen = call[h].seen
        /\ new.open = Waiting
    BY <1>1 DEF Call, Waiting
  <2> HIDE DEF new
  <2>4. call'[h] = new /\ UNCHANGED tables /\ call[h].op = "reconcile"
    BY <1>1, <1>12, <2>2 DEF ReadTables
  <2>5. UNCHANGED <<row, Waiting>>
    BY <2>4 DEF tables, Waiting, Open
  <2>6. KnowsRow(call[h])'
    BY <2>3, <2>4, <2>5 DEF KnowsRow, CurrentInv
  <2> QED BY <1>2, <2>4, <2>6 DEF CurrentInv, Serial
<1>13. ASSUME NEW h \in Handlers, Reconciles(h) PROVE CurrentInv'
  <2>1. CASE Elevate(h) \/ NothingDue(h) \/ ExpireDefense(h) \/ ExpireRecursos(h)
    <3>1. Done(h)
      BY <2>1 DEF Elevate, NothingDue, ExpireDefense, ExpireRecursos
    <3> QED BY <1>9, <1>13, <3>1
  <2> QED BY <1>11, <1>12, <1>13, <2>1 DEF Reconciles
<1> QED BY <1>3, <1>4, <1>5, <1>6, <1>7, <1>8, <1>10, <1>13 DEF Next

LEMMA AlwaysCurrent == ASSUME Serial PROVE Spec => []CurrentInv
<1>1. Init => CurrentInv
  BY DEF Init, CurrentInv, KnowsRow, Idle, NoCase
<1>2. TypeOK /\ Following /\ CurrentInv /\ [Next]_vars => CurrentInv'
  BY CurrentKept
<1> QED BY <1>1, <1>2, Reachable, PTL DEF Spec

\* The table of a track says from where a case may move on.
LEMMA MovesFrom ==
  ASSUME NEW to \in Statuses, row.track \in Tracks, row.status \in Statuses,
         CanTransition(row.track, row.status, to)
  PROVE  /\ Points # "NONE"
         /\ to # "ANNULLED" => Points = "PROPOSED"
         /\ to \in {"IN_APPEAL", "FIRM"} /\ row.track = "DUE_PROCESS"
              => row.status \in {"RESOLVED", "IN_APPEAL"}
  BY DEF CanTransition, DueProcessTransitions, DirectTransitions, Points, DeductionState, Tracks,
         Statuses

\* A due-process case that may be sanctioned was told.
LEMMA ToldFirst ==
  ASSUME TypeOK, ProcessFollowed, row.status # "none",
         row.track = "DUE_PROCESS" => row.status \in {"RESOLVED", "IN_APPEAL"}
  PROVE  Charged
  BY DEF ProcessFollowed, Reached, Milestones, Charged, Track, Told

\* A recurso waits.
LEMMA WaitingRows ==
  ASSUME NEW seq \in Seq(Appeal)
  PROVE  /\ Len(seq) \in Nat /\ DOMAIN seq = 1..Len(seq)
         /\ \A i \in 1..Len(seq) : seq[i].kind \in {"REVOCATION", "APPEAL"}
<1>1. \A i \in 1..Len(seq) : seq[i] \in Appeal
  BY ElementOfSeq
<1> QED BY <1>1, LenProperties DEF Appeal

LEMMA WaitingAfterFiling ==
  ASSUME TypeOK, NEW seq \in Seq(Appeal), NEW kind \in {"REVOCATION", "APPEAL"},
         NEW subsidiary \in BOOLEAN, appeals' = Append(seq, Filed(kind, subsidiary))
  PROVE  Waiting'
<1> DEFINE e == Filed(kind, subsidiary)
<1>1. e \in Appeal /\ e.kind = kind /\ e.outcome = "none"
  BY FiledTyped
<1> HIDE DEF e
<1>2. /\ Len(appeals') = Len(seq) + 1 /\ appeals'[Len(seq) + 1] = e /\ appeals' \in Seq(Appeal)
  BY <1>1, FiledRows, AppendProperties DEF e
<1>3. Len(seq) + 1 \in DOMAIN appeals'
  BY <1>2, WaitingRows
<1> QED BY <1>1, <1>2, <1>3 DEF Waiting, Open

\* Answering the only recurso that waits leaves none.
LEMMA NoneWaitsAfterAnswer ==
  ASSUME TypeOK, SerialInv, NEW h \in Handlers, Resolves(h),
         NEW outcome \in {"REVOKE", "MODIFY", "UPHOLD"}, appeals' = Answered(h, outcome)
  PROVE  ~ Waiting'
<1>1. /\ call[h].target \in 1..Len(appeals) /\ Len(appeals) \in {1, 2}
      /\ Len(appeals) = 2 => appeals[1].outcome = "UPHOLD" /\ call[h].target = 2
  BY RowsOfAppeals DEF SerialInv, FoundStands, Resolves, InOrder
<1>2. /\ appeals' \in Seq(Appeal) /\ Len(appeals') = Len(appeals)
      /\ appeals'[call[h].target].outcome = outcome
      /\ \A i \in 1..Len(appeals) : i # call[h].target => appeals'[i] = appeals[i]
  BY <1>1, AnsweredRows
<1>3. DOMAIN appeals' = 1..Len(appeals)
  BY <1>2, WaitingRows
<1>4. \A i \in 1..Len(appeals) : appeals'[i].outcome # "none"
  BY <1>1, <1>2
<1> QED BY <1>3, <1>4 DEF Waiting, Open

StepKeepsPromise == Promise!Next \/ UNCHANGED <<Points, Track, Told, Waiting>>

\* The promise's actions, as what they do to the facts of a case that exists.
LEMMA PromiseSteps ==
  ASSUME Track # "none", Track' = Track, Told => Told'
  PROVE  /\ Points' = Points /\ (Waiting' <=> Waiting) => StepKeepsPromise
         /\ Points = "PROPOSED" /\ Points' = "PROPOSED" /\ Charged /\ Waiting' => StepKeepsPromise
         /\ Points' = Points /\ ~ Waiting' => StepKeepsPromise
         /\ Points = "PROPOSED" /\ Points' = "APPLIED" /\ Charged /\ ~ Waiting' => StepKeepsPromise
         /\ Points # "NONE" /\ Points' = "NONE" /\ ((Waiting' <=> Waiting) \/ ~ Waiting')
              => StepKeepsPromise
  BY DEF StepKeepsPromise, Points, Track, Told, Charged, Waiting, Open, Promise!Next, Promise!Tell,
     Promise!Goes, Promise!Charged, Promise!Contest, Promise!Answer, Promise!ApplyPoints,
     Promise!Clear

\* What a handler's step does to the record keeps the track and the notice.
LEMMA PromiseGoes ==
  ASSUME NEW h \in Handlers, TypeOK, Following, Commits(h) \/ Reconciles(h)
  PROVE  Track # "none" /\ Track' = Track /\ (Told => Told')
<1>1. RecordGrows /\ row'.status # "none" /\ call[h] # Idle
  BY HandlerEffects
<1>2. row.status # "none" /\ row.track \in Tracks
  BY <1>1 DEF Following, TypeOK, Case
<1> QED BY <1>1, <1>2 DEF RecordGrows, Track, Told, Tracks

LEMMA PromiseCommits ==
  ASSUME NEW h \in Handlers, TypeOK, TypeOK', Following, ProcessFollowed, SerialInv, CurrentInv,
         Commits(h)
  PROVE  StepKeepsPromise
<1> DEFINE Kept == StepKeepsPromise
<1>1. /\ row \in Case /\ row.status \in Statuses /\ row.status # "none" /\ row.track \in Tracks
      /\ call[h].seen.status = row.status /\ call[h].seen.track = row.track
      /\ call[h].op = "fileAppeal" => row.status = "IN_APPEAL"
  <2>1. call[h].phase # "idle"
    BY DEF Commits, Start, Communicate, FileDefense, Archive, Annul, FileAppeal,
           DeliverFormalCharge, RecordDelivery, Resolve, FileRevocation,
           ElevateOnRejection, RejectRevocation, CloseRecurso, Resolves
  <2> QED BY <2>1, RequestInFlight DEF CurrentInv, KnowsRow, TypeOK, Case
<1>2. /\ Points' = Points /\ (Waiting' <=> Waiting) => Kept
      /\ Points = "PROPOSED" /\ Points' = "PROPOSED" /\ Charged /\ Waiting' => Kept
      /\ Points' = Points /\ ~ Waiting' => Kept
      /\ Points = "PROPOSED" /\ Points' = "APPLIED" /\ Charged /\ ~ Waiting' => Kept
      /\ Points # "NONE" /\ Points' = "NONE" /\ ((Waiting' <=> Waiting) \/ ~ Waiting') => Kept
  BY PromiseGoes, PromiseSteps
<1> HIDE DEF Kept
<1>3. ASSUME UNCHANGED appeals PROVE Waiting' <=> Waiting
  BY <1>3 DEF Waiting, Open
<1>4. ASSUME NEW to \in Statuses, NEW note, Apply(call[h].seen, to, note)
      PROVE  /\ Points # "NONE" /\ (to # "ANNULLED" => Points = "PROPOSED")
             /\ to \in {"IN_APPEAL", "FIRM"} => Charged
  <2>1. CanTransition(row.track, row.status, to)
    BY <1>1, <1>4 DEF Apply
  <2> QED BY <1>1, <2>1, MovesFrom, ToldFirst
<1>5. ASSUME NEW to \in {"INVESTIGATING", "COMMUNICATED", "PENDING_RESOLUTION", "RESOLVED"},
             Apply(call[h].seen, to, "request"), row'.status = to, UNCHANGED appeals
      PROVE  Kept
  <2>1. Points = "PROPOSED" /\ Points' = "PROPOSED"
    BY <1>4, <1>5 DEF Points, DeductionState, Statuses
  <2> QED BY <1>2, <1>3, <1>5, <2>1
<1>6. ASSUME Start(h) \/ FileDefense(h) PROVE Kept
  BY <1>1, <1>5, <1>6 DEF Start, FileDefense, Case
<1>7. ASSUME Communicate(h) \/ \E day \in Days : DeliverFormalCharge(h, day) PROVE Kept
  BY <1>1, <1>5, <1>7 DEF Communicate, DeliverFormalCharge, Case
<1>8. ASSUME NEW outcome, NEW severity, Resolve(h, outcome, severity) PROVE Kept
  BY <1>1, <1>5, <1>8 DEF Resolve, Case
<1>9. ASSUME NEW day \in Days, RecordDelivery(h, day) PROVE Kept
  <2>1. UNCHANGED appeals /\ row'.status = row.status
    BY <1>1, <1>9 DEF RecordDelivery, Case
  <2> QED BY <1>2, <1>3, <2>1 DEF Points
<1>10. ASSUME Archive(h) \/ Annul(h) PROVE Kept
  <2>1. UNCHANGED appeals
    BY <1>10 DEF Archive, Annul
  <2>2. Points # "NONE" /\ row'.status \in {"DISMISSED", "ANNULLED"}
    BY <1>1, <1>4, <1>10 DEF Archive, Annul, Case, Statuses
  <2> QED BY <1>2, <1>3, <2>1, <2>2 DEF Points, DeductionState
<1>11. ASSUME NEW subsidiary \in BOOLEAN, FileRevocation(h, subsidiary) PROVE Kept
  <2>1. /\ Apply(call[h].seen, "IN_APPEAL", "request") /\ row'.status = "IN_APPEAL"
        /\ appeals' = Append(appeals, Filed("REVOCATION", subsidiary))
    BY <1>1, <1>11 DEF FileRevocation, Case
  <2>2. Waiting'
    BY <2>1, RowsOfAppeals, WaitingAfterFiling
  <2>3. Points = "PROPOSED" /\ Charged
    BY <1>4, <2>1 DEF Statuses
  <2> QED BY <1>2, <2>1, <2>2, <2>3 DEF Points, DeductionState
<1>12. ASSUME FileAppeal(h) PROVE Kept
  <2>1. /\ row.status = "IN_APPEAL" /\ row'.status = row.status
        /\ appeals' = Append(appeals, Filed("APPEAL", FALSE))
    BY <1>1, <1>12 DEF FileAppeal, Case
  <2>2. Waiting'
    BY <2>1, RowsOfAppeals, WaitingAfterFiling
  <2>3. Charged
    BY <1>1, <2>1, ToldFirst
  <2> QED BY <1>2, <2>1, <2>2, <2>3 DEF Points, DeductionState
<1>13. ASSUME ElevateOnRejection(h) PROVE Kept
  <2>1. row'.status = row.status /\ appeals' = Append(Answered(h, "UPHOLD"), Filed("APPEAL", TRUE))
    BY <1>1, <1>13 DEF ElevateOnRejection, Case
  <2>2. Waiting'
    BY <2>1, AnsweredTyped, WaitingAfterFiling
  <2>3. Waiting
    <3>1. call[h].target \in 1..Len(appeals) /\ appeals[call[h].target].outcome = "none"
      BY <1>13 DEF ElevateOnRejection, Resolves, SerialInv, FoundStands
    <3> QED BY <3>1, RowsOfAppeals, WaitingRows DEF Waiting, Open
  <2> QED BY <1>2, <2>1, <2>2, <2>3 DEF Points
<1>14. ASSUME RejectRevocation(h) PROVE Kept
  <2>1. Resolves(h) /\ row'.status = row.status /\ appeals' = Answered(h, "UPHOLD")
    BY <1>1, <1>14 DEF RejectRevocation, Case
  <2>2. ~ Waiting'
    BY <2>1, NoneWaitsAfterAnswer
  <2> QED BY <1>2, <2>1, <2>2 DEF Points
<1>15. ASSUME NEW outcome \in {"REVOKE", "MODIFY", "UPHOLD"}, NEW severity \in Severities,
              CloseRecurso(h, outcome, severity)
       PROVE  Kept
  <2> DEFINE to == IF outcome = "REVOKE" THEN "DISMISSED" ELSE "FIRM"
  <2>1. /\ Resolves(h) /\ appeals' = Answered(h, outcome) /\ Apply(call[h].seen, to, "request")
        /\ row' = [row EXCEPT !.status = to, !.severity = severity, !.stepBusinessDays = 0,
                              !.firmAt = FirmStamp(@, to), !.notifiedAt = NowNotified(h)]
    BY <1>15 DEF CloseRecurso
  <2>2. row'.status = to /\ to \in {"DISMISSED", "FIRM"}
    BY <1>1, <2>1 DEF Case
  <2> HIDE DEF to
  <2>3. ~ Waiting'
    BY <2>1, NoneWaitsAfterAnswer
  <2>4. Points = "PROPOSED" /\ (to = "FIRM" => Charged)
    BY <1>4, <2>1, <2>2 DEF Statuses
  <2> QED BY <1>2, <2>2, <2>3, <2>4 DEF Points, DeductionState
<1>16. Kept
  BY <1>6, <1>7, <1>8, <1>9, <1>10, <1>11, <1>12, <1>13, <1>14, <1>15 DEF Commits
<1> QED BY <1>16 DEF Kept

LEMMA PromiseReconciles ==
  ASSUME NEW h \in Handlers, TypeOK, TypeOK', Following, ProcessFollowed, CurrentInv, Reconciles(h)
  PROVE  StepKeepsPromise
<1>1. /\ row \in Case /\ row.status \in Statuses /\ row.status # "none" /\ row.track \in Tracks
      /\ call[h].seen.status = row.status /\ call[h].seen.track = row.track
      /\ call[h].op = "reconcile" /\ "tables" \in call[h].read => call[h].open = Waiting
  <2>1. call[h].op = "reconcile"
    BY DEF Reconciles, ReadEvents, ReadTables, Elevate, NothingDue, ExpireDefense,
           ExpireRecursos, SnapshotTaken
  <2>2. call[h].phase # "idle"
    BY <2>1 DEF Following, Idle
  <2> QED BY <2>1, <2>2, RequestInFlight DEF CurrentInv, KnowsRow, TypeOK, Case
<1>2. Track # "none" /\ Track' = Track /\ (Told => Told')
  BY PromiseGoes
<1>3. ASSUME NEW to \in Statuses, NEW note, Apply(call[h].seen, to, note), to # "ANNULLED"
      PROVE  Points = "PROPOSED" /\ (to = "FIRM" => Charged)
  <2>1. CanTransition(row.track, row.status, to)
    BY <1>1, <1>3 DEF Apply
  <2> QED BY <1>1, <1>3, <2>1, MovesFrom, ToldFirst
<1>4. UNCHANGED appeals /\ (Waiting' <=> Waiting)
  BY DEF Reconciles, ReadEvents, ReadTables, NothingDue, Elevate, ExpireDefense, ExpireRecursos,
         tables, Waiting, Open
<1>5. CASE ReadEvents(h) \/ ReadTables(h) \/ NothingDue(h)
  <2>1. UNCHANGED row
    BY <1>5 DEF ReadEvents, ReadTables, NothingDue, tables
  <2> QED BY <1>2, <1>4, <2>1, PromiseSteps DEF Points
<1>6. CASE Elevate(h)
  <2>1. row'.status = row.status
    BY <1>1, <1>6 DEF Elevate, Case
  <2> QED BY <1>2, <1>4, <2>1, PromiseSteps DEF Points
<1>7. CASE ExpireDefense(h)
  <2>1. /\ row'.status = "PENDING_RESOLUTION"
        /\ Apply(call[h].seen, "PENDING_RESOLUTION", "deadline")
    BY <1>1, <1>7 DEF ExpireDefense, Case
  <2>2. Points = "PROPOSED"
    BY <1>3, <2>1 DEF Statuses
  <2> QED BY <1>2, <1>4, <2>1, <2>2, PromiseSteps DEF Points, DeductionState
<1>8. CASE ExpireRecursos(h)
  <2> DEFINE to == FirmTarget(call[h].seen)
  <2>1. /\ Apply(call[h].seen, to, "deadline")
        /\ row' = [row EXCEPT !.status = to, !.firmAt = FirmStamp(@, to)]
        /\ SnapshotTaken(h) /\ ~ call[h].open
    BY <1>8 DEF ExpireRecursos, PlansFirm
  <2>2. row'.status = to /\ to \in {"DISMISSED", "FIRM"}
    BY <1>1, <2>1 DEF Case, FirmTarget
  <2> HIDE DEF to
  <2>3. ~ Waiting
    BY <1>1, <2>1 DEF SnapshotTaken
  <2>4. Points = "PROPOSED" /\ (to = "FIRM" => Charged)
    BY <1>3, <2>1, <2>2 DEF Statuses
  <2> QED BY <1>2, <1>4, <2>2, <2>3, <2>4, PromiseSteps DEF Points, DeductionState
<1> QED BY <1>5, <1>6, <1>7, <1>8 DEF Reconciles

LEMMA PromiseKeptByStep ==
  ASSUME Serial, TypeOK, TypeOK', Following, ProcessFollowed, SerialInv, CurrentInv, [Next]_vars
  PROVE  StepKeepsPromise
<1>1. ASSUME UNCHANGED tables PROVE StepKeepsPromise
  BY <1>1 DEF tables, StepKeepsPromise, Points, Track, Told, Waiting, Open
<1>2. CASE UNCHANGED vars
  <2>1. UNCHANGED tables
    BY <1>2 DEF vars, tables
  <2> QED BY <1>1, <2>1
<1>3. ASSUME NEW s \in Severities, OpenCase(s) PROVE StepKeepsPromise
  <2>1. /\ row'.status \in {"REPORTED", "NOTIFIED"} /\ row.status = "none" /\ UNCHANGED appeals
        /\ row'.track \in Tracks
        /\ row'.notifiedAt = NotifiedBy(FALSE, row'.track = "DIRECT" /\ linked)
    BY <1>3, NoCaseTyped DEF OpenCase, OpeningStatus, Case, Tracks
  <2>2. Waiting' <=> Waiting
    BY <2>1 DEF Waiting, Open
  <2>3. Points' = Points
    BY <2>1 DEF Points, DeductionState
  <2>4. /\ Track = "none" /\ Track' \in {"DIRECT", "DUE_PROCESS"}
        /\ Track' = "DUE_PROCESS" => ~ Told'
    BY <2>1 DEF Track, Told, Tracks, NotifiedBy
  <2> QED
    BY <2>2, <2>3, <2>4 DEF StepKeepsPromise, Promise!Next, Promise!Open, Points, Track, Told, Waiting, Open
<1>4. ASSUME NEW h \in Handlers, Checks(h) \/ Commits(h) \/ Reconciles(h) PROVE StepKeepsPromise
  <2>1. CASE Checks(h)
    BY <1>1, <2>1, ChecksPass DEF Pass
  <2> QED BY <1>4, <2>1, PromiseCommits, PromiseReconciles
<1> QED BY <1>1, <1>2, <1>3, <1>4, StepKinds DEF Load

\* Run serially, the component keeps the promise about conduct points (module
\* Sanction): a due-process case takes them, and is contested, only after its
\* family was told, no case takes them over a recurso that waits, and a case
\* that was cleared takes none again.
THEOREM ImplementsSanction == ASSUME Serial PROVE Spec => KeepsPromise
<1>1. Init => Promise!Init
  BY DEF Init, Promise!Init, DeductionState, NoCase, Open
<1>2. TypeOK /\ TypeOK' /\ Following /\ ProcessFollowed /\ SerialInv /\ CurrentInv /\ [Next]_vars
        => [Promise!Next]_<<Points, Track, Told, Waiting>>
  BY PromiseKeptByStep DEF StepKeepsPromise
<1> QED
  BY <1>1, <1>2, Reachable, ProcessAlwaysFollowed, SeriallyInOrder, AlwaysCurrent, PTL
  DEF Spec, KeepsPromise, Promise!Spec, Points, Track, Told, Waiting

-----------------------------------------------------------------------------
(* The deadlines, under a calendar that stands.                            *)

\* The step a pass found expired still is when the pass writes.
ExpiredInv ==
  \A h \in Handlers : call[h].op = "reconcile" /\ call[h].expired => StepExpired

LEMMA ExpiredKept ==
  ASSUME Serial, "calendar" \notin Operations, TypeOK, Following, ExpiredInv, [Next]_vars
  PROVE  ExpiredInv'
<1>1. call \in [Handlers -> Call]
  BY DEF TypeOK
<1>2. ASSUME UNCHANGED <<row, today, daysOff>>
      PROVE  /\ StepExpired' <=> StepExpired
             /\ \A h \in Handlers : call'[h] = call[h] \/ call'[h] = Idle
                  => (call[h].op = "reconcile" /\ call[h].expired => StepExpired)'
  <2>1. StepExpired' <=> StepExpired
    BY <1>2 DEF StepExpired, NonWorkingDays
  <2> QED BY <2>1 DEF ExpiredInv, Idle
<1>3. CASE UNCHANGED vars
  BY <1>2, <1>3 DEF vars, ExpiredInv
<1>4. ASSUME NEW s \in Severities, OpenCase(s) PROVE ExpiredInv'
  BY <1>4 DEF OpenCase, Following, ExpiredInv, Idle
<1>5. ASSUME NEW h \in Handlers, NEW op \in Operations \ {"calendar", "link"}, Load(h, op)
      PROVE  ExpiredInv'
  <2>1. UNCHANGED <<row, today, daysOff>>
    BY <1>5 DEF Load, tables, world
  <2>2. call'[h].expired => StepExpired
    BY <1>1, <1>5 DEF Load, Idle
  <2> QED BY <1>2, <2>1, <2>2 DEF ExpiredInv, Serial
<1>6. ASSUME NEW h \in Handlers, Done(h) PROVE ExpiredInv'
  BY <1>1, <1>6 DEF Done, Serial, ExpiredInv, Idle
<1>7. CASE Tick
  <2>1. /\ UNCHANGED <<row, daysOff, call>> /\ today' = today + 1
        /\ today \in Nat /\ row.stepStartedOn \in Nat
    BY <1>7, ConstantsAssumption DEF Tick, tables, TypeOK, Case, Days
  <2>2. StepExpired => StepExpired'
    BY <2>1 DEF StepExpired, NonWorkingDays, IsPast
  <2> QED BY <2>1, <2>2 DEF ExpiredInv
<1>8. CASE ChangeLink
  <2>1. UNCHANGED <<row, today, daysOff, call>>
    BY <1>8 DEF ChangeLink, tables
  <2> QED BY <1>2, <2>1 DEF ExpiredInv
<1>9. ~ ChangeCalendar
  BY DEF ChangeCalendar
<1>10. ASSUME NEW h \in Handlers, Checks(h) PROVE ExpiredInv'
  <2>1. PICK op \in Requests, target \in Nat : Pass(h, op, target)
    BY <1>10, ChecksPass
  <2>2. call'[h].op = op /\ op # "reconcile"
    BY <1>1, <2>1 DEF Pass, Call, Requests
  <2> QED BY <2>2 DEF ExpiredInv, Serial
<1>11. ASSUME NEW h \in Handlers, Commits(h) PROVE ExpiredInv'
  <2>1. Done(h)
    BY <1>11 DEF Commits, Start, Communicate, FileDefense, Archive, Annul, FileAppeal,
         DeliverFormalCharge, RecordDelivery, Resolve, FileRevocation,
         ElevateOnRejection, RejectRevocation, CloseRecurso, Answering
  <2> QED BY <1>6, <2>1
<1>12. ASSUME NEW h \in Handlers, ReadEvents(h) PROVE ExpiredInv'
  <2>1. UNCHANGED tables /\ UNCHANGED world
        /\ call'[h] = [call[h] EXCEPT !.read = @ \cup {"events"}, !.elevated = elevations > 0]
    BY <1>1, <1>12 DEF ReadEvents
  <2>2. call'[h].op = call[h].op /\ call'[h].expired = call[h].expired
    BY <1>1, <2>1 DEF Call
  <2> QED BY <1>2, <2>1, <2>2 DEF ExpiredInv, Serial, tables, world
<1>13. ASSUME NEW h \in Handlers, ReadTables(h) PROVE ExpiredInv'
  <2>1. PICK on :
          call' = [call EXCEPT ![h].read = @ \cup {"tables"}, ![h].defended = defenses > 0,
                        ![h].open = Open({"REVOCATION", "APPEAL"}),
                        ![h].openAppeal = Open({"APPEAL"}),
                        ![h].rejected = RejectedSubsidiary # {}, ![h].rejectedOn = on]
    BY <1>13 DEF ReadTables
  <2> DEFINE new == [call[h] EXCEPT !.read = @ \cup {"tables"}, !.defended = defenses > 0,
                       !.open = Open({"REVOCATION", "APPEAL"}), !.openAppeal = Open({"APPEAL"}),
                       !.rejected = RejectedSubsidiary # {}, !.rejectedOn = on]
  <2>2. call' = [call EXCEPT ![h] = new]
    BY <1>1, <2>1
  <2>3. new.op = call[h].op /\ new.expired = call[h].expired
    BY <1>1 DEF Call
  <2> HIDE DEF new
  <2>4. call'[h] = new /\ UNCHANGED tables /\ UNCHANGED world
    BY <1>1, <1>13, <2>2 DEF ReadTables
  <2> QED BY <1>2, <2>3, <2>4 DEF ExpiredInv, Serial, tables, world
<1>14. ASSUME NEW h \in Handlers, Reconciles(h) PROVE ExpiredInv'
  <2>1. CASE Elevate(h) \/ NothingDue(h) \/ ExpireDefense(h) \/ ExpireRecursos(h)
    <3>1. Done(h)
      BY <2>1 DEF Elevate, NothingDue, ExpireDefense, ExpireRecursos
    <3> QED BY <1>6, <3>1
  <2> QED BY <1>12, <1>13, <1>14, <2>1 DEF Reconciles
<1>15. ASSUME NEW h \in Handlers, Abandon(h) PROVE ExpiredInv'
  BY <1>6, <1>15 DEF Abandon
<1> QED
  BY <1>3, <1>4, <1>5, <1>7, <1>8, <1>9, <1>10, <1>11, <1>14, <1>15 DEF Next

\* A step that ran out had its business days before today.
LEMMA FullTerm ==
  ASSUME TypeOK, StepExpired
  PROVE  Cardinality({d \in Days : /\ row.stepStartedOn < d /\ d < today
                                   /\ d \notin NonWorkingDays}) >= row.stepBusinessDays
<1> DEFINE from == row.stepStartedOn
           term == row.stepBusinessDays
           eve  == today - 1
<1>1. from \in Nat /\ term \in Nat /\ today \in Nat /\ today <= LastDay /\ LastDay \in Nat
  BY ConstantsAssumption DEF TypeOK, Case, Days
<1>2. PICK day \in from..today :
        day < today /\ BusinessDaysBetween(from, day, NonWorkingDays) = term
  BY DEF StepExpired, IsPast
<1>3. day \in Nat /\ eve \in Nat /\ day <= eve
  BY <1>1, <1>2
<1>4. term <= BusinessDaysBetween(from, eve, NonWorkingDays)
  BY <1>1, <1>2, <1>3, CountMonotonic
<1>5. {d \in (from + 1)..eve : d \notin NonWorkingDays}
        = {d \in Days : from < d /\ d < today /\ d \notin NonWorkingDays}
  BY <1>1, <1>3 DEF Days
<1>6. BusinessDaysBetween(from, eve, NonWorkingDays)
        = Cardinality({d \in (from + 1)..eve : d \notin NonWorkingDays})
  BY DEF BusinessDaysBetween, IsBusinessDay
<1>7. BusinessDaysBetween(from, eve, NonWorkingDays) \in Nat
  BY <1>1, <1>3, CountType
<1> QED BY <1>1, <1>4, <1>5, <1>6, <1>7

\* Only a pass closes a step for its deadline, and only one it found expired.
LEMMA DeadlineNotes ==
  ASSUME TypeOK, ExpiredInv, [Next]_vars, NEW e \in bitacora' \ bitacora, e.note = "deadline"
  PROVE  StepExpired
<1>2. ASSUME UNCHANGED bitacora PROVE FALSE
  BY <1>2
<1>3. ASSUME NEW seen, NEW to, Apply(seen, to, "request") PROVE FALSE
  BY <1>3 DEF Apply
<1>4. ASSUME NEW h \in Handlers, Commits(h) PROVE FALSE
  BY <1>2, <1>3, <1>4 DEF Commits, Start, Communicate, FileDefense, Archive, Annul, FileAppeal,
       DeliverFormalCharge, RecordDelivery, Resolve, FileRevocation, ElevateOnRejection,
       RejectRevocation, CloseRecurso
<1>5. ASSUME NEW h \in Handlers, Reconciles(h) PROVE StepExpired
  <2>1. CASE ReadEvents(h) \/ ReadTables(h) \/ NothingDue(h)
    <3>1. UNCHANGED tables
      BY <2>1 DEF ReadEvents, ReadTables, NothingDue
    <3> QED BY <1>2, <3>1 DEF tables
  <2>2. CASE Elevate(h)
    BY <1>2, <2>2 DEF Elevate
  <2>3. CASE ExpireDefense(h) \/ ExpireRecursos(h)
    <3>1. call[h].op = "reconcile" /\ call[h].expired
      BY <2>3 DEF ExpireDefense, ExpireRecursos, SnapshotTaken, PlansPending, PlansFirm
    <3> QED BY <3>1 DEF ExpiredInv
  <2> QED BY <1>5, <2>1, <2>2, <2>3 DEF Reconciles
<1>6. ASSUME NEW s \in Severities, OpenCase(s) PROVE FALSE
  BY <1>2, <1>6 DEF OpenCase
<1>7. ASSUME UNCHANGED tables PROVE FALSE
  BY <1>2, <1>7 DEF tables
<1>8. ASSUME NEW h \in Handlers, Checks(h) PROVE FALSE
  BY <1>7, <1>8, ChecksPass DEF Pass
<1>9. CASE UNCHANGED vars
  BY <1>2, <1>9 DEF vars
<1> QED BY <1>4, <1>5, <1>6, <1>7, <1>8, <1>9, StepKinds DEF Load

\* Run serially and with the calendar as it is, a pass (planDeadline) closes a
\* step only after as many business days as the step allows.
THEOREM TermsRunInFull ==
  ASSUME Serial, "calendar" \notin Operations
  PROVE  Spec => NothingExpiresEarly
<1>1. Init => ExpiredInv
  BY DEF Init, ExpiredInv, Idle
<1>2. TypeOK /\ ExpiredInv /\ Following /\ [Next]_vars => ExpiredInv'
  BY ExpiredKept
<1>3. TypeOK /\ ExpiredInv /\ [Next]_vars =>
        [\A e \in bitacora' \ bitacora : e.note = "deadline" =>
           Cardinality({d \in Days : /\ row.stepStartedOn < d /\ d < today
                                     /\ d \notin NonWorkingDays}) >= row.stepBusinessDays]_vars
  BY DeadlineNotes, FullTerm
<1> QED BY <1>1, <1>2, <1>3, Reachable, PTL DEF Spec, NothingExpiresEarly

-----------------------------------------------------------------------------
(* The pages that show the case agree with its handlers (module            *)
(* AppealCenter), the code run serially.                                   *)

\* What the pages compare about a user gives the same answer on each.
LEMMA UsersAlwaysAgree == UsersAgree
<1>1. CaseListed = CaseOpened /\ RecursosListed = RecursosTracked
  BY DEF CaseListed, CaseOpened, RecursosListed, RecursosTracked, CaseScope, CanViewCase,
         ActorCanListCases, CanViewAllCases
<1>2. Offered \subseteq MayFile
  BY DEF Offered, MayFile, CanFileRemedy
<1>3. {a \in MayFile : ActorCanListCases(a) /\ a.ties \cap {"guardian", "responsible"} # {}}
        \subseteq Offered
  BY DEF Offered, MayFile, CanFileRemedy, CaseScope
<1>4. OnBoard \subseteq Alerted
  BY DEF OnBoard, Alerted, CaseListed, SeesCase, CaseScope
<1>5. CanReview = ReviewFilter /\ ReviewFilter = MayResolve
  <2>1. \A kind \in {"REVOCATION", "APPEAL"} : CanReview[kind] = ReviewFilter[kind]
    BY DEF CanReview, ReviewFilter, HasResolver
  <2>2. \A kind \in {"REVOCATION", "APPEAL"} : ReviewFilter[kind] = MayResolve[kind]
    BY DEF ReviewFilter, MayResolve
  <2> QED BY <2>1, <2>2 DEF CanReview, ReviewFilter, MayResolve
<1>6. \A kind \in {"REVOCATION", "APPEAL"} : MayResolve[kind] \subseteq ActorCanReviewQueue
  BY DEF MayResolve, ActorCanReviewQueue, HasResolver
<1>7. Queued = Reviewed /\ Queued = MayResolve
  <2>1. \A kind \in {"REVOCATION", "APPEAL"} :
          Queued[kind] = Reviewed[kind] /\ Queued[kind] = MayResolve[kind]
    BY <1>5, <1>6 DEF Queued, Reviewed
  <2> QED BY <2>1 DEF Queued, Reviewed, MayResolve
<1> QED BY <1>1, <1>2, <1>3, <1>4, <1>7 DEF UsersAgree

\* A recurso the center calls on time is one the handler accepts as on time.
LEMMA OnTimeAgrees ==
  ASSUME TypeOK, row.stepBusinessDays > 0
  PROVE  /\ StepDueOn \in Nat
         /\ today <= StepDueOn <=> FilingOnTime
<1> DEFINE from == row.stepStartedOn
           term == row.stepBusinessDays
           end  == LastDay + term
           tail == (LastDay + 1)..end
           worked == {day \in (from + 1)..end : IsBusinessDay(day, NonWorkingDays)}
<1>1. /\ from \in Nat /\ term \in Nat /\ today \in Nat /\ end \in Nat /\ from <= LastDay
      /\ LastDay \in Nat /\ NonWorkingDays \subseteq 0..LastDay
  BY ConstantsAssumption DEF TypeOK, Case, Days, NonWorkingDays
<1>2. tail \in SUBSET worked
  BY <1>1 DEF IsBusinessDay
<1>3. IsFiniteSet(worked) /\ BusinessDaysBetween(from, end, NonWorkingDays) = Cardinality(worked)
  <2>1. IsFiniteSet(worked)
    BY <1>1, CountType
  <2> QED BY <2>1 DEF BusinessDaysBetween
<1>4. Cardinality(tail) = term
  <2>1. LastDay + 1 \in Int /\ end \in Int /\ end - (LastDay + 1) + 1 = term /\ ~ (LastDay + 1 > end)
    BY <1>1
  <2> HIDE DEF end, term
  <2> QED BY <2>1, FS_Interval
<1>5. term <= BusinessDaysBetween(from, end, NonWorkingDays)
  <2> HIDE DEF tail, worked
  <2> QED BY <1>2, <1>3, <1>4, FS_Subset
<1>6. from <= end /\ term > 0
  BY <1>1
<1> HIDE DEF from, term, end
<1>7. /\ AddBusinessDays(from, term, NonWorkingDays, end) \in from..end
      /\ today <= AddBusinessDays(from, term, NonWorkingDays, end)
           <=> ~ IsPast(from, term, NonWorkingDays, today)
  BY <1>1, <1>5, <1>6, DueDateMeets
<1> QED BY <1>1, <1>7 DEF StepDueOn, FilingOnTime, from, term, end

\* The center looks for the first revocation, as the handler does.
LEMMA FirstRevocationAgrees ==
  ASSUME TypeOK
  PROVE  (\E i \in FirstRevocation : appeals[i].outcome = "UPHOLD" /\ ~ appeals[i].isSubsidiary)
           <=> Appealable
<1>1. DOMAIN appeals = 1..Len(appeals) /\ Len(appeals) \in Nat
  BY RowsOfAppeals
<1>2. \A i \in DOMAIN appeals :
        i \in FirstRevocation
          <=> appeals[i].kind = "REVOCATION" /\ \A j \in 1..(i - 1) : appeals[j].kind # "REVOCATION"
  BY <1>1 DEF FirstRevocation, OfKind
<1>3. FirstRevocation \subseteq DOMAIN appeals
  BY DEF FirstRevocation, OfKind
<1> QED BY <1>2, <1>3 DEF Appealable

LEMMA AlwaysOffered == ASSUME TypeOK, row.status # "none" PROVE OffersAccepted
<1>1. IsRemedyOnTime <=> row.stepBusinessDays > 0 /\ FilingOnTime
  BY OnTimeAgrees DEF IsRemedyOnTime
<1>2. IsRevocationStage <=> RevocationWindow
  BY DEF IsRevocationStage, RevocationWindow
<1>3. RevocationWindow => CanTransition(row.track, row.status, "IN_APPEAL")
  BY DEF RevocationWindow, CanTransition, DueProcessTransitions, DirectTransitions
<1>4. IsStandaloneAppealStage
        <=> row.status = "IN_APPEAL" /\ OfKind("APPEAL") = {} /\ Appealable
  BY FirstRevocationAgrees DEF IsStandaloneAppealStage
<1>5. RevocationWindow => row.status # "IN_APPEAL"
  BY DEF RevocationWindow
<1>6. Accepts("REVOCATION") <=> /\ FilingOnTime /\ RevocationWindow /\ row.stepBusinessDays > 0
                                /\ OfKind("REVOCATION") = {}
                                /\ CanTransition(row.track, row.status, "IN_APPEAL")
  BY DEF Accepts, Admits
<1>7. Accepts("APPEAL") <=> /\ FilingOnTime /\ row.status = "IN_APPEAL" /\ row.stepBusinessDays > 0
                            /\ Appealable /\ OfKind("APPEAL") = {}
  BY DEF Accepts, Admits
<1>8. EligibleRemedyKind = "REVOCATION" <=> Accepts("REVOCATION")
  BY <1>1, <1>2, <1>3, <1>6 DEF EligibleRemedyKind
<1>9. EligibleRemedyKind = "APPEAL" <=> Accepts("APPEAL")
  BY <1>1, <1>2, <1>4, <1>5, <1>7 DEF EligibleRemedyKind
<1> QED BY <1>8, <1>9 DEF OffersAccepted

\* A recurso of the queue may be answered: an appeal decides the case, from
\* a status that may become firm.
LEMMA AlwaysAnswerable == ASSUME TypeOK PROVE QueueAnswerable
<1>1. row.track \in Tracks
  BY DEF TypeOK, Case
<1>2. row.status = "IN_APPEAL" => CanTransition(row.track, row.status, "FIRM")
  BY <1>1 DEF CanTransition, DueProcessTransitions, DirectTransitions
<1> QED BY <1>2 DEF QueueAnswerable, ReviewQueue, Answerable, Pending

\* The statuses before a recurso may be filed, and those before a defense.
BeforeDefense == {"none", "REPORTED", "INVESTIGATING", "COMMUNICATED"}
BeforeRecursos == BeforeDefense \cup {"PENDING_RESOLUTION", "RESOLVED", "NOTIFIED"}

Rejected(seq) == Len(seq) = 1 /\ seq[1].outcome = "UPHOLD" /\ ~ seq[1].isSubsidiary

\* What the status of the case says of its rows.
StageInv ==
  /\ row.status \in BeforeDefense => defenses = 0
  /\ row.status \in BeforeRecursos => Len(appeals) = 0
  /\ row.status = "NOTIFIED" => row.track = "DIRECT"
  /\ row.status = "RESOLVED" => row.track = "DUE_PROCESS"
  /\ row.status = "REPORTED" => row.stepBusinessDays = 0
  /\ row.status \in {"NOTIFIED", "RESOLVED", "IN_APPEAL"} => row.stepBusinessDays > 0
  /\ row.status = "IN_APPEAL" => Waiting \/ Rejected(appeals)

\* A handler that writes saw the case as it is.
LEMMA WritesWhatItRead ==
  ASSUME NEW h \in Handlers, TypeOK, Following, CurrentInv, Commits(h) \/ Reconciles(h)
  PROVE  /\ row \in Case /\ row.status \in Statuses /\ row.track \in Tracks
         /\ call[h].seen.status = row.status /\ call[h].seen.track = row.track
         /\ call[h].op = "fileAppeal" => row.status = "IN_APPEAL"
<1>1. call[h].phase # "idle" \/ call[h].op # "none"
  <2>1. CASE Commits(h)
    BY <2>1 DEF Commits, Start, Communicate, FileDefense, Archive, Annul, FileAppeal,
         DeliverFormalCharge, RecordDelivery, Resolve, FileRevocation,
         ElevateOnRejection, RejectRevocation, CloseRecurso, Resolves
  <2>2. CASE Reconciles(h)
    BY <2>2 DEF Reconciles, ReadEvents, ReadTables, Elevate, NothingDue, ExpireDefense,
         ExpireRecursos, SnapshotTaken
  <2> QED BY <2>1, <2>2
<1>2. call[h].phase # "idle"
  BY <1>1 DEF Following, Idle
<1>3. row.status # "none" /\ call[h].seen.track = row.track
  BY <1>1, RequestInFlight
<1> QED BY <1>2, <1>3 DEF CurrentInv, KnowsRow, TypeOK, Case

\* Where a case that moves came from.
LEMMA MovedFrom ==
  ASSUME NEW h \in Handlers, TypeOK, Following, CurrentInv, Commits(h) \/ Reconciles(h),
         NEW to \in Statuses, NEW note, Apply(call[h].seen, to, note)
  PROVE  /\ to = "INVESTIGATING" => row.status = "REPORTED"
         /\ to = "COMMUNICATED" => row.status = "INVESTIGATING"
         /\ to = "PENDING_RESOLUTION" => row.status = "COMMUNICATED"
         /\ to = "RESOLVED" => row.status = "PENDING_RESOLUTION" /\ row.track = "DUE_PROCESS"
<1>1. /\ row.status \in Statuses /\ row.track \in Tracks
      /\ CanTransition(row.track, row.status, to)
  BY WritesWhatItRead DEF Apply
<1> QED BY <1>1 DEF CanTransition, DueProcessTransitions, DirectTransitions, Statuses, Tracks

\* Answering the case in appeal finds a recurso, hence a later status.
LEMMA AnsweredLate ==
  ASSUME NEW h \in Handlers, TypeOK, SerialInv, StageInv, Resolves(h)
  PROVE  /\ call[h].target \in 1..Len(appeals) /\ appeals[call[h].target].outcome = "none"
         /\ row.status \notin BeforeRecursos
<1>1. call[h].target \in 1..Len(appeals) /\ appeals[call[h].target].outcome = "none"
  BY DEF SerialInv, FoundStands, Resolves
<1>2. Len(appeals) # 0
  BY <1>1, RowsOfAppeals
<1> QED BY <1>1, <1>2 DEF StageInv

LEMMA StepLengths ==
  /\ DefenseDays > 0 /\ RevocationDays > 0 /\ AppealDays > 0
  /\ InvestigationDays \in Nat /\ ResolutionDays \in Nat
  BY ConstantsAssumption

LEMMA StageCommits ==
  ASSUME NEW h \in Handlers, TypeOK, Following, SerialInv, CurrentInv, StageInv, Commits(h)
  PROVE  StageInv'
<1>1. /\ row \in Case /\ row.status \in Statuses /\ row.track \in Tracks
      /\ call[h].op = "fileAppeal" => row.status = "IN_APPEAL"
  BY WritesWhatItRead
<1>2. ASSUME row'.status \in {"FIRM", "DISMISSED", "ANNULLED"} PROVE StageInv'
  BY <1>2 DEF StageInv, BeforeDefense, BeforeRecursos
<1>3. CASE Start(h)
  <2>1. /\ row'.status = "INVESTIGATING" /\ UNCHANGED <<appeals, defenses>>
        /\ Apply(call[h].seen, "INVESTIGATING", "request")
    BY <1>1, <1>3 DEF Start, Case
  <2>2. row.status = "REPORTED"
    BY <2>1, MovedFrom DEF Statuses
  <2> QED BY <2>1, <2>2 DEF StageInv, BeforeDefense, BeforeRecursos
<1>4. ASSUME Communicate(h) \/ \E day \in Days : DeliverFormalCharge(h, day) PROVE StageInv'
  <2>1. /\ row'.status = "COMMUNICATED" /\ UNCHANGED <<appeals, defenses>>
        /\ Apply(call[h].seen, "COMMUNICATED", "request")
    BY <1>1, <1>4 DEF Communicate, DeliverFormalCharge, Case
  <2>2. row.status = "INVESTIGATING"
    BY <2>1, MovedFrom DEF Statuses
  <2> QED BY <2>1, <2>2 DEF StageInv, BeforeDefense, BeforeRecursos
<1>5. ASSUME NEW day \in Days, RecordDelivery(h, day) PROVE StageInv'
  <2>1. /\ row'.status = row.status /\ row'.track = row.track
        /\ row'.stepBusinessDays = row.stepBusinessDays /\ UNCHANGED <<appeals, defenses>>
    BY <1>1, <1>5 DEF RecordDelivery, Case
  <2>2. Waiting' <=> Waiting
    BY <2>1 DEF Waiting, Open
  <2> QED BY <2>1, <2>2 DEF StageInv, Rejected
<1>6. CASE FileDefense(h)
  <2>1. /\ row'.status = "PENDING_RESOLUTION" /\ UNCHANGED appeals
        /\ Apply(call[h].seen, "PENDING_RESOLUTION", "request")
    BY <1>1, <1>6 DEF FileDefense, Case
  <2>2. row.status = "COMMUNICATED"
    BY <2>1, MovedFrom DEF Statuses
  <2> QED BY <2>1, <2>2 DEF StageInv, BeforeDefense, BeforeRecursos
<1>7. ASSUME NEW outcome, NEW severity, Resolve(h, outcome, severity) PROVE StageInv'
  <2>1. /\ row'.status = "RESOLVED" /\ row'.track = row.track /\ UNCHANGED appeals
        /\ row'.stepBusinessDays = RevocationDays
        /\ Apply(call[h].seen, "RESOLVED", "request")
    BY <1>1, <1>7 DEF Resolve, Case
  <2>2. row.status = "PENDING_RESOLUTION" /\ row.track = "DUE_PROCESS"
    BY <2>1, MovedFrom DEF Statuses
  <2> QED BY <2>1, <2>2, StepLengths DEF StageInv, BeforeDefense, BeforeRecursos
<1>8. CASE Archive(h) \/ Annul(h)
  <2>1. row'.status \in {"DISMISSED", "ANNULLED"}
    BY <1>1, <1>8 DEF Archive, Annul, Case
  <2> QED BY <1>2, <2>1
<1>9. ASSUME row'.status = "IN_APPEAL", row'.stepBusinessDays \in {RevocationDays, AppealDays},
             Waiting' \/ Rejected(appeals')
      PROVE  StageInv'
  BY <1>9, StepLengths DEF StageInv, BeforeDefense, BeforeRecursos
<1>10. ASSUME NEW subsidiary \in BOOLEAN, FileRevocation(h, subsidiary) PROVE StageInv'
  <2>1. /\ row'.status = "IN_APPEAL" /\ row'.stepBusinessDays = RevocationDays
        /\ appeals' = Append(appeals, Filed("REVOCATION", subsidiary))
    BY <1>1, <1>10 DEF FileRevocation, Case
  <2>2. Waiting'
    BY <2>1, RowsOfAppeals, WaitingAfterFiling
  <2> QED BY <1>9, <2>1, <2>2
<1>11. CASE FileAppeal(h)
  <2>1. /\ row'.status = "IN_APPEAL" /\ row'.stepBusinessDays = AppealDays
        /\ appeals' = Append(appeals, Filed("APPEAL", FALSE))
    BY <1>1, <1>11 DEF FileAppeal, Case
  <2>2. Waiting'
    BY <2>1, RowsOfAppeals, WaitingAfterFiling
  <2> QED BY <1>9, <2>1, <2>2
\* An answer that keeps the case in appeal.
<1>12. ASSUME Resolves(h), row'.status = row.status,
              row'.stepBusinessDays \in {RevocationDays, AppealDays},
              Waiting' \/ Rejected(appeals')
       PROVE  StageInv'
  <2>1. row.status \in {"IN_APPEAL", "FIRM", "DISMISSED", "ANNULLED"}
    BY <1>1, <1>12, AnsweredLate DEF BeforeRecursos, BeforeDefense, Statuses
  <2> QED BY <1>2, <1>9, <1>12, <2>1
<1>13. CASE ElevateOnRejection(h)
  <2>1. /\ Resolves(h) /\ row'.status = row.status /\ row'.stepBusinessDays = AppealDays
        /\ appeals' = Append(Answered(h, "UPHOLD"), Filed("APPEAL", TRUE))
    BY <1>1, <1>13 DEF ElevateOnRejection, Case
  <2>2. Waiting'
    BY <2>1, AnsweredTyped, WaitingAfterFiling
  <2> QED BY <1>12, <2>1, <2>2
<1>14. CASE RejectRevocation(h)
  <2>1. /\ Resolves(h) /\ row'.status = row.status /\ row'.stepBusinessDays = RevocationDays
        /\ appeals' = Answered(h, "UPHOLD")
        /\ appeals[call[h].target].kind = "REVOCATION"
        /\ ~ appeals[call[h].target].isSubsidiary
    BY <1>1, <1>14 DEF RejectRevocation, Case
  <2>2. /\ call[h].target \in 1..Len(appeals) /\ appeals[call[h].target].outcome = "none"
        /\ Len(appeals) \in Nat
    BY <2>1, AnsweredLate, RowsOfAppeals
  <2>3. Len(appeals) = 1 /\ call[h].target = 1
    <3>3. InOrder /\ Len(appeals) <= 2
      BY DEF SerialInv, InOrder
    <3> DEFINE n == Len(appeals)
               t == call[h].target
    <3>4. n \in Nat /\ n <= 2 /\ t \in 1..n
      BY <2>2, <3>3
    <3> HIDE DEF n, t
    <3>5. t \in {1, 2} /\ n \in {1, 2}
      BY <3>4
    <3>1. call[h].target \in {1, 2} /\ Len(appeals) \in {1, 2}
      BY <3>5 DEF n, t
    <3>2. Len(appeals) # 2
      BY <2>1, <2>2, <3>1, <3>3 DEF InOrder
    <3> QED BY <2>2, <3>1, <3>2
  <2>4. /\ Len(appeals') = 1 /\ appeals'[1].outcome = "UPHOLD"
        /\ appeals'[1].isSubsidiary = appeals[1].isSubsidiary
    BY <2>1, <2>2, <2>3, AnsweredRows
  <2>5. Rejected(appeals')
    BY <2>1, <2>3, <2>4 DEF Rejected
  <2> QED BY <1>12, <2>1, <2>5
<1>15. ASSUME NEW outcome, NEW severity, CloseRecurso(h, outcome, severity) PROVE StageInv'
  <2>1. row'.status \in {"DISMISSED", "FIRM"}
    BY <1>1, <1>15 DEF CloseRecurso, Case
  <2> QED BY <1>2, <2>1
<1> QED
  BY <1>3, <1>4, <1>5, <1>6, <1>7, <1>8, <1>10, <1>11, <1>13, <1>14, <1>15 DEF Commits

LEMMA StageReconciles ==
  ASSUME NEW h \in Handlers, TypeOK, Following, SerialInv, CurrentInv, StageInv, Reconciles(h)
  PROVE  StageInv'
<1>1. /\ row \in Case /\ row.status \in Statuses /\ row.track \in Tracks
  BY WritesWhatItRead
<1>2. CASE ReadEvents(h) \/ ReadTables(h) \/ NothingDue(h)
  <2>1. UNCHANGED tables
    BY <1>2 DEF ReadEvents, ReadTables, NothingDue
  <2>2. UNCHANGED <<row, appeals, defenses>> /\ (Waiting' <=> Waiting)
    BY <2>1 DEF tables, Waiting, Open
  <2> QED BY <2>2 DEF StageInv, Rejected
<1>3. ~ Elevate(h)
  BY SerialReconciles DEF Elevate, TypeOK
<1>4. CASE ExpireDefense(h)
  <2>1. /\ row'.status = "PENDING_RESOLUTION" /\ UNCHANGED appeals
        /\ Apply(call[h].seen, "PENDING_RESOLUTION", "deadline")
    BY <1>1, <1>4 DEF ExpireDefense, Case
  <2>2. row.status = "COMMUNICATED"
    BY <2>1, MovedFrom DEF Statuses
  <2> QED BY <2>1, <2>2 DEF StageInv, BeforeDefense, BeforeRecursos
<1>5. CASE ExpireRecursos(h)
  <2>1. row'.status \in {"DISMISSED", "FIRM"}
    BY <1>1, <1>5 DEF ExpireRecursos, FirmTarget, Case
  <2> QED BY <2>1 DEF StageInv, BeforeDefense, BeforeRecursos
<1> QED BY <1>2, <1>3, <1>4, <1>5 DEF Reconciles

LEMMA StageKept ==
  ASSUME TypeOK, Following, SerialInv, CurrentInv, StageInv, [Next]_vars
  PROVE  StageInv'
<1>1. ASSUME UNCHANGED tables PROVE StageInv'
  <2>1. UNCHANGED <<row, appeals, defenses>> /\ (Waiting' <=> Waiting)
    BY <1>1 DEF tables, Waiting, Open
  <2> QED BY <2>1 DEF StageInv, Rejected
<1>2. CASE UNCHANGED vars
  <2>1. UNCHANGED tables
    BY <1>2 DEF vars, tables
  <2> QED BY <1>1, <2>1
<1>3. ASSUME NEW s \in Severities, OpenCase(s) PROVE StageInv'
  <2>1. row.status = "none" /\ UNCHANGED <<appeals, defenses>>
    BY <1>3 DEF OpenCase
  <2>2. \/ row'.status = "NOTIFIED" /\ row'.track = "DIRECT" /\ row'.stepBusinessDays = RevocationDays
        \/ row'.status = "REPORTED" /\ row'.stepBusinessDays = 0
    BY <1>3, NoCaseTyped DEF OpenCase, OpeningStatus, Case
  <2> QED BY <2>1, <2>2, StepLengths DEF StageInv, BeforeDefense, BeforeRecursos
<1>4. ASSUME NEW h \in Handlers, Checks(h) PROVE StageInv'
  BY <1>1, <1>4, ChecksPass DEF Pass
<1> QED BY <1>1, <1>2, <1>3, <1>4, StageCommits, StageReconciles, StepKinds DEF Load

\* The recursos answered so far.
Given(seq) == {i \in DOMAIN seq : seq[i].outcome # "none"}

\* Every answer was communicated, and nothing else was as an answer.
NoticesInv == Cardinality(Notices) = Cardinality(Given(appeals))

LEMMA FiniteRows ==
  ASSUME TypeOK
  PROVE  /\ IsFiniteSet(Notices) /\ Notices \subseteq 1..Len(communications)
         /\ IsFiniteSet(Given(appeals)) /\ Given(appeals) \subseteq 1..Len(appeals)
         /\ Len(communications) \in Nat /\ Len(appeals) \in Nat
<1>1. /\ Notices \in SUBSET (1..Len(communications)) /\ Given(appeals) \in SUBSET (1..Len(appeals))
      /\ Len(communications) \in Nat /\ Len(appeals) \in Nat
  BY RowsOfAppeals, LenProperties DEF TypeOK, Notices, Letters, Given
<1>2. IsFiniteSet(1..Len(communications)) /\ IsFiniteSet(1..Len(appeals))
  BY <1>1, FS_Interval
<1> QED BY <1>1, <1>2, FS_Subset

\* A communication appended is a notice when it tells an answer.
LEMMA NoticesAppended ==
  ASSUME TypeOK, NEW e \in Communication, communications' = Append(communications, e)
  PROVE  Notices' = IF e.kind = "APPEAL_RESOLUTION" THEN Notices \cup {Len(communications) + 1}
                    ELSE Notices
<1>1. /\ Len(communications) \in Nat /\ DOMAIN communications = 1..Len(communications)
      /\ DOMAIN communications' = 1..(Len(communications) + 1)
      /\ communications'[Len(communications) + 1] = e
      /\ \A i \in 1..Len(communications) : communications'[i] = communications[i]
  <2>1. communications \in Seq(Communication)
    BY DEF TypeOK
  <2> QED BY <2>1, LenProperties, AppendProperties
<1> QED BY <1>1 DEF Notices, Letters

\* A recurso filed is not an answer.
LEMMA GivenFiled ==
  ASSUME NEW seq \in Seq(Appeal), NEW kind \in {"REVOCATION", "APPEAL"},
         NEW subsidiary \in BOOLEAN
  PROVE  Given(Append(seq, Filed(kind, subsidiary))) = Given(seq)
<1> DEFINE e == Filed(kind, subsidiary)
<1>1. e \in Appeal /\ e.outcome = "none"
  BY FiledTyped
<1> HIDE DEF e
<1>2. /\ Len(Append(seq, e)) = Len(seq) + 1 /\ Append(seq, e)[Len(seq) + 1] = e
      /\ \A i \in 1..Len(seq) : Append(seq, e)[i] = seq[i]
      /\ Append(seq, e) \in Seq(Appeal)
  BY <1>1, FiledRows, AppendProperties
<1>3. /\ Len(seq) \in Nat /\ DOMAIN seq = 1..Len(seq)
      /\ DOMAIN Append(seq, e) = 1..(Len(seq) + 1)
  BY <1>2, WaitingRows
<1>4. Given(Append(seq, e)) = Given(seq)
  BY <1>1, <1>2, <1>3 DEF Given
<1> QED BY <1>4 DEF e

\* An answer adds one.
LEMMA GivenAnswered ==
  ASSUME NEW h \in Handlers, NEW outcome \in {"REVOKE", "MODIFY", "UPHOLD"}, TypeOK,
         call[h].target \in 1..Len(appeals)
  PROVE  Given(Answered(h, outcome)) = Given(appeals) \cup {call[h].target}
<1> DEFINE new == Answered(h, outcome)
<1>1. /\ new \in Seq(Appeal) /\ Len(new) = Len(appeals) /\ new[call[h].target].outcome = outcome
      /\ \A i \in 1..Len(appeals) : i # call[h].target => new[i] = appeals[i]
  BY AnsweredRows
<1> HIDE DEF new
<1>2. DOMAIN new = 1..Len(appeals) /\ DOMAIN appeals = 1..Len(appeals)
  BY <1>1, WaitingRows, RowsOfAppeals
<1>3. Given(new) = Given(appeals) \cup {call[h].target}
  BY <1>1, <1>2 DEF Given
<1> QED BY <1>3 DEF new

\* A handler leaves the answers and the letters as they are, or gives an answer
\* together with its letter.
LEMMA AnswersAndLetters ==
  ASSUME NEW h \in Handlers, TypeOK, Commits(h),
         Resolves(h) => call[h].target \in 1..Len(appeals)
  PROVE  /\ Len(appeals') \in Nat /\ Len(appeals) <= Len(appeals')
         /\ \/ Notices' = Notices /\ Given(appeals') = Given(appeals)
            \/ /\ Resolves(h) /\ Answering(h)
               /\ Given(appeals') = Given(appeals) \cup {call[h].target}
<1> DEFINE Longer == Len(appeals') \in Nat /\ Len(appeals) <= Len(appeals')
           Same   == Notices' = Notices /\ Given(appeals') = Given(appeals)
           Answer == /\ Resolves(h) /\ Answering(h)
                     /\ Given(appeals') = Given(appeals) \cup {call[h].target}
<1>1. UNCHANGED appeals => Longer /\ Given(appeals') = Given(appeals)
  BY RowsOfAppeals
<1>2. UNCHANGED communications => Notices' = Notices
  BY DEF Notices, Letters
<1>3. ASSUME Start(h) \/ FileDefense(h) \/ Archive(h) \/ Annul(h) PROVE Longer /\ Same
  <2>1. UNCHANGED <<communications, appeals>>
    BY <1>3 DEF Start, FileDefense, Archive, Annul
  <2> QED BY <1>1, <1>2, <2>1
<1>4. ASSUME NEW e \in Communication, e.kind # "APPEAL_RESOLUTION", UNCHANGED appeals,
             communications' = Append(communications, e)
      PROVE  Longer /\ Same
  <2>1. Notices' = Notices
    BY <1>4, NoticesAppended
  <2> QED BY <1>1, <1>4, <2>1
<1>5. ASSUME Communicate(h) \/ \E day \in Days : DeliverFormalCharge(h, day) PROVE Longer /\ Same
  <2>1. PICK b \in BOOLEAN : communications' = Append(communications, Sent("FORMAL_CHARGE", b))
    BY <1>5 DEF Communicate, DeliverFormalCharge
  <2>2. UNCHANGED appeals
    BY <1>5 DEF Communicate, DeliverFormalCharge
  <2>3. Sent("FORMAL_CHARGE", b) \in Communication /\ Sent("FORMAL_CHARGE", b).kind = "FORMAL_CHARGE"
    BY SentTyped
  <2> QED BY <1>4, <2>1, <2>2, <2>3
<1>6. ASSUME NEW outcome, NEW severity, Resolve(h, outcome, severity) PROVE Longer /\ Same
  <2>1. UNCHANGED appeals /\ communications' = Append(communications, Sent("RESOLUTION", FALSE))
    BY <1>6 DEF Resolve
  <2>2. Sent("RESOLUTION", FALSE) \in Communication /\ Sent("RESOLUTION", FALSE).kind = "RESOLUTION"
    BY SentTyped
  <2> QED BY <1>4, <2>1, <2>2
<1>7. ASSUME NEW day \in Days, RecordDelivery(h, day) PROVE Longer /\ Same
  <2>1. /\ DOMAIN communications' = DOMAIN communications /\ UNCHANGED appeals
        /\ \A i \in DOMAIN communications : communications'[i].kind = communications[i].kind
    <3>1. \A i \in DOMAIN communications : communications[i] \in Communication
      BY ElementOfSeq, LenProperties DEF TypeOK
    <3> QED BY <1>7, <3>1 DEF RecordDelivery, Communication
  <2>2. Notices' = Notices
    BY <2>1 DEF Notices, Letters
  <2> QED BY <1>1, <2>1, <2>2
<1>8. ASSUME NEW seq \in Seq(Appeal), NEW kind \in {"REVOCATION", "APPEAL"},
             NEW subsidiary \in BOOLEAN, appeals' = Append(seq, Filed(kind, subsidiary))
      PROVE  Len(appeals') = Len(seq) + 1 /\ Given(appeals') = Given(seq)
  <2>1. Filed(kind, subsidiary) \in Appeal
    BY FiledTyped
  <2> QED BY <1>8, <2>1, GivenFiled, AppendProperties
<1>9. ASSUME FileAppeal(h) \/ \E subsidiary \in BOOLEAN : FileRevocation(h, subsidiary)
      PROVE  Longer /\ Same
  <2>1. /\ UNCHANGED communications
        /\ \E kind \in {"REVOCATION", "APPEAL"}, subsidiary \in BOOLEAN :
             appeals' = Append(appeals, Filed(kind, subsidiary))
    BY <1>9 DEF FileAppeal, FileRevocation
  <2>2. Len(appeals') = Len(appeals) + 1 /\ Given(appeals') = Given(appeals)
    BY <1>8, <2>1, RowsOfAppeals
  <2> QED BY <1>2, <2>1, <2>2, RowsOfAppeals
<1>10. ASSUME NEW outcome \in {"REVOKE", "MODIFY", "UPHOLD"}, Resolves(h)
       PROVE  /\ Len(Answered(h, outcome)) = Len(appeals)
              /\ Given(Answered(h, outcome)) = Given(appeals) \cup {call[h].target}
  BY <1>10, AnsweredRows, GivenAnswered
<1>11. ASSUME ElevateOnRejection(h) PROVE Longer /\ Answer
  <2>1. /\ Resolves(h) /\ Answering(h)
        /\ appeals' = Append(Answered(h, "UPHOLD"), Filed("APPEAL", TRUE))
    BY <1>11 DEF ElevateOnRejection
  <2>2. /\ Len(appeals') = Len(Answered(h, "UPHOLD")) + 1
        /\ Given(appeals') = Given(Answered(h, "UPHOLD"))
    BY <1>8, <2>1, AnsweredTyped
  <2>3. /\ Len(Answered(h, "UPHOLD")) = Len(appeals)
        /\ Given(Answered(h, "UPHOLD")) = Given(appeals) \cup {call[h].target}
    BY <1>10, <2>1
  <2>4. Len(appeals) \in Nat
    BY RowsOfAppeals
  <2>5. Longer
    BY <2>2, <2>3, <2>4
  <2> QED BY <2>1, <2>2, <2>3, <2>5
<1>12. ASSUME RejectRevocation(h)
              \/ \E outcome \in {"REVOKE", "MODIFY", "UPHOLD"}, severity \in Severities :
                   CloseRecurso(h, outcome, severity)
       PROVE  Longer /\ Answer
  <2>1. /\ Resolves(h) /\ Answering(h)
        /\ \E outcome \in {"REVOKE", "MODIFY", "UPHOLD"} : appeals' = Answered(h, outcome)
    BY <1>12 DEF RejectRevocation, CloseRecurso
  <2> QED BY <1>10, <2>1, RowsOfAppeals
<1> QED
  BY <1>3, <1>5, <1>6, <1>7, <1>9, <1>11, <1>12 DEF Commits

\* The answer and its notice go together.
LEMMA AnswerIsNoticed ==
  ASSUME NEW h \in Handlers, TypeOK, SerialInv, StageInv, NoticesInv,
         Resolves(h), Answering(h), Given(appeals') = Given(appeals) \cup {call[h].target}
  PROVE  NoticesInv'
<1> DEFINE t == call[h].target
           new == Len(communications) + 1
<1>1. t \notin Given(appeals)
  BY AnsweredLate DEF Given
<1>2. Notices' = Notices \cup {new}
  <2>1. /\ Sent("APPEAL_RESOLUTION", FALSE) \in Communication
        /\ Sent("APPEAL_RESOLUTION", FALSE).kind = "APPEAL_RESOLUTION"
    BY SentTyped
  <2>2. communications' = Append(communications, Sent("APPEAL_RESOLUTION", FALSE))
    BY DEF Answering
  <2> QED BY <2>1, <2>2, NoticesAppended
<1>3. new \notin Notices /\ IsFiniteSet(Notices) /\ IsFiniteSet(Given(appeals))
  BY FiniteRows
<1> HIDE DEF new, t
<1>4. Cardinality(Notices \cup {new}) = Cardinality(Notices) + 1
  BY <1>3, FS_AddElement
<1>5. Cardinality(Given(appeals) \cup {t}) = Cardinality(Given(appeals)) + 1
  BY <1>1, <1>3, FS_AddElement
<1>6. Cardinality(Notices') = Cardinality(Given(appeals'))
  BY <1>2, <1>4, <1>5 DEF NoticesInv, t
<1> QED BY <1>6 DEF NoticesInv

LEMMA NoticesKept ==
  ASSUME NEW h \in Handlers, TypeOK, SerialInv, StageInv, NoticesInv, Commits(h)
  PROVE  NoticesInv'
<1>1. Resolves(h) => call[h].target \in 1..Len(appeals)
  BY AnsweredLate
<1> QED BY <1>1, AnswersAndLetters, AnswerIsNoticed DEF NoticesInv

LEMMA NoticesStand ==
  ASSUME TypeOK, SerialInv, CurrentInv, StageInv, NoticesInv, [Next]_vars
  PROVE  NoticesInv'
<1>1. ASSUME UNCHANGED <<communications, appeals>> PROVE NoticesInv'
  BY <1>1 DEF NoticesInv, Notices, Letters
<1>2. ASSUME UNCHANGED tables PROVE NoticesInv'
  BY <1>1, <1>2 DEF tables
<1>3. CASE UNCHANGED vars
  BY <1>1, <1>3 DEF vars
<1>4. ASSUME NEW s \in Severities, OpenCase(s) PROVE NoticesInv'
  <2>1. /\ communications = << >> /\ UNCHANGED appeals
        /\ communications' = << >> \/ communications' = <<Sent("DIRECT_REPRIMAND", FALSE)>>
    BY <1>4 DEF OpenCase, CurrentInv
  <2>2. Notices = {}
    BY <2>1 DEF Notices, Letters
  <2>3. Notices' = {}
    <3>1. CASE communications' = << >>
      BY <3>1 DEF Notices, Letters
    <3>2. CASE communications' = <<Sent("DIRECT_REPRIMAND", FALSE)>>
      <4>1. \A i \in DOMAIN <<Sent("DIRECT_REPRIMAND", FALSE)>> :
              <<Sent("DIRECT_REPRIMAND", FALSE)>>[i].kind = "DIRECT_REPRIMAND"
        BY DEF Sent
      <4> QED BY <3>2, <4>1 DEF Notices, Letters
    <3> QED BY <2>1, <3>1, <3>2
  <2> QED BY <2>1, <2>2, <2>3 DEF NoticesInv
<1>5. ASSUME NEW h \in Handlers, Checks(h) PROVE NoticesInv'
  BY <1>2, <1>5, ChecksPass DEF Pass
<1>6. ASSUME NEW h \in Handlers, Reconciles(h) PROVE NoticesInv'
  <2>1. UNCHANGED communications
    BY <1>6 DEF Reconciles, ReadEvents, ReadTables, Elevate, NothingDue, ExpireDefense,
         ExpireRecursos, tables
  <2> QED BY <1>1, <1>6, <2>1, SerialReconciles
<1> QED BY <1>2, <1>3, <1>4, <1>5, <1>6, NoticesKept, StepKinds DEF Load

-----------------------------------------------------------------------------
(* What those invariants say of the pages.                                 *)

\* How many members a set written out has.
LEMMA CountedOneMore ==
  ASSUME NEW S, NEW T, NEW e, NEW n \in Nat, IsFiniteSet(S), Cardinality(S) = n,
         e \notin S, T = S \cup {e}
  PROVE  IsFiniteSet(T) /\ Cardinality(T) = n + 1
  BY FS_AddElement

LEMMA CountedTwo ==
  ASSUME NEW a, NEW b, a # b
  PROVE  IsFiniteSet({a, b}) /\ Cardinality({a, b}) = 2
<1>1. IsFiniteSet({a}) /\ Cardinality({a}) = 1
  BY FS_Singleton
<1>2. {a, b} = {a} \cup {b} /\ b \notin {a}
  OBVIOUS
<1> DEFINE S == {a}
           T == {a, b}
<1>3. IsFiniteSet(S) /\ Cardinality(S) = 1 /\ b \notin S /\ T = S \cup {b}
  BY <1>1, <1>2
<1> HIDE DEF S, T
<1>4. IsFiniteSet(T) /\ Cardinality(T) = 1 + 1
  BY <1>3, CountedOneMore
<1>5. IsFiniteSet(T) /\ Cardinality(T) = 2
  BY <1>4
<1> QED BY <1>5 DEF T

LEMMA CountedThree ==
  ASSUME NEW a, NEW b, NEW c, a # b, a # c, b # c
  PROVE  IsFiniteSet({a, b, c}) /\ Cardinality({a, b, c}) = 3
<1> DEFINE S == {a, b}
           T == {a, b, c}
<1>1. IsFiniteSet(S) /\ Cardinality(S) = 2
  BY CountedTwo
<1>2. c \notin S /\ T = S \cup {c}
  OBVIOUS
<1> HIDE DEF S, T
<1>3. IsFiniteSet(T) /\ Cardinality(T) = 2 + 1
  BY <1>1, <1>2, CountedOneMore
<1>4. IsFiniteSet(T) /\ Cardinality(T) = 3
  BY <1>3
<1> QED BY <1>4 DEF T

LEMMA CountedFour ==
  ASSUME NEW a, NEW b, NEW c, NEW d, a # b, a # c, a # d, b # c, b # d, c # d
  PROVE  Cardinality({a, b, c, d}) = 4
<1> DEFINE S == {a, b, c}
           T == {a, b, c, d}
<1>1. IsFiniteSet(S) /\ Cardinality(S) = 3
  BY CountedThree
<1>2. d \notin S /\ T = S \cup {d}
  OBVIOUS
<1> HIDE DEF S, T
<1>3. Cardinality(T) = 3 + 1
  BY <1>1, <1>2, CountedOneMore
<1>4. Cardinality(T) = 4
  BY <1>3
<1> QED BY <1>4 DEF T

\* The kinds of step the tracking tells, by how far the recursos went.
LEMMA KindsTold ==
  ASSUME TypeOK, InOrder
  PROVE  /\ Len(appeals) \in {0, 1, 2} /\ elevations \in {0, 1}
         /\ Len(appeals) = 0 => TimelineKinds = {} /\ Given(appeals) = {}
         /\ Len(appeals) = 1 =>
              \/ TimelineKinds = {"REVOCATION_FILED"} /\ Given(appeals) = {}
              \/ TimelineKinds = {"REVOCATION_FILED", "REVOCATION_RESOLVED"} /\ Given(appeals) = {1}
         /\ Len(appeals) = 2 =>
              \E filed \in {"SUBSIDIARY_ELEVATED", "APPEAL_FILED"} :
                \/ /\ TimelineKinds = {"REVOCATION_FILED", "REVOCATION_RESOLVED", filed}
                   /\ Given(appeals) = {1}
                \/ /\ TimelineKinds = {"REVOCATION_FILED", "REVOCATION_RESOLVED", filed, "APPEAL_RESOLVED"}
                   /\ Given(appeals) = {1, 2}
<1> DEFINE Entries(i) == {IF appeals[i].kind = "REVOCATION" THEN "REVOCATION_FILED"
                        ELSE IF appeals[i].isSubsidiary THEN "SUBSIDIARY_ELEVATED" ELSE "APPEAL_FILED"}
                       \cup (IF appeals[i].outcome = "none" THEN {}
                             ELSE {IF appeals[i].kind = "REVOCATION" THEN "REVOCATION_RESOLVED"
                                                                     ELSE "APPEAL_RESOLVED"})
           raised == IF elevations > 0 THEN {"SUBSIDIARY_ELEVATED"} ELSE {}
<1>1. /\ Len(appeals) \in {0, 1, 2} /\ DOMAIN appeals = 1..Len(appeals)
      /\ elevations = IF Len(appeals) = 2 /\ appeals[1].isSubsidiary THEN 1 ELSE 0
      /\ elevations \in {0, 1}
  BY RowsOfAppeals DEF InOrder
<1>2. TimelineKinds = (UNION {Entries(i) : i \in DOMAIN appeals}) \cup raised
  BY DEF TimelineKinds
<1>3. Len(appeals) >= 1 => Entries(1) = IF appeals[1].outcome = "none" THEN {"REVOCATION_FILED"}
                                      ELSE {"REVOCATION_FILED", "REVOCATION_RESOLVED"}
  BY DEF InOrder
<1>4. CASE Len(appeals) = 0
  <2>1. DOMAIN appeals = {} /\ raised = {}
    BY <1>1, <1>4
  <2> QED BY <1>1, <1>2, <1>4, <2>1 DEF Given
<1>5. CASE Len(appeals) = 1
  <2>1. DOMAIN appeals = {1} /\ raised = {}
    BY <1>1, <1>5
  <2>2. TimelineKinds = Entries(1)
    <3> HIDE DEF Entries, raised
    <3> QED BY <1>2, <2>1
  <2>3. Given(appeals) = IF appeals[1].outcome = "none" THEN {} ELSE {1}
    BY <2>1 DEF Given
  <2> HIDE DEF Entries
  <2> QED BY <1>1, <1>3, <1>5, <2>2, <2>3
<1>6. CASE Len(appeals) = 2
  <2> DEFINE filed == IF appeals[2].isSubsidiary THEN "SUBSIDIARY_ELEVATED" ELSE "APPEAL_FILED"
  <2>1. /\ DOMAIN appeals = {1, 2} /\ appeals[2].kind = "APPEAL" /\ appeals[1].outcome = "UPHOLD"
        /\ appeals[2].isSubsidiary = appeals[1].isSubsidiary
    BY <1>1, <1>6 DEF InOrder
  <2>2. raised \subseteq {filed}
    BY <1>1, <1>6, <2>1
  <2>3. Entries(2) = IF appeals[2].outcome = "none" THEN {filed} ELSE {filed, "APPEAL_RESOLVED"}
    BY <2>1
  <2>4. TimelineKinds = Entries(1) \cup Entries(2) \cup raised
    <3> HIDE DEF Entries, raised
    <3>1. UNION {Entries(i) : i \in {1, 2}} = Entries(1) \cup Entries(2)
      OBVIOUS
    <3>2. TimelineKinds = (UNION {Entries(i) : i \in {1, 2}}) \cup raised
      BY <1>2, <2>1
    <3> QED BY <3>1, <3>2
  <2>5. Given(appeals) = IF appeals[2].outcome = "none" THEN {1} ELSE {1, 2}
    BY <2>1 DEF Given
  <2>6. Entries(1) = {"REVOCATION_FILED", "REVOCATION_RESOLVED"}
    BY <1>3, <1>6, <2>1
  <2>7. filed \in {"SUBSIDIARY_ELEVATED", "APPEAL_FILED"}
    OBVIOUS
  <2> HIDE DEF Entries, raised, filed
  <2>8. TimelineKinds = IF appeals[2].outcome = "none"
                        THEN {"REVOCATION_FILED", "REVOCATION_RESOLVED", filed}
                        ELSE {"REVOCATION_FILED", "REVOCATION_RESOLVED", filed, "APPEAL_RESOLVED"}
    BY <2>2, <2>3, <2>4, <2>6
  <2> QED BY <1>1, <1>6, <2>5, <2>7, <2>8
<1> QED BY <1>1, <1>4, <1>5, <1>6

LEMMA StoryTold == ASSUME TypeOK, InOrder, NoticesInv PROVE StoryComplete
<1>1. Cardinality(TimelineKinds) = Len(appeals) + Cardinality(Given(appeals))
  <2>1. CASE Len(appeals) = 0
    <3>1. TimelineKinds = {} /\ Given(appeals) = {}
      BY <2>1, KindsTold
    <3> QED BY <2>1, <3>1, FS_EmptySet
  <2>2. CASE Len(appeals) = 1
    <3>1. \/ TimelineKinds = {"REVOCATION_FILED"} /\ Given(appeals) = {}
          \/ TimelineKinds = {"REVOCATION_FILED", "REVOCATION_RESOLVED"} /\ Given(appeals) = {1}
      BY <2>2, KindsTold
    <3>2. /\ Cardinality({}) = 0 /\ Cardinality({1}) = 1 /\ Cardinality({"REVOCATION_FILED"}) = 1
          /\ Cardinality({"REVOCATION_FILED", "REVOCATION_RESOLVED"}) = 2
      BY FS_EmptySet, FS_Singleton, CountedTwo
    <3> QED BY <2>2, <3>1, <3>2
  <2>3. CASE Len(appeals) = 2
    <3>1. PICK filed \in {"SUBSIDIARY_ELEVATED", "APPEAL_FILED"} :
            \/ /\ TimelineKinds = {"REVOCATION_FILED", "REVOCATION_RESOLVED", filed}
               /\ Given(appeals) = {1}
            \/ /\ TimelineKinds = {"REVOCATION_FILED", "REVOCATION_RESOLVED", filed, "APPEAL_RESOLVED"}
               /\ Given(appeals) = {1, 2}
      BY <2>3, KindsTold
    <3>2. /\ Cardinality({"REVOCATION_FILED", "REVOCATION_RESOLVED", filed}) = 3
          /\ Cardinality({"REVOCATION_FILED", "REVOCATION_RESOLVED", filed, "APPEAL_RESOLVED"}) = 4
          /\ Cardinality({1}) = 1 /\ Cardinality({1, 2}) = 2
      <4>1. filed \notin {"REVOCATION_FILED", "REVOCATION_RESOLVED", "APPEAL_RESOLVED"}
        OBVIOUS
      <4>2. Cardinality({"REVOCATION_FILED", "REVOCATION_RESOLVED", filed}) = 3
        BY <4>1, CountedThree
      <4>3. Cardinality({"REVOCATION_FILED", "REVOCATION_RESOLVED", filed, "APPEAL_RESOLVED"}) = 4
        BY <4>1, CountedFour
      <4>4. Cardinality({1}) = 1
        BY FS_Singleton
      <4>5. 1 # 2
        OBVIOUS
      <4>6. Cardinality({1, 2}) = 2
        BY <4>5, CountedTwo
      <4> QED BY <4>2, <4>3, <4>4, <4>6
    <3> QED BY <2>3, <3>1, <3>2
  <2> QED BY <2>1, <2>2, <2>3, KindsTold
<1>2. CasePage.recursos = appeals
  BY DEF CasePage
<1> QED BY <1>1, <1>2 DEF StoryComplete, NoticesInv, Given

\* After a pass somebody may act on the case.
LEMMA AlwaysSomebody ==
  ASSUME TypeOK, InOrder, StageInv, row.status # "none"
  PROVE  SomebodyMayAct
<1> SUFFICES ASSUME Settled PROVE
      /\ row.status \in {"NOTIFIED", "RESOLVED", "IN_APPEAL"} =>
           EligibleRemedyKind # "none" \/ ReviewQueue # {}
      /\ "OVERDUE" \in DeadlineAlert =>
           \/ row.status \in {"INVESTIGATING", "PENDING_RESOLUTION"}
           \/ \E i \in ReviewQueue : ListedDeadline(i) = "OVERDUE"
  BY DEF SomebodyMayAct
<1>1. /\ DOMAIN appeals = 1..Len(appeals) /\ Len(appeals) \in Nat
      /\ \A i \in 1..Len(appeals) : appeals[i].kind \in {"REVOCATION", "APPEAL"}
  BY RowsOfAppeals DEF Appeal
<1>2. Waiting <=> ReviewQueue # {}
  BY <1>1 DEF Waiting, Open, ReviewQueue
<1>3. /\ row.status = "COMMUNICATED" => defenses > 0 \/ ~ StepExpired
      /\ row.status \in {"RESOLVED", "NOTIFIED", "IN_APPEAL"} => Waiting \/ ~ StepExpired
  <2>1. /\ Snapshot.seen = row /\ Snapshot.expired = StepExpired
        /\ Snapshot.defended = (defenses > 0) /\ Snapshot.open = Waiting
    BY DEF Snapshot, Idle, Waiting
  <2> QED BY <2>1 DEF Settled, PlansPending, PlansFirm
<1>4. row.stepBusinessDays \in Nat /\ row.status \in Statuses \cup {"none"}
  BY DEF TypeOK, Case
<1>5. row.stepBusinessDays > 0 => (today <= StepDueOn <=> ~ StepExpired) /\ StepDueOn \in Nat
  BY OnTimeAgrees DEF FilingOnTime, StepExpired
<1>6. ASSUME row.status \in {"NOTIFIED", "RESOLVED", "IN_APPEAL"}, ReviewQueue = {}
      PROVE  EligibleRemedyKind # "none"
  <2>1. row.stepBusinessDays > 0 /\ ~ Waiting /\ ~ StepExpired
    BY <1>2, <1>3, <1>6 DEF StageInv
  <2>2. IsRemedyOnTime
    BY <1>5, <2>1 DEF IsRemedyOnTime
  <2>3. CASE row.status \in {"NOTIFIED", "RESOLVED"}
    <3>1. IsRevocationStage
      BY <2>3 DEF StageInv, IsRevocationStage
    <3>2. OfKind("REVOCATION") = {}
      <4>1. Len(appeals) = 0
        BY <2>3 DEF StageInv, BeforeRecursos
      <4> QED BY <1>1, <4>1 DEF OfKind
    <3> QED BY <2>2, <3>1, <3>2 DEF EligibleRemedyKind
  <2>4. CASE row.status = "IN_APPEAL"
    <3>1. Rejected(appeals)
      BY <2>1, <2>4 DEF StageInv
    <3>2. DOMAIN appeals = {1} /\ appeals[1].kind = "REVOCATION"
      BY <1>1, <3>1 DEF Rejected, InOrder
    <3>3. OfKind("APPEAL") = {} /\ FirstRevocation = {1}
      BY <3>2 DEF OfKind, FirstRevocation
    <3>4. IsStandaloneAppealStage
      BY <2>4, <3>1, <3>3 DEF IsStandaloneAppealStage, Rejected
    <3>5. ~ IsRevocationStage
      BY <2>4 DEF IsRevocationStage
    <3> QED BY <2>2, <3>4, <3>5 DEF EligibleRemedyKind
  <2> QED BY <1>6, <2>3, <2>4
<1>7. ASSUME "OVERDUE" \in DeadlineAlert,
             row.status \notin {"INVESTIGATING", "PENDING_RESOLUTION"}
      PROVE  \E i \in ReviewQueue : ListedDeadline(i) = "OVERDUE"
  <2>1. StepDeadline = "OVERDUE" /\ row.status \notin FinalStatuses
    BY <1>7 DEF DeadlineAlert
  <2>2. row.stepBusinessDays > 0 /\ ~ (today <= StepDueOn)
    BY <1>4, <1>5, <2>1 DEF StepDeadline, TypeOK, Days
  <2>3. StepExpired
    BY <1>5, <2>2
  <2>5. row.status \notin {"REPORTED", "COMMUNICATED"}
    BY <1>3, <2>2, <2>3 DEF StageInv, BeforeDefense
  <2>6. row.status \in {"RESOLVED", "NOTIFIED", "IN_APPEAL"}
    BY <1>4, <1>7, <2>1, <2>5 DEF FinalStatuses, Statuses
  <2>7. PICK i \in ReviewQueue : TRUE
    BY <1>2, <1>3, <2>3, <2>6
  <2> QED BY <2>1, <2>7 DEF ReviewQueue, ListedDeadline
<1> QED BY <1>6, <1>7

\* Run serially, with whatever calendar, the pages that show a case (appeal
\* center, alerts, tracking) and the handlers that change it never disagree:
\* what is offered is accepted and the other way round, every recurso in the
\* queue may be answered, the story tells every step, and a case left to wait
\* after a pass waits for somebody who may act.
THEOREM PagesAgree == ASSUME Serial PROVE Spec => []CenterAgrees
<1>1. Init => StageInv /\ NoticesInv
  <2>1. Init => StageInv
    BY DEF Init, StageInv, NoCase
  <2>2. Init => NoticesInv
    BY DEF Init, NoticesInv, Notices, Letters, Given
  <2> QED BY <2>1, <2>2
<1>2. TypeOK /\ Following /\ SerialInv /\ CurrentInv /\ (StageInv /\ NoticesInv) /\ [Next]_vars
        => (StageInv /\ NoticesInv)'
  BY StageKept, NoticesStand
<1>3. TypeOK /\ SerialInv /\ (StageInv /\ NoticesInv) => CenterAgrees
  BY UsersAlwaysAgree, AlwaysOffered, AlwaysAnswerable, StoryTold, AlwaysSomebody
  DEF CenterAgrees, SerialInv
<1> QED BY <1>1, <1>2, <1>3, Reachable, SeriallyInOrder, AlwaysCurrent, PTL DEF Spec
-----------------------------------------------------------------------------
(* The answers to recursos, whatever requests are in flight.               *)

\* The requests about to answer a recurso that has its answer already.
Late == {g \in Handlers : Resolves(g) /\ call[g].target \in Given(appeals)}

AnsweringInv ==
  /\ row.status = "none" => appeals = << >>
  /\ \A g \in Handlers : Resolves(g) => call[g].target \in 1..Len(appeals)
  /\ Cardinality(Given(appeals)) <= Cardinality(Notices)
  /\ Cardinality(Notices) + Cardinality(Late) <= Cardinality(Handlers) * Cardinality(Given(appeals))

\* A step that answers nothing brings no request to a recurso answered before.
LEMMA NobodyLater ==
  ASSUME IsFiniteSet(Handlers), TypeOK, AnsweringInv,
         row'.status = "none" => appeals' = << >>,
         Len(appeals') \in Nat, Len(appeals) <= Len(appeals'),
         Notices' = Notices, Given(appeals') = Given(appeals),
         \A g \in Handlers :
           Resolves(g)' => \/ Resolves(g) /\ call'[g].target = call[g].target
                           \/ call'[g].target \in (1..Len(appeals)) \ Given(appeals)
  PROVE  AnsweringInv'
<1>1. Late' \in SUBSET Late /\ IsFiniteSet(Late) /\ IsFiniteSet(Late')
  <2>1. Late \in SUBSET Handlers /\ Late' \in SUBSET Handlers /\ Late' \subseteq Late
    BY DEF Late
  <2> QED BY <2>1, FS_Subset
<1>2. Cardinality(Late') <= Cardinality(Late) /\ Cardinality(Late) \in Nat /\ Cardinality(Late') \in Nat
  BY <1>1, FS_Subset, FS_CardinalityType
<1>3. \A g \in Handlers : Resolves(g)' => call'[g].target \in 1..Len(appeals')
  BY RowsOfAppeals DEF AnsweringInv
<1>4. /\ Cardinality(Notices) \in Nat /\ Cardinality(Given(appeals)) \in Nat
      /\ Cardinality(Handlers) \in Nat
  BY FiniteRows, FS_CardinalityType
<1>5. Cardinality(Handlers) * Cardinality(Given(appeals)) \in Nat
  BY <1>4
<1> QED BY <1>2, <1>3, <1>4, <1>5 DEF AnsweringInv

\* An answer is the first to its recurso, and makes every other request that is
\* about to answer it late; or it comes late itself.
LEMMA AnswerCounted ==
  ASSUME NEW h \in Handlers, IsFiniteSet(Handlers), TypeOK, AnsweringInv,
         row'.status # "none", Len(appeals') \in Nat, Len(appeals) <= Len(appeals'),
         Resolves(h), Answering(h), Given(appeals') = Given(appeals) \cup {call[h].target}
  PROVE  AnsweringInv'
<1> DEFINE t == call[h].target
           new == Len(communications) + 1
           n == Cardinality(Handlers)
           a == Cardinality(Given(appeals))
<1>1. call'[h] = Idle /\ \A g \in Handlers \ {h} : call'[g] = call[g]
  BY DEF Answering, Done, TypeOK
<1>2. \A g \in Handlers : Resolves(g)' => Resolves(g) /\ g # h /\ call'[g] = call[g]
  BY <1>1 DEF Resolves, Idle
<1>3. Notices' = Notices \cup {new}
  <2>1. /\ Sent("APPEAL_RESOLUTION", FALSE) \in Communication
        /\ Sent("APPEAL_RESOLUTION", FALSE).kind = "APPEAL_RESOLUTION"
    BY SentTyped
  <2>2. communications' = Append(communications, Sent("APPEAL_RESOLUTION", FALSE))
    BY DEF Answering
  <2> QED BY <2>1, <2>2, NoticesAppended
<1>4. Late \in SUBSET Handlers /\ Late' \in SUBSET (Handlers \ {h})
  BY <1>2 DEF Late
<1>5. /\ IsFiniteSet(Handlers \ {h}) /\ Cardinality(Handlers \ {h}) = n - 1
      /\ IsFiniteSet(Late) /\ IsFiniteSet(Late')
  BY <1>4, FS_RemoveElement, FS_Subset
<1>6. n \in Nat /\ a \in Nat /\ Cardinality(Late) \in Nat /\ Cardinality(Late') \in Nat
  BY <1>5, FiniteRows, FS_CardinalityType
<1>7. Cardinality(Notices') = Cardinality(Notices) + 1 /\ Cardinality(Notices) \in Nat
  <2>1. new \notin Notices /\ IsFiniteSet(Notices)
    BY FiniteRows
  <2> HIDE DEF new
  <2> QED BY <1>3, <2>1, FS_AddElement, FS_CardinalityType
<1>8. CASE t \notin Given(appeals)
  <2>1. Cardinality(Given(appeals')) = a + 1
    BY <1>8, FiniteRows, FS_AddElement
  <2>2. Late' \in SUBSET (Late \cup (Handlers \ {h}))
    BY <1>4
  <2>3. /\ IsFiniteSet(Late \cup (Handlers \ {h}))
        /\ Cardinality(Late \cup (Handlers \ {h})) <= Cardinality(Late) + (n - 1)
    <3> DEFINE others == Handlers \ {h}
               both   == Late \cap others
    <3>1. both \in SUBSET Late
      OBVIOUS
    <3> HIDE DEF both
    <3>2. Cardinality(both) \in Nat
      BY <1>5, <3>1, FS_Subset, FS_CardinalityType
    <3>3. IsFiniteSet(others) /\ Cardinality(others) = n - 1
      BY <1>5
    <3> HIDE DEF others, n
    <3>4. /\ IsFiniteSet(Late \cup others)
          /\ Cardinality(Late \cup others) = Cardinality(Late) + Cardinality(others) - Cardinality(both)
      BY <1>5, <3>3, FS_Union DEF both
    <3>5. /\ IsFiniteSet(Late \cup others)
          /\ Cardinality(Late \cup others) <= Cardinality(Late) + (n - 1)
      BY <1>6, <3>2, <3>3, <3>4
    <3> QED BY <3>5 DEF others
  <2>4. Cardinality(Late') <= Cardinality(Late) + (n - 1)
    BY <1>6, <2>2, <2>3, FS_Subset, FS_CardinalityType
  <2>5. n * (a + 1) = n * a + n /\ n * a \in Nat
    BY <1>6
  <2>6. /\ Cardinality(Given(appeals)) <= Cardinality(Notices)
        /\ Cardinality(Notices) + Cardinality(Late) <= n * a
    BY DEF AnsweringInv
  <2> HIDE DEF a, n
  <2>7. Cardinality(Notices') + Cardinality(Late') <= n * (a + 1)
    BY <1>6, <1>7, <2>4, <2>5, <2>6
  <2>8. \A g \in Handlers : Resolves(g)' => call'[g].target \in 1..Len(appeals')
    BY <1>2, RowsOfAppeals DEF AnsweringInv
  <2>9. Cardinality(Given(appeals')) <= Cardinality(Notices')
    BY <1>6, <1>7, <2>1, <2>6 DEF a
  <2> QED BY <2>1, <2>7, <2>8, <2>9 DEF AnsweringInv, n
<1>9. CASE t \in Given(appeals)
  <2>1. Given(appeals') = Given(appeals)
    BY <1>9
  <2>2. h \in Late /\ Late' \in SUBSET (Late \ {h})
    BY <1>2, <1>9, <2>1 DEF Late
  <2>3. IsFiniteSet(Late \ {h}) /\ Cardinality(Late \ {h}) = Cardinality(Late) - 1
    BY <1>5, <2>2, FS_RemoveElement
  <2>4. Cardinality(Late') <= Cardinality(Late) - 1
    BY <2>2, <2>3, FS_Subset
  <2>5. /\ Cardinality(Given(appeals)) <= Cardinality(Notices)
        /\ Cardinality(Notices) + Cardinality(Late) <= n * a
    BY DEF AnsweringInv
  <2>6. n * a \in Nat
    BY <1>6
  <2>7. Cardinality(Notices') + Cardinality(Late') <= n * a /\ a <= Cardinality(Notices')
    BY <1>6, <1>7, <2>4, <2>5, <2>6
  <2>8. \A g \in Handlers : Resolves(g)' => call'[g].target \in 1..Len(appeals')
    BY <1>2, RowsOfAppeals DEF AnsweringInv
  <2> QED BY <2>1, <2>7, <2>8 DEF AnsweringInv
<1> QED BY <1>8, <1>9

LEMMA AnsweringKept ==
  ASSUME IsFiniteSet(Handlers), TypeOK, Following, AnsweringInv, [Next]_vars
  PROVE  AnsweringInv'
<1>1. call \in [Handlers -> Call]
  BY DEF TypeOK
<1>2. ASSUME UNCHANGED <<row, appeals, communications>>,
             \A g \in Handlers : \/ call'[g] = call[g]
                                 \/ call'[g].op # "resolveRecurso"
                                 \/ call'[g].phase # "checked"
                                 \/ call'[g].target \in (1..Len(appeals)) \ Given(appeals)
      PROVE  AnsweringInv'
  <2>1. Notices' = Notices
    BY <1>2 DEF Notices, Letters
  <2> QED BY <1>2, <2>1, NobodyLater, RowsOfAppeals DEF AnsweringInv, Resolves
<1>3. CASE UNCHANGED vars
  BY <1>2, <1>3 DEF vars
<1>4. ASSUME NEW s \in Severities, OpenCase(s) PROVE AnsweringInv'
  <2>1. /\ appeals = << >> /\ UNCHANGED <<appeals, call>> /\ row'.status # "none"
        /\ communications' = << >> \/ communications' = <<Sent("DIRECT_REPRIMAND", FALSE)>>
    BY <1>4, NoCaseTyped DEF OpenCase, AnsweringInv, OpeningStatus, Case
  <2>2. Given(appeals) = {} /\ Given(appeals') = {}
    BY <2>1 DEF Given
  <2>3. Notices' = {}
    <3>1. \A i \in DOMAIN <<Sent("DIRECT_REPRIMAND", FALSE)>> :
            <<Sent("DIRECT_REPRIMAND", FALSE)>>[i].kind = "DIRECT_REPRIMAND"
      BY DEF Sent
    <3>2. CASE communications' = << >>
      BY <3>2 DEF Notices, Letters
    <3>3. CASE communications' = <<Sent("DIRECT_REPRIMAND", FALSE)>>
      BY <3>1, <3>3 DEF Notices, Letters
    <3> QED BY <2>1, <3>2, <3>3
  <2>4. Late' = {} /\ \A g \in Handlers : ~ Resolves(g)'
    BY <1>4, <2>1, <2>2 DEF Late, Following, OpenCase, Resolves, Idle
  <2>5. Cardinality(Handlers) * 0 = 0 /\ Cardinality({}) = 0
    BY FS_CardinalityType, FS_EmptySet
  <2>6. /\ Cardinality(Given(appeals')) = 0 /\ Cardinality(Notices') = 0
        /\ Cardinality(Late') = 0
    BY <2>2, <2>3, <2>4, <2>5
  <2> QED BY <2>1, <2>4, <2>5, <2>6 DEF AnsweringInv
<1>5. ASSUME NEW h \in Handlers, NEW op \in Operations \ {"calendar", "link"}, Load(h, op)
      PROVE  AnsweringInv'
  <2>1. call'[h].phase # "checked" /\ \A g \in Handlers \ {h} : call'[g] = call[g]
    BY <1>5, LoadSeen
  <2> QED BY <1>2, <1>5, <2>1, LoadSeen
<1>6. ASSUME NEW h \in Handlers, UNCHANGED tables, Done(h) PROVE AnsweringInv'
  <2>1. \A g \in Handlers : call'[g] = call[g] \/ call'[g].phase # "checked"
    BY <1>1, <1>6 DEF Done, Idle
  <2> QED BY <1>2, <1>6, <2>1 DEF tables
<1>7. ASSUME UNCHANGED <<tables, call>> PROVE AnsweringInv'
  BY <1>2, <1>7 DEF tables
<1>8. ASSUME NEW h \in Handlers, Checks(h) PROVE AnsweringInv'
  <2>1. ASSUME NEW op, NEW target, Pass(h, op, target),
               op = "resolveRecurso" => target \in (1..Len(appeals)) \ Given(appeals)
        PROVE  AnsweringInv'
    <3>1. /\ UNCHANGED tables /\ call'[h].op = op /\ call'[h].target = target
          /\ \A g \in Handlers \ {h} : call'[g] = call[g]
      BY <1>1, <2>1 DEF Pass, Call
    <3> QED BY <1>2, <2>1, <3>1 DEF tables
  <2>2. CASE CheckRecurso(h)
    <3>1. PICK i \in DOMAIN appeals : Pending(i) /\ Pass(h, "resolveRecurso", i)
      BY <2>2 DEF CheckRecurso
    <3>2. i \in (1..Len(appeals)) \ Given(appeals)
      BY <3>1, RowsOfAppeals DEF Pending, Given
    <3> QED BY <2>1, <3>1, <3>2
  <2> QED
    BY <1>8, <2>1, <2>2 DEF Checks, CheckCommunicate, CheckDeliverFormalCharge, CheckDelivery,
       CheckDefense, CheckRevocation, CheckAppeal
<1>9. ASSUME NEW h \in Handlers, Commits(h) PROVE AnsweringInv'
  <2>1. /\ row'.status # "none" /\ Len(appeals') \in Nat /\ Len(appeals) <= Len(appeals')
        /\ \/ Notices' = Notices /\ Given(appeals') = Given(appeals)
           \/ /\ Resolves(h) /\ Answering(h)
              /\ Given(appeals') = Given(appeals) \cup {call[h].target}
    BY <1>9, HandlerEffects, AnswersAndLetters DEF AnsweringInv
  <2>2. Done(h)
    BY <1>9 DEF Commits, Start, Communicate, FileDefense, Archive, Annul, FileAppeal,
         DeliverFormalCharge, RecordDelivery, Resolve, FileRevocation,
         ElevateOnRejection, RejectRevocation, CloseRecurso, Answering
  <2>3. \A g \in Handlers : Resolves(g)' => Resolves(g) /\ call'[g] = call[g]
    BY <1>1, <2>2 DEF Done, Resolves, Idle
  <2>4. CASE Notices' = Notices /\ Given(appeals') = Given(appeals)
    BY <2>1, <2>3, <2>4, NobodyLater
  <2> QED BY <2>1, <2>4, AnswerCounted
<1>10. ASSUME NEW h \in Handlers, Reconciles(h) PROVE AnsweringInv'
  <2>1. UNCHANGED <<appeals, communications>> /\ row'.status # "none"
    BY <1>10, HandlerEffects DEF Reconciles, ReadEvents, ReadTables, Elevate, NothingDue, ExpireDefense,
         ExpireRecursos, tables
  <2>2. \A g \in Handlers : Resolves(g)' => Resolves(g) /\ call'[g].target = call[g].target
    <3>1. CASE Done(h)
      BY <1>1, <3>1 DEF Done, Resolves, Idle
    <3>2. CASE ReadEvents(h) \/ ReadTables(h)
      <4>1. call[h].op = "reconcile"
        BY <3>2 DEF ReadEvents, ReadTables
      <4>2. /\ \A g \in Handlers \ {h} : call'[g] = call[g]
            /\ \/ call'[h] = Idle
               \/ call'[h].op = call[h].op
        <5>1. ASSUME ReadEvents(h)
              PROVE  call'[h].op = call[h].op /\ \A g \in Handlers \ {h} : call'[g] = call[g]
          BY <1>1, <5>1 DEF ReadEvents, Call
        <5>2. ASSUME ReadTables(h)
              PROVE  call'[h].op = call[h].op /\ \A g \in Handlers \ {h} : call'[g] = call[g]
          <6>1. PICK on :
                  call' = [call EXCEPT ![h].read = @ \cup {"tables"}, ![h].defended = defenses > 0,
                                ![h].open = Open({"REVOCATION", "APPEAL"}),
                                ![h].openAppeal = Open({"APPEAL"}),
                                ![h].rejected = RejectedSubsidiary # {}, ![h].rejectedOn = on]
            BY <5>2 DEF ReadTables
          <6> DEFINE new == [call[h] EXCEPT !.read = @ \cup {"tables"}, !.defended = defenses > 0,
                                !.open = Open({"REVOCATION", "APPEAL"}),
                                !.openAppeal = Open({"APPEAL"}),
                                !.rejected = RejectedSubsidiary # {}, !.rejectedOn = on]
          <6>2. call' = [call EXCEPT ![h] = new]
            BY <1>1, <6>1
          <6>3. new.op = call[h].op
            BY <1>1 DEF Call
          <6> HIDE DEF new
          <6> QED BY <1>1, <6>2, <6>3
        <5> QED BY <3>2, <5>1, <5>2
      <4> QED BY <4>1, <4>2 DEF Resolves, Idle
    <3> QED
      BY <1>10, <3>1, <3>2 DEF Reconciles, Elevate, NothingDue, ExpireDefense, ExpireRecursos
  <2>3. Notices' = Notices
    BY <2>1 DEF Notices, Letters
  <2> QED BY <2>1, <2>2, <2>3, NobodyLater, RowsOfAppeals
<1> QED BY <1>3, <1>4, <1>5, <1>6, <1>7, <1>8, <1>9, <1>10, StepKinds

\* However many requests answer recursos at once, the one check of resolve()
\* (appeals.service.ts:213) bounds the answers, hence the letters to the family:
\* for every recurso answered at most one of each request there can be, since
\* nobody answers who asked afterwards, and at least one.
THEOREM AnswersAreCounted ==
  ASSUME IsFiniteSet(Handlers)
  PROVE  Spec => []AnsweredByTheInFlight
<1>1. Init => AnsweringInv
  <2> SUFFICES ASSUME Init PROVE AnsweringInv
    OBVIOUS
  <2>1. appeals = << >> /\ Given(appeals) = {} /\ Notices = {} /\ Late = {}
    BY DEF Init, Given, Notices, Letters, Late
  <2>2. \A g \in Handlers : ~ Resolves(g)
    BY DEF Init, Resolves, Idle
  <2>3. Cardinality(Handlers) * 0 = 0 /\ Cardinality({}) = 0
    BY FS_CardinalityType, FS_EmptySet
  <2>4. Cardinality(Given(appeals)) = 0 /\ Cardinality(Notices) = 0 /\ Cardinality(Late) = 0
    BY <2>1, <2>3
  <2> QED BY <2>1, <2>2, <2>3, <2>4 DEF AnsweringInv
<1>2. TypeOK /\ Following /\ AnsweringInv /\ [Next]_vars => AnsweringInv'
  BY AnsweringKept
<1>3. TypeOK /\ AnsweringInv => AnsweredByTheInFlight
  <2> SUFFICES ASSUME TypeOK, AnsweringInv PROVE AnsweredByTheInFlight
    OBVIOUS
  <2>1. Given(appeals) = Answers /\ Notices = Letters
    BY DEF Given, Answers, Notices
  <2>2. IsFiniteSet(Late) /\ Cardinality(Late) \in Nat /\ Cardinality(Notices) \in Nat
        /\ Cardinality(Handlers) * Cardinality(Given(appeals)) \in Nat
    <3>1. Late \in SUBSET Handlers
      BY DEF Late
    <3>2. Cardinality(Handlers) \in Nat /\ Cardinality(Given(appeals)) \in Nat
      BY FiniteRows, FS_CardinalityType
    <3> QED BY <3>1, <3>2, FiniteRows, FS_Subset, FS_CardinalityType
  <2> QED BY <2>1, <2>2 DEF AnsweringInv, AnsweredByTheInFlight
<1> QED BY <1>1, <1>2, <1>3, Reachable, PTL DEF Spec
=============================================================================
