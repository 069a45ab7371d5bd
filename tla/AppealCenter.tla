----------------------------- MODULE AppealCenter -----------------------------
(***************************************************************************)
(* The pages that show a case: the list of cases and the page of one, the  *)
(* appeal center (recursos on file, recursos that may still be filed, the  *)
(* queue of those to answer, the tracking of one), the deadline alerts and *)
(* the board.  They write nothing, but each decides with code of its own   *)
(* what the handlers of DisciplinaryCase decide when somebody acts.        *)
(*                                                                         *)
(* A page shows one case to one user, and everything it compares about the *)
(* user is in Actor: permissions, roles and ties with the case.            *)
(***************************************************************************)
EXTENDS DisciplinaryCase

Permissions == {"read", "view_own", "resolve", "appeal"}     \* disciplinary.*
Ties == {"student", "reporter", "responsible", "guide", "guardian"}

Actor == [ permissions : SUBSET Permissions, roles : SUBSET {"ADMIN", "DIRECTOR"},
           ties : SUBSET Ties ]

-----------------------------------------------------------------------------
(* Who sees the case.                                                      *)

CanViewAllCases(a) == "read" \in a.permissions

ActorCanListCases(a) == CanViewAllCases(a) \/ "view_own" \in a.permissions

\* The WHERE clause of every list.
CaseScope(a) == CanViewAllCases(a) \/ a.ties \cap {"student", "reporter", "guide", "guardian"} # {}

\* The test of the pages that are asked for one case.
CanViewCase(a) ==
  \/ CanViewAllCases(a)
  \/ "view_own" \in a.permissions /\ a.ties \cap {"student", "reporter", "guide", "guardian"} # {}

\* Who finds the case in the list of cases, and who may open its page.
CaseListed == {a \in Actor : ActorCanListCases(a) /\ CaseScope(a)}
CaseOpened == {a \in Actor : ActorCanListCases(a) /\ CanViewCase(a)}

\* Who finds its recursos in their list, and who may follow one.
RecursosListed  == {a \in Actor : ActorCanListCases(a) /\ CaseScope(a)}
RecursosTracked == {a \in Actor : ActorCanListCases(a) /\ CanViewCase(a)}

-----------------------------------------------------------------------------
(* The deadline a page shows for the open step.                            *)

\* Bound: the calendar ends at LastDay, every later day is worked.
StepDueOn == AddBusinessDays(row.stepStartedOn, row.stepBusinessDays, NonWorkingDays,
                             LastDay + row.stepBusinessDays)

StepDeadline ==
  IF row.stepBusinessDays = 0 THEN "NONE"
  ELSE IF today > StepDueOn THEN "OVERDUE"
  ELSE IF BusinessDaysBetween(today, StepDueOn, NonWorkingDays) <= 1 THEN "DUE_SOON" ELSE "ON_TIME"

\* Deadline alerts: not for closed cases, and for those who follow the case.
FinalStatuses == {"FIRM", "DISMISSED", "ANNULLED"}

SeesCase(a) == CanViewAllCases(a) \/ a.ties \cap {"responsible", "guide"} # {}

Alerted == {a \in CaseListed : SeesCase(a)}

DeadlineAlert ==
  IF row.status \in FinalStatuses THEN {} ELSE {StepDeadline} \cap {"DUE_SOON", "OVERDUE"}

\* The board, which shows the alerts of its reader.
OnBoard == {a \in Actor : ActorCanListCases(a) /\ (CanViewAllCases(a) \/ "guide" \in a.ties)}

\* In the lists of recursos only one that waits for its answer has a deadline.
ListedDeadline(i) == IF appeals[i].outcome = "none" THEN StepDeadline ELSE "NONE"

-----------------------------------------------------------------------------
(* The recursos that may still be filed.                                   *)

CanConductInvestigation(a) == a.roles \cap {"ADMIN", "DIRECTOR"} # {} \/ "responsible" \in a.ties

CanFileRemedy(a) == CanConductInvestigation(a) \/ "guardian" \in a.ties

\* The query also reaches the cases the user is responsible for.
Offered == {a \in Actor :
  /\ ActorCanListCases(a) \/ "guardian" \in a.ties
  /\ CaseScope(a) \/ "responsible" \in a.ties
  /\ CanFileRemedy(a)}

IsRevocationStage ==
  <<row.track, row.status>> \in {<<"DIRECT", "NOTIFIED">>, <<"DUE_PROCESS", "RESOLVED">>}

FirstRevocation == {i \in OfKind("REVOCATION") : \A j \in OfKind("REVOCATION") : i <= j}

\* Slip: a revocation elevated in subsidy may be appealed once more.
AppealAfterAnyRejection ==
  /\ row.status = "IN_APPEAL"
  /\ \E i \in FirstRevocation : appeals[i].outcome = "UPHOLD"

IsStandaloneAppealStage ==
  /\ row.status = "IN_APPEAL" /\ OfKind("APPEAL") = {}
  /\ \E i \in FirstRevocation : appeals[i].outcome = "UPHOLD" /\ ~ appeals[i].isSubsidiary

IsRemedyOnTime == row.stepBusinessDays > 0 /\ today <= StepDueOn

EligibleRemedyKind ==
  IF ~ IsRemedyOnTime THEN "none"
  ELSE IF IsRevocationStage /\ OfKind("REVOCATION") = {} THEN "REVOCATION"
  ELSE IF IsStandaloneAppealStage THEN "APPEAL" ELSE "none"

-----------------------------------------------------------------------------
(* The recursos that wait for an answer of the user.                       *)

HasResolver(a, permission) == "ADMIN" \in a.roles \/ permission \in a.permissions

CanReview == [kind \in {"REVOCATION", "APPEAL"} |->
  {a \in Actor :
     IF kind = "APPEAL" THEN HasResolver(a, "appeal")
     ELSE HasResolver(a, "resolve") /\ ("ADMIN" \in a.roles \/ "responsible" \in a.ties)}]

\* The clause of the query, which repeats the test in SQL.
ReviewFilter == [kind \in {"REVOCATION", "APPEAL"} |->
  {a \in Actor : \/ kind = "REVOCATION" /\ "ADMIN" \in a.roles
                 \/ kind = "REVOCATION" /\ "resolve" \in a.permissions /\ "responsible" \in a.ties
                 \/ kind = "APPEAL" /\ ("ADMIN" \in a.roles \/ "appeal" \in a.permissions)}]

ActorCanReviewQueue == {a \in Actor : HasResolver(a, "resolve") \/ HasResolver(a, "appeal")}

\* The rows of the list, and the recurso asked for by its id.
Queued == [kind \in {"REVOCATION", "APPEAL"} |->
             ActorCanReviewQueue \cap ReviewFilter[kind] \cap CanReview[kind]]
Reviewed == [kind \in {"REVOCATION", "APPEAL"} |-> ActorCanReviewQueue \cap CanReview[kind]]

ReviewQueue == {i \in DOMAIN appeals : appeals[i].outcome = "none"}

-----------------------------------------------------------------------------
(* The tracking of a recurso: one entry per kind of step, however many     *)
(* events and rows tell of it, and one per notice of an answer.            *)

TimelineKinds ==
  (UNION {{ IF appeals[i].kind = "REVOCATION" THEN "REVOCATION_FILED"
            ELSE IF appeals[i].isSubsidiary THEN "SUBSIDIARY_ELEVATED" ELSE "APPEAL_FILED" }
          \cup (IF appeals[i].outcome = "none" THEN {}
                ELSE {IF appeals[i].kind = "REVOCATION" THEN "REVOCATION_RESOLVED"
                                                        ELSE "APPEAL_RESOLVED"}) : i \in DOMAIN appeals})
  \cup (IF elevations > 0 THEN {"SUBSIDIARY_ELEVATED"} ELSE {})

\* The page of the case shows its rows as they are.
CasePage == [recursos |-> appeals, communications |-> communications, deadline |-> StepDeadline]

Notices == Letters

-----------------------------------------------------------------------------
(* What the handlers accept at this moment, from their own guards.         *)

FilingOnTime == ~ IsPast(row.stepStartedOn, row.stepBusinessDays, NonWorkingDays, today)

MayFile == {a \in Actor : CanConductInvestigation(a) \/ "guardian" \in a.ties}

Accepts(kind) ==
  /\ FilingOnTime
  /\ CASE kind = "REVOCATION" -> /\ Admits("fileRevocation") /\ OfKind("REVOCATION") = {}
                                 /\ CanTransition(row.track, row.status, "IN_APPEAL")
       [] kind = "APPEAL"     -> Admits("fileAppeal") /\ Appealable /\ OfKind("APPEAL") = {}

MayResolve == [kind \in {"REVOCATION", "APPEAL"} |->
  {a \in Actor : IF kind = "APPEAL" THEN a.roles \cap {"ADMIN"} # {} \/ "appeal" \in a.permissions
                 ELSE \/ "ADMIN" \in a.roles
                      \/ "resolve" \in a.permissions /\ "responsible" \in a.ties}]

\* Some answer to the recurso would be accepted.
Answerable(i) ==
  /\ Pending(i)
  /\ \/ appeals[i].kind = "REVOCATION"
     \/ \E to \in {"FIRM", "DISMISSED"} : CanTransition(row.track, row.status, to)

\* The pass every page begins with has nothing left to do for the case.
Snapshot ==
  [Idle EXCEPT !.op = "reconcile", !.seen = row, !.expired = StepExpired,
               !.elevated = elevations > 0, !.defended = defenses > 0,
               !.open = Open({"REVOCATION", "APPEAL"}), !.openAppeal = Open({"APPEAL"}),
               !.rejected = RejectedSubsidiary # {}]

Settled == ~ PlansElevation(Snapshot) /\ ~ PlansPending(Snapshot) /\ ~ PlansFirm(Snapshot)

-----------------------------------------------------------------------------
(* Properties of the pages, in every state of the serial case.             *)

\* Whoever finds a case in a list may open it, and the other way round; the
\* center offers a recurso only to those who may file one, and to the family
\* and the responsible teacher whenever they may enter it; the board is
\* open to people who get its alerts; the queue is open to those who may
\* answer.
UsersAgree ==
  /\ CaseListed = CaseOpened /\ RecursosListed = RecursosTracked
  /\ Offered \subseteq MayFile
  /\ {a \in MayFile : ActorCanListCases(a) /\ a.ties \cap {"guardian", "responsible"} # {}}
       \subseteq Offered
  /\ OnBoard \subseteq Alerted
  /\ Queued = MayResolve /\ Queued = Reviewed

\* "Misma ventana", "misma secuencia", "misma regla" (appeal-query.ts): the
\* center offers a recurso exactly while the handler accepts it.
OffersAccepted ==
  \A kind \in {"REVOCATION", "APPEAL"} : EligibleRemedyKind = kind <=> Accepts(kind)

\* "Recurso pendiente que el actor podría resolver": while the case is in appeal
\* every recurso of the queue may be answered.
QueueAnswerable == row.status = "IN_APPEAL" => \A i \in ReviewQueue : Answerable(i)

\* The tracking tells as many steps as the page of the case has recursos and
\* answers: none hides behind another of its kind; every answer was communicated.
StoryComplete ==
  LET shown    == CasePage.recursos
      answered == {i \in DOMAIN shown : shown[i].outcome # "none"} IN
  /\ Cardinality(TimelineKinds) = Len(shown) + Cardinality(answered)
  /\ Cardinality(Notices) = Cardinality(answered)

\* After the pass a page begins with, a case in the hands of the family or in
\* appeal waits for somebody who can act: a recurso may be filed, or one waits
\* for an answer; and an overdue step is the institution's.
SomebodyMayAct ==
  Settled =>
    /\ row.status \in {"NOTIFIED", "RESOLVED", "IN_APPEAL"} =>
         EligibleRemedyKind # "none" \/ ReviewQueue # {}
    /\ "OVERDUE" \in DeadlineAlert =>
         \/ row.status \in {"INVESTIGATING", "PENDING_RESOLUTION"}
         \/ \E i \in ReviewQueue : ListedDeadline(i) = "OVERDUE"

\* The pages of the case and the handlers of the case never disagree.
CenterAgrees ==
  row.status # "none" =>
    /\ UsersAgree /\ OffersAccepted /\ QueueAnswerable /\ StoryComplete /\ SomebodyMayAct
=============================================================================
