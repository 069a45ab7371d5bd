------------------------------- MODULE FollowUps -------------------------------
(***************************************************************************)
(* The follow-ups of a disciplinary case: entries registered at any stage  *)
(* of it (the code checks none), of which a commitment has a day of review *)
(* and, later, one outcome. The hourly pass reminds of those whose day has *)
(* come.                                                                   *)
(***************************************************************************)
EXTENDS Requests, Sequences

CONSTANTS
  LastReview,    \* bound: days
  MaxFollowUps   \* bound

ASSUME FollowUpsAssumption == LastReview \in Nat /\ MaxFollowUps \in Nat

Outcomes == {"MET", "UNMET"}

FollowUp == [kind : {"COMMITMENT", "NOTE"}, review : 0..LastReview \cup {None},
             outcome : Outcomes \cup {"PENDING"}]

FollowUpEvent == [type : {"FOLLOW_UP", "FOLLOW_UP_REMINDER"}, item : 1..MaxFollowUps]
  \cup [type : {"FOLLOW_UP_OUTCOME"}, item : 1..MaxFollowUps, outcome : Outcomes]

VARIABLES
  reviewDay,
  followUps,     \* disciplinary_follow_ups
  followLog,     \* their rows of disciplinary_case_events
  followCall     \* what each request, or pass of the hourly timer, is doing

followTables == <<followUps, followLog>>
followVars   == <<reviewDay, followTables, followCall>>

FollowCall ==
  [ phase : {"idle", "close", "reminded", "remind"},
    item : 0..MaxFollowUps,          \* the commitment that is closed
    found : SUBSET (1..MaxFollowUps) ]  \* the commitments to remind of

NotFollowing == [phase |-> "idle", item |-> 0, found |-> {}]

FollowUpsInit ==
  /\ reviewDay = 0 /\ followUps = <<>> /\ followLog = <<>>
  /\ followCall = [h \in Handlers |-> NotFollowing]

FollowGoes(h, call) == followCall' = [followCall EXCEPT ![h] = call]
FollowEnds(h) == FollowGoes(h, NotFollowing)

\* A check that fails, an error of the database, or the process stops: a pass may
\* end between two reminders.
FollowAborts(h) ==
  /\ followCall[h].phase # "idle" /\ FollowEnds(h)
  /\ UNCHANGED <<reviewDay, followTables>>

\* Slip: the day of review of a commitment is optional.
ReviewOptional(row) == TRUE

\* A commitment needs a review, and none is before the follow-up, which is not later
\* than today.
ReviewFits(row) == row.kind = "COMMITMENT" => Present(row.review)

\* create: the row and its event in one transaction.
CreateFollowUp(h) ==
  \E row \in FollowUp :
    /\ followCall[h].phase = "idle" /\ Len(followUps) < MaxFollowUps
    /\ row.outcome = "PENDING" /\ ReviewFits(row)
    /\ followUps' = Append(followUps, row)
    /\ followLog' = Append(followLog, [type |-> "FOLLOW_UP", item |-> Len(followUps) + 1])
    /\ UNCHANGED <<reviewDay, followCall>>

Closable(row) == row.kind = "COMMITMENT" /\ row.outcome = "PENDING"

\* close: the row is checked as it was read ...
FindCommitment(h) ==
  \E i \in 1..Len(followUps) :
    /\ followCall[h].phase = "idle" /\ Closable(followUps[i])
    /\ FollowGoes(h, [NotFollowing EXCEPT !.phase = "close", !.item = i])
    /\ UNCHANGED <<reviewDay, followTables>>

\* ... and updated by its key, with its event, in a transaction.
CloseFollowUp(h) ==
  \E outcome \in Outcomes :
    LET i == followCall[h].item IN
    /\ followCall[h].phase = "close"
    /\ followUps' = [followUps EXCEPT ![i].outcome = outcome]
    /\ followLog' = Append(followLog, [type |-> "FOLLOW_UP_OUTCOME", item |-> i,
                                       outcome |-> outcome])
    /\ FollowEnds(h) /\ UNCHANGED reviewDay

-----------------------------------------------------------------------------
Candidate(row) == row.kind = "COMMITMENT" /\ row.outcome = "PENDING" /\ Present(row.review)

\* remindDue reads the pending commitments ...
FindCandidates(h) ==
  /\ followCall[h].phase = "idle"
  /\ FollowGoes(h, [NotFollowing EXCEPT !.phase = "reminded",
                      !.found = {i \in 1..Len(followUps) : Candidate(followUps[i])}])
  /\ UNCHANGED <<reviewDay, followTables>>

RemindersOf(i) ==
  {e \in 1..Len(followLog) : followLog[e].type = "FOLLOW_UP_REMINDER" /\ followLog[e].item = i}

\* Slip: what was reminded before is not looked up.
DueAgain(found, row) == {i \in found : row[i].review <= reviewDay}

\* pendingReminders, with the reminders read now.
PendingReminders(found, row) ==
  {i \in found : row[i].review <= reviewDay /\ RemindersOf(i) = {}}

\* ... then the reminders already sent ...
FindReminded(h) ==
  LET due == PendingReminders(followCall[h].found, followUps) IN
  /\ followCall[h].phase = "reminded"
  /\ FollowGoes(h, [NotFollowing EXCEPT !.phase = IF due = {} THEN "idle" ELSE "remind",
                                        !.found = due])
  /\ UNCHANGED <<reviewDay, followTables>>

\* ... and inserts the missing ones, each by itself.
Remind(h) ==
  LET due == followCall[h].found
      i   == CHOOSE i \in due : \A j \in due : i <= j
      left == due \ {i}
  IN
  /\ followCall[h].phase = "remind"
  /\ followLog' = Append(followLog, [type |-> "FOLLOW_UP_REMINDER", item |-> i])
  /\ FollowGoes(h, [NotFollowing EXCEPT !.phase = IF left = {} THEN "idle" ELSE "remind",
                                        !.found = left])
  /\ UNCHANGED <<reviewDay, followUps>>

ReviewDayPasses ==
  /\ reviewDay < LastReview /\ reviewDay' = reviewDay + 1
  /\ UNCHANGED <<followTables, followCall>>

FollowUpsNext(H) ==
  \/ \E h \in H : \/ CreateFollowUp(h) \/ FindCommitment(h) \/ CloseFollowUp(h)
                  \/ FindCandidates(h) \/ FindReminded(h) \/ Remind(h) \/ FollowAborts(h)
  \/ ReviewDayPasses

FollowUpsSpec == FollowUpsInit /\ [][FollowUpsNext(Handlers)]_followVars

-----------------------------------------------------------------------------
(* Type correctness of the follow-ups; a commitment has a day of review.   *)
FollowUpsTypeOK ==
  /\ reviewDay \in 0..LastReview
  /\ followUps \in Seq(FollowUp) /\ followLog \in Seq(FollowUpEvent)
  /\ followCall \in [Handlers -> FollowCall]
  /\ \A i \in 1..Len(followUps) : followUps[i].kind = "COMMITMENT" => Present(followUps[i].review)

OutcomesOf(i) ==
  {e \in 1..Len(followLog) : followLog[e].type = "FOLLOW_UP_OUTCOME" /\ followLog[e].item = i}

(* A commitment is reminded of once for each pass that overlaps, however   *)
(* many passes follow and wherever one of them stops.                      *)
RemindersWithin(n) == \A i \in 1..Len(followUps) : Cardinality(RemindersOf(i)) <= n

(* A commitment gets one outcome for each request that closes it at the    *)
(* same time, and its row tells the last one that was logged.              *)
OutcomesWithin(n) ==
  \A i \in 1..Len(followUps) :
    LET logged == OutcomesOf(i) IN
    /\ Cardinality(logged) <= n
    /\ IF logged = {} THEN followUps[i].outcome = "PENDING"
       ELSE followUps[i].outcome = followLog[CHOOSE e \in logged : \A f \in logged : f <= e].outcome

(* Nobody is reminded of a commitment that already has an outcome.         *)
RemindedWhilePending ==
  \A i \in 1..Len(followUps) : \A r \in RemindersOf(i), e \in OutcomesOf(i) : r < e
=============================================================================
