----------------------------- MODULE Absenteeism -----------------------------
(***************************************************************************)
(* The absenteeism alerts of one student in one month (no other month's    *)
(* alerts are looked at in it).  Every visit to the dashboard or to the    *)
(* list of students evaluates the marks and brings the alerts of the month *)
(* up to date, with no transaction: each query is a step.                  *)
(***************************************************************************)
EXTENDS Requests

Levels == {"LOW", "MEDIUM", "HIGH"}
Keys   == {"MEDIUM", "HIGH"}     \* idempotency_key, within the student and the month
Alert  == [risk : Levels, status : {"NEW", "RESOLVED"}]

VARIABLES
  level,          \* what the marks and the thresholds of today amount to
  alerts,         \* key -> row, or None
  notices,        \* key -> notifications of the alert
  reached,        \* history: levels found since the student was last found LOW
  alertCall

alertVars == <<level, alerts, notices, reached, alertCall>>

-----------------------------------------------------------------------------
AlertCall ==
  [ phase : {"idle", "evaluated", "resolve", "found", "reread", "told", "tell"},
    level : Levels, key : Keys \cup {None}, todo : SUBSET Keys,
    entity : Alert \cup {None}, insert : BOOLEAN, again : Alert \cup {None} ]

NotEvaluating ==
  [ phase |-> "idle", level |-> "LOW", key |-> None, todo |-> {},
    entity |-> None, insert |-> FALSE, again |-> None ]

AlertInit ==
  /\ level = "LOW"
  /\ alerts = [k \in Keys |-> None] /\ notices = [k \in Keys |-> 0]
  /\ reached = {}
  /\ alertCall = [h \in Handlers |-> NotEvaluating]

AlertGoes(h, call) == alertCall' = [alertCall EXCEPT ![h] = call]
AlertEnds(h) == AlertGoes(h, NotEvaluating)

\* A lost connection, or a key inserted twice.
AlertAborts(h) ==
  /\ alertCall[h].phase # "idle" /\ AlertEnds(h)
  /\ UNCHANGED <<level, alerts, notices, reached>>

-----------------------------------------------------------------------------
\* evaluateAndPersist reads the marks and the rules.
Evaluate(h) ==
  /\ alertCall[h].phase = "idle"
  /\ AlertGoes(h, [NotEvaluating EXCEPT !.phase = "evaluated", !.level = level])
  /\ UNCHANGED <<level, alerts, notices, reached>>

\* Slip: an alert that comes back after it was told is not looked for.
OnlyUntold ==
  {k \in Keys : alerts[k] # None /\ alerts[k].status = "NEW" /\ notices[k] = 0}

OpenAlerts == {k \in Keys : alerts[k] # None /\ alerts[k].status = "NEW"}

\* persistAlert, back to LOW: the open alerts of the month are read, then saved one
\* by one.
FindOpen(h) ==
  LET c == alertCall[h] IN
  /\ c.phase = "evaluated" /\ c.level = "LOW"
  /\ IF OpenAlerts = {}
     THEN AlertEnds(h) /\ reached' = {}
     ELSE /\ AlertGoes(h, [c EXCEPT !.phase = "resolve", !.todo = OpenAlerts])
          /\ UNCHANGED reached
  /\ UNCHANGED <<level, alerts, notices>>

Resolved == [risk |-> "LOW", status |-> "RESOLVED"]

ResolveOpen(h) ==
  LET c == alertCall[h] IN
  \E k \in c.todo :
    /\ c.phase = "resolve"
    /\ AlertGoes(h, [c EXCEPT !.phase = "found", !.key = k, !.entity = Resolved,
                              !.todo = @ \ {k}])
    /\ UNCHANGED <<level, alerts, notices, reached>>

-----------------------------------------------------------------------------
\* Slip: an alert that comes back keeps the risk it was resolved with.
BackAsItWas(row, risk) == [row EXCEPT !.status = "NEW"]

\* An existing alert takes the new figures; a resolved one is open again.
Refreshed(row, risk) == [risk |-> risk, status |-> "NEW"]

\* persistAlert, MEDIUM or HIGH: the row of the key is read, then inserted or saved.
FindAlert(h) ==
  LET c == alertCall[h]  k == c.level IN
  /\ c.phase = "evaluated" /\ c.level # "LOW"
  /\ reached' = reached \cup {c.level}
  /\ AlertGoes(h, [c EXCEPT !.phase = "found", !.key = k, !.insert = alerts[k] = None,
                            !.entity = IF alerts[k] = None
                                       THEN [risk |-> c.level, status |-> "NEW"]
                                       ELSE Refreshed(alerts[k], c.level)])
  /\ UNCHANGED <<level, alerts, notices>>

\* save() reads the row of an existing alert again ...
RereadAlert(h) ==
  LET c == alertCall[h] IN
  /\ c.phase = "found"
  /\ AlertGoes(h, [c EXCEPT !.phase = "reread", !.again = IF c.insert THEN None ELSE alerts[c.key]])
  /\ UNCHANGED <<level, alerts, notices, reached>>

\* ... and writes it; the unique key refuses a second insert.
SaveAlert(h) ==
  LET c == alertCall[h]  k == c.key
      done == c.level = "LOW" /\ c.todo = {}
  IN
  /\ c.phase = "reread"
  /\ c.insert => alerts[k] = None
  /\ alerts' = [alerts EXCEPT ![k] = IF c.insert THEN c.entity
                                                 ELSE SaveEntity(@, c.again, c.entity)]
  /\ reached' = IF done THEN {} ELSE reached
  /\ IF done THEN AlertEnds(h)
     ELSE AlertGoes(h, [c EXCEPT !.phase = IF c.level = "LOW" THEN "resolve" ELSE "told"])
  /\ UNCHANGED <<level, notices>>

\* No notification of the alert yet.
Untold(k) == notices[k] = 0

FindNotice(h) ==
  LET c == alertCall[h] IN
  /\ c.phase = "told"
  /\ IF Untold(c.key) THEN AlertGoes(h, [c EXCEPT !.phase = "tell"]) ELSE AlertEnds(h)
  /\ UNCHANGED <<level, alerts, notices, reached>>

SaveNotice(h) ==
  LET c == alertCall[h] IN
  /\ c.phase = "tell" /\ notices' = [notices EXCEPT ![c.key] = @ + 1]
  /\ AlertEnds(h)
  /\ UNCHANGED <<level, alerts, reached>>

\* Marks are made and thresholds edited.
MarksChange ==
  /\ level' \in Levels \ {level}
  /\ UNCHANGED <<alerts, notices, reached, alertCall>>

-----------------------------------------------------------------------------
AlertNext(H) ==
  \/ \E h \in H :
       \/ Evaluate(h) \/ FindOpen(h) \/ ResolveOpen(h) \/ FindAlert(h) \/ RereadAlert(h)
       \/ SaveAlert(h) \/ FindNotice(h) \/ SaveNotice(h)
       \/ AlertAborts(h)
  \/ MarksChange

AlertSpec == AlertInit /\ [][AlertNext(Handlers)]_alertVars

-----------------------------------------------------------------------------
(* Type correctness of the alerts and of the evaluations in flight.        *)
AlertTypeOK ==
  /\ level \in Levels
  /\ alerts \in [Keys -> Alert \cup {None}]
  /\ \A k \in Keys : notices[k] \in Nat
  /\ alertCall \in [Handlers -> AlertCall]

(* However evaluations overlap, an open alert shows the risk it was raised *)
(* for and a resolved one reads LOW, as the trend counts it: two saves of  *)
(* the same row never leave one column of each.                            *)
AlertColumnsAgree ==
  \A k \in Keys : alerts[k] # None =>
    alerts[k].risk = IF alerts[k].status = "NEW" THEN k ELSE "LOW"

(* Served one request at a time, an alert is told once, however often it   *)
(* is resolved and comes back.                                             *)
ToldOnce == \A k \in Keys : notices[k] <= 1

(* Served one request at a time, an alert of the month is open only for a  *)
(* level the student was found at since last found LOW, whichever requests *)
(* were cut short.  (From HIGH to MEDIUM a student keeps both.)            *)
OpenAsReached ==
  (\A h \in Handlers : alertCall[h].phase = "idle") =>
    \A k \in Keys : alerts[k] # None /\ alerts[k].status = "NEW" => k \in reached
=============================================================================
