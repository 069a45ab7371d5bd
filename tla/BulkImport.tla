------------------------------ MODULE BulkImport ------------------------------
(***************************************************************************)
(* The import of students from a sheet: the preview of its rows, their     *)
(* confirmation, validated again, the one transaction that inserts users   *)
(* and enrollments, and the credentials mailed after it; next to other     *)
(* imports, users registered by hand and groups opened or closed.          *)
(***************************************************************************)
EXTENDS Requests, SequencesExt

CONSTANTS
  Sheets,      \* files uploaded: sequences of rows
  Newcomers,   \* users registered by hand: [id, mail]
  Offers,      \* sets of groups [name, capacity]: those active in an active period
  MaxPeople    \* bound

\* A cell as it is read; formed stands for the required fields and their formats.
Row ==
  [ id : STRING, mail : STRING, formed : BOOLEAN, role : {"", "estudiante", "ESTUDIANTE", "docente"},
    status : {"", "activo", "desactivado", "ACTIVE", "BLOCKED", "?"}, section : STRING ]

Opened == UNION Offers

ASSUME ImportAssumption ==
  /\ Sheets \subseteq Seq(Row) /\ MaxPeople \in Nat
  /\ \A g \in Opened : g.capacity \in Nat
  /\ None \notin Opened /\ None \notin {"ACTIVE", "BLOCKED"}

VARIABLES
  people,      \* users: [id, mail, status, group]
  offer,
  imports,     \* what each request is doing
  welcomed,    \* history: mails whose credentials left
  unsent       \* history: mails that failed, or were forgotten by a cut

importTables == <<people, offer>>
importVars   == <<importTables, imports, welcomed, unsent>>

Import ==
  [ phase : {"idle", "preview", "insert", "enroll", "mail", "refused"},
    rows : Seq(Row),
    shown : Seq(Opened \cup {None}),   \* groups of the preview
    fresh : BOOLEAN,                    \* history: nothing changed since the preview
    inserted : Nat,                     \* rows inserted
    targets : Seq(Opened \cup {None}),
    seats : [Opened -> Nat],            \* seats taken, in the snapshot
    locked : SUBSET Opened,             \* groups enrolled, and locked
    pending : Seq(STRING) ]             \* mails to be sent

NoSeats == [g \in Opened |-> 0]

NotImporting ==
  [ phase |-> "idle", rows |-> <<>>, shown |-> <<>>, fresh |-> TRUE, inserted |-> 0,
    targets |-> <<>>, seats |-> NoSeats, locked |-> {}, pending |-> <<>> ]

ImportInit ==
  /\ people = {} /\ offer \in Offers /\ welcomed = {} /\ unsent = {}
  /\ imports = [h \in Handlers |-> NotImporting]

Goes(h, call) == imports' = [imports EXCEPT ![h] = call]

\* What others see change in the tables.
Stale(calls) == [h \in Handlers |-> [calls[h] EXCEPT !.fresh = FALSE]]

-----------------------------------------------------------------------------
(* Validating rows                                                         *)

IsStudentRole(role) == role \in {"", "estudiante", "ESTUDIANTE"}

ParseStatus(status) ==
  CASE status \in {"", "activo", "ACTIVE"}       -> "ACTIVE"
    [] status \in {"desactivado", "BLOCKED"}     -> "BLOCKED"
    [] OTHER                                     -> None

HasInvalid(r) == ~r.formed \/ ~IsStudentRole(r.role) \/ ~Present(ParseStatus(r.status))

\* Against the rows before it, whatever became of them, and against the users.
HasDuplicate(rows, i) ==
  \/ \E j \in 1..(i - 1) : rows[j].id = rows[i].id \/ rows[j].mail = rows[i].mail
  \/ \E u \in people : u.id = rows[i].id \/ u.mail = rows[i].mail

Accepted(rows) == {i \in DOMAIN rows : ~HasInvalid(rows[i]) /\ ~HasDuplicate(rows, i)}

\* The group whose name is the section: unknown and ambiguous names give none.
Resolved(section) ==
  LET matches == {g \in offer : g.name = section} IN
  IF Cardinality(matches) = 1 THEN CHOOSE g \in matches : TRUE ELSE None

GroupFor(r) == IF ParseStatus(r.status) = "ACTIVE" THEN Resolved(r.section) ELSE None
GroupsFor(rows) == [i \in DOMAIN rows |-> GroupFor(rows[i])]

\* A row as the preview answers it (an unknown status is shown as active).
Shown(r) ==
  [r EXCEPT !.role   = IF IsStudentRole(@) THEN "ESTUDIANTE" ELSE @,
            !.status = IF Present(ParseStatus(@)) THEN ParseStatus(@) ELSE "ACTIVE"]

-----------------------------------------------------------------------------
\* Numbers in increasing order: the one sequence there is.
Ordered(S) ==
  {f \in [1..Cardinality(S) -> S] : \A i, j \in 1..Cardinality(S) : i < j => f[i] < f[j]}

\* validateBulkFile.  The page sends back the rows it was told are valid.
Preview(h) ==
  \E sheet \in Sheets : \E valid \in Ordered(Accepted(sheet)) :
    LET rows == [k \in DOMAIN valid |-> sheet[valid[k]]] IN
    /\ imports[h].phase \in {"idle", "refused"} /\ Cardinality(people) < MaxPeople
    /\ Goes(h, [NotImporting EXCEPT !.phase = "preview",
                                    !.rows  = [k \in DOMAIN rows |-> Shown(rows[k])],
                                    !.shown = GroupsFor(rows)])
    /\ UNCHANGED <<importTables, welcomed, unsent>>

\* executeBulkImport: the rows are validated again, before the transaction ...
Confirm(h) ==
  LET c == imports[h] IN
  /\ c.phase = "preview"
  /\ Goes(h, IF c.rows # <<>> /\ Accepted(c.rows) = DOMAIN c.rows
             THEN [c EXCEPT !.phase = "insert", !.targets = GroupsFor(c.rows)]
             ELSE [c EXCEPT !.phase = "refused"])
  /\ UNCHANGED <<importTables, welcomed, unsent>>

Written(h) == {imports[h].rows[i] : i \in 1..imports[h].inserted}

SameKey(r, s) == r.id = s.id \/ r.mail = s.mail

\* The unique indexes: a key another transaction has inserted is waited for.
KeyFree(h, r) == \A g \in Handlers \ {h} : \A s \in Written(g) : ~SameKey(r, s)

SeatsTaken == [g \in Opened |-> Cardinality({u \in people : u.group = g})]

Refused(h) == Goes(h, [imports[h] EXCEPT !.phase = "refused", !.inserted = 0, !.seats = NoSeats, !.locked = {}])

\* ... which inserts one user after the other (ER_DUP_ENTRY rolls back) ...
InsertUser(h) ==
  LET c == imports[h]  r == c.rows[c.inserted + 1] IN
  /\ c.phase = "insert" /\ c.inserted < Len(c.rows)
  /\ KeyFree(h, r)
  /\ IF \E u \in people : SameKey(r, u)
     THEN Refused(h)
     ELSE Goes(h, [c EXCEPT !.inserted = @ + 1,
                            !.phase = IF c.inserted + 1 = Len(c.rows) THEN "enroll" ELSE @,
                            !.seats = IF c.inserted = 0 THEN SeatsTaken ELSE @])
  /\ UNCHANGED <<importTables, welcomed, unsent>>

Joining(c, g) == Cardinality({i \in DOMAIN c.targets : c.targets[i] = g})

\* Slip: the batch is let in if there is a seat for one.
RoomForOne(c, g) == c.seats[g] + 1 <= g.capacity

\* The group is locked, its seats are counted in the snapshot of the transaction.
HasRoom(c, g) == c.seats[g] + Joining(c, g) <= g.capacity

\* ... then enrolls them group by group, in the order of the rows ...
NextGroup(c) ==
  LET open == {i \in DOMAIN c.targets : Present(c.targets[i]) /\ c.targets[i] \notin c.locked} IN
  IF open = {} THEN None ELSE c.targets[CHOOSE i \in open : \A j \in open : i <= j]

EnrollBatch(h) ==
  LET c == imports[h]  g == NextGroup(c) IN
  /\ c.phase = "enroll" /\ Present(g)
  /\ \A k \in Handlers \ {h} : g \notin imports[k].locked
  /\ IF HasRoom(c, g) THEN Goes(h, [c EXCEPT !.locked = @ \cup {g}]) ELSE Refused(h)
  /\ UNCHANGED <<importTables, welcomed, unsent>>

\* ... and commits.
CommitImport(h) ==
  LET c == imports[h]
      new == {[id |-> c.rows[i].id, mail |-> c.rows[i].mail, status |-> c.rows[i].status,
               group |-> c.targets[i]] : i \in DOMAIN c.rows} IN
  /\ c.phase = "enroll" /\ ~Present(NextGroup(c))
  /\ people' = people \cup new
  /\ imports' = [Stale(imports) EXCEPT ![h] =
       [NotImporting EXCEPT !.phase = "mail", !.pending = [i \in DOMAIN c.rows |-> c.rows[i].mail]]]
  /\ UNCHANGED <<offer, welcomed, unsent>>

\* dispatchWelcomeCredentials, one mail after the other: one that fails is logged.
SendCredentials(h) ==
  \E failed \in BOOLEAN :
    LET c == imports[h]  m == Head(c.pending) IN
    /\ c.phase = "mail"
    /\ Goes(h, IF Len(c.pending) = 1 THEN NotImporting ELSE [c EXCEPT !.pending = Tail(@)])
    /\ IF failed THEN unsent' = unsent \cup {m} /\ UNCHANGED welcomed
                 ELSE welcomed' = welcomed \cup {m} /\ UNCHANGED unsent
    /\ UNCHANGED importTables

\* A deadlock, a query that fails, or the process stops.
CutImport(h) ==
  /\ imports[h].phase \in {"insert", "enroll", "mail"}
  /\ Goes(h, NotImporting) /\ unsent' = unsent \cup Range(imports[h].pending)
  /\ UNCHANGED <<importTables, welcomed>>

RegisterByHand ==
  \E n \in Newcomers :
    /\ \A h \in Handlers : KeyFree(h, n) /\ \A s \in Written(h) : ~SameKey(n, s)
    /\ ~\E u \in people : SameKey(n, u)
    /\ people' = people \cup {[id |-> n.id, mail |-> n.mail, status |-> "ACTIVE", group |-> None]}
    /\ imports' = Stale(imports)
    /\ UNCHANGED <<offer, welcomed, unsent>>

ChangeOffer ==
  \E o \in Offers \ {offer} :
    /\ offer' = o /\ imports' = Stale(imports) /\ UNCHANGED <<people, welcomed, unsent>>

Imports(h) ==
  \/ Preview(h) \/ Confirm(h) \/ InsertUser(h) \/ EnrollBatch(h)
  \/ CommitImport(h) \/ SendCredentials(h) \/ CutImport(h)

ImportNext(crowd) ==
  (\E h \in crowd : Imports(h)) \/ RegisterByHand \/ ChangeOffer

-----------------------------------------------------------------------------
ImportTypeOK ==
  /\ \A u \in people : u.group \in Opened \cup {None}
  /\ offer \in Offers /\ welcomed \cup unsent \subseteq STRING
  /\ imports \in [Handlers -> Import]

(* What the preview showed is what a confirmation does while nobody else   *)
(* changes users or groups: the rows it found valid are accepted, whatever *)
(* rows were dropped and however their cells were spelt, each goes to the  *)
(* group shown, and only a group without seats refuses them.               *)
FollowsPreview ==
  \A h \in Handlers : LET c == imports[h] IN
    c.fresh =>
      /\ c.phase \in {"insert", "enroll"} => c.targets = c.shown
      /\ c.phase = "refused" /\ c.rows # <<>> =>
           \E g \in Opened : Joining(c, g) > 0 /\ SeatsTaken[g] + Joining(c, g) > g.capacity

(* No two users share an identification or a mail, imported at once, by    *)
(* hand or one after the other; only active users are enrolled.            *)
ImportedOnce ==
  \A u \in people :
    /\ \A v \in people : SameKey(u, v) => u = v
    /\ Present(u.group) => u.status = "ACTIVE"

(* A group is overbooked by no more than the imports that counted its      *)
(* seats before the others committed.                                      *)
SeatsWithin(n) == \A g \in Opened : SeatsTaken[g] <= n * g.capacity

(* Credentials leave only for users that are there, and every imported     *)
(* user got his, or will, unless the mail failed or the process stopped.   *)
CredentialsExplained ==
  LET mails == {u.mail : u \in people} IN
  /\ welcomed \subseteq mails
  /\ mails \ {n.mail : n \in Newcomers} \subseteq
       welcomed \cup unsent \cup UNION {Range(imports[h].pending) : h \in Handlers}

=============================================================================
