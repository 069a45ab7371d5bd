----------------------------- MODULE OfficeProofs -----------------------------
(***************************************************************************)
(* Proofs about the office side as a whole: every part keeps what the      *)
(* proofs of its module say of it, for the crowd of requests that is       *)
(* served.  The invariant is that of every part; the limits it keeps for   *)
(* that crowd; and, when the crowd is one request, what holds of requests  *)
(* served one at a time.  The proofs about the roles, the tables of the    *)
(* routes and the imports, which only this side has, come first.           *)
(***************************************************************************)
EXTENDS Office, PeopleProofs

-----------------------------------------------------------------------------
(* Roles, permissions and the starts of the server.  A write of two queries*)
(* is counted as done from the first one (Soon), since nothing else is     *)
(* served between them and only a cut loses the second.                    *)

\* What a role grants once the write in hand is done.
GrantsPending(r) == Present(pending) /\ pending.of = "grants" /\ pending.role = r
Soon(r) == IF GrantsPending(r) THEN pending.ids ELSE grants[r]

RolesPending == Present(pending) /\ pending.of = "roles"

\* Names and codes are unique, a code that is not its module and action's was given
\* by somebody, and nothing is granted that is not there.
NamesApart == \A r, s \in RoleIds : Present(roleName[r]) /\ roleName[r] = roleName[s] => r = s
RowsKeyed ==
  /\ \A p, q \in Rows : CodeOf(p) = CodeOf(q) => p = q
  /\ \A p \in Rows : permission[p].code # permission[p].slot => "miscoded" \in ever
GrantsReal == \A r \in RoleIds : Soon(r) \subseteq Rows

\* The user of the start is an administrator, or about to be, unless it was broken.
SeededFits ==
  /\ RolesPending => Present(seeded)
  /\ Present(seeded) /\ ever \cap {"renamed", "demoted", "cut"} = {} =>
       \E a \in Named("Administrador") :
         seeded.named /\ a \in IF RolesPending THEN pending.ids ELSE seeded.roles

\* A server of production that served has the example password only by somebody's choice.
ServedFits ==
  boot = "serving" /\ env.production /\ ~env.other /\ "password" \notin since =>
    (Present(seeded) => ~seeded.example)

\* How far a start has come.
PermissionsDone == {"admin role", "other roles", "own schedule", "no whole schedule", "admin user", "serving"}
AdminDone == PermissionsDone \ {"admin role"}
RolesDone == AdminDone \ {"other roles"}
OwnDone   == RolesDone \ {"own schedule"}
WholeDone == OwnDone \ {"no whole schedule"}

AdminFits ==
  since \cap {"miscoded", "renamed", "cut"} = {} =>
    /\ boot \in PermissionsDone => RowOf(Protected) # {}
    /\ boot \in AdminDone => \E a \in Named("Administrador") : RowOf(Protected) \subseteq Soon(a)

StudentsFit ==
  since = {} =>
    /\ boot \in RolesDone => Named("Estudiante") # {}
    /\ boot \in OwnDone => \A s \in Named("Estudiante") : RowOf(Own) \cap Soon(s) # {}
    /\ boot \in WholeDone => \A s \in Named("Estudiante") : \A p \in Soon(s) : CodeOf(p) \notin Whole

\* Nothing happens while the server starts.
StartsClean == boot \notin {"serving", "failed", "stopped"} => since = {}

RolesInv ==
  /\ RolesTypeOK /\ NamesApart /\ RowsKeyed /\ GrantsReal
  /\ SeededFits /\ ServedFits /\ AdminFits /\ StudentsFit /\ StartsClean /\ StartsUnlessBroken

-----------------------------------------------------------------------------
(* There is room for another row as long as a key is not taken.            *)
LEMMA FourCounted ==
  ASSUME NEW a, NEW b, NEW c, NEW d, b # a, c \notin {a, b}, d \notin {a, b, c}
  PROVE  IsFiniteSet({a, b, c, d}) /\ Cardinality({a, b, c, d}) = 4
<1>1. IsFiniteSet({a}) /\ Cardinality({a}) = 1
  BY FS_Singleton
<1>2. IsFiniteSet({a} \cup {b}) /\ Cardinality({a} \cup {b}) = 2
  BY <1>1, FS_AddElement
<1>3. IsFiniteSet({a, b} \cup {c}) /\ Cardinality({a, b} \cup {c}) = 3
  <2>1. {a, b} = {a} \cup {b}
    OBVIOUS
  <2> QED BY <1>2, <2>1, FS_AddElement
<1>4. IsFiniteSet({a, b, c} \cup {d}) /\ Cardinality({a, b, c} \cup {d}) = 4
  <2>1. {a, b, c} = {a, b} \cup {c}
    OBVIOUS
  <2> QED BY <1>3, <2>1, FS_AddElement
<1>5. {a, b, c, d} = {a, b, c} \cup {d}
  OBVIOUS
<1> QED BY <1>4, <1>5

LEMMA NamesFinite == IsFiniteSet(Names) /\ Cardinality(Names) = 4
  BY FourCounted DEF Names

LEMMA CodesFinite == IsFiniteSet(Codes) /\ Cardinality(Codes) = 5
<1> DEFINE known == {Protected, Own, "schedules.view", "schedules.edit"}
<1>1. Codes = known \cup {"extra"} /\ "extra" \notin known
  BY DEF Codes, Catalogue, Whole, Protected, Own
<1>2. IsFiniteSet(known) /\ Cardinality(known) = 4
  BY FourCounted DEF Protected, Own
<1> HIDE DEF known
<1> QED BY <1>1, <1>2, FS_AddElement

LEMMA RoomForKey ==
  ASSUME NEW S, IsFiniteSet(S), NEW key \in S, NEW f, NEW used,
         \A i \in used : f[i] \in S /\ f[i] # key,
         \A i, j \in used : f[i] = f[j] => i = j
  PROVE  \E i \in 1..Cardinality(S) : i \notin used
<1> SUFFICES ASSUME \A i \in 1..Cardinality(S) : i \in used PROVE FALSE
  OBVIOUS
<1> DEFINE n == Cardinality(S)
           T == S \ {key}
           g == [i \in 1..n |-> f[i]]
<1>1. n \in Nat /\ IsFiniteSet(T) /\ Cardinality(T) = n - 1
  BY FS_RemoveElement, FS_CardinalityType
<1>2. g \in [1..n -> T]
  OBVIOUS
<1>3. IsFiniteSet(1..n) /\ Cardinality(1..n) = n
  BY <1>1, FS_Interval
<1>4. Cardinality(T) < Cardinality(1..n)
  BY <1>1, <1>3
<1>5. \A i, j \in 1..n : g[i] = g[j] => i = j
  OBVIOUS
<1> HIDE DEF n, T, g
<1> QED BY <1>1, <1>2, <1>3, <1>4, <1>5, FS_PigeonHole

LEMMA RoleIdFree ==
  ASSUME RolesTypeOK, NamesApart, NEW n \in Names, Named(n) = {}
  PROVE  FreeRole \in RoleIds /\ roleName[FreeRole] = None
<1> DEFINE used == {r \in RoleIds : roleName[r] # None}
<1>1. \A r \in used : roleName[r] \in Names /\ roleName[r] # n
  BY DEF Named, RolesTypeOK
<1>2. \A r, s \in used : roleName[r] = roleName[s] => r = s
  BY DEF NamesApart, Present
<1>3. \E r \in 1..Cardinality(Names) : r \notin used
  BY <1>1, <1>2, NamesFinite, RoomForKey
<1>4. \E r \in RoleIds : roleName[r] = None
  BY <1>3 DEF RoleIds
<1> QED BY <1>4 DEF FreeRole

LEMMA RowFree ==
  ASSUME RolesTypeOK, RowsKeyed, NEW c \in Codes, RowOf(c) = {}
  PROVE  FreeRow \in Permissions /\ permission[FreeRow] = None
<1> DEFINE f == [p \in Permissions |-> permission[p].code]
<1>1. \A p \in Rows : f[p] \in Codes /\ f[p] # c
  BY DEF RowOf, CodeOf, Rows, Present, RolesTypeOK, Permission
<1>2. \A p, q \in Rows : f[p] = f[q] => p = q
  BY DEF RowsKeyed, CodeOf, Rows
<1>3. \E p \in 1..Cardinality(Codes) : p \notin Rows
  <2>1. IsFiniteSet(Codes)
    BY CodesFinite
  <2> HIDE DEF f
  <2> QED BY <1>1, <1>2, <2>1, RoomForKey
<1>4. \E p \in Permissions : permission[p] = None
  BY <1>3 DEF Permissions, Rows, Present
<1> QED BY <1>4 DEF FreeRow

-----------------------------------------------------------------------------
(* What the writes do to the rows.                                         *)
NameGiven(r, n) ==
  /\ r \in RoleIds /\ n \in Names /\ Named(n) \subseteq {r}
  /\ roleName' = [roleName EXCEPT ![r] = n]

RowWritten(p, row) ==
  /\ p \in Permissions /\ row \in Permission /\ Unused(p, row)
  /\ permission' = [permission EXCEPT ![p] = row]

GrantsReplaced(r, ids) ==
  /\ \A s \in RoleIds : Soon(s)' = IF s = r THEN ids ELSE Soon(s)
  /\ grants' \in [RoleIds -> SUBSET Rows] /\ pending' \in Write \cup {None} /\ ~RolesPending'

LEMMA NameStep ==
  ASSUME RolesTypeOK, NamesApart, NEW r, NEW n, NameGiven(r, n)
  PROVE  /\ roleName' \in [RoleIds -> Names \cup {None}] /\ NamesApart'
         /\ Named(n)' = {r}
         /\ \A m \in Names : m # n /\ m # roleName[r] => Named(m)' = Named(m)
<1>1. roleName' \in [RoleIds -> Names \cup {None}]
  BY DEF NameGiven, RolesTypeOK
<1>2. \A s \in RoleIds : roleName'[s] = IF s = r THEN n ELSE roleName[s]
  BY DEF NameGiven, RolesTypeOK
<1>3. \A s \in RoleIds : roleName[s] = n => s = r
  BY DEF NameGiven, Named
<1>4. NamesApart'
  BY <1>2, <1>3 DEF NamesApart, Present
<1>5. r \in RoleIds
  BY DEF NameGiven
<1>6. Named(n)' = {r}
  BY <1>2, <1>3, <1>5 DEF Named
<1>7. \A m \in Names : m # n /\ m # roleName[r] => Named(m)' = Named(m)
  BY <1>2 DEF Named
<1> QED BY <1>1, <1>4, <1>6, <1>7

LEMMA RowStep ==
  ASSUME RolesTypeOK, RowsKeyed, NEW p, NEW row, RowWritten(p, row),
         ever \subseteq ever', row.code # row.slot => "miscoded" \in ever'
  PROVE  /\ permission' \in [Permissions -> Permission \cup {None}] /\ RowsKeyed'
         /\ Rows' = Rows \cup {p} /\ row.code \in Codes /\ row.slot \in Codes
         /\ \A q \in Rows \ {p} : CodeOf(q)' = CodeOf(q)
         /\ CodeOf(p)' = row.code
<1>1. row \in Permission /\ row # None /\ p \in Permissions
  BY RolesAssumption DEF RowWritten, RolesAssumption
<1>2. row.code \in Codes /\ row.slot \in Codes
  BY <1>1 DEF Permission
<1>3. permission' \in [Permissions -> Permission \cup {None}]
  BY DEF RowWritten, RolesTypeOK
<1>4. \A q \in Permissions : permission'[q] = IF q = p THEN row ELSE permission[q]
  BY DEF RowWritten, RolesTypeOK
<1>5. Rows' = Rows \cup {p}
  BY <1>1, <1>4 DEF Rows, Present
<1>6. \A q \in Rows : q \in Permissions
  BY DEF Rows
<1>7. CodeOf(p)' = row.code /\ \A q \in Rows \ {p} : CodeOf(q)' = CodeOf(q)
  BY <1>1, <1>4, <1>6 DEF CodeOf
<1>8. \A q \in Rows \ {p} : CodeOf(q) # row.code
  BY DEF RowWritten, Unused
<1>9. \A q, s \in Rows' : CodeOf(q)' = CodeOf(s)' => q = s
  BY <1>5, <1>7, <1>8 DEF RowsKeyed
<1>10. \A q \in Rows' : permission'[q].code # permission'[q].slot => "miscoded" \in ever'
  BY <1>1, <1>4, <1>5, <1>6 DEF RowsKeyed
<1>11. RowsKeyed'
  BY <1>9, <1>10 DEF RowsKeyed
<1> QED BY <1>2, <1>3, <1>5, <1>7, <1>11

LEMMA GrantStep ==
  ASSUME RolesTypeOK, pending = None, NEW r \in RoleIds, NEW ids \in SUBSET Rows, ReplaceGrants(r, ids)
  PROVE  GrantsReplaced(r, ids)
<1>1. grants' = [grants EXCEPT ![r] = {}] /\ grants \in [RoleIds -> SUBSET Rows]
  BY DEF ReplaceGrants, RolesTypeOK
<1>2. ids \in SUBSET Permissions
  BY DEF Rows
<1>3. grants' \in [RoleIds -> SUBSET Rows]
  BY <1>1
<1>4. \A s \in RoleIds : Soon(s) = grants[s]
  BY DEF Soon, GrantsPending, Present
<1>5. CASE ids = {}
  <2>1. pending' = None
    BY <1>5 DEF ReplaceGrants
  <2>2. ~RolesPending' /\ \A s \in RoleIds : Soon(s)' = grants'[s]
    BY <2>1 DEF RolesPending, Soon, GrantsPending, Present
  <2> QED BY <1>1, <1>3, <1>4, <1>5, <2>1, <2>2 DEF GrantsReplaced
<1>6. CASE ids # {}
  <2>1. pending' = [of |-> "grants", role |-> r, ids |-> ids]
    BY <1>6 DEF ReplaceGrants
  <2>2. pending' \in Write
    BY <1>2, <2>1 DEF Write
  <2>3. pending' # None
    BY <2>2, RolesAssumption DEF RolesAssumption
  <2>4. pending'.of = "grants" /\ pending'.role = r /\ pending'.ids = ids
    BY <2>1
  <2>5. ~RolesPending' /\ \A s \in RoleIds : Soon(s)' = IF s = r THEN ids ELSE grants'[s]
    BY <2>3, <2>4 DEF RolesPending, Soon, GrantsPending, Present
  <2> QED BY <1>1, <1>3, <1>4, <2>2, <2>5 DEF GrantsReplaced
<1> QED BY <1>5, <1>6

-----------------------------------------------------------------------------
(* The operations of the administrators.                                   *)
SameNames == roleName' = roleName
SameRows  == permission' = permission

LEMMA NamesStay ==
  ASSUME SameNames PROVE (NamesApart => NamesApart') /\ \A n : Named(n)' = Named(n)
  BY DEF SameNames, NamesApart, Named

LEMMA RowsStay ==
  ASSUME SameRows
  PROVE  /\ Rows' = Rows /\ \A c : RowOf(c)' = RowOf(c)
         /\ \A p : CodeOf(p)' = CodeOf(p)
         /\ RowsKeyed /\ ever \subseteq ever' => RowsKeyed'
<1>1. Rows' = Rows /\ \A p : CodeOf(p)' = CodeOf(p)
  BY DEF SameRows, Rows, CodeOf
<1>2. \A c : RowOf(c)' = RowOf(c)
  BY <1>1 DEF RowOf
<1>3. RowsKeyed /\ ever \subseteq ever' => RowsKeyed'
  BY <1>1 DEF RowsKeyed, SameRows
<1> QED BY <1>1, <1>2, <1>3

LEMMA Idle == ASSUME pending = None PROVE ~RolesPending /\ \A r : Soon(r) = grants[r]
  BY DEF RolesPending, Soon, GrantsPending, Present

\* An edit is made by a server that serves and has nothing in hand.
EditMade(what) ==
  /\ boot = "serving" /\ boot' = "serving" /\ pending = None
  /\ env' = env /\ starts' = starts /\ edits' \in 0..MaxEdits
  /\ ever' = ever \cup what \cup {"edited"} /\ since' = since \cup what \cup {"edited"}
  /\ ever' \subseteq Happenings /\ since' \subseteq ever'

LEMMA EditStep ==
  ASSUME RolesTypeOK, NEW what \in SUBSET Happenings, Serving, RoleEdit(what)
  PROVE  EditMade(what) /\ StudentsFit' /\ StartsClean' /\ StartsUnlessBroken'
<1>1. boot = "serving" /\ pending = None /\ boot' = boot /\ env' = env /\ starts' = starts
  BY DEF Serving, At, RoleEdit
<1>2. edits' \in 0..MaxEdits
  BY RolesAssumption DEF Serving, RoleEdit, RolesTypeOK, RolesAssumption
<1>3. ever' = ever \cup (what \cup {"edited"}) /\ since' = since \cup (what \cup {"edited"})
  BY DEF RoleEdit, Happened
<1>4. ever' \subseteq Happenings /\ since' \subseteq ever'
  BY <1>3 DEF RolesTypeOK, Happenings
<1>5. EditMade(what)
  BY <1>1, <1>2, <1>3, <1>4 DEF EditMade
<1>6. since' # {}
  BY <1>3
<1>7. StudentsFit'
  BY <1>6 DEF StudentsFit
<1>8. StartsClean' /\ StartsUnlessBroken'
  BY <1>1 DEF StartsClean, StartsUnlessBroken
<1> QED BY <1>5, <1>7, <1>8

\* Whoever is the seeded user, its names and roles stay unless somebody was demoted.
SeededStays ==
  /\ seeded' \in SeededUser \cup {None} /\ ServedFits'
  /\ Present(seeded') /\ "demoted" \notin ever' =>
       Present(seeded) /\ seeded'.roles = seeded.roles /\ seeded'.named = seeded.named

LEMMA SeededUnchanged ==
  ASSUME RolesInv, NEW what, EditMade(what), seeded' = seeded PROVE SeededStays
<1>1. seeded \in SeededUser \cup {None} /\ ServedFits
  BY DEF RolesInv, RolesTypeOK
<1>2. boot = "serving" /\ env' = env /\ since \subseteq since'
  BY DEF EditMade
<1>3. ServedFits'
  BY <1>1, <1>2 DEF ServedFits, Present
<1> QED BY <1>1, <1>3 DEF SeededStays

LEMMA ChosenRows ==
  ASSUME NEW ids \in Chosen
  PROVE  /\ ids \subseteq Rows
         /\ ProtectedKept("Administrador", ids) => RowOf(Protected) \subseteq ids
<1>1. RowOf(Protected) \subseteq Rows
  BY DEF RowOf
<1>2. ids \subseteq Rows
  BY <1>1 DEF Chosen
<1>3. ASSUME Protected \in Codified(ids) PROVE RowOf(Protected) \subseteq ids
  <2>1. PICK p \in ids : CodeOf(p) = Protected
    BY <1>3 DEF Codified
  <2>2. p \in RowOf(Protected)
    BY <1>2, <2>1 DEF RowOf
  <2>3. ids = RowOf(Protected) \/ ids = Rows
    BY <2>2 DEF Chosen
  <2> QED BY <1>1, <2>3
<1> QED BY <1>2, <1>3 DEF ProtectedKept

\* Of an edit of roles: the grants of one role are replaced, at most, and the
\* administrators keep theirs.
GrantsEdited ==
  \/ grants' = grants /\ pending' = pending
  \/ \E r \in RoleIds, ids \in SUBSET Rows :
       /\ GrantsReplaced(r, ids)
       /\ r \in Named("Administrador") /\ r \in Named("Administrador")' => RowOf(Protected) \subseteq ids

LEMMA GrantsEditedStep ==
  ASSUME RolesTypeOK, GrantsReal, pending = None, SameRows, GrantsEdited
  PROVE  /\ grants' \in [RoleIds -> SUBSET Rows] /\ pending' \in Write \cup {None}
         /\ GrantsReal' /\ ~RolesPending'
         /\ \A a \in RoleIds : a \in Named("Administrador") /\ a \in Named("Administrador")'
              => (RowOf(Protected) \subseteq Soon(a) => RowOf(Protected) \subseteq Soon(a)')
<1>1. Rows' = Rows
  BY RowsStay
<1>2. CASE grants' = grants /\ pending' = pending
  <2>1. \A a \in RoleIds : Soon(a)' = Soon(a)
    BY <1>2 DEF Soon, GrantsPending
  <2>2. ~RolesPending'
    BY <1>2 DEF RolesPending, Present
  <2>3. GrantsReal'
    BY <1>1, <2>1 DEF GrantsReal
  <2> QED BY <1>2, <2>1, <2>2, <2>3 DEF RolesTypeOK
<1>3. ASSUME NEW r \in RoleIds, NEW ids \in SUBSET Rows, GrantsReplaced(r, ids),
             r \in Named("Administrador") /\ r \in Named("Administrador")' => RowOf(Protected) \subseteq ids
      PROVE  /\ grants' \in [RoleIds -> SUBSET Rows] /\ pending' \in Write \cup {None}
             /\ GrantsReal' /\ ~RolesPending'
             /\ \A a \in RoleIds : a \in Named("Administrador") /\ a \in Named("Administrador")'
                  => (RowOf(Protected) \subseteq Soon(a) => RowOf(Protected) \subseteq Soon(a)')
  <2>1. \A s \in RoleIds : Soon(s)' = IF s = r THEN ids ELSE Soon(s)
    BY <1>3 DEF GrantsReplaced
  <2>2. GrantsReal'
    BY <1>1, <2>1 DEF GrantsReal
  <2>3. \A a \in RoleIds : a \in Named("Administrador") /\ a \in Named("Administrador")'
          => (RowOf(Protected) \subseteq Soon(a) => RowOf(Protected) \subseteq Soon(a)')
    <3> SUFFICES ASSUME NEW a \in RoleIds, a \in Named("Administrador"), a \in Named("Administrador")',
                        RowOf(Protected) \subseteq Soon(a)
                 PROVE  RowOf(Protected)' \subseteq Soon(a)'
      BY RowsStay
    <3>1. RowOf(Protected)' = RowOf(Protected)
      BY RowsStay
    <3> QED BY <1>3, <2>1, <3>1
  <2> QED BY <1>3, <2>2, <2>3 DEF GrantsReplaced
<1> QED BY <1>2, <1>3 DEF GrantsEdited

\* The names: one is given, and a role becomes or ceases to be the administrators'
\* only by a renaming, or where they had none.
NamesEdited(what) ==
  \/ SameNames
  \/ \E r \in RoleIds, n \in Names :
       /\ NameGiven(r, n)
       /\ roleName[r] # n /\ "Administrador" \in {roleName[r], n} =>
            "renamed" \in what \/ Named("Administrador") = {}

LEMMA NamesEditedStep ==
  ASSUME RolesTypeOK, NamesApart, NEW what, NamesEdited(what)
  PROVE  /\ roleName' \in [RoleIds -> Names \cup {None}] /\ NamesApart'
         /\ \/ Named("Administrador")' = Named("Administrador")
            \/ "renamed" \in what \/ Named("Administrador") = {}
<1>1. CASE SameNames
  BY <1>1, NamesStay DEF SameNames, RolesTypeOK
<1>2. ASSUME NEW r \in RoleIds, NEW n \in Names, NameGiven(r, n),
             roleName[r] # n /\ "Administrador" \in {roleName[r], n} =>
               "renamed" \in what \/ Named("Administrador") = {}
      PROVE  /\ roleName' \in [RoleIds -> Names \cup {None}] /\ NamesApart'
             /\ \/ Named("Administrador")' = Named("Administrador")
                \/ "renamed" \in what \/ Named("Administrador") = {}
  <2>1. roleName' \in [RoleIds -> Names \cup {None}] /\ NamesApart'
    BY <1>2, NameStep
  <2>2. CASE roleName[r] = n
    <3>1. roleName' = roleName
      BY <1>2, <2>2 DEF NameGiven, RolesTypeOK
    <3> QED BY <2>1, <3>1 DEF Named
  <2>3. CASE roleName[r] # n /\ "Administrador" \notin {roleName[r], n}
    <3>1. "Administrador" \in Names
      BY DEF Names
    <3>2. Named("Administrador")' = Named("Administrador")
      BY <1>2, <2>3, <3>1, NameStep
    <3> QED BY <2>1, <3>2
  <2> QED BY <1>2, <2>1, <2>2, <2>3
<1> QED BY <1>1, <1>2 DEF NamesEdited

LEMMA RolesEditedStep ==
  ASSUME RolesInv, NEW what, EditMade(what), NamesEdited(what), GrantsEdited, SameRows, seeded' = seeded
  PROVE  RolesTypeOK' /\ NamesApart' /\ RowsKeyed' /\ GrantsReal' /\ SeededFits' /\ ServedFits' /\ AdminFits'
<1>1. RolesTypeOK /\ NamesApart /\ RowsKeyed /\ GrantsReal /\ SeededFits /\ AdminFits
  BY DEF RolesInv
<1>2. pending = None /\ ~RolesPending /\ ever \subseteq ever' /\ since \subseteq since' /\ what \subseteq since'
  BY Idle DEF EditMade
<1>3. roleName' \in [RoleIds -> Names \cup {None}] /\ NamesApart'
  BY <1>1, NamesEditedStep
<1>4. \/ Named("Administrador")' = Named("Administrador")
      \/ "renamed" \in what \/ Named("Administrador") = {}
  BY <1>1, NamesEditedStep
<1>5. grants' \in [RoleIds -> SUBSET Rows] /\ pending' \in Write \cup {None} /\ GrantsReal' /\ ~RolesPending'
  BY <1>1, <1>2, GrantsEditedStep
<1>6. Rows' = Rows /\ RowOf(Protected)' = RowOf(Protected) /\ RowsKeyed'
  BY <1>1, <1>2, RowsStay
<1>7. RolesTypeOK'
  <2>1. permission' \in [Permissions -> Permission \cup {None}] /\ seeded' \in SeededUser \cup {None}
    BY <1>1 DEF RolesTypeOK, SameRows
  <2>2. /\ env' \in Environment /\ boot' \in BootSteps /\ starts' \in 1..MaxStarts /\ edits' \in 0..MaxEdits
        /\ ever' \subseteq Happenings /\ since' \subseteq ever'
    BY <1>1 DEF EditMade, RolesTypeOK, BootSteps
  <2> QED BY <1>3, <1>5, <1>6, <2>1, <2>2 DEF RolesTypeOK
<1>8. SeededFits'
  <2> SUFFICES ASSUME Present(seeded'), ever' \cap {"renamed", "demoted", "cut"} = {}
               PROVE  \E a \in Named("Administrador")' : seeded'.named /\ a \in seeded'.roles
    BY <1>5 DEF SeededFits
  <2>1. ever \cap {"renamed", "demoted", "cut"} = {} /\ "renamed" \notin what
    BY DEF EditMade
  <2>2. Present(seeded)
    BY DEF Present
  <2>3. PICK a \in Named("Administrador") : seeded.named /\ a \in seeded.roles
    BY <1>1, <1>2, <2>1, <2>2 DEF SeededFits
  <2>4. Named("Administrador")' = Named("Administrador")
    BY <1>4, <2>1, <2>3
  <2> QED BY <2>3, <2>4
<1>9. AdminFits'
  <2> SUFFICES ASSUME since' \cap {"miscoded", "renamed", "cut"} = {}
               PROVE  /\ RowOf(Protected)' # {}
                      /\ \E a \in Named("Administrador")' : RowOf(Protected)' \subseteq Soon(a)'
    BY DEF AdminFits
  <2>1. since \cap {"miscoded", "renamed", "cut"} = {} /\ "renamed" \notin what
    BY <1>2
  <2>2. boot \in PermissionsDone /\ boot \in AdminDone
    BY DEF EditMade, PermissionsDone, AdminDone
  <2>3. RowOf(Protected) # {}
    BY <1>1, <2>1, <2>2 DEF AdminFits
  <2>4. PICK a \in Named("Administrador") : RowOf(Protected) \subseteq Soon(a)
    BY <1>1, <2>1, <2>2 DEF AdminFits
  <2>5. a \in Named("Administrador")' /\ a \in RoleIds
    BY <1>4, <2>1, <2>4 DEF Named
  <2>6. RowOf(Protected) \subseteq Soon(a)'
    BY <1>1, <1>2, <2>4, <2>5, GrantsEditedStep
  <2> QED BY <1>6, <2>3, <2>5, <2>6
<1>10. ServedFits'
  BY SeededUnchanged DEF SeededStays
<1> QED BY <1>1, <1>3, <1>5, <1>6, <1>7, <1>8, <1>9, <1>10

LEMMA CreateRoleKeeps == ASSUME RolesInv, CreateRole PROVE RolesInv'
<1>1. /\ Serving /\ RoleEdit({}) /\ SameRows /\ seeded' = seeded
      /\ RolesTypeOK /\ NamesApart /\ GrantsReal
  BY DEF CreateRole, RolesInv, SameRows
<1>2. EditMade({}) /\ StudentsFit' /\ StartsClean' /\ StartsUnlessBroken'
  BY <1>1, EditStep
<1>3. PICK n \in Names, ids \in Chosen :
        /\ Named(n) = {}
        /\ roleName' = [roleName EXCEPT ![FreeRole] = n] /\ ReplaceGrants(FreeRole, ids)
  BY DEF CreateRole
<1>4. FreeRole \in RoleIds /\ roleName[FreeRole] = None
  BY <1>1, <1>3, RoleIdFree
<1>5. None # "Administrador"
  BY RolesAssumption DEF RolesAssumption, Names
<1>6. NameGiven(FreeRole, n)
  BY <1>3, <1>4 DEF NameGiven
<1>7. NamesEdited({})
  BY <1>3, <1>4, <1>5, <1>6 DEF NamesEdited
<1>8. ids \in SUBSET Rows /\ pending = None
  BY <1>2, ChosenRows DEF EditMade
<1>9. GrantsReplaced(FreeRole, ids)
  BY <1>1, <1>3, <1>4, <1>8, GrantStep
<1>10. FreeRole \notin Named("Administrador")
  BY <1>4, <1>5 DEF Named
<1>11. GrantsEdited
  BY <1>4, <1>8, <1>9, <1>10 DEF GrantsEdited
<1> QED BY <1>1, <1>2, <1>7, <1>11, RolesEditedStep DEF RolesInv

LEMMA UpdateRoleKeeps == ASSUME RolesInv, UpdateRole PROVE RolesInv'
<1> DEFINE Renamed(r, n) == IF roleName[r] # n /\ "Administrador" \in {roleName[r], n} THEN {"renamed"} ELSE {}
<1>1. Serving /\ SameRows /\ seeded' = seeded /\ RolesTypeOK /\ NamesApart /\ GrantsReal
  BY DEF UpdateRole, RolesInv, SameRows
<1>2. PICK r \in RoleIds, n \in Names, sent \in Chosen \cup {None} :
       /\ Present(roleName[r]) /\ Named(n) \subseteq {r}
       /\ roleName' = [roleName EXCEPT ![r] = n]
       /\ IF sent # None /\ ProtectedKept(n, sent) THEN ReplaceGrants(r, sent)
          ELSE UNCHANGED <<grants, pending>>
       /\ RoleEdit(Renamed(r, n))
  BY DEF UpdateRole
<1>3. Renamed(r, n) \in SUBSET Happenings
  BY DEF Happenings
<1> DEFINE what == Renamed(r, n)
<1>4. RoleEdit(what) /\ what \in SUBSET Happenings
  BY <1>2, <1>3
<1>5. roleName[r] # n /\ "Administrador" \in {roleName[r], n} => "renamed" \in what
  OBVIOUS
<1> HIDE DEF what
<1>6. EditMade(what) /\ StudentsFit' /\ StartsClean' /\ StartsUnlessBroken'
  BY <1>1, <1>4, EditStep
<1>7. NameGiven(r, n)
  BY <1>2 DEF NameGiven
<1>8. NamesEdited(what)
  BY <1>5, <1>7 DEF NamesEdited
<1>9. GrantsEdited
  <2>1. CASE grants' = grants /\ pending' = pending
    BY <2>1 DEF GrantsEdited
  <2>2. CASE sent # None /\ ProtectedKept(n, sent) /\ ReplaceGrants(r, sent)
    <3>1. sent \in Chosen
      BY <1>2, <2>2
    <3>2. sent \in SUBSET Rows /\ pending = None
      BY <1>6, <3>1, ChosenRows DEF EditMade
    <3>3. GrantsReplaced(r, sent)
      BY <1>1, <2>2, <3>2, GrantStep
    <3>4. r \in Named("Administrador")' => n = "Administrador"
      BY <1>2 DEF Named, RolesTypeOK, RolesInv
    <3>5. r \in Named("Administrador") /\ r \in Named("Administrador")' => RowOf(Protected) \subseteq sent
      BY <2>2, <3>1, <3>4, ChosenRows
    <3> QED BY <3>2, <3>3, <3>5 DEF GrantsEdited
  <2> QED BY <1>2, <2>1, <2>2
<1> QED BY <1>1, <1>6, <1>8, <1>9, RolesEditedStep DEF RolesInv

LEMMA AssignPermissionsKeeps == ASSUME RolesInv, AssignPermissions PROVE RolesInv'
<1>1. /\ Serving /\ RoleEdit({}) /\ SameRows /\ SameNames /\ seeded' = seeded
      /\ RolesTypeOK /\ NamesApart /\ GrantsReal
  BY DEF AssignPermissions, RolesInv, SameRows, SameNames
<1>2. EditMade({}) /\ StudentsFit' /\ StartsClean' /\ StartsUnlessBroken'
  BY <1>1, EditStep
<1>3. PICK r \in RoleIds, ids \in Chosen :
        Present(roleName[r]) /\ ProtectedKept(roleName[r], ids) /\ ReplaceGrants(r, ids)
  BY DEF AssignPermissions
<1>4. ids \in SUBSET Rows /\ pending = None
  BY <1>2, ChosenRows DEF EditMade
<1>5. GrantsReplaced(r, ids)
  BY <1>1, <1>3, <1>4, GrantStep
<1>6. r \in Named("Administrador") => RowOf(Protected) \subseteq ids
  BY <1>3, ChosenRows DEF Named
<1>7. GrantsEdited /\ NamesEdited({})
  BY <1>1, <1>4, <1>5, <1>6 DEF GrantsEdited, NamesEdited
<1> QED BY <1>1, <1>2, <1>7, RolesEditedStep DEF RolesInv

LEMMA ResetToDefaultsKeeps == ASSUME RolesInv, ResetToDefaults PROVE RolesInv'
<1>1. /\ Serving /\ RoleEdit({}) /\ SameRows /\ SameNames /\ seeded' = seeded
      /\ RolesTypeOK /\ NamesApart /\ GrantsReal
  BY DEF ResetToDefaults, RolesInv, SameRows, SameNames
<1>2. EditMade({}) /\ StudentsFit' /\ StartsClean' /\ StartsUnlessBroken'
  BY <1>1, EditStep
<1>3. PICK r \in RoleIds :
        ReplaceGrants(r, {p \in Rows : CodeOf(p) \in Template(roleName[r])})
  BY DEF ResetToDefaults
<1> DEFINE ids == {p \in Rows : CodeOf(p) \in Template(roleName[r])}
<1>4. ids \in SUBSET Rows /\ pending = None
  BY <1>2 DEF EditMade
<1>5. r \in Named("Administrador") => RowOf(Protected) \subseteq ids
  BY DEF Named, RowOf, Template, Codes, Catalogue
<1>6. GrantsReplaced(r, ids)
  BY <1>1, <1>3, <1>4, GrantStep
<1> HIDE DEF ids
<1>7. GrantsEdited /\ NamesEdited({})
  BY <1>1, <1>4, <1>5, <1>6 DEF GrantsEdited, NamesEdited
<1> QED BY <1>1, <1>2, <1>7, RolesEditedStep DEF RolesInv

\* Of an edit of permissions: names and grants stay, rows are written by those who say
\* so, and what protects the administrators stays where it is.
LEMMA PermissionsEditedStep ==
  ASSUME RolesInv, NEW what, EditMade(what), SameNames, grants' = grants, pending' = pending,
         SeededStays, permission' \in [Permissions -> Permission \cup {None}], RowsKeyed',
         \A r \in RoleIds : grants[r] \subseteq Rows',
         since' \cap {"miscoded", "renamed", "cut"} = {} /\ RowOf(Protected) # {}
           /\ (\E a \in Named("Administrador") : RowOf(Protected) \subseteq grants[a])
           => RowOf(Protected)' = RowOf(Protected)
  PROVE  RolesTypeOK' /\ NamesApart' /\ RowsKeyed' /\ GrantsReal' /\ SeededFits' /\ ServedFits' /\ AdminFits'
<1>1. RolesTypeOK /\ NamesApart /\ SeededFits /\ AdminFits
  BY DEF RolesInv
<1>2. pending = None /\ pending' = None /\ ever \subseteq ever' /\ since \subseteq since'
  BY DEF EditMade
<1>3. ~RolesPending /\ ~RolesPending' /\ \A r : Soon(r) = grants[r] /\ Soon(r)' = grants[r]
  BY <1>2, Idle DEF RolesPending, Soon, GrantsPending, Present
<1>4. NamesApart' /\ Named("Administrador")' = Named("Administrador")
  BY <1>1, NamesStay
<1>5. grants' \in [RoleIds -> SUBSET Rows'] /\ GrantsReal'
  BY <1>1, <1>3 DEF RolesTypeOK, GrantsReal
<1>6. RolesTypeOK'
  <2>1. roleName' \in [RoleIds -> Names \cup {None}] /\ seeded' \in SeededUser \cup {None}
        /\ pending' \in Write \cup {None}
    BY <1>1, <1>2 DEF RolesTypeOK, SameNames, SeededStays
  <2>2. /\ env' \in Environment /\ boot' \in BootSteps /\ starts' \in 1..MaxStarts /\ edits' \in 0..MaxEdits
        /\ ever' \subseteq Happenings /\ since' \subseteq ever'
    BY <1>1 DEF EditMade, RolesTypeOK, BootSteps
  <2> QED BY <1>5, <2>1, <2>2 DEF RolesTypeOK
<1>7. SeededFits'
  <2> SUFFICES ASSUME Present(seeded'), ever' \cap {"renamed", "demoted", "cut"} = {}
               PROVE  \E a \in Named("Administrador")' : seeded'.named /\ a \in seeded'.roles
    BY <1>3 DEF SeededFits
  <2>1. Present(seeded) /\ seeded'.roles = seeded.roles /\ seeded'.named = seeded.named
    BY DEF SeededStays
  <2>2. ever \cap {"renamed", "demoted", "cut"} = {}
    BY <1>2
  <2> QED BY <1>1, <1>3, <1>4, <2>1, <2>2 DEF SeededFits
<1>8. AdminFits'
  <2> SUFFICES ASSUME since' \cap {"miscoded", "renamed", "cut"} = {}
               PROVE  /\ RowOf(Protected)' # {}
                      /\ \E a \in Named("Administrador")' : RowOf(Protected)' \subseteq Soon(a)'
    BY DEF AdminFits
  <2>1. since \cap {"miscoded", "renamed", "cut"} = {}
    BY <1>2
  <2>2. boot \in PermissionsDone /\ boot \in AdminDone
    BY DEF EditMade, PermissionsDone, AdminDone
  <2>3. RowOf(Protected) # {} /\ \E a \in Named("Administrador") : RowOf(Protected) \subseteq grants[a]
    BY <1>1, <1>3, <2>1, <2>2 DEF AdminFits
  <2>4. RowOf(Protected)' = RowOf(Protected)
    BY <2>3
  <2> QED BY <1>3, <1>4, <2>3, <2>4
<1> QED BY <1>4, <1>5, <1>6, <1>7, <1>8 DEF SeededStays

\* The row of a code that is there stays, if another row is written, or the same again.
LEMMA RowKept ==
  ASSUME RolesTypeOK, RowsKeyed, RowsKeyed', NEW p \in Permissions, NEW row,
         Rows' = Rows \cup {p}, \A q \in Rows \ {p} : CodeOf(q)' = CodeOf(q),
         CodeOf(p)' = row.code, \A q \in Rows \ {p} : CodeOf(q) # row.code,
         NEW c, RowOf(c) # {}, p \in Rows => row.code = CodeOf(p)
  PROVE  RowOf(c)' = RowOf(c)
<1>1. ASSUME NEW q \in RowOf(c) PROVE q \in RowOf(c)'
  BY <1>1 DEF RowOf
<1>2. ASSUME NEW q \in RowOf(c)' PROVE q \in RowOf(c)
  <2>1. q \in Rows \cup {p} /\ CodeOf(q)' = c
    BY <1>2 DEF RowOf
  <2>2. CASE q \in Rows
    BY <2>1, <2>2 DEF RowOf
  <2>3. CASE q = p /\ p \notin Rows
    <3>1. row.code = c
      BY <2>1, <2>3
    <3>2. PICK s : s \in RowOf(c)
      OBVIOUS
    <3>3. s \in Rows /\ CodeOf(s) = c
      BY <3>2 DEF RowOf
    <3> QED BY <2>3, <3>1, <3>3
  <2> QED BY <2>1, <2>2, <2>3
<1> QED BY <1>1, <1>2

LEMMA CreatePermissionKeeps == ASSUME RolesInv, CreatePermission PROVE RolesInv'
<1>1. /\ Serving /\ RolesTypeOK /\ RowsKeyed
      /\ SameNames /\ grants' = grants /\ seeded' = seeded /\ pending' = pending
  BY DEF CreatePermission, RolesInv, SameNames
<1>2. PICK row \in Permission :
       /\ Rows # Permissions /\ Unused(FreeRow, row)
       /\ permission' = [permission EXCEPT ![FreeRow] = row] /\ RoleEdit(Miscoded(row))
  BY DEF CreatePermission
<1> DEFINE what == Miscoded(row)
<1>3. RoleEdit(what) /\ what \in SUBSET Happenings
  BY <1>2 DEF Miscoded, Happenings
<1>4. row.code # row.slot => "miscoded" \in what
  BY DEF Miscoded
<1> HIDE DEF what
<1>5. EditMade(what) /\ StudentsFit' /\ StartsClean' /\ StartsUnlessBroken'
  BY <1>1, <1>3, EditStep
<1>6. ever \subseteq ever' /\ (row.code # row.slot => "miscoded" \in ever')
  BY <1>4, <1>5 DEF EditMade
<1>7. \E p \in Permissions : permission[p] = None
  BY <1>2 DEF Rows, Present
<1>8. FreeRow \in Permissions /\ permission[FreeRow] = None
  BY <1>7 DEF FreeRow
<1>10. PICK p \in Permissions : p = FreeRow /\ p \notin Rows
  BY <1>8 DEF Rows, Present
<1>9. RowWritten(p, row)
  BY <1>2, <1>10 DEF RowWritten
<1>11. \A q \in Rows \ {p} : CodeOf(q) # row.code
  BY <1>2, <1>10 DEF Unused
<1>12. /\ permission' \in [Permissions -> Permission \cup {None}] /\ RowsKeyed'
       /\ Rows' = Rows \cup {p} /\ \A q \in Rows \ {p} : CodeOf(q)' = CodeOf(q)
       /\ CodeOf(p)' = row.code
  BY <1>1, <1>6, <1>9, RowStep
<1>13. RowOf(Protected) # {} => RowOf(Protected)' = RowOf(Protected)
  BY <1>1, <1>10, <1>11, <1>12, RowKept
<1>14. \A r \in RoleIds : grants[r] \subseteq Rows'
  BY <1>1, <1>12 DEF RolesTypeOK
<1>15. SeededStays
  BY <1>1, <1>5, SeededUnchanged
<1> QED BY <1>1, <1>5, <1>12, <1>13, <1>14, <1>15, PermissionsEditedStep DEF RolesInv

LEMMA UpdatePermissionKeeps == ASSUME RolesInv, UpdatePermission PROVE RolesInv'
<1>1. /\ Serving /\ RolesTypeOK /\ RowsKeyed
      /\ SameNames /\ grants' = grants /\ seeded' = seeded /\ pending' = pending
  BY DEF UpdatePermission, RolesInv, SameNames
<1>2. PICK p \in Rows, row \in Permission :
       /\ Unused(p, row)
       /\ permission' = [permission EXCEPT ![p] = row]
       /\ RoleEdit(IF row = permission[p] THEN {} ELSE {"miscoded"})
  BY DEF UpdatePermission
<1> DEFINE what == IF row = permission[p] THEN {} ELSE {"miscoded"}
<1>3. RoleEdit(what) /\ what \in SUBSET Happenings
  BY <1>2 DEF Happenings
<1>4. row # permission[p] => "miscoded" \in what
  OBVIOUS
<1> HIDE DEF what
<1>5. EditMade(what) /\ StudentsFit' /\ StartsClean' /\ StartsUnlessBroken'
  BY <1>1, <1>3, EditStep
<1>6. ever \subseteq ever' /\ what \subseteq ever' /\ what \subseteq since'
  BY <1>5 DEF EditMade
<1>7. row.code # row.slot => "miscoded" \in ever'
  BY <1>1, <1>4, <1>6 DEF RowsKeyed
<1>8. p \in Permissions
  BY DEF Rows
<1>9. RowWritten(p, row)
  BY <1>2, <1>8 DEF RowWritten
<1>11. \A q \in Rows \ {p} : CodeOf(q) # row.code
  BY <1>2 DEF Unused
<1>12. /\ permission' \in [Permissions -> Permission \cup {None}] /\ RowsKeyed'
       /\ Rows' = Rows \cup {p} /\ \A q \in Rows \ {p} : CodeOf(q)' = CodeOf(q)
       /\ CodeOf(p)' = row.code
  BY <1>1, <1>6, <1>7, <1>9, RowStep
<1>13. "miscoded" \notin since' => row.code = CodeOf(p)
  BY <1>4, <1>6 DEF CodeOf
<1>14. "miscoded" \notin since' /\ RowOf(Protected) # {} => RowOf(Protected)' = RowOf(Protected)
  BY <1>1, <1>8, <1>11, <1>12, <1>13, RowKept
<1>15. \A r \in RoleIds : grants[r] \subseteq Rows'
  BY <1>1, <1>12 DEF RolesTypeOK
<1>16. SeededStays
  BY <1>1, <1>5, SeededUnchanged
<1> QED BY <1>1, <1>5, <1>12, <1>14, <1>15, <1>16, PermissionsEditedStep DEF RolesInv

LEMMA RemovePermissionKeeps == ASSUME RolesInv, RemovePermission PROVE RolesInv'
<1>1. /\ Serving /\ RoleEdit({}) /\ RolesTypeOK /\ RowsKeyed
      /\ SameNames /\ grants' = grants /\ seeded' = seeded /\ pending' = pending
  BY DEF RemovePermission, RolesInv, SameNames
<1>2. PICK p \in Rows :
       /\ \A r \in RoleIds : p \notin grants[r]
       /\ permission' = [permission EXCEPT ![p] = None]
  BY DEF RemovePermission
<1>3. EditMade({}) /\ StudentsFit' /\ StartsClean' /\ StartsUnlessBroken'
  BY <1>1, EditStep
<1>4. \A q \in Permissions : permission'[q] = IF q = p THEN None ELSE permission[q]
  BY <1>1, <1>2 DEF RolesTypeOK
<1>5. permission' \in [Permissions -> Permission \cup {None}]
  BY <1>1, <1>2 DEF RolesTypeOK
<1>6. Rows' = Rows \ {p}
  BY <1>4 DEF Rows, Present
<1>7. \A q \in Rows \ {p} : permission'[q] = permission[q] /\ CodeOf(q)' = CodeOf(q)
  BY <1>4 DEF CodeOf, Rows
<1>8. RowsKeyed'
  BY <1>1, <1>3, <1>6, <1>7 DEF RowsKeyed, EditMade
<1>9. \A r \in RoleIds : grants[r] \subseteq Rows'
  BY <1>1, <1>2, <1>6 DEF RolesTypeOK
<1>10. ASSUME NEW a \in Named("Administrador"), RowOf(Protected) \subseteq grants[a]
       PROVE  RowOf(Protected)' = RowOf(Protected)
  <2>1. p \notin RowOf(Protected)
    BY <1>2, <1>10 DEF Named
  <2> QED BY <1>6, <1>7, <2>1 DEF RowOf
<1>11. SeededStays
  BY <1>1, <1>3, SeededUnchanged
<1> QED BY <1>1, <1>3, <1>5, <1>8, <1>9, <1>10, <1>11, PermissionsEditedStep DEF RolesInv

\* What no permission, role or grant has a part in.
LEMMA AccountEditedStep ==
  ASSUME RolesInv, NEW what, EditMade(what), SeededStays, SameRows, SameNames,
         grants' = grants, pending' = pending, StudentsFit', StartsClean', StartsUnlessBroken'
  PROVE  RolesInv'
<1>1. RolesTypeOK /\ RowsKeyed /\ ever \subseteq ever'
  BY DEF RolesInv, EditMade
<1>2. permission' \in [Permissions -> Permission \cup {None}]
  BY <1>1 DEF RolesTypeOK, SameRows
<1>3. RowsKeyed' /\ Rows' = Rows /\ RowOf(Protected)' = RowOf(Protected)
  BY <1>1, RowsStay
<1>4. \A r \in RoleIds : grants[r] \subseteq Rows'
  BY <1>1, <1>3 DEF RolesTypeOK
<1> QED BY <1>2, <1>3, <1>4, PermissionsEditedStep DEF RolesInv

LEMMA PasswordOfSeededKeeps == ASSUME RolesInv, PasswordOfSeeded PROVE RolesInv'
<1>1. /\ Serving /\ RoleEdit({"password"}) /\ RolesTypeOK /\ Present(seeded)
      /\ SameRows /\ SameNames /\ grants' = grants /\ pending' = pending
  BY DEF PasswordOfSeeded, RolesInv, SameRows, SameNames
<1>2. PICK example \in BOOLEAN : seeded' = [seeded EXCEPT !.example = example]
  BY DEF PasswordOfSeeded
<1>3. {"password"} \in SUBSET Happenings
  BY DEF Happenings
<1>4. EditMade({"password"}) /\ StudentsFit' /\ StartsClean' /\ StartsUnlessBroken'
  BY <1>1, <1>3, EditStep
<1>5. seeded \in SeededUser
  BY <1>1 DEF RolesTypeOK, Present
<1>6. seeded' \in SeededUser /\ seeded'.roles = seeded.roles /\ seeded'.named = seeded.named
  BY <1>2, <1>5 DEF SeededUser
<1>7. ServedFits'
  BY <1>4 DEF ServedFits, EditMade
<1>8. SeededStays
  BY <1>1, <1>6, <1>7 DEF SeededStays
<1> QED BY <1>1, <1>4, <1>8, AccountEditedStep

LEMMA RenumberSeededKeeps == ASSUME RolesInv, RenumberSeeded PROVE RolesInv'
<1>1. /\ Serving /\ RolesTypeOK /\ SameRows /\ SameNames /\ grants' = grants /\ pending' = pending
  BY DEF RenumberSeeded, RolesInv, SameRows, SameNames
<1>2. CASE Present(seeded)
  <2>1. seeded' = None /\ RoleEdit({"another"}) /\ {"another"} \in SUBSET Happenings
    BY <1>2 DEF RenumberSeeded, Happenings
  <2>2. EditMade({"another"}) /\ StudentsFit' /\ StartsClean' /\ StartsUnlessBroken'
    BY <1>1, <2>1, EditStep
  <2>3. SeededStays
    BY <2>1 DEF SeededStays, ServedFits, Present
  <2> QED BY <1>1, <2>2, <2>3, AccountEditedStep
<1>3. CASE ~Present(seeded)
  <2>1. PICK r \in RoleIds, same \in BOOLEAN, example \in BOOLEAN :
          /\ seeded' = [roles |-> {r}, named |-> same, example |-> example]
          /\ RoleEdit({"demoted", "password"})
    BY <1>3 DEF RenumberSeeded
  <2>2. {"demoted", "password"} \in SUBSET Happenings
    BY DEF Happenings
  <2>3. EditMade({"demoted", "password"}) /\ StudentsFit' /\ StartsClean' /\ StartsUnlessBroken'
    BY <1>1, <2>1, <2>2, EditStep
  <2>4. seeded' \in SeededUser
    BY <2>1 DEF SeededUser
  <2>5. SeededStays
    BY <2>3, <2>4 DEF SeededStays, ServedFits, EditMade
  <2> QED BY <1>1, <2>3, <2>5, AccountEditedStep
<1> QED BY <1>2, <1>3

LEMMA AddressOfAnotherKeeps == ASSUME RolesInv, AddressOfAnother PROVE RolesInv'
<1>1. /\ Serving /\ RoleEdit({"another"}) /\ RolesTypeOK /\ seeded' = seeded
      /\ SameRows /\ SameNames /\ grants' = grants /\ pending' = pending
  BY DEF AddressOfAnother, RolesInv, SameRows, SameNames, roleTables
<1>2. {"another"} \in SUBSET Happenings
  BY DEF Happenings
<1>3. EditMade({"another"}) /\ StudentsFit' /\ StartsClean' /\ StartsUnlessBroken'
  BY <1>1, <1>2, EditStep
<1>4. SeededStays
  BY <1>1, <1>3, SeededUnchanged
<1> QED BY <1>1, <1>3, <1>4, AccountEditedStep

LEMMA EditSeededKeeps == ASSUME RolesInv, EditSeeded PROVE RolesInv'
<1> DEFINE Demoted(kept, r) == IF kept /\ roleName[r] = "Administrador" THEN {} ELSE {"demoted"}
<1>1. /\ Serving /\ Present(seeded) /\ SameRows /\ SameNames /\ grants' = grants
      /\ RolesTypeOK /\ NamesApart /\ RowsKeyed /\ GrantsReal /\ ServedFits /\ AdminFits
  BY DEF EditSeeded, RolesInv, SameRows, SameNames
<1>2. PICK kept \in BOOLEAN, r \in RoleIds :
       /\ seeded' = [seeded EXCEPT !.roles = {}, !.named = kept]
       /\ pending' = [of |-> "roles", ids |-> {r}]
       /\ RoleEdit(Demoted(kept, r))
  BY DEF EditSeeded
<1> DEFINE what == Demoted(kept, r)
<1>3. RoleEdit(what) /\ what \in SUBSET Happenings
  BY <1>2 DEF Happenings
<1>4. "demoted" \notin what => kept /\ r \in Named("Administrador")
  BY DEF Named
<1> HIDE DEF what
<1>5. EditMade(what) /\ StudentsFit' /\ StartsClean' /\ StartsUnlessBroken'
  BY <1>1, <1>3, EditStep
<1>6. seeded' \in SeededUser /\ seeded'.named = kept /\ seeded'.example = seeded.example /\ pending' \in Write
  <2>1. seeded \in SeededUser
    BY <1>1 DEF RolesTypeOK, Present
  <2> QED BY <1>2, <2>1 DEF SeededUser, Write
<1>7. seeded' # None /\ pending' # None /\ pending'.of = "roles" /\ pending'.ids = {r}
  BY <1>2, <1>6, RolesAssumption DEF RolesAssumption
<1>8. RolesPending' /\ ~RolesPending /\ \A s : Soon(s)' = grants[s] /\ Soon(s) = grants[s]
  BY <1>1, <1>5, <1>7, Idle DEF EditMade, RolesPending, Soon, GrantsPending, Present
<1>9. Rows' = Rows /\ RowOf(Protected)' = RowOf(Protected) /\ RowsKeyed'
  BY <1>1, <1>5, RowsStay DEF EditMade
<1>10. NamesApart' /\ Named("Administrador")' = Named("Administrador")
  BY <1>1, NamesStay
<1>11. GrantsReal'
  BY <1>1, <1>8, <1>9 DEF GrantsReal
<1>12. RolesTypeOK'
  <2>1. /\ permission' \in [Permissions -> Permission \cup {None}]
        /\ roleName' \in [RoleIds -> Names \cup {None}] /\ grants' \in [RoleIds -> SUBSET Rows']
    BY <1>1, <1>9 DEF RolesTypeOK, SameRows, SameNames
  <2>2. /\ env' \in Environment /\ boot' \in BootSteps /\ starts' \in 1..MaxStarts /\ edits' \in 0..MaxEdits
        /\ ever' \subseteq Happenings /\ since' \subseteq ever'
    BY <1>1, <1>5 DEF EditMade, RolesTypeOK, BootSteps
  <2> QED BY <1>6, <2>1, <2>2 DEF RolesTypeOK
<1>13. SeededFits'
  <2>1. "demoted" \notin ever' => kept /\ r \in Named("Administrador")
    BY <1>4, <1>5 DEF EditMade
  <2> QED BY <1>6, <1>7, <1>8, <1>10, <2>1 DEF SeededFits, Present
<1>14. AdminFits'
  <2>1. boot' = boot /\ since \subseteq since'
    BY <1>5 DEF EditMade
  <2> QED BY <1>1, <1>8, <1>9, <1>10, <2>1 DEF AdminFits
<1>15. ServedFits'
  BY <1>1, <1>5, <1>6, <1>7 DEF ServedFits, EditMade, Present
<1> QED BY <1>5, <1>9, <1>10, <1>11, <1>12, <1>13, <1>14, <1>15 DEF RolesInv

-----------------------------------------------------------------------------
(* The write in hand, the end of the process and another start.            *)
LEMMA InsertPendingKeeps == ASSUME RolesInv, InsertPending PROVE RolesInv'
<1>1. /\ Present(pending) /\ pending' = None /\ SameRows /\ SameNames
      /\ env' = env /\ boot' = boot /\ starts' = starts /\ edits' = edits /\ ever' = ever /\ since' = since
      /\ RolesTypeOK /\ NamesApart /\ RowsKeyed /\ GrantsReal /\ SeededFits /\ AdminFits
      /\ StudentsFit /\ StartsClean /\ StartsUnlessBroken /\ ServedFits
  BY DEF InsertPending, RolesInv, SameRows, SameNames
<1>2. /\ Rows' = Rows /\ \A c : RowOf(c)' = RowOf(c)
      /\ \A p : CodeOf(p)' = CodeOf(p)
      /\ RowsKeyed'
  BY <1>1, RowsStay
<1>3. NamesApart' /\ \A n : Named(n)' = Named(n)
  BY <1>1, NamesStay
<1>4. ~RolesPending' /\ \A r : Soon(r)' = grants'[r]
  BY <1>1 DEF RolesPending, Soon, GrantsPending, Present
<1>5. /\ grants' \in [RoleIds -> SUBSET Rows] /\ seeded' \in SeededUser \cup {None}
      /\ \A r \in RoleIds : Soon(r)' = Soon(r)
      /\ seeded' = IF RolesPending THEN [seeded EXCEPT !.roles = pending.ids] ELSE seeded
  <2>1. CASE pending.of = "grants"
    <3>1. grants' = [grants EXCEPT ![pending.role] = pending.ids] /\ seeded' = seeded
      BY <2>1 DEF InsertPending
    <3>2. pending \in Write
      BY <1>1 DEF RolesTypeOK, Present
    <3>3. pending.role \in RoleIds /\ pending.ids \in SUBSET Permissions
      BY <2>1, <3>2 DEF Write
    <3>4. Soon(pending.role) = pending.ids
      BY <1>1, <2>1 DEF Soon, GrantsPending
    <3>5. pending.ids \subseteq Rows
      BY <1>1, <3>3, <3>4 DEF GrantsReal
    <3>6. grants' \in [RoleIds -> SUBSET Rows]
      BY <1>1, <3>1, <3>3, <3>5 DEF RolesTypeOK
    <3>7. \A r \in RoleIds : grants'[r] = IF r = pending.role THEN pending.ids ELSE grants[r]
      BY <1>1, <3>1 DEF RolesTypeOK
    <3>8. \A r \in RoleIds : Soon(r)' = Soon(r)
      BY <1>1, <1>4, <2>1, <3>7 DEF Soon, GrantsPending
    <3> QED BY <1>1, <2>1, <3>1, <3>6, <3>8 DEF RolesTypeOK, RolesPending
  <2>2. CASE pending.of # "grants"
    <3>1. seeded' = [seeded EXCEPT !.roles = pending.ids] /\ grants' = grants
      BY <2>2 DEF InsertPending
    <3>2. pending \in Write
      BY <1>1 DEF RolesTypeOK, Present
    <3>3. pending.of = "roles" /\ pending.ids \in SUBSET RoleIds
      BY <2>2, <3>2 DEF Write
    <3>4. RolesPending /\ seeded \in SeededUser
      BY <1>1, <3>3 DEF RolesPending, SeededFits, RolesTypeOK, Present
    <3>5. seeded' \in SeededUser
      BY <3>1, <3>3, <3>4 DEF SeededUser
    <3>6. \A r \in RoleIds : Soon(r)' = Soon(r)
      BY <1>4, <2>2, <3>1 DEF Soon, GrantsPending
    <3> QED BY <1>1, <3>1, <3>4, <3>5, <3>6 DEF RolesTypeOK
  <2> QED BY <2>1, <2>2
<1>6. RolesTypeOK'
  BY <1>1, <1>2, <1>5 DEF RolesTypeOK, SameRows, SameNames
<1>7. GrantsReal'
  BY <1>1, <1>2, <1>5 DEF GrantsReal
<1>8. SeededFits'
  <2> SUFFICES ASSUME Present(seeded'), ever \cap {"renamed", "demoted", "cut"} = {}
               PROVE  \E a \in Named("Administrador") : seeded'.named /\ a \in seeded'.roles
    BY <1>1, <1>3, <1>4 DEF SeededFits
  <2>1. CASE RolesPending
    <3>1. Present(seeded)
      BY <1>1, <2>1 DEF SeededFits
    <3>2. seeded \in SeededUser
      BY <1>1, <3>1 DEF RolesTypeOK, Present
    <3>3. seeded'.roles = pending.ids /\ seeded'.named = seeded.named
      BY <1>5, <2>1, <3>2 DEF SeededUser
    <3>4. \E a \in Named("Administrador") : seeded.named /\ a \in pending.ids
      BY <1>1, <2>1, <3>1 DEF SeededFits
    <3> QED BY <3>3, <3>4
  <2>2. CASE ~RolesPending
    BY <1>1, <1>5, <2>2 DEF SeededFits
  <2> QED BY <2>1, <2>2
<1>9. AdminFits'
  <2>1. \A a \in Named("Administrador") : a \in RoleIds
    BY DEF Named
  <2> QED BY <1>1, <1>2, <1>3, <1>5, <2>1 DEF AdminFits
<1>10. StudentsFit'
  <2>1. \A a \in Named("Estudiante") : a \in RoleIds
    BY DEF Named
  <2> QED BY <1>1, <1>2, <1>3, <1>5, <2>1 DEF StudentsFit
<1>11. /\ Present(seeded') <=> Present(seeded)
       /\ Present(seeded) => seeded'.example = seeded.example
  <2>1. CASE RolesPending
    <3>1. Present(seeded)
      BY <1>1, <2>1 DEF SeededFits
    <3>2. seeded \in SeededUser
      BY <1>1, <3>1 DEF RolesTypeOK, Present
    <3>3. seeded'.example = seeded.example /\ seeded' \in SeededUser
      <4>1. seeded' = [seeded EXCEPT !.roles = pending.ids] /\ pending \in Write
        BY <1>1, <1>5, <2>1 DEF RolesTypeOK, Present
      <4>2. pending.ids \in SUBSET RoleIds
        BY <2>1, <4>1 DEF Write, RolesPending
      <4> QED BY <3>2, <4>1, <4>2 DEF SeededUser
    <3>4. seeded' # None
      BY <3>3, RolesAssumption DEF RolesAssumption
    <3> QED BY <3>1, <3>3, <3>4 DEF Present
  <2>2. CASE ~RolesPending
    BY <1>5, <2>2
  <2> QED BY <2>1, <2>2
<1>12. ServedFits'
  BY <1>1, <1>11 DEF ServedFits, Present
<1>13. StartsUnlessBroken'
  BY <1>1, <1>11 DEF StartsUnlessBroken, Unsafe, Present
<1>14. StartsClean'
  BY <1>1 DEF StartsClean
<1> QED BY <1>2, <1>3, <1>6, <1>7, <1>8, <1>9, <1>10, <1>12, <1>13, <1>14 DEF RolesInv

LEMMA StopsKeeps == ASSUME RolesInv, Stops PROVE RolesInv'
<1> DEFINE what == IF Present(pending) THEN {"cut"} ELSE {}
<1>1. /\ pending' = None /\ SameRows /\ SameNames /\ grants' = grants /\ seeded' = seeded
      /\ env' = env /\ boot' = "stopped" /\ starts' = starts /\ edits' = edits
      /\ RolesTypeOK /\ NamesApart /\ RowsKeyed /\ GrantsReal /\ SeededFits
  BY DEF Stops, RolesInv, SameRows, SameNames, roleTables
<1>2. ever' = ever \cup what /\ since' = since \cup what
  BY DEF Stops, Happened
<1>3. ever' \subseteq Happenings /\ since' \subseteq ever' /\ ever \subseteq ever'
  BY <1>1, <1>2 DEF RolesTypeOK, Happenings
<1>4. Rows' = Rows /\ RowsKeyed' /\ NamesApart' /\ \A n : Named(n)' = Named(n)
  BY <1>1, <1>3, RowsStay, NamesStay
<1>5. ~RolesPending' /\ \A r : Soon(r)' = grants[r]
  BY <1>1 DEF RolesPending, Soon, GrantsPending, Present
<1>6. RolesTypeOK'
  BY <1>1, <1>3, <1>4 DEF RolesTypeOK, BootSteps, SameRows, SameNames
<1>7. GrantsReal'
  BY <1>1, <1>4, <1>5 DEF GrantsReal, RolesTypeOK
<1>8. SeededFits'
  <2>1. "cut" \notin ever' => ~RolesPending
    BY <1>2 DEF RolesPending
  <2> QED BY <1>1, <1>3, <1>4, <1>5, <2>1 DEF SeededFits
<1>9. boot' \notin PermissionsDone /\ boot' \notin AdminDone /\ boot' \notin RolesDone
      /\ boot' \notin OwnDone /\ boot' \notin WholeDone
  BY <1>1 DEF PermissionsDone, AdminDone, RolesDone, OwnDone, WholeDone
<1>10. ServedFits' /\ AdminFits' /\ StudentsFit' /\ StartsClean' /\ StartsUnlessBroken'
  BY <1>1, <1>9 DEF ServedFits, AdminFits, StudentsFit, StartsClean, StartsUnlessBroken
<1> QED BY <1>4, <1>6, <1>7, <1>8, <1>10 DEF RolesInv

LEMMA StartsKeeps == ASSUME RolesInv, Starts PROVE RolesInv'
<1>1. /\ pending' = pending /\ SameRows /\ SameNames /\ grants' = grants /\ seeded' = seeded
      /\ boot' = "permissions" /\ starts < MaxStarts /\ starts' = starts + 1 /\ edits' = 0
      /\ env' \in Environment /\ ever' = ever /\ since' = {}
      /\ RolesTypeOK /\ NamesApart /\ RowsKeyed /\ GrantsReal /\ SeededFits
  BY DEF Starts, RolesInv, SameRows, SameNames, roleTables
<1>2. Rows' = Rows /\ RowsKeyed' /\ NamesApart' /\ \A n : Named(n)' = Named(n)
  BY <1>1, RowsStay, NamesStay
<1>3. RolesPending' = RolesPending /\ \A r : Soon(r)' = Soon(r)
  BY <1>1 DEF RolesPending, Soon, GrantsPending
<1>4. RolesTypeOK'
  <2>1. starts' \in 1..MaxStarts /\ edits' \in 0..MaxEdits
    BY <1>1, RolesAssumption DEF RolesTypeOK, RolesAssumption
  <2> QED BY <1>1, <1>2, <2>1 DEF RolesTypeOK, BootSteps, SameRows, SameNames
<1>5. GrantsReal'
  BY <1>1, <1>2, <1>3 DEF GrantsReal
<1>6. SeededFits'
  BY <1>1, <1>2, <1>3 DEF SeededFits
<1>7. boot' \notin PermissionsDone /\ boot' \notin AdminDone /\ boot' \notin RolesDone
      /\ boot' \notin OwnDone /\ boot' \notin WholeDone
  BY <1>1 DEF PermissionsDone, AdminDone, RolesDone, OwnDone, WholeDone
<1>8. ServedFits' /\ AdminFits' /\ StudentsFit' /\ StartsClean' /\ StartsUnlessBroken'
  BY <1>1, <1>7 DEF ServedFits, AdminFits, StudentsFit, StartsClean, StartsUnlessBroken
<1> QED BY <1>2, <1>4, <1>5, <1>6, <1>8 DEF RolesInv

-----------------------------------------------------------------------------
(* The queries of a start.                                                 *)
StartKeeps ==
  env' = env /\ starts' = starts /\ edits' = edits /\ ever' = ever /\ since' = since

\* The start fails, or goes on to a step that asks for no more than what is done.
LEMMA StartTyped ==
  ASSUME RolesTypeOK, StartKeeps, boot' \in BootSteps, SameRows,
         roleName' \in [RoleIds -> Names \cup {None}], grants' \in [RoleIds -> SUBSET Rows],
         seeded' \in SeededUser \cup {None}, pending' \in Write \cup {None}
  PROVE  RolesTypeOK'
<1>1. Rows' = Rows
  BY RowsStay
<1> QED BY <1>1 DEF RolesTypeOK, StartKeeps, SameRows

LEMMA EnsurePermissionKeeps == ASSUME RolesInv, EnsurePermission PROVE RolesInv'
<1>1. /\ SameNames /\ grants' = grants /\ seeded' = seeded /\ pending' = pending /\ StartKeeps
      /\ boot = "permissions" /\ pending = None
      /\ RolesTypeOK /\ NamesApart /\ RowsKeyed /\ GrantsReal /\ SeededFits /\ StartsClean
  BY DEF EnsurePermission, RolesInv, SameNames, At, StartKeeps
<1>2. PICK c \in Catalogue :
       /\ RowOf(c) = {}
       /\ IF \E p \in Rows : permission[p].slot = c
          THEN boot' = "failed" /\ UNCHANGED permission
          ELSE permission' = [permission EXCEPT ![FreeRow] = [code |-> c, slot |-> c]] /\ UNCHANGED boot
  BY DEF EnsurePermission
<1>3. NamesApart' /\ \A n : Named(n)' = Named(n)
  BY <1>1, NamesStay
<1>4. ~RolesPending /\ ~RolesPending' /\ \A r : Soon(r)' = grants[r] /\ Soon(r) = grants[r]
  BY <1>1, Idle DEF RolesPending, Soon, GrantsPending, Present
<1>5. SeededFits'
  BY <1>1, <1>3, <1>4 DEF SeededFits, StartKeeps
<1>6. ASSUME boot' = "permissions" \/ boot' = "failed"
      PROVE  ServedFits' /\ AdminFits' /\ StudentsFit' /\ StartsClean'
  <2>1. boot' \notin PermissionsDone /\ boot' \notin AdminDone /\ boot' \notin RolesDone
        /\ boot' \notin OwnDone /\ boot' \notin WholeDone
    BY <1>6 DEF PermissionsDone, AdminDone, RolesDone, OwnDone, WholeDone
  <2> QED BY <1>1, <1>6, <2>1 DEF ServedFits, AdminFits, StudentsFit, StartsClean, StartKeeps
<1>7. CASE \E p \in Rows : permission[p].slot = c
  <2>1. boot' = "failed" /\ SameRows
    BY <1>2, <1>7 DEF SameRows
  <2>2. Rows' = Rows /\ RowsKeyed'
    BY <1>1, <2>1, RowsStay DEF StartKeeps
  <2>3. PICK p \in Rows : permission[p].slot = c
    BY <1>7
  <2>4. permission[p].code # c
    BY <1>2 DEF RowOf, CodeOf
  <2>5. "miscoded" \in ever
    BY <1>1, <2>3, <2>4 DEF RowsKeyed
  <2>6. StartsUnlessBroken'
    BY <1>1, <2>5 DEF StartsUnlessBroken, StartKeeps
  <2>7. RolesTypeOK'
    BY <1>1, <2>1, StartTyped DEF RolesTypeOK, BootSteps, SameNames
  <2>8. GrantsReal'
    BY <1>1, <1>4, <2>2 DEF GrantsReal
  <2> QED BY <1>3, <1>5, <1>6, <2>1, <2>2, <2>6, <2>7, <2>8 DEF RolesInv
<1>8. CASE ~\E p \in Rows : permission[p].slot = c
  <2>1. permission' = [permission EXCEPT ![FreeRow] = [code |-> c, slot |-> c]] /\ boot' = "permissions"
    BY <1>1, <1>2, <1>8
  <2>2. c \in Codes
    BY DEF Codes
  <2>3. PICK p \in Permissions : p = FreeRow /\ permission[p] = None
    BY <1>1, <1>2, <2>2, RowFree
  <2> DEFINE row == [code |-> c, slot |-> c]
  <2>4. row \in Permission /\ row.code = c /\ row.slot = c
    BY <2>2 DEF Permission
  <2>5. \A q \in Rows : CodeOf(q) # c /\ permission[q].slot # c
    BY <1>2, <1>8 DEF RowOf
  <2>6. permission' = [permission EXCEPT ![p] = row]
    BY <2>1, <2>3
  <2> HIDE DEF row
  <2>7. RowWritten(p, row)
    BY <2>4, <2>5, <2>6 DEF RowWritten, Unused
  <2>8. /\ permission' \in [Permissions -> Permission \cup {None}] /\ RowsKeyed'
        /\ Rows' = Rows \cup {p}
    BY <1>1, <2>4, <2>7, RowStep DEF StartKeeps
  <2>9. GrantsReal'
    BY <1>1, <1>4, <2>8 DEF GrantsReal
  <2>10. RolesTypeOK'
    BY <1>1, <2>1, <2>8 DEF RolesTypeOK, StartKeeps, SameNames
  <2>11. StartsUnlessBroken'
    BY <2>1 DEF StartsUnlessBroken
  <2> QED BY <1>3, <1>5, <1>6, <2>1, <2>8, <2>9, <2>10, <2>11 DEF RolesInv
<1> QED BY <1>7, <1>8

\* A step of a start that writes no permission: what it must leave behind.
LEMMA StartStep ==
  ASSUME RolesInv, StartKeeps, SameRows, boot' \in BootSteps, boot' \notin {"serving", "failed"},
         boot \notin {"serving", "failed", "stopped"},
         roleName' \in [RoleIds -> Names \cup {None}], NamesApart',
         grants' \in [RoleIds -> SUBSET Rows], GrantsReal', pending' \in Write \cup {None},
         seeded' \in SeededUser \cup {None}, SeededFits', AdminFits', StudentsFit'
  PROVE  RolesInv'
<1>1. RolesTypeOK /\ RowsKeyed /\ StartsClean /\ ever' = ever
  BY DEF RolesInv, StartKeeps
<1>2. RolesTypeOK'
  BY <1>1, StartTyped
<1>3. RowsKeyed'
  BY <1>1, RowsStay
<1>4. since' = {}
  BY <1>1 DEF StartsClean, StartKeeps
<1>5. ServedFits' /\ StartsClean' /\ StartsUnlessBroken'
  BY <1>4 DEF ServedFits, StartsClean, StartsUnlessBroken
<1> QED BY <1>2, <1>3, <1>5 DEF RolesInv

LEMMA PermissionsEnsuredKeeps == ASSUME RolesInv, PermissionsEnsured PROVE RolesInv'
<1>1. /\ StartKeeps /\ SameRows /\ SameNames /\ grants' = grants /\ seeded' = seeded /\ pending' = pending
      /\ boot = "permissions" /\ boot' = "admin role" /\ pending = None
      /\ \A c \in Catalogue : RowOf(c) # {}
      /\ RolesTypeOK /\ NamesApart /\ GrantsReal /\ SeededFits
  BY DEF PermissionsEnsured, RolesInv, StartKeeps, SameRows, SameNames, At, roleTables
<1>2. Rows' = Rows /\ RowOf(Protected)' = RowOf(Protected)
  BY <1>1, RowsStay
<1>3. NamesApart' /\ \A n : Named(n)' = Named(n)
  BY <1>1, NamesStay
<1>4. RolesPending' = RolesPending /\ \A r : Soon(r)' = Soon(r)
  BY <1>1 DEF RolesPending, Soon, GrantsPending
<1>5. GrantsReal' /\ SeededFits'
  BY <1>1, <1>2, <1>3, <1>4 DEF GrantsReal, SeededFits, StartKeeps
<1>6. AdminFits'
  BY <1>1, <1>2 DEF AdminFits, AdminDone, Catalogue
<1>7. StudentsFit'
  BY <1>1 DEF StudentsFit, WholeDone, OwnDone, RolesDone, AdminDone, PermissionsDone
<1> QED BY <1>1, <1>3, <1>5, <1>6, <1>7, StartStep DEF RolesTypeOK, SameNames, BootSteps

LEMMA IdOfName ==
  ASSUME NamesApart, NEW n, NEW r \in Named(n), n # None PROVE RowId(n) = r /\ Named(n) = {r}
<1>1. Named(n) = {r}
  BY DEF NamesApart, Named, Present
<1>2. \A s \in RoleIds : roleName[s] = n => s = r
  BY <1>1 DEF Named
<1>3. r \in RoleIds /\ roleName[r] = n
  BY DEF Named
<1> QED BY <1>1, <1>2, <1>3 DEF RowId

LEMMA NamesAreNames ==
  /\ "Administrador" # None /\ "Docente" # None /\ "Estudiante" # None
  /\ "Administrador" \in Names /\ "Docente" \in Names /\ "Estudiante" \in Names
<1>1. "Administrador" \in Names /\ "Docente" \in Names /\ "Estudiante" \in Names
  BY DEF Names
<1>2. None \notin Names
  BY RolesAssumption DEF RolesAssumption
<1> QED BY <1>1, <1>2

LEMMA EnsureAdminRoleKeeps == ASSUME RolesInv, EnsureAdminRole PROVE RolesInv'
<1>1. /\ StartKeeps /\ SameRows /\ seeded' = seeded
      /\ boot = "admin role" /\ boot' = "other roles" /\ pending = None
      /\ RolesTypeOK /\ NamesApart /\ GrantsReal /\ SeededFits /\ AdminFits
  BY DEF EnsureAdminRole, RolesInv, StartKeeps, SameRows, At
<1>2. Rows' = Rows /\ RowOf(Protected)' = RowOf(Protected) /\ RowOf(Protected) \subseteq Rows
  BY <1>1, RowsStay DEF RowOf
<1>3. ~RolesPending /\ \A r : Soon(r) = grants[r]
  BY <1>1, Idle
<1>4. StudentsFit'
  BY <1>1 DEF StudentsFit, WholeDone, OwnDone, RolesDone, AdminDone, PermissionsDone
<1>5. since' = since /\ ever' = ever /\ boot \in PermissionsDone
  BY <1>1 DEF StartKeeps, PermissionsDone
<1>6. CASE Named("Administrador") = {}
  <2>1. roleName' = [roleName EXCEPT ![FreeRole] = "Administrador"] /\ ReplaceGrants(FreeRole, Rows)
    BY <1>6 DEF EnsureAdminRole
  <2>2. PICK r \in RoleIds : r = FreeRole /\ roleName[r] = None
    BY <1>1, <1>6, NamesAreNames, RoleIdFree
  <2>3. NameGiven(r, "Administrador")
    BY <1>6, <2>1, <2>2, NamesAreNames DEF NameGiven
  <2>4. /\ roleName' \in [RoleIds -> Names \cup {None}] /\ NamesApart'
        /\ Named("Administrador")' = {r}
    BY <1>1, <2>3, NameStep
  <2>5. Rows \in SUBSET Rows /\ ReplaceGrants(r, Rows)
    BY <2>1, <2>2
  <2>6. GrantsReplaced(r, Rows)
    BY <1>1, <2>5, GrantStep
  <2>7. /\ \A s \in RoleIds : Soon(s)' = IF s = r THEN Rows ELSE Soon(s)
        /\ grants' \in [RoleIds -> SUBSET Rows] /\ pending' \in Write \cup {None} /\ ~RolesPending'
    BY <2>6 DEF GrantsReplaced
  <2>8. GrantsReal'
    BY <1>1, <1>2, <2>7 DEF GrantsReal
  <2>9. SeededFits'
    BY <1>1, <1>5, <1>6, <2>7 DEF SeededFits
  <2>10. AdminFits'
    BY <1>1, <1>2, <1>5, <2>4, <2>7 DEF AdminFits
  <2> QED BY <1>1, <1>4, <2>4, <2>7, <2>8, <2>9, <2>10, StartStep DEF RolesTypeOK, BootSteps
<1>7. ASSUME NEW r \in Named("Administrador") PROVE RolesInv'
  <2>1. RowId("Administrador") = r /\ Named("Administrador") = {r} /\ r \in RoleIds
    BY <1>1, <1>7, NamesAreNames, IdOfName DEF Named
  <2>2. /\ IF Rows \subseteq grants[r] THEN UNCHANGED <<grants, pending>>
           ELSE ReplaceGrants(r, grants[r] \cup Rows)
        /\ SameNames
    BY <1>7, <2>1 DEF EnsureAdminRole, SameNames
  <2>3. NamesApart' /\ \A n : Named(n)' = Named(n)
    BY <1>1, <2>2, NamesStay
  <2>4. /\ grants' \in [RoleIds -> SUBSET Rows] /\ pending' \in Write \cup {None} /\ ~RolesPending'
        /\ \A s \in RoleIds : Soon(s)' = IF s = r THEN Rows ELSE Soon(s)
    <3>1. grants[r] \subseteq Rows
      BY <1>1, <2>1 DEF RolesTypeOK
    <3>2. CASE Rows \subseteq grants[r]
      <4>1. grants' = grants /\ pending' = None
        BY <1>1, <2>2, <3>2
      <4>2. ~RolesPending' /\ \A s \in RoleIds : Soon(s)' = grants[s]
        BY <4>1 DEF RolesPending, Soon, GrantsPending, Present
      <4>3. grants[r] = Rows
        BY <3>1, <3>2
      <4> QED BY <1>1, <1>3, <4>1, <4>2, <4>3 DEF RolesTypeOK
    <3>3. CASE ~(Rows \subseteq grants[r])
      <4>1. grants[r] \cup Rows = Rows
        BY <3>1
      <4>2. Rows \in SUBSET Rows /\ ReplaceGrants(r, Rows)
        BY <2>2, <3>3, <4>1
      <4>3. GrantsReplaced(r, Rows)
        BY <1>1, <2>1, <4>2, GrantStep
      <4> QED BY <4>3 DEF GrantsReplaced
    <3> QED BY <3>2, <3>3
  <2>5. GrantsReal'
    BY <1>1, <1>2, <2>4 DEF GrantsReal
  <2>6. SeededFits'
    BY <1>1, <1>3, <1>5, <2>3, <2>4 DEF SeededFits
  <2>7. AdminFits'
    <3>1. r \in Named("Administrador")' /\ RowOf(Protected)' \subseteq Soon(r)'
      BY <1>2, <2>1, <2>3, <2>4
    <3>2. since' \cap {"miscoded", "renamed", "cut"} = {} => RowOf(Protected)' # {}
      BY <1>1, <1>2, <1>5 DEF AdminFits
    <3> QED BY <3>1, <3>2 DEF AdminFits
  <2>8. roleName' \in [RoleIds -> Names \cup {None}]
    BY <1>1, <2>2 DEF SameNames, RolesTypeOK
  <2> QED BY <1>1, <1>4, <2>3, <2>4, <2>5, <2>6, <2>7, <2>8, StartStep DEF RolesTypeOK, BootSteps
<1> QED BY <1>6, <1>7

LEMMA EnsureOtherRoleKeeps == ASSUME RolesInv, EnsureOtherRole PROVE RolesInv'
<1> DEFINE missing == {n \in {"Docente", "Estudiante"} : Named(n) = {}}
<1>1. /\ StartKeeps /\ SameRows /\ seeded' = seeded /\ grants' = grants /\ pending' = pending
      /\ boot = "other roles" /\ pending = None
      /\ RolesTypeOK /\ NamesApart /\ GrantsReal /\ SeededFits /\ AdminFits
  BY DEF EnsureOtherRole, RolesInv, StartKeeps, SameRows, At
<1>2. IF missing = {} THEN boot' = "own schedule" /\ SameNames
      ELSE (\E n \in missing : roleName' = [roleName EXCEPT ![FreeRole] = n]) /\ boot' = boot
  BY DEF EnsureOtherRole, SameNames
<1>3. Rows' = Rows /\ RowOf(Protected)' = RowOf(Protected)
  BY <1>1, RowsStay
<1>4. RolesPending' = RolesPending /\ \A r : Soon(r)' = Soon(r)
  BY <1>1 DEF RolesPending, Soon, GrantsPending
<1>5. GrantsReal' /\ grants' \in [RoleIds -> SUBSET Rows]
  BY <1>1, <1>3, <1>4 DEF GrantsReal, RolesTypeOK
<1>6. since' = since /\ ever' = ever /\ boot \in PermissionsDone /\ boot \in AdminDone
  BY <1>1 DEF StartKeeps, PermissionsDone, AdminDone
<1>7. ASSUME Named("Administrador")' = Named("Administrador") PROVE SeededFits' /\ AdminFits'
  <2>1. SeededFits'
    BY <1>1, <1>4, <1>6, <1>7 DEF SeededFits
  <2>2. AdminFits'
    BY <1>1, <1>3, <1>4, <1>6, <1>7 DEF AdminFits
  <2> QED BY <2>1, <2>2
<1>8. CASE missing = {}
  <2>1. NamesApart' /\ \A n : Named(n)' = Named(n)
    BY <1>1, <1>2, <1>8, NamesStay
  <2>2. boot' = "own schedule" /\ roleName' \in [RoleIds -> Names \cup {None}]
    BY <1>1, <1>2, <1>8 DEF RolesTypeOK, SameNames
  <2>3. Named("Estudiante") # {}
    BY <1>8
  <2>4. StudentsFit'
    BY <2>1, <2>2, <2>3 DEF StudentsFit, WholeDone, OwnDone
  <2>5. SeededFits' /\ AdminFits'
    BY <1>7, <2>1
  <2> QED BY <1>1, <1>5, <2>1, <2>2, <2>4, <2>5, StartStep DEF RolesTypeOK, BootSteps
<1>9. CASE missing # {}
  <2>1. PICK n \in missing : roleName' = [roleName EXCEPT ![FreeRole] = n]
    BY <1>2, <1>9
  <2>2. boot' = "other roles" /\ Named(n) = {} /\ n \in Names /\ n # "Administrador"
    BY <1>1, <1>2, <1>9, NamesAreNames
  <2>3. PICK r \in RoleIds : r = FreeRole /\ roleName[r] = None
    BY <1>1, <2>2, RoleIdFree
  <2>4. NameGiven(r, n)
    BY <2>1, <2>2, <2>3 DEF NameGiven
  <2>5. /\ roleName' \in [RoleIds -> Names \cup {None}] /\ NamesApart'
        /\ Named("Administrador")' = Named("Administrador")
    BY <1>1, <2>2, <2>3, <2>4, NameStep, NamesAreNames
  <2>6. StudentsFit'
    BY <2>2 DEF StudentsFit, WholeDone, OwnDone, RolesDone
  <2>7. SeededFits' /\ AdminFits'
    BY <1>7, <2>5
  <2> QED BY <1>1, <1>5, <2>2, <2>5, <2>6, <2>7, StartStep DEF RolesTypeOK, BootSteps
<1> QED BY <1>8, <1>9

\* A step that replaces the grants of one role, or of none, and takes from no role
\* what protects the administrators.
LEMMA StartGrants ==
  ASSUME RolesInv, StartKeeps, SameRows, SameNames, seeded' = seeded, pending = None,
         boot \in RolesDone, boot # "serving", boot' \in RolesDone, boot' # "serving",
         NEW r \in RoleIds, NEW ids \in SUBSET Rows,
         GrantsReplaced(r, ids), RowOf(Protected) \cap grants[r] \subseteq ids, StudentsFit'
  PROVE  RolesInv'
<1>1. RolesTypeOK /\ NamesApart /\ GrantsReal /\ SeededFits /\ AdminFits
  BY DEF RolesInv
<1>2. Rows' = Rows /\ RowOf(Protected)' = RowOf(Protected)
  BY RowsStay
<1>3. NamesApart' /\ \A n : Named(n)' = Named(n)
  BY <1>1, NamesStay
<1>4. ~RolesPending /\ \A s : Soon(s) = grants[s]
  BY Idle
<1>5. /\ \A s \in RoleIds : Soon(s)' = IF s = r THEN ids ELSE Soon(s)
      /\ grants' \in [RoleIds -> SUBSET Rows] /\ pending' \in Write \cup {None} /\ ~RolesPending'
  BY DEF GrantsReplaced
<1>6. since' = since /\ ever' = ever
  BY DEF StartKeeps
<1>7. boot \in AdminDone /\ boot \in PermissionsDone /\ boot \notin {"serving", "failed", "stopped"}
      /\ boot' \notin {"serving", "failed"} /\ boot' \in BootSteps
  BY DEF RolesDone, AdminDone, PermissionsDone, BootSteps
<1>8. GrantsReal'
  BY <1>1, <1>2, <1>5 DEF GrantsReal
<1>9. SeededFits'
  BY <1>1, <1>3, <1>4, <1>5, <1>6 DEF SeededFits
<1>10. AdminFits'
  <2> SUFFICES ASSUME since \cap {"miscoded", "renamed", "cut"} = {}
               PROVE  /\ RowOf(Protected) # {}
                      /\ \E a \in Named("Administrador") : RowOf(Protected) \subseteq Soon(a)'
    BY <1>2, <1>3, <1>6 DEF AdminFits
  <2>1. RowOf(Protected) # {}
    BY <1>1, <1>7 DEF AdminFits
  <2>2. PICK a \in Named("Administrador") : RowOf(Protected) \subseteq Soon(a)
    BY <1>1, <1>7 DEF AdminFits
  <2>3. a \in RoleIds
    BY DEF Named
  <2>4. RowOf(Protected) \subseteq Soon(a)'
    BY <1>4, <1>5, <2>2, <2>3
  <2> QED BY <2>1, <2>4
<1>11. roleName' \in [RoleIds -> Names \cup {None}] /\ seeded' \in SeededUser \cup {None}
  BY <1>1 DEF RolesTypeOK, SameNames
<1> QED BY <1>3, <1>5, <1>7, <1>8, <1>9, <1>10, <1>11, StartStep

\* Replacing the grants of a role by what they are is to leave them alone.
LEMMA GrantsAsTheyAre ==
  ASSUME RolesTypeOK, pending = None, grants' = grants, pending' = pending, NEW r \in RoleIds
  PROVE  GrantsReplaced(r, grants[r])
<1>1. \A s : Soon(s) = grants[s] /\ Soon(s)' = grants[s]
  BY DEF Soon, GrantsPending, Present
<1>2. ~RolesPending' /\ pending' \in Write \cup {None} /\ grants' \in [RoleIds -> SUBSET Rows]
  BY DEF RolesPending, Present, RolesTypeOK
<1> QED BY <1>1, <1>2 DEF GrantsReplaced

LEMMA GrantOwnScheduleKeeps == ASSUME RolesInv, GrantOwnSchedule PROVE RolesInv'
<1> DEFINE lacking == {r \in Named("Docente") \cup Named("Estudiante") : RowOf(Own) \cap grants[r] = {}}
<1>1. /\ StartKeeps /\ SameRows /\ SameNames /\ seeded' = seeded
      /\ boot = "own schedule" /\ pending = None
      /\ RolesTypeOK /\ NamesApart /\ StudentsFit /\ StartsClean
  BY DEF GrantOwnSchedule, RolesInv, StartKeeps, SameRows, SameNames, At
<1>2. IF lacking = {} THEN boot' = "no whole schedule" /\ grants' = grants /\ pending' = pending
      ELSE (\E r \in lacking : ReplaceGrants(r, grants[r] \cup RowOf(Own))) /\ boot' = boot
  BY DEF GrantOwnSchedule
<1>3. since = {} /\ since' = {} /\ boot \in RolesDone
  BY <1>1 DEF StartsClean, StartKeeps, RolesDone, AdminDone, PermissionsDone
<1>4. Named("Estudiante") # {} /\ Named("Estudiante")' = Named("Estudiante") /\ RowOf(Own)' = RowOf(Own)
  BY <1>1, <1>3, NamesStay, RowsStay DEF StudentsFit
<1>5. CASE lacking = {}
  <2>1. boot' = "no whole schedule" /\ grants' = grants /\ pending' = pending
    BY <1>2, <1>5
  <2>2. PICK r : r \in Named("Estudiante")
    BY <1>4
  <2>3. r \in RoleIds /\ grants[r] \in SUBSET Rows
    BY <1>1, <2>2 DEF Named, RolesTypeOK
  <2>4. GrantsReplaced(r, grants[r])
    BY <1>1, <2>1, <2>3, GrantsAsTheyAre
  <2>5. \A s : Soon(s)' = grants[s]
    BY <1>1, <2>1 DEF Soon, GrantsPending, Present
  <2>6. \A s \in Named("Estudiante") : RowOf(Own) \cap grants[s] # {}
    BY <1>5
  <2>7. boot' \notin WholeDone
    BY <2>1 DEF WholeDone
  <2>8. StudentsFit'
    BY <1>4, <2>5, <2>6, <2>7 DEF StudentsFit
  <2>9. boot' \in RolesDone /\ boot' # "serving"
    BY <2>1 DEF RolesDone, AdminDone, PermissionsDone
  <2> QED BY <1>1, <1>3, <2>3, <2>4, <2>8, <2>9, StartGrants
<1>6. CASE lacking # {}
  <2>1. PICK r \in lacking : ReplaceGrants(r, grants[r] \cup RowOf(Own))
    BY <1>2, <1>6
  <2>2. boot' = boot
    BY <1>2, <1>6
  <2>3. r \in RoleIds
    BY DEF Named
  <2> DEFINE ids == grants[r] \cup RowOf(Own)
  <2>4. PICK new \in SUBSET Rows : new = ids
    BY <1>1, <2>3 DEF RowOf, RolesTypeOK
  <2>5. GrantsReplaced(r, new)
    BY <1>1, <2>1, <2>3, <2>4, GrantStep
  <2>6. StudentsFit'
    BY <1>1, <1>4, <2>2 DEF StudentsFit, OwnDone, WholeDone
  <2>7. RowOf(Protected) \cap grants[r] \subseteq new
    BY <2>4
  <2> QED BY <1>1, <1>3, <2>2, <2>3, <2>5, <2>6, <2>7, StartGrants
<1> QED BY <1>5, <1>6

LEMMA RevokeWholeScheduleKeeps == ASSUME RolesInv, RevokeWholeSchedule PROVE RolesInv'
<1>1. /\ StartKeeps /\ SameRows /\ SameNames /\ seeded' = seeded
      /\ boot = "no whole schedule" /\ boot' = "admin user" /\ pending = None
      /\ RolesTypeOK /\ NamesApart /\ StudentsFit /\ StartsClean
  BY DEF RevokeWholeSchedule, RolesInv, StartKeeps, SameRows, SameNames, At
<1>2. since = {} /\ since' = {} /\ boot \in RolesDone /\ boot' \in RolesDone /\ boot \in OwnDone
  BY <1>1 DEF StartsClean, StartKeeps, OwnDone, RolesDone, AdminDone, PermissionsDone
<1>3. /\ Named("Estudiante") # {} /\ Named("Estudiante")' = Named("Estudiante")
      /\ RowOf(Own)' = RowOf(Own) /\ \A p : CodeOf(p)' = CodeOf(p)
  BY <1>1, <1>2, NamesStay, RowsStay DEF StudentsFit
<1>4. PICK r : r \in Named("Estudiante")
  BY <1>3
<1>5. RowId("Estudiante") = r /\ Named("Estudiante") = {r} /\ r \in RoleIds
  BY <1>1, <1>4, NamesAreNames, IdOfName DEF Named
<1>6. PICK kept : kept = {p \in grants[r] : CodeOf(p) \notin Whole}
  OBVIOUS
<1>7. kept \in SUBSET Rows
  BY <1>1, <1>5, <1>6 DEF RolesTypeOK
<1>8. IF kept = grants[r] THEN grants' = grants /\ pending' = pending ELSE ReplaceGrants(r, kept)
  BY <1>5, <1>6 DEF RevokeWholeSchedule
<1>9. GrantsReplaced(r, kept)
  <2>1. CASE kept = grants[r]
    <3>1. GrantsReplaced(r, grants[r])
      BY <1>1, <1>5, <1>8, <2>1, GrantsAsTheyAre
    <3>2. grants[r] = kept /\ grants' = grants
      BY <1>8, <2>1
    <3> QED BY <3>1, <3>2
  <2>2. CASE kept # grants[r]
    BY <1>1, <1>5, <1>7, <1>8, <2>2, GrantStep
  <2> QED BY <2>1, <2>2
<1>10. \A p \in RowOf(Protected) \cup RowOf(Own) : CodeOf(p) \notin Whole
  BY DEF RowOf, Protected, Own, Whole
<1>11. Soon(r)' = kept /\ Soon(r) = grants[r]
  BY <1>1, <1>5, <1>9, Idle DEF GrantsReplaced
<1>12. RowOf(Own) \cap kept # {}
  <2>1. RowOf(Own) \cap grants[r] # {}
    BY <1>1, <1>2, <1>4, <1>11 DEF StudentsFit
  <2> QED BY <1>6, <1>10, <2>1
<1>13. StudentsFit'
  BY <1>3, <1>5, <1>6, <1>11, <1>12 DEF StudentsFit
<1>14. RowOf(Protected) \cap grants[r] \subseteq kept
  BY <1>6, <1>10
<1> QED BY <1>1, <1>2, <1>5, <1>7, <1>9, <1>13, <1>14, StartGrants

\* The end of a start: it serves or it fails, and writes nothing but the seeded user.
LEMMA AdminUserStep ==
  ASSUME RolesInv, StartKeeps, SameRows, SameNames, grants' = grants, boot = "admin user",
         boot' \in {"serving", "failed"}, seeded' \in SeededUser \cup {None},
         pending' \in Write \cup {None}, \A s \in RoleIds : Soon(s)' = Soon(s),
         SeededFits', ServedFits', StartsUnlessBroken'
  PROVE  RolesInv'
<1>1. RolesTypeOK /\ NamesApart /\ RowsKeyed /\ GrantsReal /\ AdminFits /\ StudentsFit
  BY DEF RolesInv
<1>2. /\ since' = since /\ ever' = ever
      /\ boot \in PermissionsDone /\ boot \in AdminDone /\ boot \in RolesDone
      /\ boot \in OwnDone /\ boot \in WholeDone
  BY DEF StartKeeps, PermissionsDone, AdminDone, RolesDone, OwnDone, WholeDone
<1>3. /\ Rows' = Rows /\ RowsKeyed' /\ \A c : RowOf(c)' = RowOf(c)
      /\ \A p : CodeOf(p)' = CodeOf(p)
  BY <1>1, <1>2, RowsStay
<1>4. NamesApart' /\ \A n : Named(n)' = Named(n)
  BY <1>1, NamesStay
<1>5. GrantsReal'
  BY <1>1, <1>3 DEF GrantsReal
<1>6. AdminFits'
  <2>1. \A a \in Named("Administrador") : a \in RoleIds
    BY DEF Named
  <2> QED BY <1>1, <1>2, <1>3, <1>4, <2>1 DEF AdminFits
<1>7. StudentsFit'
  <2>1. \A s \in Named("Estudiante") : s \in RoleIds
    BY DEF Named
  <2> QED BY <1>1, <1>2, <1>3, <1>4, <2>1 DEF StudentsFit
<1>8. StartsClean'
  BY DEF StartsClean
<1>9. RolesTypeOK'
  BY <1>1, StartTyped DEF RolesTypeOK, BootSteps, SameNames
<1> QED BY <1>3, <1>4, <1>5, <1>6, <1>7, <1>8, <1>9 DEF RolesInv

\* The one role of the administrators, once it was ensured.
LEMMA AdminRole ==
  ASSUME RolesInv, boot = "admin user"
  PROVE  \E a \in RoleIds : RowId("Administrador") = a /\ Named("Administrador") = {a}
<1>1. NamesApart /\ AdminFits /\ since = {}
  BY DEF RolesInv, StartsClean
<1>2. PICK a \in Named("Administrador") : RowOf(Protected) \subseteq Soon(a)
  BY <1>1 DEF AdminFits, AdminDone, PermissionsDone
<1> QED BY <1>1, <1>2, NamesAreNames, IdOfName DEF Named

LEMMA FoundAdminUserKeeps == ASSUME RolesInv, FoundAdminUser PROVE RolesInv'
<1>1. /\ StartKeeps /\ SameRows /\ SameNames /\ grants' = grants /\ pending' = pending
      /\ boot = "admin user" /\ pending = None /\ (env.other \/ Present(seeded))
      /\ RolesTypeOK /\ NamesApart /\ SeededFits
  BY DEF FoundAdminUser, RolesInv, StartKeeps, SameRows, SameNames, At
<1>2. ~RolesPending /\ ~RolesPending' /\ \A s : Soon(s)' = Soon(s) /\ Soon(s) = grants[s]
  BY <1>1, Idle DEF RolesPending, Soon, GrantsPending
<1>3. Named("Administrador")' = Named("Administrador") /\ ever' = ever /\ env' = env
  BY <1>1, NamesStay DEF StartKeeps
<1>4. CASE env.other
  <2>1. seeded' = seeded /\ (boot' = "serving" \/ (boot' = "failed" /\ Unsafe))
    BY <1>4 DEF FoundAdminUser, Serves, Fails
  <2>2. SeededFits'
    BY <1>1, <1>2, <1>3, <2>1 DEF SeededFits
  <2>3. ServedFits' /\ StartsUnlessBroken'
    BY <1>3, <1>4, <2>1 DEF ServedFits, StartsUnlessBroken, Unsafe
  <2> QED BY <1>1, <1>2, <2>1, <2>2, <2>3, AdminUserStep DEF RolesTypeOK
<1>5. CASE ~env.other
  <2>1. Present(seeded) /\ seeded \in SeededUser
    BY <1>1, <1>5 DEF RolesTypeOK, Present
  <2>2. ever \cap {"renamed", "demoted", "cut"} = {} => IsMigrated(seeded)
    <3>1. PICK a \in RoleIds : RowId("Administrador") = a /\ Named("Administrador") = {a}
      BY <1>1, AdminRole
    <3> QED BY <1>1, <1>2, <2>1, <3>1 DEF SeededFits, IsMigrated
  <2>3. CASE ~IsMigrated(seeded) \/ (seeded.example /\ Unsafe)
    <3>1. boot' = "failed" /\ seeded' = seeded
      BY <1>5, <2>3 DEF FoundAdminUser, Fails
    <3>2. SeededFits' /\ ServedFits'
      BY <1>1, <1>2, <1>3, <3>1 DEF SeededFits, ServedFits
    <3>3. StartsUnlessBroken'
      BY <1>3, <2>2, <2>3, <3>1 DEF StartsUnlessBroken, Unsafe
    <3> QED BY <1>1, <1>2, <3>1, <3>2, <3>3, AdminUserStep DEF RolesTypeOK
  <2>4. CASE IsMigrated(seeded) /\ ~(seeded.example /\ Unsafe)
    <3>1. boot' = "serving" /\ seeded' = [seeded EXCEPT !.example = @ /\ ~env.production]
      BY <1>5, <2>4 DEF FoundAdminUser, Serves
    <3>2. /\ seeded' \in SeededUser /\ seeded'.roles = seeded.roles /\ seeded'.named = seeded.named
          /\ env.production => ~seeded'.example
      BY <2>1, <3>1 DEF SeededUser
    <3>3. Present(seeded')
      BY <3>2, RolesAssumption DEF RolesAssumption, Present
    <3>4. SeededFits'
      BY <1>1, <1>2, <1>3, <2>1, <3>2 DEF SeededFits
    <3>5. ServedFits' /\ StartsUnlessBroken'
      BY <1>3, <3>1, <3>2, <3>3 DEF ServedFits, StartsUnlessBroken, Present
    <3> QED BY <1>1, <1>2, <3>1, <3>2, <3>4, <3>5, AdminUserStep DEF RolesTypeOK
  <2> QED BY <2>3, <2>4
<1> QED BY <1>4, <1>5

LEMMA CreateAdminUserKeeps == ASSUME RolesInv, CreateAdminUser PROVE RolesInv'
<1>1. /\ StartKeeps /\ SameRows /\ SameNames /\ grants' = grants
      /\ boot = "admin user" /\ pending = None /\ ~env.other /\ ~Present(seeded)
      /\ RolesTypeOK /\ NamesApart /\ SeededFits
  BY DEF CreateAdminUser, RolesInv, StartKeeps, SameRows, SameNames, At
<1>2. ~RolesPending /\ \A s : Soon(s) = grants[s]
  BY <1>1, Idle
<1>3. Named("Administrador")' = Named("Administrador") /\ ever' = ever /\ env' = env
  BY <1>1, NamesStay DEF StartKeeps
<1>4. CASE Unsafe
  <2>1. boot' = "failed" /\ seeded' = seeded /\ pending' = None
    BY <1>1, <1>4 DEF CreateAdminUser, Fails
  <2>2. ~RolesPending' /\ \A s : Soon(s)' = Soon(s)
    BY <1>1, <1>2, <2>1 DEF RolesPending, Soon, GrantsPending, Present
  <2>3. SeededFits' /\ ServedFits' /\ StartsUnlessBroken'
    BY <1>1, <1>3, <1>4, <2>1, <2>2 DEF SeededFits, ServedFits, StartsUnlessBroken, Unsafe
  <2> QED BY <1>1, <2>1, <2>2, <2>3, AdminUserStep DEF RolesTypeOK
<1>5. CASE ~Unsafe
  <2>1. PICK a \in RoleIds : Named("Administrador") = {a}
    BY <1>1, AdminRole
  <2>2. PICK example \in BOOLEAN :
          /\ example => ~env.strong
          /\ boot' = "serving" /\ seeded' = [roles |-> {}, named |-> TRUE, example |-> example]
          /\ pending' = [of |-> "roles", ids |-> {a}]
    BY <1>5, <2>1 DEF CreateAdminUser, Serves
  <2>3. seeded' \in SeededUser /\ pending' \in Write
    BY <2>2 DEF SeededUser, Write
  <2>4. seeded' # None /\ pending' # None
    BY <2>3, RolesAssumption DEF RolesAssumption
  <2>5. pending'.of = "roles" /\ pending'.ids = {a} /\ seeded'.named = TRUE /\ seeded'.example = example
    BY <2>2
  <2>6. RolesPending' /\ \A s : Soon(s)' = Soon(s)
    BY <1>1, <1>2, <2>4, <2>5 DEF RolesPending, Soon, GrantsPending, Present
  <2>7. SeededFits'
    BY <1>3, <2>1, <2>4, <2>5, <2>6 DEF SeededFits, Present
  <2>8. env.production => ~example
    BY <1>5, <2>2 DEF Unsafe
  <2>9. ServedFits' /\ StartsUnlessBroken'
    BY <1>3, <2>2, <2>4, <2>5, <2>8 DEF ServedFits, StartsUnlessBroken, Present
  <2> QED BY <1>1, <2>2, <2>3, <2>6, <2>7, <2>9, AdminUserStep
<1> QED BY <1>4, <1>5

-----------------------------------------------------------------------------
(* The start of the behaviour, and any step of it.                         *)
LEMMA RolesInitFits == RolesInit => RolesInv
<1> SUFFICES ASSUME RolesInit PROVE RolesInv
  OBVIOUS
<1>1. /\ env \in Environment /\ pending = None
      /\ boot = "permissions" /\ starts = 1 /\ edits = 0 /\ ever = {} /\ since = {}
  BY DEF RolesInit
<1>2. ~RolesPending /\ \A r : Soon(r) = grants[r]
  BY <1>1, Idle
<1>3. ServedFits /\ AdminFits /\ StudentsFit /\ StartsClean /\ StartsUnlessBroken
  BY <1>1 DEF ServedFits, AdminFits, StudentsFit, StartsClean, StartsUnlessBroken, PermissionsDone, AdminDone,
              RolesDone, OwnDone, WholeDone
<1>4. ASSUME permission \in [Permissions -> Permission \cup {None}],
             roleName \in [RoleIds -> Names \cup {None}], grants \in [RoleIds -> SUBSET Rows],
             seeded \in SeededUser \cup {None}, NamesApart, RowsKeyed, SeededFits
      PROVE  RolesInv
  <2>1. RolesTypeOK
    BY <1>1, <1>4, RolesAssumption DEF RolesTypeOK, RolesAssumption, BootSteps
  <2>2. GrantsReal
    BY <1>2, <1>4 DEF GrantsReal
  <2> QED BY <1>3, <1>4, <2>1, <2>2 DEF RolesInv
<1>5. CASE Migrated
  <2>1. 1..4 \subseteq Permissions /\ 1..3 \subseteq RoleIds
    BY NamesFinite, CodesFinite DEF Permissions, RoleIds
  <2>2. /\ DOMAIN SeededCodes = 1..4 /\ \A p \in 1..4 : SeededCodes[p] \in Codes
        /\ \A p, q \in 1..4 : SeededCodes[p] = SeededCodes[q] => p = q
    BY DEF SeededCodes, Codes, Catalogue, Whole, Protected, Own
  <2>3. /\ DOMAIN SeededRoles = 1..3 /\ SeededRoles[1] = "Administrador"
        /\ \A r \in 1..3 : SeededRoles[r] \in Names
        /\ \A r, s \in 1..3 : SeededRoles[r] = SeededRoles[s] => r = s
    BY DEF SeededRoles, Names
  <2> HIDE DEF SeededCodes, SeededRoles
  <2>4. permission = [p \in Permissions |->
          IF p \in 1..4 THEN [code |-> SeededCodes[p], slot |-> SeededCodes[p]] ELSE None]
    BY <1>5, <2>2 DEF Migrated
  <2>5. \A p \in 1..4 : [code |-> SeededCodes[p], slot |-> SeededCodes[p]] \in Permission
    BY <2>2 DEF Permission
  <2>6. permission \in [Permissions -> Permission \cup {None}]
    BY <2>4, <2>5
  <2>7. Rows = 1..4
    BY <2>1, <2>4, <2>5, RolesAssumption DEF Rows, Present, RolesAssumption
  <2>8. RowsKeyed
    BY <2>1, <2>2, <2>4, <2>7 DEF RowsKeyed, CodeOf
  <2>9. roleName = [r \in RoleIds |-> IF r \in 1..3 THEN SeededRoles[r] ELSE None]
    BY <1>5, <2>3 DEF Migrated
  <2>10. roleName \in [RoleIds -> Names \cup {None}]
    BY <2>3, <2>9
  <2>11. NamesApart
    BY <2>3, <2>9 DEF NamesApart, Present
  <2>12. grants = [r \in RoleIds |-> SeededGrants(roleName[r])]
    BY <1>5 DEF Migrated
  <2>13. \A name : SeededGrants(name) \subseteq 1..4
    BY DEF SeededGrants
  <2>14. grants \in [RoleIds -> SUBSET Rows]
    BY <2>7, <2>12, <2>13
  <2>15. seeded = [roles |-> {1}, named |-> TRUE, example |-> TRUE]
    BY <1>5 DEF Migrated
  <2>16. seeded \in SeededUser
    BY <2>1, <2>15 DEF SeededUser
  <2>17. 1 \in Named("Administrador")
    BY <2>1, <2>3, <2>9 DEF Named
  <2>18. SeededFits
    BY <1>2, <2>15, <2>17 DEF SeededFits
  <2> QED BY <1>4, <2>6, <2>8, <2>10, <2>11, <2>14, <2>16, <2>18
<1>6. CASE Synchronized
  <2>1. /\ permission = [p \in Permissions |-> None] /\ roleName = [r \in RoleIds |-> None]
        /\ grants = [r \in RoleIds |-> {}] /\ seeded = None
    BY <1>6 DEF Synchronized
  <2>2. Rows = {} /\ NamesApart
    BY <2>1 DEF Rows, NamesApart, Present
  <2>3. RowsKeyed
    BY <2>2 DEF RowsKeyed
  <2>4. SeededFits
    BY <1>2, <2>1 DEF SeededFits, Present
  <2> QED BY <1>4, <2>1, <2>2, <2>3, <2>4
<1> QED BY <1>5, <1>6 DEF RolesInit

LEMMA RolesStep == ASSUME RolesInv, [RolesNext]_roleVars PROVE RolesInv'
<1>1. CASE UNCHANGED roleVars
  BY <1>1 DEF roleVars, roleTables, RolesInv, RolesTypeOK, NamesApart, RowsKeyed, GrantsReal, SeededFits,
              ServedFits, AdminFits, StudentsFit, StartsClean, StartsUnlessBroken, Unsafe, Soon, GrantsPending,
              RolesPending, Rows, CodeOf, RowOf, Named
<1>2. CASE RolesNext
  BY <1>2, InsertPendingKeeps, StopsKeeps, StartsKeeps, EnsurePermissionKeeps, PermissionsEnsuredKeeps,
     EnsureAdminRoleKeeps, EnsureOtherRoleKeeps, GrantOwnScheduleKeeps, RevokeWholeScheduleKeeps,
     FoundAdminUserKeeps, CreateAdminUserKeeps, CreateRoleKeeps, UpdateRoleKeeps, AssignPermissionsKeeps, ResetToDefaultsKeeps,
     CreatePermissionKeeps, UpdatePermissionKeeps, RemovePermissionKeeps, EditSeededKeeps,
     PasswordOfSeededKeeps, RenumberSeededKeeps, AddressOfAnotherKeeps
  DEF RolesNext
<1> QED BY <1>1, <1>2

-----------------------------------------------------------------------------
(* The routes: what the tables of the controllers say together.  A route   *)
(* that decides a procedure asks for the permission of it, a public one    *)
(* writes nothing but an account, and no factory role has the permissions  *)
(* of both hands.                                                          *)

\* What the routes that decide something ask for.
Dutiful(op, needs) ==
  /\ op = "review justification" => "attendance.review" \in needs
  /\ op = "annul case"           => "disciplinary.configure" \in needs
  /\ op = "order measure"        => "disciplinary.precautionary" \in needs
  /\ op = "open case"            => "disciplinary.create" \in needs
  /\ op = "give opinion"         => "disciplinary.review" \in needs
  /\ op = "resolve revocation"   => "disciplinary.resolve" \in needs
  /\ op = "file defense"         => "disciplinary.respond" \in needs
  /\ op = "resolve appeal"       => "disciplinary.appeal" \in needs

Guarded(R) ==
  \A r \in R :
    /\ DOMAIN r = {"op", "writes", "needs", "role", "public"}
    /\ Dutiful(r.op, r.needs) /\ (r.public => ~r.writes)

LEMMA RoutedGuarded ==
  ASSUME NEW w, NEW needs, NEW ops, \A o \in ops : Dutiful(o, needs)
  PROVE  Guarded(Routed(w, needs, ops))
<1> SUFFICES ASSUME NEW r \in Routed(w, needs, ops)
             PROVE  /\ DOMAIN r = {"op", "writes", "needs", "role", "public"}
                    /\ Dutiful(r.op, r.needs) /\ (r.public => ~r.writes)
  BY DEF Guarded
<1>1. /\ DOMAIN r = {"op", "writes", "needs", "role", "public"}
      /\ r.op \in ops /\ r.needs = needs /\ r.public = FALSE
  BY DEF Routed
<1>2. Dutiful(r.op, r.needs)
  BY <1>1
<1>3. ~r.public
  BY <1>1
<1> QED BY <1>1, <1>2, <1>3

LEMMA ReadsGuarded ==
  ASSUME NEW needs, NEW ops, \A o \in ops : Dutiful(o, needs) PROVE Guarded(Reads(needs, ops))
  BY RoutedGuarded DEF Reads

LEMMA WritesGuarded ==
  ASSUME NEW needs, NEW ops, \A o \in ops : Dutiful(o, needs) PROVE Guarded(Writes(needs, ops))
  BY RoutedGuarded DEF Writes

LEMMA OnlyForGuarded == ASSUME NEW role, NEW R, Guarded(R) PROVE Guarded(OnlyFor(role, R))
<1> SUFFICES ASSUME NEW r \in R PROVE Guarded({[r EXCEPT !.role = role]})
  BY DEF Guarded, OnlyFor
<1>1. /\ DOMAIN r = {"op", "writes", "needs", "role", "public"}
      /\ Dutiful(r.op, r.needs) /\ (r.public => ~r.writes)
  BY DEF Guarded
<1>2. PICK s : s = [r EXCEPT !.role = role]
  OBVIOUS
<1>3. /\ DOMAIN s = {"op", "writes", "needs", "role", "public"}
      /\ s.op = r.op /\ s.needs = r.needs /\ s.public = r.public /\ s.writes = r.writes
  BY <1>1, <1>2
<1> QED BY <1>1, <1>2, <1>3 DEF Guarded

LEMMA UnionGuarded == ASSUME NEW R, NEW S, Guarded(R), Guarded(S) PROVE Guarded(R \cup S)
  BY DEF Guarded

LEMMA PublicGuarded ==
  ASSUME NEW needs, NEW ops, \A o \in ops : Dutiful(o, needs) PROVE Guarded(Public(Reads(needs, ops)))
<1> SUFFICES ASSUME NEW r \in Reads(needs, ops), NEW s, s = [r EXCEPT !.public = TRUE]
             PROVE  /\ DOMAIN s = {"op", "writes", "needs", "role", "public"}
                    /\ Dutiful(s.op, s.needs) /\ (s.public => ~s.writes)
  BY DEF Public, Guarded
<1>1. /\ DOMAIN r = {"op", "writes", "needs", "role", "public"}
      /\ r.op \in ops /\ r.needs = needs /\ r.writes = FALSE
  BY DEF Reads, Routed
<1>2. /\ DOMAIN s = {"op", "writes", "needs", "role", "public"}
      /\ s.op = r.op /\ s.needs = r.needs /\ s.writes = FALSE
  BY <1>1
<1>3. Dutiful(s.op, s.needs) /\ ~s.writes
  BY <1>1, <1>2
<1> QED BY <1>2, <1>3

LEMMA RoutesGuarded == \A r \in AllRoutes \ AuthRoutes : Dutiful(r.op, r.needs) /\ (r.public => ~r.writes)
<1> USE ReadsGuarded, WritesGuarded, OnlyForGuarded, UnionGuarded DEF Dutiful
<1>3. Guarded(UserRoutes)
  BY DEF UserRoutes
<1>4. Guarded(GuardianLinkRoutes)
  BY DEF GuardianLinkRoutes
<1>5. Guarded(DepartmentRoutes)
  BY DEF DepartmentRoutes
<1>6. Guarded(RoleRoutes)
  BY DEF RoleRoutes
<1>7. Guarded(PermissionRoutes)
  BY DEF PermissionRoutes
<1>8. Guarded(BulkImportRoutes)
  BY DEF BulkImportRoutes
<1>9. Guarded(ReportRoutes)
  BY DEF ReportRoutes
<1>10. Guarded(DashboardRoutes)
  BY DEF DashboardRoutes
<1>11. Guarded(PublicRoutes)
  BY PublicGuarded DEF PublicRoutes
<1>12. Guarded(AcademicYearRoutes)
  BY DEF AcademicYearRoutes
<1>13. Guarded(AcademicPeriodRoutes)
  BY DEF AcademicPeriodRoutes
<1>14. Guarded(SectionRoutes)
  BY DEF SectionRoutes
<1>15. Guarded(GroupRoutes)
  BY DEF GroupRoutes
<1>16. Guarded(SpecialtyRoutes)
  BY DEF SpecialtyRoutes
<1>17. Guarded(SubjectRoutes)
  BY DEF SubjectRoutes
<1>18. Guarded(AssignmentRoutes)
  BY DEF AssignmentRoutes
<1>19. Guarded(EnrollmentRoutes)
  BY DEF EnrollmentRoutes
<1>20. Guarded(StudentRoutes)
  BY DEF StudentRoutes
<1>21. Guarded(GuardianRoutes)
  BY DEF GuardianRoutes
<1>22. Guarded(ScheduleEntryRoutes)
  BY DEF ScheduleEntryRoutes
<1>23. Guarded(TimeSlotRoutes)
  BY DEF TimeSlotRoutes
<1>24. Guarded(MyScheduleRoutes)
  BY DEF MyScheduleRoutes
<1>25. Guarded(ScheduleExportRoutes)
  BY DEF ScheduleExportRoutes
<1>26. Guarded(AttendanceReportRoutes)
  BY DEF AttendanceReportRoutes
<1>27. Guarded(AttendanceSessionRoutes)
  BY DEF AttendanceSessionRoutes
<1>28. Guarded(RedeemRoutes)
  BY DEF RedeemRoutes
<1>29. Guarded(JustificationRoutes)
  BY DEF JustificationRoutes
<1>30. Guarded(ExceptionRoutes)
  BY DEF ExceptionRoutes
<1>31. Guarded(AbsenteeismRoutes)
  BY DEF AbsenteeismRoutes
<1>32. Guarded(DepartureRoutes)
  BY DEF DepartureRoutes
<1>33. Guarded(PermitRoutes)
  BY DEF PermitRoutes
<1>34. Guarded(CommunicationRoutes)
  BY DEF CommunicationRoutes
<1>35. Guarded(NotificationRoutes)
  BY DEF NotificationRoutes
<1>36. Guarded(CaseRoutes)
  BY DEF CaseRoutes
<1>37. Guarded(CaseCommunicationRoutes)
  BY DEF CaseCommunicationRoutes
<1>38. Guarded(AppealRoutes)
  BY DEF AppealRoutes
<1>39. Guarded(EvidenceRoutes)
  BY DEF EvidenceRoutes
<1>40. Guarded(PrecautionaryRoutes)
  BY DEF PrecautionaryRoutes
<1>41. Guarded(AlertRoutes)
  BY DEF AlertRoutes
<1>42. Guarded(CaseDashboardRoutes)
  BY DEF CaseDashboardRoutes
<1>43. Guarded(CaseExportRoutes)
  BY DEF CaseExportRoutes
<1>44. Guarded(InfractionRoutes)
  BY DEF InfractionRoutes
<1>45. Guarded(CalendarRoutes)
  BY DEF CalendarRoutes
<1>46. Guarded(LegacyAppealRoutes)
  BY DEF LegacyAppealRoutes
<1> HIDE ReadsGuarded, WritesGuarded, OnlyForGuarded, UnionGuarded DEF Dutiful
<1> SUFFICES ASSUME NEW r \in AllRoutes \ AuthRoutes
             PROVE  Dutiful(r.op, r.needs) /\ (r.public => ~r.writes)
  OBVIOUS
<1>50. PICK R : R \in {AuthRoutes, UserRoutes, GuardianLinkRoutes, DepartmentRoutes, RoleRoutes, PermissionRoutes,
         BulkImportRoutes, ReportRoutes, DashboardRoutes, PublicRoutes,
         AcademicYearRoutes, AcademicPeriodRoutes, SectionRoutes, GroupRoutes, SpecialtyRoutes,
         SubjectRoutes, AssignmentRoutes, EnrollmentRoutes, StudentRoutes, GuardianRoutes,
         ScheduleEntryRoutes, TimeSlotRoutes, MyScheduleRoutes, ScheduleExportRoutes,
         AttendanceReportRoutes, AttendanceSessionRoutes, RedeemRoutes, JustificationRoutes,
         ExceptionRoutes, AbsenteeismRoutes, DepartureRoutes, PermitRoutes,
         CommunicationRoutes, NotificationRoutes, CaseRoutes, CaseCommunicationRoutes, AppealRoutes,
         EvidenceRoutes, PrecautionaryRoutes, AlertRoutes, CaseDashboardRoutes, CaseExportRoutes,
         InfractionRoutes, CalendarRoutes, LegacyAppealRoutes} /\ r \in R
  BY DEF AllRoutes
<1>51. Guarded(R)
  BY <1>3, <1>4, <1>5, <1>6, <1>7, <1>8, <1>9, <1>10, <1>11, <1>12, <1>13, <1>14, <1>15, <1>16,
     <1>17, <1>18, <1>19, <1>20, <1>21, <1>22, <1>23, <1>24, <1>25, <1>26, <1>27, <1>28, <1>29,
     <1>30, <1>31, <1>32, <1>33, <1>34, <1>35, <1>36, <1>37, <1>38, <1>39, <1>40, <1>41, <1>42,
     <1>43, <1>44, <1>45, <1>46, <1>50
<1> QED BY <1>50, <1>51 DEF Guarded

\* The routes of the accounts decide nothing.
LEMMA AuthOps ==
  \A r \in AuthRoutes :
    r.op \in {"login", "forgot password", "reset password", "verify account", "resend verification",
              "refresh", "me", "own sessions", "logout", "logout all", "change password",
              "revoke own session"}
<1> DEFINE UnsignedOps == {"login", "forgot password", "reset password", "verify account",
                           "resend verification", "refresh"}
           SignedOps   == {"logout", "logout all", "change password", "revoke own session"}
<1>1. ASSUME NEW ops, NEW r \in Public(Writes({}, ops)) PROVE r.op \in ops
  <2>1. PICK x \in Routed(TRUE, {}, ops) : r = [x EXCEPT !.public = TRUE]
    BY <1>1 DEF Public, Writes
  <2>2. DOMAIN x = {"op", "writes", "needs", "role", "public"} /\ x.op \in ops
    BY DEF Routed
  <2> QED BY <2>1, <2>2
<1>2. ASSUME NEW ops, NEW r \in Writes({}, ops) \cup Reads({}, ops) PROVE r.op \in ops
  BY <1>2 DEF Writes, Reads, Routed
<1>3. AuthRoutes = Public(Writes({}, UnsignedOps)) \cup Reads({}, {"me", "own sessions"}) \cup Writes({}, SignedOps)
  BY DEF AuthRoutes
<1> HIDE DEF UnsignedOps, SignedOps
<1>4. \A r \in AuthRoutes : r.op \in UnsignedOps \cup {"me", "own sessions"} \cup SignedOps
  BY <1>1, <1>2, <1>3
<1> QED BY <1>4 DEF UnsignedOps, SignedOps

\* Whoever may do one of these has the permission that is asked for it.
LEMMA NeedsOf ==
  ASSUME NEW name \in DOMAIN DefaultTemplates, NEW op, NEW needed,
         \A needs : Dutiful(op, needs) => needed \in needs,
         op \in {"review justification", "annul case", "order measure", "open case", "give opinion",
                 "resolve revocation", "file defense", "resolve appeal"},
         May(FactoryCaller(name), op)
  PROVE  needed \in DefaultTemplates[name]
<1> DEFINE caller == FactoryCaller(name)
<1>1. PICK route \in AllRoutes : route.op = op /\ Admitted(caller, route)
  BY DEF May
<1>2. route \notin AuthRoutes
  BY <1>1, AuthOps
<1>3. needed \in route.needs
  BY <1>1, <1>2, RoutesGuarded
<1>4. name \in {"Docente", "Estudiante", "Orientador", "Director", "Encargado", "Guarda"}
  BY DEF DefaultTemplates
<1>5. caller.roles = {name} /\ caller.permissions = DefaultTemplates[name]
  BY <1>4 DEF FactoryCaller, Caller
<1>6. "ADMIN" \notin caller.roles
  BY <1>4, <1>5
<1>7. route.needs \subseteq caller.permissions
  BY <1>1, <1>3, <1>6 DEF Admitted, PermissionsFit
<1> QED BY <1>3, <1>5, <1>7

LEMMA TemplatesApart ==
  ASSUME NEW name \in DOMAIN DefaultTemplates
  PROVE  LET T == DefaultTemplates[name] IN
         /\ "attendance.review" \notin T /\ "disciplinary.configure" \notin T
         /\ ~("disciplinary.create" \in T /\ "disciplinary.precautionary" \in T)
         /\ ~("disciplinary.create" \in T /\ "disciplinary.review" \in T)
         /\ ~("disciplinary.respond" \in T /\ "disciplinary.resolve" \in T)
         /\ ~("disciplinary.resolve" \in T /\ "disciplinary.appeal" \in T)
<1>1. name \in {"Docente", "Estudiante", "Orientador", "Director", "Encargado", "Guarda"}
  BY DEF DefaultTemplates
<1>2. CASE name = "Docente"
  BY <1>2 DEF DefaultTemplates
<1>3. CASE name = "Estudiante"
  BY <1>3 DEF DefaultTemplates
<1>4. CASE name = "Orientador"
  BY <1>4 DEF DefaultTemplates
<1>5. CASE name = "Director"
  BY <1>5 DEF DefaultTemplates
<1>6. CASE name = "Encargado"
  BY <1>6 DEF DefaultTemplates, Family
<1>7. CASE name = "Guarda"
  BY <1>7 DEF DefaultTemplates
<1> QED BY <1>1, <1>2, <1>3, <1>4, <1>5, <1>6, <1>7

LEMMA HandsApart == RoutesFit
<1>1. ASSUME NEW name \in DOMAIN DefaultTemplates, NEW a, NEW b, <<a, b>> \in TwoHands,
             May(FactoryCaller(name), a), May(FactoryCaller(name), b)
      PROVE  FALSE
  <2> DEFINE T == DefaultTemplates[name]
             able == {op \in {a, b} : May(FactoryCaller(name), op)}
  <2>1. /\ "review justification" \in able => "attendance.review" \in T
        /\ "annul case" \in able => "disciplinary.configure" \in T
        /\ "order measure" \in able => "disciplinary.precautionary" \in T
        /\ "open case" \in able => "disciplinary.create" \in T
        /\ "give opinion" \in able => "disciplinary.review" \in T
        /\ "resolve revocation" \in able => "disciplinary.resolve" \in T
        /\ "file defense" \in able => "disciplinary.respond" \in T
        /\ "resolve appeal" \in able => "disciplinary.appeal" \in T
    BY NeedsOf DEF Dutiful
  <2>2. a \in able /\ b \in able
    BY <1>1
  <2> HIDE DEF able
  <2>3. \/ a = "justify" /\ b = "review justification"
        \/ a = "open case" /\ b = "annul case"
        \/ a = "open case" /\ b = "order measure"
        \/ a = "open case" /\ b = "give opinion"
        \/ a = "file defense" /\ b = "resolve revocation"
        \/ a = "resolve revocation" /\ b = "resolve appeal"
    BY <1>1 DEF TwoHands
  <2> QED BY <2>1, <2>2, <2>3, TemplatesApart
<1>2. ASSUME NEW r \in AllRoutes, r.writes, Admitted(NoCaller, r) PROVE r \in AuthRoutes
  <2>1. ~NoCaller.signed
    BY DEF NoCaller
  <2>2. r.public
    BY <1>2, <2>1 DEF Admitted
  <2> QED BY <1>2, <2>2, RoutesGuarded
<1>3. ASSUME NEW hands \in TwoHands PROVE \E a, b : hands = <<a, b>>
  BY ZenonT(30) DEF TwoHands
<1>4. ASSUME NEW a, NEW b PROVE <<a, b>>[1] = a /\ <<a, b>>[2] = b
  OBVIOUS
<1>5. ASSUME NEW name \in DOMAIN DefaultTemplates, NEW hands \in TwoHands
      PROVE  ~(May(FactoryCaller(name), hands[1]) /\ May(FactoryCaller(name), hands[2]))
  <2>1. PICK a, b : hands = <<a, b>>
    BY <1>3
  <2>2. <<a, b>> \in TwoHands /\ hands[1] = a /\ hands[2] = b
    BY <1>4, <2>1
  <2> QED BY <1>1, <2>2
<1> QED BY <1>2, <1>5 DEF RoutesFit

-----------------------------------------------------------------------------
(* Whoever is a student is let through to his own schedule only.           *)
LEMMA OwnRoutes == \A r \in MyScheduleRoutes : r.needs = {Own} /\ r.role = "any" /\ ~r.public
<1>1. ASSUME NEW ops, NEW r \in Reads({Own}, ops) PROVE r.needs = {Own} /\ r.role = "any" /\ ~r.public
  BY <1>1 DEF Reads, Routed
<1> QED BY <1>1 DEF MyScheduleRoutes, Own

LEMMA WholeRoutes ==
  \A r \in ScheduleEntryRoutes \cup TimeSlotRoutes \cup ScheduleExportRoutes :
    r.needs = {"schedules.view"} \/ r.needs = {"schedules.edit"}
<1>1. ASSUME NEW needs, NEW ops, NEW r \in Reads(needs, ops) \cup Writes(needs, ops) PROVE r.needs = needs
  BY <1>1 DEF Reads, Writes, Routed
<1>3. \A ops : /\ \A r \in Reads({"schedules.view"}, ops) : r.needs = {"schedules.view"}
               /\ \A r \in Writes({"schedules.edit"}, ops) : r.needs = {"schedules.edit"}
  BY <1>1
<1>4. \A r \in ScheduleEntryRoutes : r.needs = {"schedules.view"} \/ r.needs = {"schedules.edit"}
  BY <1>3 DEF ScheduleEntryRoutes
<1>5. \A r \in TimeSlotRoutes : r.needs = {"schedules.view"} \/ r.needs = {"schedules.edit"}
  BY <1>3 DEF TimeSlotRoutes
<1>6. \A r \in ScheduleExportRoutes : r.needs = {"schedules.view"}
  BY <1>3 DEF ScheduleExportRoutes
<1> QED BY <1>4, <1>5, <1>6

-----------------------------------------------------------------------------
(* What the invariant says of a server that serves.                        *)

\* A caller who is a student by one role, and who has the own schedule only.
StudentCaller(caller) ==
  /\ caller.signed /\ caller.roles = {"Estudiante"}
  /\ Own \in caller.permissions /\ caller.permissions \cap Whole = {}

LEMMA StudentAdmitted ==
  ASSUME NEW caller, StudentCaller(caller)
  PROVE  /\ \A route \in MyScheduleRoutes : Admitted(caller, route)
         /\ \A route \in ScheduleEntryRoutes \cup TimeSlotRoutes \cup ScheduleExportRoutes :
              ~Admitted(caller, route)
<1>1. "ADMIN" \notin caller.roles
  BY DEF StudentCaller
<1>2. ASSUME NEW route \in MyScheduleRoutes PROVE Admitted(caller, route)
  BY OwnRoutes DEF StudentCaller, Admitted, RoleFits, PermissionsFit
<1>3. ASSUME NEW route \in ScheduleEntryRoutes \cup TimeSlotRoutes \cup ScheduleExportRoutes
      PROVE  ~Admitted(caller, route)
  BY <1>1, WholeRoutes DEF StudentCaller, Admitted, PermissionsFit, Whole
<1> QED BY <1>2, <1>3

LEMMA StudentOfRoles ==
  ASSUME RolesInv, At("serving"), since = {}
  PROVE  StudentCaller(RoleCaller("Estudiante"))
<1>1. RolesTypeOK /\ NamesApart /\ GrantsReal /\ pending = None /\ boot = "serving"
  BY DEF RolesInv, At
<1>2. \A r : Soon(r) = grants[r]
  BY <1>1, Idle
<1>3. boot \in RolesDone /\ boot \in OwnDone /\ boot \in WholeDone
  BY <1>1 DEF WholeDone, OwnDone, RolesDone, AdminDone, PermissionsDone
<1>4. PICK s : Named("Estudiante") = {s} /\ s \in RoleIds
  <2>1. Named("Estudiante") # {}
    BY <1>3 DEF RolesInv, StudentsFit
  <2> QED BY <1>1, <2>1, IdOfName, NamesAreNames DEF Named
<1>5. /\ RowOf(Own) \cap grants[s] # {} /\ \A p \in grants[s] : CodeOf(p) \notin Whole
  BY <1>2, <1>3, <1>4 DEF RolesInv, StudentsFit
<1>7. UNION {grants[r] : r \in Named("Estudiante")} = grants[s]
  BY <1>4
<1> DEFINE had == Codified(grants[s])
<1>8. Own \in had
  <2>1. PICK p \in grants[s] : CodeOf(p) = Own
    BY <1>5 DEF RowOf
  <2> QED BY <2>1 DEF Codified
<1>9. had \cap Whole = {}
  BY <1>5 DEF Codified
<1>11. RoleCaller("Estudiante") = Caller({"Estudiante"}, had)
  BY <1>7 DEF RoleCaller
<1> HIDE DEF had
<1>12. LET c == Caller({"Estudiante"}, had) IN
       c.signed /\ c.roles = {"Estudiante"} /\ c.permissions = had
  BY DEF Caller
<1> QED BY <1>8, <1>9, <1>11, <1>12 DEF StudentCaller

LEMMA RolesMean ==
  ASSUME RolesInv
  PROVE  StartsUnlessBroken /\ ExampleReplaced /\ AdminKept /\ ScheduleOfStudents
<1>1. StartsUnlessBroken /\ ExampleReplaced
  BY DEF RolesInv, ServedFits, ExampleReplaced, At
<1>2. AdminKept
  <2> SUFFICES ASSUME At("serving"), since \cap {"miscoded", "renamed", "cut"} = {}
               PROVE  \E r \in Named("Administrador") : RowOf(Protected) # {} /\ RowOf(Protected) \subseteq grants[r]
    BY DEF AdminKept
  <2>1. pending = None /\ boot \in PermissionsDone /\ boot \in AdminDone
    BY DEF At, AdminDone, PermissionsDone
  <2>2. RowOf(Protected) # {} /\ \E a \in Named("Administrador") : RowOf(Protected) \subseteq Soon(a)
    BY <2>1 DEF RolesInv, AdminFits
  <2> QED BY <2>1, <2>2, Idle
<1>3. ScheduleOfStudents
  BY StudentOfRoles, StudentAdmitted DEF ScheduleOfStudents
<1> QED BY <1>1, <1>2, <1>3

-----------------------------------------------------------------------------
(* The import of students.  The invariant: what a request knows of its     *)
(* rows, how far it has come, what holds while the tables are as its       *)
(* preview found them, and that no two hold one key; then, of a crowd, how *)
(* much of a group its requests may fill.                                  *)
Importing(c) == c.phase \in {"insert", "enroll"}
WrittenOf(c) == {c.rows[i] : i \in 1..c.inserted}
KeysApart(rows) == \A i, j \in DOMAIN rows : SameKey(rows[i], rows[j]) => i = j

\* What a request knows of the rows it imports, whatever the tables hold.
CallRows(c) ==
  /\ \A i \in DOMAIN c.rows : c.rows[i].status \in {"ACTIVE", "BLOCKED"}
  /\ Importing(c) =>
       /\ KeysApart(c.rows) /\ DOMAIN c.targets = DOMAIN c.rows
       /\ \A i \in DOMAIN c.targets : Present(c.targets[i]) => c.rows[i].status = "ACTIVE"

\* How far it has come.
CallStage(c) ==
  /\ c.phase = "insert" => c.inserted < Len(c.rows)
  /\ c.phase = "enroll" => c.inserted = Len(c.rows) /\ c.inserted > 0
  /\ c.phase # "enroll" => c.locked = {}
  /\ ~Importing(c) => c.inserted = 0
  /\ Importing(c) => \A g \in c.locked : HasRoom(c, g)
  /\ c.phase = "mail" => c.pending # <<>>
  /\ c.phase # "mail" => c.pending = <<>>

CallFits(c) == c \in Import /\ CallRows(c) /\ CallStage(c)

\* What it knows of the tables while they are as the preview found them.
CallFresh(c) ==
  c.fresh =>
    /\ c.phase = "preview" => GroupsFor(c.rows) = c.shown
    /\ Importing(c) => c.targets = c.shown
    /\ c.phase = "preview" \/ Importing(c) => Accepted(c.rows) = DOMAIN c.rows
    /\ c.inserted > 0 => c.seats = SeatsTaken
    /\ c.phase = "refused" /\ c.rows # <<>> =>
         \E g \in Opened : Joining(c, g) > 0 /\ SeatsTaken[g] + Joining(c, g) > g.capacity

\* Nobody has the key of a row another transaction has written.
CallKeys(c) == \A r \in WrittenOf(c) : \A u \in people : ~SameKey(r, u)
CallsApart ==
  \A h, k \in Handlers : h # k =>
    \A r \in Written(h), s \in Written(k) : ~SameKey(r, s)

Mails == {u.mail : u \in people}
CallMails(c) == Range(c.pending) \subseteq Mails

PeopleTyped ==
  /\ IsFiniteSet(people) /\ \A u \in people : u.group \in Opened \cup {None}
  /\ offer \in Offers /\ welcomed \cup unsent \subseteq STRING

ImportInv ==
  /\ PeopleTyped /\ ImportedOnce /\ CredentialsExplained /\ CallsApart
  /\ imports \in [Handlers -> Import]
  /\ \A h \in Handlers : /\ CallFits(imports[h]) /\ CallFresh(imports[h])
                         /\ CallKeys(imports[h]) /\ CallMails(imports[h])

-----------------------------------------------------------------------------
(* A step of one request that leaves the tables alone.                     *)
LEMMA SameTables ==
  ASSUME people' = people, offer' = offer, NEW c
  PROVE  /\ CallFresh(c) => CallFresh(c)'
         /\ CallKeys(c) => CallKeys(c)' 
         /\ CallMails(c) => CallMails(c)'
<1>1. Accepted(c.rows)' = Accepted(c.rows) /\ GroupsFor(c.rows)' = GroupsFor(c.rows)
  BY DEF Accepted, HasDuplicate, GroupsFor, GroupFor, Resolved
<1>2. SeatsTaken' = SeatsTaken /\ Mails' = Mails
  BY DEF SeatsTaken, Mails
<1>3. CallFresh(c) => CallFresh(c)'
  BY <1>1, <1>2 DEF CallFresh
<1> QED BY <1>2, <1>3 DEF CallKeys, CallMails

\* What a request becomes.
GoodCall(h, c) ==
  /\ CallFits(c) /\ CallFresh(c) /\ CallKeys(c) /\ CallMails(c)
  /\ \A k \in Handlers \ {h} : \A r \in WrittenOf(c), s \in Written(k) : ~SameKey(r, s)

LEMMA WrittenIs == \A h \in Handlers : Written(h) = WrittenOf(imports[h])
  BY DEF Written, WrittenOf

LEMMA SameKeySame == \A r, s : SameKey(r, s) <=> SameKey(s, r)
  BY DEF SameKey

MailsGo(h, c) ==
  /\ welcomed \subseteq welcomed' /\ unsent \subseteq unsent'
  /\ welcomed' \subseteq Mails /\ welcomed' \cup unsent' \subseteq STRING
  /\ Range(imports[h].pending) \subseteq Range(c.pending) \cup welcomed' \cup unsent'

LEMMA OneCall ==
  ASSUME ImportInv, NEW h \in Handlers, NEW c, Goes(h, c), GoodCall(h, c), MailsGo(h, c),
         people' = people, offer' = offer
  PROVE  ImportInv'
<1>1. /\ PeopleTyped /\ ImportedOnce /\ CredentialsExplained /\ CallsApart
      /\ imports \in [Handlers -> Import]
      /\ \A k \in Handlers : GoodCall(k, imports[k])
  <2>1. \A k, g \in Handlers : k # g => \A r \in WrittenOf(imports[k]), s \in Written(g) : ~SameKey(r, s)
    BY WrittenIs DEF ImportInv, CallsApart
  <2> QED BY <2>1 DEF ImportInv, GoodCall
<1>2. imports' = [imports EXCEPT ![h] = c] /\ c \in Import
  BY DEF Goes, GoodCall, CallFits
<1>3. /\ imports' \in [Handlers -> Import]
      /\ \A k \in Handlers : imports'[k] = IF k = h THEN c ELSE imports[k]
  BY <1>1, <1>2
<1>4. ASSUME NEW k \in Handlers
      PROVE  CallFits(imports[k])' /\ CallFresh(imports[k])' /\ CallKeys(imports[k])' /\ CallMails(imports[k])'
  <2>1. PICK d : d = imports'[k]
    OBVIOUS
  <2>2. CallFits(d) /\ CallFresh(d) /\ CallKeys(d) /\ CallMails(d)
    BY <1>1, <1>3, <2>1 DEF GoodCall
  <2>3. CallFits(d) /\ CallFresh(d)' /\ CallKeys(d)' /\ CallMails(d)'
    BY <2>2, SameTables
  <2>4. CallFits(d)'
    BY <2>3 DEF CallFits, CallRows, CallStage, HasRoom, Joining, Import
  <2> QED BY <2>1, <2>3, <2>4
<1>5. \A k \in Handlers : Written(k)' = IF k = h THEN WrittenOf(c) ELSE Written(k)
  BY <1>3 DEF Written, WrittenOf
<1>6. CallsApart'
  <2>1. \A k \in Handlers \ {h} : \A r \in WrittenOf(c), s \in Written(k) : ~SameKey(r, s) /\ ~SameKey(s, r)
    BY SameKeySame DEF GoodCall
  <2> QED BY <1>1, <1>5, <2>1 DEF CallsApart
<1>7. PeopleTyped' /\ ImportedOnce'
  BY <1>1 DEF PeopleTyped, ImportedOnce, MailsGo
<1>8. CredentialsExplained'
  <2> DEFINE owed == UNION {Range(imports[k].pending) : k \in Handlers}
             owing == UNION {Range(imports'[k].pending) : k \in Handlers}
  <2>1. ASSUME NEW m \in owed PROVE m \in welcomed' \cup unsent' \cup owing
    <3>1. PICK k \in Handlers : m \in Range(imports[k].pending)
      OBVIOUS
    <3>2. CASE k = h
      <4>1. m \in Range(c.pending) \cup welcomed' \cup unsent'
        BY <3>1, <3>2 DEF MailsGo
      <4>2. Range(c.pending) \subseteq owing
        BY <1>3
      <4> QED BY <4>1, <4>2
    <3>3. CASE k # h
      <4>1. Range(imports'[k].pending) = Range(imports[k].pending)
        BY <1>3, <3>3
      <4> QED BY <3>1, <4>1
    <3> QED BY <3>2, <3>3
  <2>2. Mails \ {n.mail : n \in Newcomers} \subseteq welcomed \cup unsent \cup owed
    BY <1>1 DEF CredentialsExplained, Mails
  <2>3. welcomed' \subseteq Mails /\ Mails \ {n.mail : n \in Newcomers} \subseteq welcomed' \cup unsent' \cup owing
    BY <2>1, <2>2 DEF MailsGo
  <2> QED BY <2>3 DEF CredentialsExplained, Mails
<1> QED BY <1>3, <1>4, <1>6, <1>7, <1>8 DEF ImportInv

-----------------------------------------------------------------------------
(* The preview and the confirmation.                                       *)
LEMMA CallShape ==
  ASSUME NEW c \in Import
  PROVE  /\ c.rows \in Seq(Row) /\ c.shown \in Seq(Opened \cup {None}) /\ c.fresh \in BOOLEAN
         /\ c.inserted \in Nat /\ c.targets \in Seq(Opened \cup {None}) /\ c.seats \in [Opened -> Nat]
         /\ c.locked \in SUBSET Opened /\ c.pending \in Seq(STRING)
         /\ DOMAIN c = {"phase", "rows", "shown", "fresh", "inserted", "targets", "seats", "locked", "pending"}
         /\ c.phase \in {"idle", "preview", "insert", "enroll", "mail", "refused"}
  BY DEF Import

LEMMA ParseTwice ==
  ASSUME NEW s, Present(ParseStatus(s))
  PROVE  ParseStatus(s) \in {"ACTIVE", "BLOCKED"} /\ ParseStatus(ParseStatus(s)) = ParseStatus(s)
<1>1. ParseStatus(s) \in {"ACTIVE", "BLOCKED"}
  BY DEF ParseStatus, Present
<1>2. ParseStatus("ACTIVE") = "ACTIVE" /\ ParseStatus("BLOCKED") = "BLOCKED"
  BY DEF ParseStatus
<1> QED BY <1>1, <1>2

\* A row that is accepted is shown as another that is accepted, and goes to the same group.
LEMMA ShownRow ==
  ASSUME NEW r \in Row, ~HasInvalid(r)
  PROVE  /\ Shown(r) \in Row /\ ~HasInvalid(Shown(r)) /\ GroupFor(Shown(r)) = GroupFor(r)
         /\ Shown(r).id = r.id /\ Shown(r).mail = r.mail /\ Shown(r).status \in {"ACTIVE", "BLOCKED"}
<1>1. r.formed /\ IsStudentRole(r.role) /\ Present(ParseStatus(r.status))
  BY DEF HasInvalid
<1>2. PICK s : s = Shown(r)
  OBVIOUS
<1>3. s = [r EXCEPT !.role = "ESTUDIANTE", !.status = ParseStatus(r.status)]
  BY <1>1, <1>2 DEF Shown
<1>4. ParseStatus(r.status) \in {"ACTIVE", "BLOCKED"}
  BY <1>1, ParseTwice
<1>5. /\ s \in Row /\ s.id = r.id /\ s.mail = r.mail /\ s.formed = r.formed /\ s.section = r.section
      /\ s.role = "ESTUDIANTE" /\ s.status = ParseStatus(r.status)
  BY <1>3, <1>4 DEF Row
<1>6. ParseStatus(s.status) = ParseStatus(r.status)
  BY <1>1, <1>5, ParseTwice
<1>7. ~HasInvalid(s)
  BY <1>1, <1>5, <1>6 DEF HasInvalid, IsStudentRole
<1>8. GroupFor(s) = GroupFor(r)
  BY <1>5, <1>6 DEF GroupFor
<1> QED BY <1>2, <1>4, <1>5, <1>7, <1>8

LEMMA AcceptedOf ==
  ASSUME NEW rows \in Seq(Row)
  PROVE  /\ Accepted(rows) \in SUBSET (1..Len(rows)) /\ Accepted(rows) \in SUBSET Nat
         /\ IsFiniteSet(Accepted(rows)) /\ Cardinality(Accepted(rows)) \in Nat
<1>1. Accepted(rows) \in SUBSET (1..Len(rows))
  BY DEF Accepted
<1>2. IsFiniteSet(1..Len(rows))
  BY FS_Interval
<1> QED BY <1>1, <1>2, FS_Subset, FS_CardinalityType

LEMMA GroupsTyped ==
  ASSUME PeopleTyped, NEW rows, NEW n \in Nat, DOMAIN rows = 1..n
  PROVE  GroupsFor(rows) \in Seq(Opened \cup {None}) /\ DOMAIN GroupsFor(rows) = 1..n
<1>1. ASSUME NEW section PROVE Resolved(section) \in Opened \cup {None}
  <2> DEFINE matches == {g \in offer : g.name = section}
  <2>1. matches \subseteq Opened
    BY DEF PeopleTyped, Opened
  <2>2. CASE Cardinality(matches) = 1
    <3>1. matches # {}
      <4> HIDE DEF matches
      <4> QED BY <2>2, FS_EmptySet
    <3> QED BY <2>1, <2>2, <3>1 DEF Resolved
  <2>3. CASE Cardinality(matches) # 1
    BY <2>3 DEF Resolved
  <2> QED BY <2>2, <2>3
<1>2. GroupsFor(rows) = [i \in 1..n |-> GroupFor(rows[i])]
  BY DEF GroupsFor
<1>3. \A i \in 1..n : GroupFor(rows[i]) \in Opened \cup {None}
  BY <1>1 DEF GroupFor
<1> QED BY <1>2, <1>3

\* The rows of a preview, in the order of the sheet.
LEMMA PreviewRows ==
  ASSUME PeopleTyped, NEW sheet \in Seq(Row), NEW valid \in Ordered(Accepted(sheet)),
         NEW kept, kept = [k \in DOMAIN valid |-> sheet[valid[k]]],
         NEW rows, rows = [k \in DOMAIN kept |-> Shown(kept[k])]
  PROVE  /\ rows \in Seq(Row) /\ \A i \in DOMAIN rows : rows[i].status \in {"ACTIVE", "BLOCKED"}
         /\ Accepted(rows) = DOMAIN rows
         /\ GroupsFor(rows) = GroupsFor(kept) /\ GroupsFor(kept) \in Seq(Opened \cup {None})
<1> DEFINE A == Accepted(sheet)
           n == Cardinality(A)
<1>1. /\ A \in SUBSET (1..Len(sheet)) /\ A \in SUBSET Nat /\ n \in Nat
  BY AcceptedOf
<1>2. valid \in [1..n -> A] /\ \A i, j \in 1..n : i < j => valid[i] < valid[j]
  BY DEF Ordered
<1>3. \A i \in A : ~HasInvalid(sheet[i]) /\ ~HasDuplicate(sheet, i) /\ sheet[i] \in Row
  BY <1>1 DEF Accepted
<1> HIDE DEF A, n
<1>4. DOMAIN kept = 1..n /\ \A k \in 1..n : kept[k] = sheet[valid[k]] /\ valid[k] \in A
  BY <1>2
<1>5. DOMAIN rows = 1..n /\ \A k \in 1..n : rows[k] = Shown(sheet[valid[k]])
  BY <1>4
<1>6. \A k \in 1..n : /\ rows[k] \in Row /\ ~HasInvalid(rows[k])
                      /\ GroupFor(rows[k]) = GroupFor(kept[k])
                      /\ rows[k].id = sheet[valid[k]].id /\ rows[k].mail = sheet[valid[k]].mail
                      /\ rows[k].status \in {"ACTIVE", "BLOCKED"}
  BY <1>3, <1>4, <1>5, ShownRow
<1>7. rows \in Seq(Row)
  <2>1. rows \in [1..n -> Row]
    BY <1>5, <1>6
  <2> QED BY <1>1, <2>1
<1>8. ASSUME NEW i \in 1..n PROVE ~HasDuplicate(rows, i)
  <2>1. ~HasDuplicate(sheet, valid[i]) /\ valid[i] \in Nat
    BY <1>1, <1>3, <1>4
  <2>2. ~\E u \in people : u.id = rows[i].id \/ u.mail = rows[i].mail
    BY <1>6, <2>1 DEF HasDuplicate
  <2>3. ASSUME NEW j \in 1..(i - 1), rows[j].id = rows[i].id \/ rows[j].mail = rows[i].mail PROVE FALSE
    <3>1. j \in 1..n /\ j < i
      BY <1>1
    <3>2. valid[j] \in Nat /\ valid[j] < valid[i] /\ valid[j] \in 1..Len(sheet)
      BY <1>1, <1>2, <1>4, <3>1
    <3>3. valid[j] \in 1..(valid[i] - 1)
      BY <2>1, <3>2
    <3>4. sheet[valid[j]].id = sheet[valid[i]].id \/ sheet[valid[j]].mail = sheet[valid[i]].mail
      BY <1>6, <2>3, <3>1
    <3> QED BY <2>1, <3>3, <3>4 DEF HasDuplicate
  <2> QED BY <2>2, <2>3 DEF HasDuplicate
<1>9. Accepted(rows) = DOMAIN rows
  BY <1>5, <1>6, <1>8 DEF Accepted
<1>10. GroupsFor(rows) = GroupsFor(kept)
  BY <1>4, <1>5, <1>6 DEF GroupsFor
<1> QED BY <1>1, <1>4, <1>5, <1>6, <1>7, <1>9, <1>10, GroupsTyped

LEMMA CallOf ==
  ASSUME ImportInv, NEW h \in Handlers
  PROVE  LET c == imports[h] IN
         CallFits(c) /\ c \in Import /\ CallRows(c) /\ CallStage(c) /\ CallFresh(c) /\ CallKeys(c) /\ CallMails(c)
  BY DEF ImportInv, CallFits

\* A request without rows and mails.
LEMMA NoRows ==
  ASSUME NEW h \in Handlers, NEW c \in Import, CallRows(c), CallStage(c), CallFresh(c),
         c.inserted = 0, c.pending = <<>>
  PROVE  GoodCall(h, c)
<1>1. WrittenOf(c) = {} /\ Range(c.pending) = {}
  BY DEF WrittenOf, Range
<1> QED BY <1>1 DEF GoodCall, CallFits, CallKeys, CallMails

LEMMA MailsStay ==
  ASSUME ImportInv, NEW h \in Handlers, NEW c, imports[h].pending = <<>>, UNCHANGED <<welcomed, unsent>>
  PROVE  MailsGo(h, c)
<1>1. Range(imports[h].pending) = {}
  BY DEF Range
<1>2. welcomed \subseteq Mails /\ welcomed \cup unsent \subseteq STRING
  BY DEF ImportInv, PeopleTyped, CredentialsExplained, Mails
<1> QED BY <1>1, <1>2 DEF MailsGo

LEMMA NotImportingIs ==
  /\ NotImporting \in Import /\ NotImporting.phase = "idle" /\ NotImporting.rows = <<>>
  /\ NotImporting.inserted = 0 /\ NotImporting.pending = <<>> /\ NotImporting.fresh
<1>1. NoSeats \in [Opened -> Nat]
  BY DEF NoSeats
<1> QED BY <1>1 DEF NotImporting, Import

LEMMA PreviewKeeps == ASSUME ImportInv, NEW h \in Handlers, Preview(h) PROVE ImportInv'
<1> DEFINE Kept(sheet, valid) == [k \in DOMAIN valid |-> sheet[valid[k]]]
           SentBack(list) == [k \in DOMAIN list |-> Shown(list[k])]
<1>0. PICK sheet \in Sheets : \E valid \in Ordered(Accepted(sheet)) :
        /\ imports[h].phase \in {"idle", "refused"}
        /\ Goes(h, [NotImporting EXCEPT !.phase = "preview", !.rows = SentBack(Kept(sheet, valid)),
                                        !.shown = GroupsFor(Kept(sheet, valid))])
        /\ UNCHANGED <<importTables, welcomed, unsent>>
  BY DEF Preview
<1>1. PICK valid \in Ordered(Accepted(sheet)) :
        /\ imports[h].phase \in {"idle", "refused"}
        /\ Goes(h, [NotImporting EXCEPT !.phase = "preview", !.rows = SentBack(Kept(sheet, valid)),
                                        !.shown = GroupsFor(Kept(sheet, valid))])
        /\ UNCHANGED <<importTables, welcomed, unsent>>
  BY <1>0
<1>2. PICK kept : kept = [k \in DOMAIN valid |-> sheet[valid[k]]]
  OBVIOUS
<1>3. PICK rows : rows = [k \in DOMAIN kept |-> Shown(kept[k])]
  OBVIOUS
<1>4. PICK c : c = [NotImporting EXCEPT !.phase = "preview", !.rows = rows, !.shown = GroupsFor(kept)]
  OBVIOUS
<1>5. Goes(h, c)
  BY <1>1, <1>2, <1>3, <1>4
<1>6. sheet \in Seq(Row) /\ PeopleTyped
  BY ImportAssumption DEF ImportAssumption, ImportInv
<1>7. /\ rows \in Seq(Row) /\ \A i \in DOMAIN rows : rows[i].status \in {"ACTIVE", "BLOCKED"}
      /\ Accepted(rows) = DOMAIN rows
      /\ GroupsFor(rows) = GroupsFor(kept) /\ GroupsFor(kept) \in Seq(Opened \cup {None})
  BY <1>2, <1>3, <1>6, PreviewRows
<1>8. /\ c.phase = "preview" /\ c.rows = rows /\ c.shown = GroupsFor(kept) /\ c.inserted = 0
      /\ c.pending = <<>> /\ c.locked = {} /\ c.fresh
  BY <1>4, NotImportingIs DEF NotImporting
<1>9. c \in Import
  BY <1>4, <1>7, NotImportingIs DEF Import
<1>10. CallRows(c) /\ CallStage(c) /\ CallFresh(c)
  BY <1>7, <1>8 DEF CallRows, CallStage, CallFresh, Importing
<1>11. GoodCall(h, c)
  BY <1>8, <1>9, <1>10, NoRows
<1>12. imports[h].pending = <<>>
  BY <1>1, CallOf DEF CallStage
<1> QED BY <1>1, <1>5, <1>11, <1>12, MailsStay, OneCall DEF importTables

LEMMA ConfirmKeeps == ASSUME ImportInv, NEW h \in Handlers, Confirm(h) PROVE ImportInv'
<1> DEFINE c == imports[h]
<1>1. /\ c.phase = "preview" /\ UNCHANGED <<importTables, welcomed, unsent>>
  BY DEF Confirm
<1>2. /\ c \in Import /\ CallRows(c) /\ CallStage(c) /\ CallFresh(c) /\ PeopleTyped
  BY CallOf DEF ImportInv
<1>3. c.inserted = 0 /\ c.pending = <<>> /\ c.rows \in Seq(Row) /\ DOMAIN c.rows = 1..Len(c.rows)
  BY <1>1, <1>2, CallShape DEF CallStage, Importing
<1>4. CASE c.rows # <<>> /\ Accepted(c.rows) = DOMAIN c.rows
  <2>1. PICK d : d = [c EXCEPT !.phase = "insert", !.targets = GroupsFor(c.rows)]
    OBVIOUS
  <2>2. Goes(h, d)
    BY <1>4, <2>1 DEF Confirm
  <2>3. GroupsFor(c.rows) \in Seq(Opened \cup {None}) /\ DOMAIN GroupsFor(c.rows) = 1..Len(c.rows)
    BY <1>2, <1>3, GroupsTyped
  <2>4. d \in Import
    BY <1>2, <2>1, <2>3 DEF Import
  <2>5. /\ d.phase = "insert" /\ d.targets = GroupsFor(c.rows) /\ d.rows = c.rows /\ d.shown = c.shown
        /\ d.inserted = c.inserted /\ d.pending = c.pending /\ d.locked = c.locked /\ d.fresh = c.fresh
    BY <1>2, <2>1, CallShape
  <2>6. KeysApart(d.rows)
    <3>1. ASSUME NEW i \in DOMAIN c.rows, NEW j \in DOMAIN c.rows, SameKey(c.rows[i], c.rows[j]), i < j
          PROVE  FALSE
      <4>1. i \in 1..(j - 1) /\ HasDuplicate(c.rows, j)
        BY <1>3, <3>1 DEF HasDuplicate, SameKey
      <4> QED BY <1>4, <4>1 DEF Accepted
    <3> QED BY <1>3, <2>5, <3>1, SameKeySame DEF KeysApart
  <2>7. ASSUME NEW i \in DOMAIN d.targets, Present(d.targets[i]) PROVE d.rows[i].status = "ACTIVE"
    <3>1. i \in DOMAIN c.rows /\ GroupsFor(c.rows)[i] = GroupFor(c.rows[i])
      BY <1>3, <2>3, <2>5 DEF GroupsFor
    <3>2. ParseStatus(c.rows[i].status) = "ACTIVE"
      BY <2>5, <2>7, <3>1 DEF GroupFor, Present
    <3>3. c.rows[i].status \in {"ACTIVE", "BLOCKED"} /\ ParseStatus("BLOCKED") = "BLOCKED"
      BY <1>2, <3>1 DEF CallRows, ParseStatus
    <3> QED BY <2>5, <3>2, <3>3
  <2>8. CallRows(d)
    BY <1>2, <1>3, <2>3, <2>5, <2>6, <2>7 DEF CallRows
  <2>9. CallStage(d)
    <3>1. Len(c.rows) > 0
      BY <1>3, <1>4
    <3>2. d.locked = {}
      BY <1>1, <1>2, <2>5 DEF CallStage
    <3> QED BY <1>3, <2>5, <3>1, <3>2 DEF CallStage, Importing
  <2>10. CallFresh(d)
    BY <1>1, <1>2, <1>3, <1>4, <2>5 DEF CallFresh, Importing
  <2>11. GoodCall(h, d)
    BY <1>3, <2>4, <2>5, <2>8, <2>9, <2>10, NoRows
  <2> QED BY <1>1, <1>3, <2>2, <2>11, MailsStay, OneCall DEF importTables
<1>5. CASE ~(c.rows # <<>> /\ Accepted(c.rows) = DOMAIN c.rows)
  <2>1. PICK d : d = [c EXCEPT !.phase = "refused"]
    OBVIOUS
  <2>2. Goes(h, d)
    BY <1>5, <2>1 DEF Confirm
  <2>3. d \in Import
    BY <1>2, <2>1 DEF Import
  <2>4. /\ d.phase = "refused" /\ d.rows = c.rows /\ d.inserted = c.inserted /\ d.pending = c.pending
        /\ d.fresh = c.fresh /\ d.locked = c.locked
    BY <1>2, <2>1, CallShape
  <2>5. CallRows(d) /\ CallStage(d)
    BY <1>1, <1>2, <1>3, <2>4 DEF CallRows, CallStage, Importing
  <2>6. CallFresh(d)
    BY <1>1, <1>2, <1>3, <1>5, <2>4 DEF CallFresh, Importing
  <2>7. GoodCall(h, d)
    BY <1>3, <2>3, <2>4, <2>5, <2>6, NoRows
  <2> QED BY <1>1, <1>3, <2>2, <2>7, MailsStay, OneCall DEF importTables
<1> QED BY <1>4, <1>5

-----------------------------------------------------------------------------
(* The transaction.                                                        *)
LEMMA RefusedKeeps ==
  ASSUME ImportInv, NEW h \in Handlers, Importing(imports[h]), Refused(h),
         UNCHANGED <<importTables, welcomed, unsent>>,
         LET c == imports[h] IN
           c.fresh => \E g \in Opened : Joining(c, g) > 0 /\ SeatsTaken[g] + Joining(c, g) > g.capacity
  PROVE  ImportInv'
<1> DEFINE c == imports[h]
<1>1. c \in Import /\ CallRows(c) /\ CallStage(c) /\ CallFresh(c) /\ c.phase \in {"insert", "enroll"}
  BY CallOf DEF Importing
<1>2. PICK d : d = [c EXCEPT !.phase = "refused", !.inserted = 0, !.seats = NoSeats, !.locked = {}]
  OBVIOUS
<1>3. Goes(h, d)
  BY <1>2 DEF Refused
<1>4. NoSeats \in [Opened -> Nat]
  BY DEF NoSeats
<1>5. d \in Import
  BY <1>1, <1>2, <1>4 DEF Import
<1>6. /\ d.phase = "refused" /\ d.rows = c.rows /\ d.inserted = 0 /\ d.pending = c.pending
      /\ d.locked = {} /\ d.fresh = c.fresh /\ d.targets = c.targets
  BY <1>1, <1>2, CallShape
<1>7. c.pending = <<>>
  BY <1>1 DEF CallStage
<1>8. CallRows(d) /\ CallStage(d)
  BY <1>1, <1>6, <1>7 DEF CallRows, CallStage, Importing
<1>9. CallFresh(d)
  <2>1. \A g : Joining(d, g) = Joining(c, g)
    BY <1>6 DEF Joining
  <2> QED BY <1>6, <2>1 DEF CallFresh, Importing
<1>10. GoodCall(h, d)
  BY <1>5, <1>6, <1>7, <1>8, <1>9, NoRows
<1> QED BY <1>3, <1>7, <1>10, MailsStay, OneCall DEF importTables

LEMMA SeatsTyped == ASSUME PeopleTyped PROVE SeatsTaken \in [Opened -> Nat]
<1>1. ASSUME NEW g PROVE Cardinality({u \in people : u.group = g}) \in Nat
  BY FS_Subset, FS_CardinalityType DEF PeopleTyped
<1> QED BY <1>1 DEF SeatsTaken

LEMMA InsertUserKeeps == ASSUME ImportInv, NEW h \in Handlers, InsertUser(h) PROVE ImportInv'
<1> DEFINE c == imports[h]
           r == c.rows[c.inserted + 1]
<1>1. /\ c.phase = "insert" /\ c.inserted < Len(c.rows) /\ KeyFree(h, r)
      /\ UNCHANGED <<importTables, welcomed, unsent>>
  BY DEF InsertUser
<1>2. /\ c \in Import /\ CallRows(c) /\ CallStage(c) /\ CallFresh(c) /\ CallKeys(c) /\ PeopleTyped
  BY CallOf DEF ImportInv
<1>3. /\ c.pending = <<>> /\ c.locked = {} /\ c.rows \in Seq(Row) /\ DOMAIN c.rows = 1..Len(c.rows)
      /\ Len(c.rows) \in Nat /\ c.inserted \in Nat /\ c.inserted + 1 \in 1..Len(c.rows)
  BY <1>1, <1>2, CallShape DEF CallStage
<1>4. CASE \E u \in people : SameKey(r, u)
  <2>1. Refused(h)
    BY <1>4 DEF InsertUser
  <2>2. ~c.fresh
    <3> SUFFICES ASSUME c.fresh PROVE FALSE
      OBVIOUS
    <3>1. c.inserted + 1 \in Accepted(c.rows)
      BY <1>1, <1>2, <1>3 DEF CallFresh, Importing
    <3> QED BY <1>4, <3>1 DEF Accepted, HasDuplicate, SameKey
  <2> QED BY <1>1, <2>1, <2>2, RefusedKeeps DEF Importing
<1>5. CASE ~\E u \in people : SameKey(r, u)
  <2>1. PICK d : d = [c EXCEPT !.inserted = @ + 1,
                            !.phase = IF c.inserted + 1 = Len(c.rows) THEN "enroll" ELSE @,
                            !.seats = IF c.inserted = 0 THEN SeatsTaken ELSE @]
    OBVIOUS
  <2>2. Goes(h, d)
    BY <1>5, <2>1 DEF InsertUser
  <2>3. d \in Import
    <3>1. PICK phase, seats : /\ phase = IF c.inserted + 1 = Len(c.rows) THEN "enroll" ELSE c.phase
                              /\ seats = IF c.inserted = 0 THEN SeatsTaken ELSE c.seats
      OBVIOUS
    <3>2. phase \in {"insert", "enroll"} /\ seats \in [Opened -> Nat] /\ c.inserted + 1 \in Nat
      BY <1>1, <1>2, <1>3, <3>1, SeatsTyped, CallShape
    <3>3. d = [c EXCEPT !.inserted = c.inserted + 1, !.phase = phase, !.seats = seats]
      BY <2>1, <3>1
    <3> QED BY <1>2, <3>2, <3>3 DEF Import
  <2>4. /\ d.phase = IF c.inserted + 1 = Len(c.rows) THEN "enroll" ELSE "insert"
        /\ d.rows = c.rows /\ d.inserted = c.inserted + 1 /\ d.pending = c.pending /\ d.shown = c.shown
        /\ d.seats = IF c.inserted = 0 THEN SeatsTaken ELSE c.seats
        /\ d.locked = {} /\ d.fresh = c.fresh /\ d.targets = c.targets
    BY <1>1, <1>2, <1>3, <2>1, CallShape
  <2>5. CallRows(d)
    BY <1>1, <1>2, <2>4 DEF CallRows, Importing
  <2>6. CallStage(d)
    BY <1>3, <2>4 DEF CallStage, Importing
  <2>7. CallFresh(d)
    BY <1>1, <1>2, <1>3, <2>4 DEF CallFresh, Importing
  <2>8. \A s \in WrittenOf(d) : s \in WrittenOf(c) \/ s = r
    BY <1>3, <2>4 DEF WrittenOf
  <2>9. CallKeys(d)
    BY <1>2, <1>5, <2>8 DEF CallKeys
  <2>10. CallMails(d)
    BY <1>3, <2>4 DEF CallMails, Range
  <2>11. ASSUME NEW k \in Handlers \ {h}, NEW s \in WrittenOf(d), NEW q \in Written(k)
         PROVE  ~SameKey(s, q)
    <3>1. CASE s = r
      BY <1>1, <3>1 DEF KeyFree
    <3>2. CASE s \in WrittenOf(c)
      BY <3>2, WrittenIs DEF ImportInv, CallsApart
    <3> QED BY <2>8, <3>1, <3>2
  <2>12. GoodCall(h, d)
    BY <2>3, <2>5, <2>6, <2>7, <2>9, <2>10, <2>11 DEF GoodCall, CallFits
  <2> QED BY <1>1, <1>3, <2>2, <2>12, MailsStay, OneCall DEF importTables
<1> QED BY <1>4, <1>5

\* The group that comes next is that of a row, and when none does all are locked.
LEMMA NextGroupIs ==
  ASSUME NEW c \in Import
  PROVE  /\ Present(NextGroup(c)) => NextGroup(c) \in Opened /\ \E i \in DOMAIN c.targets : c.targets[i] = NextGroup(c)
         /\ ~Present(NextGroup(c)) => \A i \in DOMAIN c.targets : Present(c.targets[i]) => c.targets[i] \in c.locked
<1> DEFINE open == {i \in DOMAIN c.targets : Present(c.targets[i]) /\ c.targets[i] \notin c.locked}
<1>1. DOMAIN c.targets = 1..Len(c.targets) /\ \A i \in DOMAIN c.targets : c.targets[i] \in Opened \cup {None}
  BY CallShape
<1>2. CASE open = {}
  BY <1>2 DEF NextGroup, Present
<1>3. CASE open # {}
  <2>1. open \in SUBSET Nat
    BY <1>1
  <2> HIDE DEF open
  <2>2. \E i \in open : \A j \in open : i <= j
    BY <1>3, <2>1, LeastIn
  <2>3. PICK i \in open : NextGroup(c) = c.targets[i]
    <3>1. NextGroup(c) = c.targets[CHOOSE i \in open : \A j \in open : i <= j]
      BY <1>3 DEF NextGroup, open
    <3> QED BY <2>2, <3>1
  <2>4. i \in DOMAIN c.targets /\ Present(c.targets[i])
    BY DEF open
  <2> QED BY <1>1, <2>3, <2>4 DEF Present
<1> QED BY <1>2, <1>3

LEMMA JoiningSome ==
  ASSUME NEW c \in Import, NEW g
  PROVE  /\ Joining(c, g) \in Nat
         /\ (\E i \in DOMAIN c.targets : c.targets[i] = g) <=> Joining(c, g) > 0
<1> DEFINE joined == {i \in DOMAIN c.targets : c.targets[i] = g}
<1>1. IsFiniteSet(joined)
  <2>1. DOMAIN c.targets = 1..Len(c.targets) /\ Len(c.targets) \in Nat
    BY CallShape
  <2>2. IsFiniteSet(1..Len(c.targets))
    BY <2>1, FS_Interval
  <2> QED BY <2>1, <2>2, FS_Subset, joined \subseteq 1..Len(c.targets)
<1>2. joined # {} <=> \E i \in DOMAIN c.targets : c.targets[i] = g
  OBVIOUS
<1>3. Joining(c, g) = Cardinality(joined)
  BY DEF Joining
<1> HIDE DEF joined
<1>4. Cardinality(joined) \in Nat /\ (Cardinality(joined) = 0 <=> joined = {})
  BY <1>1, FS_CardinalityType, FS_EmptySet
<1> QED BY <1>2, <1>3, <1>4

LEMMA EnrollBatchKeeps == ASSUME ImportInv, NEW h \in Handlers, EnrollBatch(h) PROVE ImportInv'
<1> DEFINE c == imports[h]
           g == NextGroup(c)
<1>1. /\ c.phase = "enroll" /\ Present(g) /\ UNCHANGED <<importTables, welcomed, unsent>>
  BY DEF EnrollBatch
<1>2. /\ c \in Import /\ CallRows(c) /\ CallStage(c) /\ CallFresh(c) /\ CallKeys(c) /\ PeopleTyped
  BY CallOf DEF ImportInv
<1>3. /\ c.pending = <<>> /\ c.inserted > 0
  BY <1>1, <1>2 DEF CallStage
<1>4. g \in Opened /\ \E i \in DOMAIN c.targets : c.targets[i] = g
  BY <1>1, <1>2, NextGroupIs
<1> HIDE DEF g
<1>5. CASE HasRoom(c, g)
  <2>1. PICK d : d = [c EXCEPT !.locked = @ \cup {g}]
    OBVIOUS
  <2>2. Goes(h, d)
    BY <1>5, <2>1 DEF EnrollBatch, g
  <2>3. d \in Import
    BY <1>2, <1>4, <2>1, CallShape DEF Import
  <2>4. /\ d.phase = c.phase /\ d.rows = c.rows /\ d.inserted = c.inserted /\ d.pending = c.pending
        /\ d.shown = c.shown /\ d.seats = c.seats /\ d.locked = c.locked \cup {g} /\ d.fresh = c.fresh
        /\ d.targets = c.targets
    BY <1>2, <2>1, CallShape
  <2>5. CallRows(d)
    BY <1>2, <2>4 DEF CallRows, Importing
  <2>6. CallStage(d)
    <3>1. \A k : HasRoom(d, k) <=> HasRoom(c, k)
      BY <2>4 DEF HasRoom, Joining
    <3> QED BY <1>1, <1>2, <1>5, <2>4, <3>1 DEF CallStage, Importing
  <2>7. CallFresh(d)
    <3>1. \A k : Joining(d, k) = Joining(c, k)
      BY <2>4 DEF Joining
    <3> QED BY <1>2, <2>4, <3>1 DEF CallFresh, Importing
  <2>8. WrittenOf(d) = WrittenOf(c)
    BY <2>4 DEF WrittenOf
  <2>9. CallKeys(d) /\ CallMails(d)
    BY <1>2, <1>3, <2>4, <2>8 DEF CallKeys, CallMails, Range
  <2>10. \A k \in Handlers \ {h} : \A s \in WrittenOf(d), q \in Written(k) : ~SameKey(s, q)
    BY <2>8, WrittenIs DEF ImportInv, CallsApart
  <2>11. GoodCall(h, d)
    BY <2>3, <2>5, <2>6, <2>7, <2>9, <2>10 DEF GoodCall, CallFits
  <2> QED BY <1>1, <1>3, <2>2, <2>11, MailsStay, OneCall DEF importTables
<1>6. CASE ~HasRoom(c, g)
  <2>1. Refused(h)
    BY <1>6 DEF EnrollBatch, g
  <2>2. c.fresh => c.seats = SeatsTaken
    BY <1>2, <1>3 DEF CallFresh
  <2>3. Joining(c, g) > 0 /\ Joining(c, g) \in Nat /\ SeatsTaken[g] \in Nat /\ g.capacity \in Nat
    BY <1>2, <1>4, JoiningSome, SeatsTyped, ImportAssumption DEF ImportAssumption
  <2>4. c.fresh => SeatsTaken[g] + Joining(c, g) > g.capacity
    BY <1>6, <2>2, <2>3 DEF HasRoom
  <2> QED BY <1>1, <1>4, <2>1, <2>3, <2>4, RefusedKeeps DEF Importing
<1> QED BY <1>5, <1>6

-----------------------------------------------------------------------------
(* The credentials, and a request that is cut.                             *)
LEMMA HeadAndTail ==
  ASSUME NEW s \in Seq(STRING), s # <<>>
  PROVE  /\ Head(s) \in Range(s) /\ Tail(s) \in Seq(STRING) /\ Head(s) \in STRING
         /\ Range(Tail(s)) \subseteq Range(s)
         /\ Range(s) \subseteq {Head(s)} \cup Range(Tail(s))
         /\ Len(s) # 1 => Tail(s) # <<>>
         /\ Len(s) = 1 => Range(s) \subseteq {Head(s)}
<1>1. /\ Len(s) \in Nat /\ Len(s) > 0 /\ DOMAIN s = 1..Len(s) /\ Head(s) = s[1]
      /\ Tail(s) \in Seq(STRING) /\ Len(Tail(s)) = Len(s) - 1 /\ DOMAIN Tail(s) = 1..(Len(s) - 1)
      /\ \A i \in 1..(Len(s) - 1) : Tail(s)[i] = s[i + 1]
  OBVIOUS
<1> DEFINE t == Tail(s)
<1> HIDE DEF t
<1>2. /\ DOMAIN t = 1..(Len(s) - 1) /\ \A i \in 1..(Len(s) - 1) : t[i] = s[i + 1] /\ i + 1 \in DOMAIN s
  BY <1>1 DEF t
<1>3. \A x \in Range(t) : x \in Range(s)
  BY <1>2 DEF Range
<1>4. ASSUME NEW x \in Range(s) PROVE x = s[1] \/ (x \in Range(t) /\ Len(s) # 1)
  <2>1. PICK i \in 1..Len(s) : x = s[i]
    BY <1>1 DEF Range
  <2>2. CASE i = 1
    BY <2>1, <2>2
  <2>3. CASE i # 1
    <3>1. i - 1 \in 1..(Len(s) - 1) /\ (i - 1) + 1 = i
      BY <1>1, <2>3
    <3>2. i - 1 \in DOMAIN t /\ t[i - 1] = x
      BY <1>2, <2>1, <3>1
    <3> QED BY <1>1, <2>3, <3>2 DEF Range
  <2> QED BY <2>2, <2>3
<1>5. 1 \in DOMAIN s /\ s[1] \in STRING
  BY <1>1
<1>6. Len(s) # 1 => t # <<>>
  <2>1. Len(t) = Len(s) - 1
    BY <1>1 DEF t
  <2> QED BY <1>1, <2>1
<1>7. Len(s) = 1 => Range(s) \subseteq {Head(s)}
  BY <1>1, <1>4
<1>8. Range(s) \subseteq {Head(s)} \cup Range(t)
  BY <1>1, <1>4
<1>9. Head(s) \in Range(s) /\ Head(s) \in STRING
  BY <1>1, <1>5 DEF Range
<1>10. Range(t) \subseteq Range(s) /\ t \in Seq(STRING)
  BY <1>1, <1>3 DEF t
<1> QED BY <1>6, <1>7, <1>8, <1>9, <1>10 DEF t

LEMMA SendCredentialsKeeps == ASSUME ImportInv, NEW h \in Handlers, SendCredentials(h) PROVE ImportInv'
<1> DEFINE c == imports[h]
           m == Head(c.pending)
<1>1. /\ c.phase = "mail" /\ UNCHANGED importTables
      /\ Goes(h, IF Len(c.pending) = 1 THEN NotImporting ELSE [c EXCEPT !.pending = Tail(@)])
      /\ \/ unsent' = unsent \cup {m} /\ UNCHANGED welcomed
         \/ welcomed' = welcomed \cup {m} /\ UNCHANGED unsent
  BY DEF SendCredentials
<1>2. /\ c \in Import /\ CallRows(c) /\ CallStage(c) /\ CallFresh(c) /\ CallMails(c) /\ PeopleTyped
      /\ CredentialsExplained
  BY CallOf DEF ImportInv
<1>3. c.pending # <<>> /\ c.pending \in Seq(STRING) /\ c.inserted = 0 /\ c.locked = {}
  BY <1>1, <1>2, CallShape DEF CallStage, Importing
<1>4. m \in Range(c.pending) /\ m \in STRING /\ m \in Mails
  BY <1>2, <1>3, HeadAndTail DEF CallMails
<1> HIDE DEF m
<1>5. ASSUME NEW d, Range(c.pending) \subseteq {m} \cup Range(d.pending) PROVE MailsGo(h, d)
  <2>1. welcomed \subseteq Mails /\ welcomed \cup unsent \subseteq STRING
    BY <1>2 DEF PeopleTyped, CredentialsExplained, Mails
  <2>2. /\ welcomed \subseteq welcomed' /\ unsent \subseteq unsent' /\ m \in welcomed' \cup unsent'
        /\ welcomed' \subseteq welcomed \cup {m} /\ unsent' \subseteq unsent \cup {m}
    BY <1>1
  <2> QED BY <1>4, <1>5, <2>1, <2>2 DEF MailsGo
<1>6. CASE Len(c.pending) = 1
  <2>1. GoodCall(h, NotImporting)
    BY NotImportingIs, NoRows DEF CallRows, CallStage, CallFresh, Importing, NotImporting
  <2>2. MailsGo(h, NotImporting)
    BY <1>3, <1>5, <1>6, HeadAndTail DEF m
  <2> QED BY <1>1, <1>6, <2>1, <2>2, OneCall DEF importTables
<1>7. CASE Len(c.pending) # 1
  <2>1. PICK d : d = [c EXCEPT !.pending = Tail(@)]
    OBVIOUS
  <2>2. Goes(h, d)
    BY <1>1, <1>7, <2>1
  <2>3. Tail(c.pending) \in Seq(STRING) /\ Tail(c.pending) # <<>>
    BY <1>3, <1>7, HeadAndTail
  <2>4. d \in Import
    BY <1>2, <2>1, <2>3, CallShape DEF Import
  <2>5. /\ d.phase = c.phase /\ d.rows = c.rows /\ d.inserted = c.inserted /\ d.pending = Tail(c.pending)
        /\ d.fresh = c.fresh /\ d.locked = c.locked
    BY <1>2, <2>1, CallShape
  <2>6. CallRows(d) /\ CallStage(d) /\ CallFresh(d)
    BY <1>1, <1>2, <1>3, <2>3, <2>5 DEF CallRows, CallStage, CallFresh, Importing
  <2>7. WrittenOf(d) = {}
    BY <1>3, <2>5 DEF WrittenOf
  <2>8. CallMails(d)
    BY <1>2, <1>3, <2>5, HeadAndTail DEF CallMails
  <2>9. GoodCall(h, d)
    BY <2>4, <2>6, <2>7, <2>8 DEF GoodCall, CallFits, CallKeys
  <2>10. MailsGo(h, d)
    BY <1>3, <1>5, <2>5, HeadAndTail DEF m
  <2> QED BY <1>1, <2>2, <2>9, <2>10, OneCall DEF importTables
<1> QED BY <1>6, <1>7

LEMMA CutImportKeeps == ASSUME ImportInv, NEW h \in Handlers, CutImport(h) PROVE ImportInv'
<1>1. /\ Goes(h, NotImporting) /\ unsent' = unsent \cup Range(imports[h].pending)
      /\ UNCHANGED <<importTables, welcomed>>
  BY DEF CutImport
<1>2. GoodCall(h, NotImporting)
  BY NotImportingIs, NoRows DEF CallRows, CallStage, CallFresh, Importing, NotImporting
<1>3. MailsGo(h, NotImporting)
  <2>1. Range(imports[h].pending) \subseteq STRING
    BY CallOf, CallShape DEF Range
  <2>2. welcomed \subseteq Mails /\ welcomed \cup unsent \subseteq STRING
    BY DEF ImportInv, PeopleTyped, CredentialsExplained, Mails
  <2> QED BY <1>1, <2>1, <2>2 DEF MailsGo
<1> QED BY <1>1, <1>2, <1>3, OneCall DEF importTables

-----------------------------------------------------------------------------
(* What changes under the requests.                                        *)
StaleCall(k) == [imports[k] EXCEPT !.fresh = FALSE]

LEMMA StaleKeeps ==
  ASSUME ImportInv, NEW k \in Handlers, NEW d, d = StaleCall(k),
         people \subseteq people', \A r \in Written(k) : \A u \in people' \ people : ~SameKey(r, u)
  PROVE  /\ CallFits(d)' /\ CallFresh(d)' /\ CallKeys(d)' /\ CallMails(d)'
         /\ d \in Import /\ WrittenOf(d) = Written(k) /\ d.pending = imports[k].pending
<1> DEFINE c == imports[k]
<1>1. c \in Import /\ CallRows(c) /\ CallStage(c) /\ CallKeys(c) /\ CallMails(c)
  BY CallOf
<1>2. d \in Import
  BY <1>1 DEF Import, StaleCall
<1>3. /\ d.phase = c.phase /\ d.rows = c.rows /\ d.inserted = c.inserted /\ d.pending = c.pending
      /\ d.seats = c.seats /\ d.locked = c.locked /\ ~d.fresh /\ d.targets = c.targets
  BY <1>1, CallShape DEF StaleCall
<1>4. CallRows(d)
  BY <1>1, <1>3 DEF CallRows, Importing
<1>5. CallStage(d)
  <2>1. \A g : HasRoom(d, g) <=> HasRoom(c, g)
    BY <1>3 DEF HasRoom, Joining
  <2> QED BY <1>1, <1>3, <2>1 DEF CallStage, Importing
<1>6. CallFits(d)'
  BY <1>2, <1>4, <1>5 DEF CallFits, CallRows, CallStage, HasRoom, Joining, Import
<1>7. CallFresh(d)'
  BY <1>3 DEF CallFresh
<1>8. WrittenOf(d) = Written(k)
  BY <1>3 DEF WrittenOf, Written
<1>9. CallKeys(d)'
  <2>1. ASSUME NEW r \in WrittenOf(d), NEW u \in people' PROVE ~SameKey(r, u)
    <3>1. CASE u \in people
      BY <1>1, <1>8, <3>1, WrittenIs DEF CallKeys
    <3>2. CASE u \notin people
      BY <1>8, <3>2
    <3> QED BY <3>1, <3>2
  <2>2. WrittenOf(d)' = WrittenOf(d)
    BY DEF WrittenOf
  <2> QED BY <2>1, <2>2 DEF CallKeys
<1>10. CallMails(d)'
  BY <1>1, <1>3 DEF CallMails, Mails
<1> QED BY <1>2, <1>3, <1>6, <1>7, <1>8, <1>9, <1>10

LEMMA RegisterByHandKeeps == ASSUME ImportInv, RegisterByHand PROVE ImportInv'
<1>1. PICK n \in Newcomers :
        /\ \A h \in Handlers : \A s \in Written(h) : ~SameKey(n, s)
        /\ ~\E u \in people : SameKey(n, u)
        /\ people' = people \cup {[id |-> n.id, mail |-> n.mail, status |-> "ACTIVE", group |-> None]}
        /\ imports' = Stale(imports) /\ UNCHANGED <<offer, welcomed, unsent>>
  BY DEF RegisterByHand
<1>2. PICK new : new = [id |-> n.id, mail |-> n.mail, status |-> "ACTIVE", group |-> None]
  OBVIOUS
<1>3. new.id = n.id /\ new.mail = n.mail /\ new.status = "ACTIVE" /\ new.group = None /\ people' = people \cup {new}
  BY <1>1, <1>2
<1>4. \A r : (SameKey(r, new) <=> SameKey(n, r)) /\ (SameKey(new, r) <=> SameKey(n, r))
  BY <1>3 DEF SameKey
<1>5. /\ imports' \in [Handlers -> Import]
      /\ \A k \in Handlers : /\ CallFits(imports[k])' /\ CallFresh(imports[k])' /\ CallKeys(imports[k])'
                             /\ CallMails(imports[k])' /\ Written(k)' = Written(k)
                             /\ imports'[k].pending = imports[k].pending
  <2>1. /\ DOMAIN imports' = Handlers /\ imports' = [k \in Handlers |-> imports'[k]]
        /\ \A k \in Handlers : imports'[k] = StaleCall(k)
    BY <1>1 DEF Stale, StaleCall
  <2>2. ASSUME NEW k \in Handlers
        PROVE  /\ CallFits(imports[k])' /\ CallFresh(imports[k])' /\ CallKeys(imports[k])' /\ CallMails(imports[k])'
               /\ imports'[k] \in Import /\ Written(k)' = Written(k) /\ imports'[k].pending = imports[k].pending
    <3>1. PICK d : d = StaleCall(k)
      OBVIOUS
    <3>2. imports'[k] = d
      BY <2>1, <3>1
    <3>3. \A r \in Written(k) : \A u \in people' \ people : ~SameKey(r, u)
      BY <1>1, <1>3, <1>4
    <3>4. /\ CallFits(d)' /\ CallFresh(d)' /\ CallKeys(d)' /\ CallMails(d)' /\ d \in Import
          /\ WrittenOf(d) = Written(k) /\ d.pending = imports[k].pending
      BY <1>3, <3>1, <3>3, StaleKeeps
    <3>5. Written(k)' = WrittenOf(d)
      BY <3>2 DEF Written, WrittenOf
    <3> QED BY <3>2, <3>4, <3>5
  <2> QED BY <2>1, <2>2
<1>6. CallsApart'
  BY <1>5 DEF ImportInv, CallsApart
<1>7. PeopleTyped'
  <2>1. IsFiniteSet(people \cup {new})
    BY FS_AddElement DEF ImportInv, PeopleTyped
  <2> QED BY <1>1, <1>3, <2>1 DEF ImportInv, PeopleTyped
<1>8. ImportedOnce'
  <2>1. \A u \in people : ~SameKey(u, new) /\ ~SameKey(new, u)
    BY <1>1, <1>4
  <2>2. ~Present(new.group)
    BY <1>3 DEF Present
  <2> QED BY <1>3, <2>1, <2>2 DEF ImportInv, ImportedOnce
<1>9. CredentialsExplained'
  <2>1. Mails' = Mails \cup {n.mail}
    BY <1>3 DEF Mails
  <2>2. UNION {Range(imports'[k].pending) : k \in Handlers} = UNION {Range(imports[k].pending) : k \in Handlers}
    BY <1>5
  <2>3. /\ welcomed \subseteq Mails
        /\ Mails \ {q.mail : q \in Newcomers} \subseteq
             welcomed \cup unsent \cup UNION {Range(imports[k].pending) : k \in Handlers}
    BY DEF ImportInv, CredentialsExplained, Mails
  <2>4. /\ welcomed' \subseteq Mails'
        /\ Mails' \ {q.mail : q \in Newcomers} \subseteq
             welcomed' \cup unsent' \cup UNION {Range(imports'[k].pending) : k \in Handlers}
    <3>1. Mails' \ {q.mail : q \in Newcomers} \subseteq Mails \ {q.mail : q \in Newcomers}
      BY <2>1
    <3> QED BY <1>1, <2>1, <2>2, <2>3, <3>1
  <2> QED BY <2>4 DEF CredentialsExplained, Mails
<1> QED BY <1>5, <1>6, <1>7, <1>8, <1>9 DEF ImportInv

LEMMA ChangeOfferKeeps == ASSUME ImportInv, ChangeOffer PROVE ImportInv'
<1>1. /\ offer' \in Offers /\ imports' = Stale(imports) /\ UNCHANGED <<people, welcomed, unsent>>
  BY DEF ChangeOffer
<1>2. /\ DOMAIN imports' = Handlers /\ imports' = [k \in Handlers |-> imports'[k]]
      /\ \A k \in Handlers : imports'[k] = StaleCall(k)
  BY <1>1 DEF Stale, StaleCall
<1>3. ASSUME NEW k \in Handlers
      PROVE  /\ CallFits(imports[k])' /\ CallFresh(imports[k])' /\ CallKeys(imports[k])' /\ CallMails(imports[k])'
             /\ imports'[k] \in Import /\ Written(k)' = Written(k) /\ imports'[k].pending = imports[k].pending
  <2>1. PICK d : d = StaleCall(k)
    OBVIOUS
  <2>2. imports'[k] = d
    BY <1>2, <2>1
  <2>3. /\ CallFits(d)' /\ CallFresh(d)' /\ CallKeys(d)' /\ CallMails(d)' /\ d \in Import
        /\ WrittenOf(d) = Written(k) /\ d.pending = imports[k].pending
    BY <1>1, <2>1, StaleKeeps
  <2>4. Written(k)' = WrittenOf(d)
    BY <2>2 DEF Written, WrittenOf
  <2> QED BY <2>2, <2>3, <2>4
<1>4. imports' \in [Handlers -> Import]
  BY <1>2, <1>3
<1>5. CallsApart'
  BY <1>3 DEF ImportInv, CallsApart
<1>6. PeopleTyped' /\ ImportedOnce'
  BY <1>1 DEF ImportInv, PeopleTyped, ImportedOnce
<1>7. CredentialsExplained'
  <2>1. UNION {Range(imports'[k].pending) : k \in Handlers} = UNION {Range(imports[k].pending) : k \in Handlers}
    BY <1>3
  <2> QED BY <1>1, <2>1 DEF ImportInv, CredentialsExplained
<1> QED BY <1>3, <1>4, <1>5, <1>6, <1>7 DEF ImportInv

-----------------------------------------------------------------------------
(* The commit.                                                             *)
NewPerson(c, i) ==
  [id |-> c.rows[i].id, mail |-> c.rows[i].mail, status |-> c.rows[i].status, group |-> c.targets[i]]
NewPeople(c) == {NewPerson(c, i) : i \in DOMAIN c.rows}

LEMMA NewPersonIs ==
  ASSUME NEW c, NEW i
  PROVE  LET u == NewPerson(c, i) IN
         u.id = c.rows[i].id /\ u.mail = c.rows[i].mail /\ u.status = c.rows[i].status /\ u.group = c.targets[i]
  BY DEF NewPerson

LEMMA CommitShape ==
  ASSUME ImportInv, NEW h \in Handlers, CommitImport(h)
  PROVE  LET c == imports[h] IN
         /\ c \in Import /\ CallRows(c) /\ CallStage(c) /\ CallKeys(c) /\ c.phase = "enroll"
         /\ people' = people \cup NewPeople(c) /\ Written(h) = {c.rows[i] : i \in DOMAIN c.rows}
         /\ DOMAIN c.rows = 1..Len(c.rows) /\ Len(c.rows) \in Nat /\ c.rows \in Seq(Row) /\ c.rows # <<>>
         /\ DOMAIN c.targets = DOMAIN c.rows /\ \A i \in DOMAIN c.rows : c.targets[i] \in Opened \cup {None}
         /\ c.pending = <<>> /\ KeysApart(c.rows)
<1> DEFINE c == imports[h]
<1>1. /\ c.phase = "enroll"
      /\ people' = people \cup {[id |-> c.rows[i].id, mail |-> c.rows[i].mail, status |-> c.rows[i].status,
                                 group |-> c.targets[i]] : i \in DOMAIN c.rows}
  BY DEF CommitImport
<1>2. people' = people \cup NewPeople(c)
  BY <1>1 DEF NewPeople, NewPerson
<1>3. /\ c \in Import /\ CallRows(c) /\ CallStage(c) /\ CallKeys(c)
  BY CallOf
<1>4. /\ c.rows \in Seq(Row) /\ DOMAIN c.rows = 1..Len(c.rows) /\ Len(c.rows) \in Nat
      /\ c.inserted = Len(c.rows) /\ c.inserted > 0 /\ c.pending = <<>>
  BY <1>1, <1>3, CallShape DEF CallStage
<1>5. DOMAIN c.targets = DOMAIN c.rows /\ KeysApart(c.rows)
  BY <1>1, <1>3 DEF CallRows, Importing
<1>6. \A i \in DOMAIN c.targets : c.targets[i] \in Opened \cup {None}
  BY <1>3, CallShape
<1>7. Written(h) = {c.rows[i] : i \in DOMAIN c.rows}
  BY <1>4 DEF Written
<1>8. c.rows # <<>>
  BY <1>4
<1> HIDE DEF c
<1>9. /\ c \in Import /\ CallRows(c) /\ CallStage(c) /\ CallKeys(c) /\ c.phase = "enroll"
      /\ people' = people \cup NewPeople(c) /\ Written(h) = {c.rows[i] : i \in DOMAIN c.rows}
      /\ DOMAIN c.rows = 1..Len(c.rows) /\ Len(c.rows) \in Nat /\ c.rows \in Seq(Row) /\ c.rows # <<>>
      /\ DOMAIN c.targets = DOMAIN c.rows /\ \A i \in DOMAIN c.rows : c.targets[i] \in Opened \cup {None}
      /\ c.pending = <<>> /\ KeysApart(c.rows)
  BY <1>1, <1>2, <1>3, <1>4, <1>5, <1>6, <1>7, <1>8
<1> QED BY <1>9 DEF c

LEMMA CommitImportKeeps == ASSUME ImportInv, NEW h \in Handlers, CommitImport(h) PROVE ImportInv'
<1> PICK c : c = imports[h]
  OBVIOUS
<1>1. /\ c \in Import /\ CallRows(c) /\ CallStage(c) /\ CallKeys(c) /\ c.phase = "enroll"
      /\ people' = people \cup NewPeople(c) /\ Written(h) = {c.rows[i] : i \in DOMAIN c.rows}
      /\ DOMAIN c.rows = 1..Len(c.rows) /\ Len(c.rows) \in Nat /\ c.rows \in Seq(Row) /\ c.rows # <<>>
      /\ DOMAIN c.targets = DOMAIN c.rows /\ \A i \in DOMAIN c.rows : c.targets[i] \in Opened \cup {None}
      /\ c.pending = <<>> /\ KeysApart(c.rows)
  BY CommitShape
<1>2. PICK d : d = [NotImporting EXCEPT !.phase = "mail", !.pending = [i \in DOMAIN c.rows |-> c.rows[i].mail]]
  OBVIOUS
<1>3. imports' = [Stale(imports) EXCEPT ![h] = d] /\ UNCHANGED <<offer, welcomed, unsent>>
  BY <1>2 DEF CommitImport
<1>4. /\ imports' = [k \in Handlers |-> imports'[k]]
      /\ \A k \in Handlers : imports'[k] = IF k = h THEN d ELSE StaleCall(k)
  BY <1>3 DEF Stale, StaleCall
<1>5. \A i \in DOMAIN c.rows : c.rows[i] \in Row /\ c.rows[i].mail \in STRING
  <2>1. \A i \in DOMAIN c.rows : c.rows[i] \in Row
    BY <1>1
  <2>2. \A r \in Row : r.mail \in STRING
    BY DEF Row
  <2> QED BY <2>1, <2>2
<1>6. /\ d \in Import /\ d.phase = "mail" /\ d.rows = <<>> /\ d.inserted = 0 /\ d.locked = {}
      /\ d.pending = [i \in DOMAIN c.rows |-> c.rows[i].mail] /\ d.pending # <<>>
  <2>1. PICK mails : mails = [i \in DOMAIN c.rows |-> c.rows[i].mail]
    OBVIOUS
  <2>2. mails \in Seq(STRING)
    <3>1. mails \in [1..Len(c.rows) -> STRING]
      BY <1>1, <1>5, <2>1
    <3> QED BY <1>1, <3>1
  <2>3. mails # <<>>
    BY <1>1, <2>1
  <2>4. d = [NotImporting EXCEPT !.phase = "mail", !.pending = mails]
    BY <1>2, <2>1
  <2>5. d \in Import
    BY <2>2, <2>4, NotImportingIs DEF Import
  <2>6. /\ d.phase = "mail" /\ d.rows = <<>> /\ d.inserted = 0 /\ d.locked = {} /\ d.pending = mails
    BY <2>4 DEF NotImporting
  <2> QED BY <2>1, <2>3, <2>5, <2>6
<1>7. \A u \in NewPeople(c) : \E i \in DOMAIN c.rows :
        /\ u = NewPerson(c, i) /\ u.id = c.rows[i].id /\ u.mail = c.rows[i].mail /\ u.status = c.rows[i].status
        /\ u.group = c.targets[i]
  BY NewPersonIs DEF NewPeople
<1>8. ASSUME NEW r, \A i \in DOMAIN c.rows : ~SameKey(r, c.rows[i]), NEW u \in NewPeople(c)
      PROVE  ~SameKey(r, u) /\ ~SameKey(u, r)
  BY <1>7, <1>8 DEF SameKey
<1>9. /\ CallFits(d)' /\ CallFresh(d)' /\ CallKeys(d)' /\ CallMails(d)' /\ WrittenOf(d) = {}
  <2>1. CallRows(d) /\ CallStage(d) /\ WrittenOf(d) = {}
    BY <1>6 DEF CallRows, CallStage, Importing, WrittenOf
  <2>2. CallFits(d)'
    BY <1>6, <2>1 DEF CallFits, CallRows, CallStage, HasRoom, Joining, Import
  <2>3. CallFresh(d)' /\ CallKeys(d)'
    BY <1>6, <2>1 DEF CallFresh, CallKeys, Importing, WrittenOf
  <2>4. CallMails(d)'
    <3>1. ASSUME NEW m \in Range(d.pending) PROVE m \in Mails'
      <4>1. PICK i \in DOMAIN c.rows : m = c.rows[i].mail
        BY <1>6, <3>1 DEF Range
      <4>2. NewPerson(c, i) \in people' /\ NewPerson(c, i).mail = m
        BY <1>1, <4>1, NewPersonIs DEF NewPeople
      <4> QED BY <4>2 DEF Mails
    <3> QED BY <3>1 DEF CallMails, Range
  <2> QED BY <2>1, <2>2, <2>3, <2>4
<1>10. ASSUME NEW k \in Handlers, k # h
       PROVE  /\ CallFits(imports[k])' /\ CallFresh(imports[k])' /\ CallKeys(imports[k])' /\ CallMails(imports[k])'
              /\ imports'[k] \in Import /\ Written(k)' = Written(k) /\ imports'[k].pending = imports[k].pending
  <2>1. PICK e : e = StaleCall(k)
    OBVIOUS
  <2>2. imports'[k] = e
    BY <1>4, <1>10, <2>1
  <2>3. ASSUME NEW r \in Written(k), NEW u \in people' \ people PROVE ~SameKey(r, u)
    <3>1. \A i \in DOMAIN c.rows : ~SameKey(r, c.rows[i])
      BY <1>1, <1>10 DEF ImportInv, CallsApart
    <3> QED BY <1>1, <1>8, <3>1
  <2>4. people \subseteq people'
    BY <1>1
  <2>5. /\ CallFits(e)' /\ CallFresh(e)' /\ CallKeys(e)' /\ CallMails(e)' /\ e \in Import
        /\ WrittenOf(e) = Written(k) /\ e.pending = imports[k].pending
    BY <2>1, <2>3, <2>4, StaleKeeps
  <2>6. Written(k)' = WrittenOf(e)
    BY <2>2 DEF Written, WrittenOf
  <2> QED BY <2>2, <2>5, <2>6
<1>11. ASSUME NEW k \in Handlers
       PROVE  /\ CallFits(imports[k])' /\ CallFresh(imports[k])' /\ CallKeys(imports[k])' /\ CallMails(imports[k])'
              /\ imports'[k] \in Import /\ (Written(k)' = Written(k) \/ Written(k)' = {})
  <2>1. CASE k = h
    <3>1. imports'[k] = d
      BY <1>4, <2>1
    <3>2. Written(k)' = WrittenOf(d)
      BY <3>1 DEF Written, WrittenOf
    <3> QED BY <1>6, <1>9, <3>1, <3>2
  <2>2. CASE k # h
    BY <1>10, <2>2
  <2> QED BY <2>1, <2>2
<1>12. imports' \in [Handlers -> Import]
  BY <1>4, <1>11
<1>13. CallsApart'
  BY <1>11 DEF ImportInv, CallsApart
<1>14. PeopleTyped'
  <2>1. IsFiniteSet(DOMAIN c.rows)
    BY <1>1, FS_Interval
  <2>2. IsFiniteSet(NewPeople(c))
    <3>1. PICK made : made = [i \in DOMAIN c.rows |-> NewPerson(c, i)]
      OBVIOUS
    <3>2. made \in Surjection(DOMAIN c.rows, NewPeople(c))
      BY <3>1 DEF Surjection, NewPeople
    <3> QED BY <2>1, <3>2, FS_Surjection
  <2>3. IsFiniteSet(people \cup NewPeople(c))
    BY <2>2, FS_Union DEF ImportInv, PeopleTyped
  <2>4. \A u \in NewPeople(c) : u.group \in Opened \cup {None}
    BY <1>1, <1>7
  <2> QED BY <1>1, <1>3, <2>3, <2>4 DEF ImportInv, PeopleTyped
<1>15. ImportedOnce'
  <2>1. ASSUME NEW u \in people, NEW v \in NewPeople(c) PROVE ~SameKey(u, v) /\ ~SameKey(v, u)
    <3>1. \A i \in DOMAIN c.rows : ~SameKey(u, c.rows[i])
      BY <1>1, WrittenIs, SameKeySame DEF CallKeys
    <3> QED BY <1>8, <3>1
  <2>2. ASSUME NEW u \in NewPeople(c), NEW v \in NewPeople(c), SameKey(u, v) PROVE u = v
    <3>1. PICK i \in DOMAIN c.rows : u = NewPerson(c, i) /\ u.id = c.rows[i].id /\ u.mail = c.rows[i].mail
      BY <1>7
    <3>2. PICK j \in DOMAIN c.rows : v = NewPerson(c, j) /\ v.id = c.rows[j].id /\ v.mail = c.rows[j].mail
      BY <1>7
    <3>3. SameKey(c.rows[i], c.rows[j])
      BY <2>2, <3>1, <3>2 DEF SameKey
    <3> QED BY <1>1, <3>1, <3>2, <3>3 DEF KeysApart
  <2>3. ASSUME NEW u \in NewPeople(c), Present(u.group) PROVE u.status = "ACTIVE"
    <3>1. PICK i \in DOMAIN c.rows : u.status = c.rows[i].status /\ u.group = c.targets[i]
      BY <1>7
    <3> QED BY <1>1, <2>3, <3>1 DEF CallRows, Importing
  <2> QED BY <1>1, <2>1, <2>2, <2>3 DEF ImportInv, ImportedOnce
<1>16. CredentialsExplained'
  <2> DEFINE owed == UNION {Range(imports[k].pending) : k \in Handlers}
             owing == UNION {Range(imports'[k].pending) : k \in Handlers}
  <2>1. /\ welcomed \subseteq Mails
        /\ Mails \ {q.mail : q \in Newcomers} \subseteq welcomed \cup unsent \cup owed
    BY DEF ImportInv, CredentialsExplained, Mails
  <2>2. ASSUME NEW m \in owed PROVE m \in owing
    <3>1. PICK k \in Handlers : m \in Range(imports[k].pending)
      OBVIOUS
    <3>2. k # h
      BY <1>1, <3>1 DEF Range
    <3>3. Range(imports'[k].pending) = Range(imports[k].pending)
      BY <1>10, <3>2
    <3> QED BY <3>1, <3>3
  <2>3. Range(d.pending) \subseteq owing
    BY <1>4
  <2>4. ASSUME NEW m \in Mails', m \notin Mails PROVE m \in owing
    <3>1. PICK u \in NewPeople(c) : u.mail = m
      BY <1>1, <2>4 DEF Mails
    <3>2. PICK i \in DOMAIN c.rows : m = c.rows[i].mail
      BY <1>7, <3>1
    <3>3. m \in Range(d.pending)
      BY <1>6, <3>2 DEF Range
    <3> QED BY <2>3, <3>3
  <2>5. Mails \subseteq Mails'
    BY <1>1 DEF Mails
  <2> HIDE DEF owed, owing
  <2>6. /\ welcomed' \subseteq Mails'
        /\ Mails' \ {q.mail : q \in Newcomers} \subseteq welcomed' \cup unsent' \cup owing
    BY <1>3, <2>1, <2>2, <2>4, <2>5
  <2> QED BY <2>6 DEF owing, CredentialsExplained, Mails
<1> QED BY <1>11, <1>12, <1>13, <1>14, <1>15, <1>16 DEF ImportInv

-----------------------------------------------------------------------------
(* The start, and any step.                                                *)
LEMMA ImportInitFits == ImportInit => ImportInv
<1> SUFFICES ASSUME ImportInit PROVE ImportInv
  OBVIOUS
<1>1. /\ people = {} /\ offer \in Offers /\ welcomed = {} /\ unsent = {}
      /\ imports = [h \in Handlers |-> NotImporting]
  BY DEF ImportInit
<1>2. PeopleTyped
  BY <1>1, FS_EmptySet DEF PeopleTyped
<1>3. ImportedOnce /\ CredentialsExplained
  BY <1>1 DEF ImportedOnce, CredentialsExplained
<1>4. \A h \in Handlers : imports[h] = NotImporting /\ Written(h) = {}
  BY <1>1, NotImportingIs DEF Written
<1>5. \A h \in Handlers : GoodCall(h, NotImporting)
  BY NotImportingIs, NoRows DEF CallRows, CallStage, CallFresh, Importing, NotImporting
<1> QED BY <1>1, <1>2, <1>3, <1>4, <1>5, NotImportingIs DEF ImportInv, GoodCall, CallsApart

LEMMA ImportStep == ASSUME ImportInv, [ImportNext(Handlers)]_importVars PROVE ImportInv'
<1>1. CASE UNCHANGED importVars
  <2>1. /\ people' = people /\ offer' = offer /\ imports' = imports /\ welcomed' = welcomed /\ unsent' = unsent
    BY <1>1 DEF importVars, importTables
  <2>2. ASSUME NEW h \in Handlers
        PROVE  CallFits(imports[h])' /\ CallFresh(imports[h])' /\ CallKeys(imports[h])' /\ CallMails(imports[h])'
    <3>1. PICK c : c = imports[h]
      OBVIOUS
    <3>2. CallFits(c) /\ CallFresh(c)' /\ CallKeys(c)' /\ CallMails(c)'
      BY <2>1, <3>1, CallOf, SameTables
    <3>3. CallFits(c)'
      BY <3>2 DEF CallFits, CallRows, CallStage, HasRoom, Joining, Import
    <3> QED BY <2>1, <3>1, <3>2, <3>3
  <2> QED BY <2>1, <2>2 DEF ImportInv, PeopleTyped, ImportedOnce, CredentialsExplained, CallsApart, Written
<1>2. CASE ImportNext(Handlers)
  BY <1>2, PreviewKeeps, ConfirmKeeps, InsertUserKeeps, EnrollBatchKeeps, CommitImportKeeps,
     SendCredentialsKeeps, CutImportKeeps, RegisterByHandKeeps, ChangeOfferKeeps DEF ImportNext, Imports
<1> QED BY <1>1, <1>2

LEMMA ImportMeans == ImportInv => ImportTypeOK /\ FollowsPreview /\ ImportedOnce /\ CredentialsExplained
<1> SUFFICES ASSUME ImportInv PROVE ImportTypeOK /\ FollowsPreview
  BY DEF ImportInv
<1>1. ImportTypeOK
  BY DEF ImportInv, PeopleTyped, ImportTypeOK
<1>2. FollowsPreview
  BY DEF ImportInv, CallFresh, FollowsPreview, Importing
<1> QED BY <1>1, <1>2

-----------------------------------------------------------------------------
(* The requests that may still fill a group, and what they leave of it.    *)
Fills(c, g) == Importing(c) /\ c.inserted > 0 /\ c.seats[g] < g.capacity
Filling(g) == {h \in Handlers : Fills(imports[h], g)}
SeatsCounted(g) == [h \in Handlers |-> imports[h].seats[g]]

\* Each of n requests has filled the group once, except the filling ones: of these, one
\* counted all but what the others have filled.
FilledWithin(taken, capacity, n, filling, counted) ==
  \E m \in {0} \cup {counted[h] : h \in filling} : taken <= capacity * (n - Cardinality(filling)) + m

SeatInv(H) ==
  /\ \A h \in Handlers \ H : imports[h].phase = "idle"
  /\ \A g \in Opened : FilledWithin(SeatsTaken[g], g.capacity, Cardinality(H), Filling(g), SeatsCounted(g))

LEMMA OnceMore ==
  ASSUME NEW a \in Nat, NEW k \in Nat
  PROVE  a * k \in Nat /\ a * (k + 1) = a * k + a
  OBVIOUS

LEMMA FillingPart ==
  ASSUME NEW H, IsFiniteSet(H), NEW filling \in SUBSET H
  PROVE  /\ IsFiniteSet(filling) /\ Cardinality(filling) \in Nat /\ Cardinality(H) \in Nat
         /\ Cardinality(filling) <= Cardinality(H) /\ Cardinality(H) - Cardinality(filling) \in Nat
<1>1. IsFiniteSet(filling) /\ Cardinality(filling) <= Cardinality(H)
  BY FS_Subset
<1>2. Cardinality(filling) \in Nat /\ Cardinality(H) \in Nat
  BY <1>1, FS_CardinalityType
<1> QED BY <1>1, <1>2

\* A request that no longer fills the group, having taken no more than it had found free.
LEMMA OneLeaves ==
  ASSUME NEW H, IsFiniteSet(H), NEW filling \in SUBSET H, NEW h \in filling, NEW counted, NEW countedNow,
         NEW capacity \in Nat, NEW taken \in Nat, NEW now \in Nat,
         \A k \in filling : counted[k] \in Nat, counted[h] < capacity,
         \A k \in filling \ {h} : countedNow[k] = counted[k],
         now <= taken + (capacity - counted[h]),
         FilledWithin(taken, capacity, Cardinality(H), filling, counted)
  PROVE  FilledWithin(now, capacity, Cardinality(H), filling \ {h}, countedNow)
<1>1. PICK m \in {0} \cup {counted[k] : k \in filling} :
        taken <= capacity * (Cardinality(H) - Cardinality(filling)) + m
  BY DEF FilledWithin
<1>2. PICK left \in Nat : left = Cardinality(H) - Cardinality(filling)
  BY FillingPart
<1>3. Cardinality(H) - Cardinality(filling \ {h}) = left + 1
  <2>1. Cardinality(filling \ {h}) = Cardinality(filling) - 1
    BY FillingPart, FS_RemoveElement
  <2> QED BY <1>2, <2>1, FillingPart
<1>4. PICK filled \in Nat : filled = capacity * left /\ capacity * (left + 1) = filled + capacity
  BY OnceMore
<1>5. taken <= filled + m
  BY <1>1, <1>2, <1>4
<1>6. CASE m = 0 \/ m = counted[h]
  <2>1. now <= filled + capacity + 0
    BY <1>4, <1>5, <1>6
  <2> QED BY <1>3, <1>4, <2>1 DEF FilledWithin
<1>7. CASE m # 0 /\ m # counted[h]
  <2>1. PICK k \in filling : m = counted[k]
    BY <1>1, <1>7
  <2>2. k \in filling \ {h} /\ m = countedNow[k] /\ m \in Nat
    BY <1>7, <2>1
  <2>3. now <= filled + capacity + m
    BY <1>4, <1>5, <2>2
  <2> QED BY <1>3, <1>4, <2>2, <2>3 DEF FilledWithin
<1> QED BY <1>6, <1>7

\* A request that counts the seats.
LEMMA OneJoins ==
  ASSUME NEW H, IsFiniteSet(H), NEW filling \in SUBSET H, NEW h \in filling, NEW counted,
         NEW capacity \in Nat, NEW taken \in Nat, counted[h] = taken
  PROVE  FilledWithin(taken, capacity, Cardinality(H), filling, counted)
<1>1. PICK left \in Nat : left = Cardinality(H) - Cardinality(filling)
  BY FillingPart
<1>2. capacity * left \in Nat
  BY <1>1, OnceMore
<1>3. taken <= capacity * left + taken
  BY <1>2
<1>4. taken \in {counted[k] : k \in filling}
  OBVIOUS
<1> QED BY <1>1, <1>3, <1>4 DEF FilledWithin

-----------------------------------------------------------------------------
(* What a step of a request does to a group.                               *)
SameGroup(h, g) ==
  /\ Fills(imports'[h], g) <=> Fills(imports[h], g)
  /\ Fills(imports[h], g) => imports'[h].seats[g] = imports[h].seats[g]
  /\ SeatsTaken'[g] = SeatsTaken[g]

FilledGroup(h, g) ==
  /\ Fills(imports[h], g) /\ ~Fills(imports'[h], g)
  /\ SeatsTaken'[g] <= SeatsTaken[g] + (g.capacity - imports[h].seats[g])

CountedGroup(h, g) ==
  /\ ~Fills(imports[h], g) /\ Fills(imports'[h], g)
  /\ imports'[h].seats[g] = SeatsTaken[g] /\ SeatsTaken'[g] = SeatsTaken[g]

SameOthers(h) ==
  \A k \in Handlers \ {h} :
    /\ imports'[k].phase = imports[k].phase /\ imports'[k].inserted = imports[k].inserted
    /\ imports'[k].seats = imports[k].seats

LEMMA SeatTypes ==
  ASSUME ImportInv, NEW g \in Opened
  PROVE  /\ SeatsTaken[g] \in Nat /\ g.capacity \in Nat
         /\ \A h \in Handlers : SeatsCounted(g)[h] = imports[h].seats[g] /\ imports[h].seats[g] \in Nat
<1>1. SeatsTaken[g] \in Nat
  BY SeatsTyped DEF ImportInv
<1>2. \A h \in Handlers : imports[h].seats \in [Opened -> Nat]
  BY CallOf, CallShape
<1> QED BY <1>1, <1>2, ImportAssumption DEF ImportAssumption, SeatsCounted

LEMMA GroupStep ==
  ASSUME ImportInv, ImportInv', NEW H \in SUBSET Handlers, IsFiniteSet(H), SeatInv(H), NEW h \in H, SameOthers(h),
         NEW g \in Opened, SameGroup(h, g) \/ FilledGroup(h, g) \/ CountedGroup(h, g)
  PROVE  FilledWithin(SeatsTaken[g], g.capacity, Cardinality(H), Filling(g), SeatsCounted(g))'
<1> PICK taken, now, filling, fillingNow, counted, countedNow :
      /\ taken = SeatsTaken[g] /\ now = SeatsTaken'[g] /\ filling = Filling(g) /\ fillingNow = Filling(g)'
      /\ counted = SeatsCounted(g) /\ countedNow = SeatsCounted(g)'
  OBVIOUS
<1>1. /\ taken \in Nat /\ now \in Nat /\ g.capacity \in Nat
      /\ \A k \in Handlers : counted[k] = imports[k].seats[g] /\ counted[k] \in Nat
      /\ \A k \in Handlers : countedNow[k] = imports'[k].seats[g]
  <2>1. now \in Nat /\ \A k \in Handlers : countedNow[k] = imports'[k].seats[g]
    <3>1. SeatsTaken'[g] \in Nat
      <4>1. PeopleTyped'
        BY DEF ImportInv
      <4>2. IsFiniteSet({u \in people' : u.group = g})
        BY <4>1, FS_Subset, {u \in people' : u.group = g} \subseteq people' DEF PeopleTyped
      <4> QED BY <4>2, FS_CardinalityType DEF SeatsTaken
    <3> QED BY <3>1 DEF SeatsCounted
  <2> QED BY <2>1, SeatTypes
<1>2. filling = {k \in Handlers : Fills(imports[k], g)} /\ fillingNow = {k \in Handlers : Fills(imports'[k], g)}
  BY DEF Filling, Fills, Importing
<1>3. \A k \in Handlers \ {h} : /\ Fills(imports'[k], g) <=> Fills(imports[k], g)
                                /\ countedNow[k] = counted[k]
  BY <1>1 DEF SameOthers, Fills, Importing
<1>4. filling \in SUBSET H
  BY <1>2 DEF SeatInv, Fills, Importing
<1>5. FilledWithin(taken, g.capacity, Cardinality(H), filling, counted)
  BY DEF SeatInv
<1>6. FilledWithin(now, g.capacity, Cardinality(H), fillingNow, countedNow)
  <2>1. CASE SameGroup(h, g)
    <3>1. fillingNow = filling /\ \A k \in filling : countedNow[k] = counted[k]
      BY <1>1, <1>2, <1>3, <2>1 DEF SameGroup
    <3>2. {countedNow[k] : k \in filling} = {counted[k] : k \in filling}
      BY <3>1
    <3>3. now = taken
      BY <2>1 DEF SameGroup
    <3> QED BY <1>5, <3>1, <3>2, <3>3 DEF FilledWithin
  <2>2. CASE FilledGroup(h, g)
    <3>1. fillingNow = filling \ {h} /\ h \in filling
      BY <1>2, <1>3, <2>2 DEF FilledGroup
    <3>2. counted[h] < g.capacity /\ now <= taken + (g.capacity - counted[h])
      BY <1>1, <2>2 DEF FilledGroup, Fills
    <3>3. \A k \in filling : counted[k] \in Nat
      BY <1>1, <1>2
    <3>4. \A k \in filling \ {h} : countedNow[k] = counted[k]
      BY <1>2, <1>3
    <3>5. PICK capacity \in Nat : capacity = g.capacity
      BY <1>1
    <3>6. counted[h] < capacity /\ now <= taken + (capacity - counted[h])
      BY <3>2, <3>5
    <3>7. FilledWithin(taken, capacity, Cardinality(H), filling, counted)
      BY <1>5, <3>5
    <3>8. FilledWithin(now, capacity, Cardinality(H), filling \ {h}, countedNow)
      BY <1>1, <1>4, <3>1, <3>3, <3>4, <3>6, <3>7, OneLeaves
    <3> QED BY <3>1, <3>5, <3>8
  <2>3. CASE CountedGroup(h, g)
    <3>1. fillingNow = filling \cup {h} /\ h \in fillingNow
      BY <1>2, <1>3, <2>3 DEF CountedGroup
    <3>2. countedNow[h] = taken /\ now = taken
      BY <1>1, <2>3 DEF CountedGroup
    <3> QED BY <1>1, <1>4, <3>1, <3>2, OneJoins
  <2> QED BY <2>1, <2>2, <2>3
<1> QED BY <1>6

LEMMA OneGoes ==
  ASSUME ImportInv, NEW h \in Handlers, NEW c, Goes(h, c), people' = people
  PROVE  imports'[h] = c /\ SameOthers(h) /\ SeatsTaken' = SeatsTaken
<1>1. imports \in [Handlers -> Import] /\ imports' = [imports EXCEPT ![h] = c]
  BY DEF ImportInv, Goes
<1> QED BY <1>1 DEF SameOthers, SeatsTaken

\* A request that leaves the transaction, or was not in it.
LEMMA SeatsLeft ==
  ASSUME ImportInv, NEW h \in Handlers, NEW c, Goes(h, c), people' = people, ~Importing(c), NEW g \in Opened
  PROVE  SameOthers(h) /\ (SameGroup(h, g) \/ FilledGroup(h, g))
<1>1. imports'[h] = c /\ SameOthers(h) /\ SeatsTaken' = SeatsTaken
  BY OneGoes
<1>2. SeatsTaken[g] \in Nat /\ g.capacity \in Nat /\ imports[h].seats[g] \in Nat
  BY SeatTypes
<1>3. ~Fills(imports'[h], g)
  BY <1>1 DEF Fills
<1>4. CASE Fills(imports[h], g)
  <2>1. SeatsTaken[g] <= SeatsTaken[g] + (g.capacity - imports[h].seats[g])
    BY <1>2, <1>4 DEF Fills
  <2> QED BY <1>1, <1>3, <1>4, <2>1 DEF FilledGroup
<1>5. CASE ~Fills(imports[h], g)
  BY <1>1, <1>3, <1>5 DEF SameGroup
<1> QED BY <1>1, <1>4, <1>5

LEMMA RefusedLeaves ==
  ASSUME ImportInv, NEW h \in Handlers, Refused(h), people' = people, NEW g \in Opened
  PROVE  SameOthers(h) /\ (SameGroup(h, g) \/ FilledGroup(h, g))
<1>1. PICK d : d = [imports[h] EXCEPT !.phase = "refused", !.inserted = 0, !.seats = NoSeats, !.locked = {}]
  OBVIOUS
<1>2. Goes(h, d)
  BY <1>1 DEF Refused
<1>3. d.phase = "refused"
  BY <1>1, CallOf, CallShape
<1> QED BY <1>2, <1>3, SeatsLeft DEF Importing

LEMMA InsertSeats ==
  ASSUME ImportInv, NEW h \in Handlers, InsertUser(h), NEW g \in Opened
  PROVE  SameOthers(h) /\ (SameGroup(h, g) \/ FilledGroup(h, g) \/ CountedGroup(h, g))
<1> PICK c : c = imports[h]
  OBVIOUS
<1>1. /\ c.phase = "insert" /\ c.inserted < Len(c.rows) /\ people' = people /\ c \in Import
      /\ c.inserted \in Nat
  BY CallOf, CallShape DEF InsertUser, importTables
<1>2. CASE Refused(h)
  BY <1>1, <1>2, RefusedLeaves
<1>3. CASE ~Refused(h)
  <2>1. PICK d : d = [c EXCEPT !.inserted = @ + 1,
                            !.phase = IF c.inserted + 1 = Len(c.rows) THEN "enroll" ELSE @,
                            !.seats = IF c.inserted = 0 THEN SeatsTaken ELSE @]
    OBVIOUS
  <2>2. Goes(h, d)
    BY <1>3, <2>1 DEF InsertUser
  <2>3. /\ d.phase = IF c.inserted + 1 = Len(c.rows) THEN "enroll" ELSE "insert"
        /\ d.inserted = c.inserted + 1
        /\ d.seats = IF c.inserted = 0 THEN SeatsTaken ELSE c.seats
    BY <1>1, <2>1, CallShape
  <2>4. imports'[h] = d /\ SameOthers(h) /\ SeatsTaken' = SeatsTaken
    BY <1>1, <2>2, OneGoes
  <2>5. Importing(c) /\ Importing(d) /\ d.inserted > 0
    BY <1>1, <2>3 DEF Importing
  <2>6. CASE c.inserted = 0
    <3>1. ~Fills(c, g) /\ d.seats = SeatsTaken
      BY <2>3, <2>6 DEF Fills
    <3> QED BY <2>4, <3>1 DEF SameGroup, CountedGroup
  <2>7. CASE c.inserted # 0
    <3>1. c.inserted > 0 /\ d.seats = c.seats
      BY <1>1, <2>3, <2>7
    <3> QED BY <2>4, <2>5, <3>1 DEF SameGroup, Fills
  <2> QED BY <2>4, <2>6, <2>7
<1> QED BY <1>2, <1>3

LEMMA EnrollSeats ==
  ASSUME ImportInv, NEW h \in Handlers, EnrollBatch(h), NEW g \in Opened
  PROVE  SameOthers(h) /\ (SameGroup(h, g) \/ FilledGroup(h, g))
<1> PICK c : c = imports[h]
  OBVIOUS
<1>1. people' = people /\ c \in Import
  BY CallOf DEF EnrollBatch, importTables
<1>2. CASE Refused(h)
  BY <1>1, <1>2, RefusedLeaves
<1>3. CASE ~Refused(h)
  <2>1. PICK d : d = [c EXCEPT !.locked = @ \cup {NextGroup(c)}]
    OBVIOUS
  <2>2. Goes(h, d)
    BY <1>3, <2>1 DEF EnrollBatch
  <2>3. d.phase = c.phase /\ d.inserted = c.inserted /\ d.seats = c.seats
    BY <1>1, <2>1, CallShape
  <2>4. imports'[h] = d /\ SameOthers(h) /\ SeatsTaken' = SeatsTaken
    BY <1>1, <2>2, OneGoes
  <2> QED BY <2>3, <2>4 DEF SameGroup, Fills, Importing
<1> QED BY <1>2, <1>3

LEMMA CommitSeats ==
  ASSUME ImportInv, ImportInv', NEW h \in Handlers, CommitImport(h), NEW g \in Opened
  PROVE  SameOthers(h) /\ (SameGroup(h, g) \/ FilledGroup(h, g))
<1> PICK c : c = imports[h]
  OBVIOUS
<1>1. /\ c \in Import /\ CallStage(c) /\ c.phase = "enroll" /\ c.inserted > 0
      /\ people' = people \cup NewPeople(c) /\ DOMAIN c.targets = DOMAIN c.rows
  BY CommitShape DEF CallStage
<1>2. PICK d : d = [NotImporting EXCEPT !.phase = "mail", !.pending = [i \in DOMAIN c.rows |-> c.rows[i].mail]]
  OBVIOUS
<1>3. imports' = [Stale(imports) EXCEPT ![h] = d]
  BY <1>2 DEF CommitImport
<1>4. imports'[h] = d /\ ~Fills(d, g)
  <2>1. d.phase = "mail"
    BY <1>2 DEF NotImporting
  <2> QED BY <1>3, <2>1 DEF Stale, Fills, Importing
<1>5. SameOthers(h)
  <2>1. ASSUME NEW k \in Handlers \ {h}
        PROVE  /\ imports'[k].phase = imports[k].phase /\ imports'[k].inserted = imports[k].inserted
               /\ imports'[k].seats = imports[k].seats
    <3>1. imports'[k] = [imports[k] EXCEPT !.fresh = FALSE]
      BY <1>3 DEF Stale
    <3> QED BY <3>1, CallOf, CallShape
  <2> QED BY <2>1 DEF SameOthers
<1>6. /\ SeatsTaken[g] \in Nat /\ SeatsTaken'[g] \in Nat /\ g.capacity \in Nat /\ c.seats[g] \in Nat
      /\ Joining(c, g) \in Nat
  <2>1. SeatsTaken'[g] \in Nat
    <3>1. IsFiniteSet(people')
      BY DEF ImportInv, PeopleTyped
    <3>2. IsFiniteSet({u \in people' : u.group = g})
      BY <3>1, FS_Subset, {u \in people' : u.group = g} \subseteq people'
    <3> QED BY <3>2, FS_CardinalityType DEF SeatsTaken
  <2> QED BY <1>1, <2>1, SeatTypes, JoiningSome
<1>7. SeatsTaken'[g] <= SeatsTaken[g] + Joining(c, g)
  <2> DEFINE there == {u \in people : u.group = g}
             then  == {u \in people' : u.group = g}
             joined == {i \in DOMAIN c.targets : c.targets[i] = g}
             new == {NewPerson(c, i) : i \in joined}
  <2>1. then \subseteq there \cup new
    <3>1. ASSUME NEW u \in NewPeople(c), u.group = g PROVE u \in new
      <4>1. PICK i \in DOMAIN c.rows : u = NewPerson(c, i)
        BY DEF NewPeople
      <4>2. i \in joined
        BY <1>1, <3>1, <4>1, NewPersonIs
      <4> QED BY <4>1, <4>2
    <3> QED BY <1>1, <3>1
  <2>2. IsFiniteSet(there)
    BY FS_Subset, there \subseteq people DEF ImportInv, PeopleTyped
  <2>3. IsFiniteSet(joined)
    <3>1. IsFiniteSet(DOMAIN c.targets)
      <4>1. DOMAIN c.targets = 1..Len(c.targets) /\ Len(c.targets) \in Nat
        BY <1>1, CallShape
      <4> QED BY <4>1, FS_Interval
    <3> QED BY <3>1, FS_Subset, joined \subseteq DOMAIN c.targets
  <2>4. IsFiniteSet(new) /\ Cardinality(new) <= Cardinality(joined)
    <3>1. PICK made : made = [i \in joined |-> NewPerson(c, i)]
      OBVIOUS
    <3>2. made \in Surjection(joined, new)
      BY <3>1 DEF Surjection
    <3> HIDE DEF new, joined
    <3> QED BY <2>3, <3>2, FS_Surjection
  <2>5. SeatsTaken[g] = Cardinality(there) /\ SeatsTaken'[g] = Cardinality(then) /\ Joining(c, g) = Cardinality(joined)
    BY DEF SeatsTaken, Joining
  <2> HIDE DEF there, then, joined, new
  <2>6. IsFiniteSet(there \cup new) /\ Cardinality(there \cup new) <= Cardinality(there) + Cardinality(new)
    <3>1. /\ IsFiniteSet(there \cup new) /\ IsFiniteSet(there \cap new)
          /\ Cardinality(there \cup new) = Cardinality(there) + Cardinality(new) - Cardinality(there \cap new)
      BY <2>2, <2>4, FS_Union, FS_Intersection
    <3> QED BY <2>2, <2>4, <3>1, FS_CardinalityType
  <2>7. Cardinality(then) <= Cardinality(there \cup new)
    BY <2>1, <2>6, FS_Subset
  <2>8. /\ Cardinality(then) \in Nat /\ Cardinality(there \cup new) \in Nat /\ Cardinality(there) \in Nat
        /\ Cardinality(new) \in Nat /\ Cardinality(joined) \in Nat
    BY <2>1, <2>2, <2>3, <2>4, <2>6, FS_Subset, FS_CardinalityType
  <2> QED BY <2>4, <2>5, <2>6, <2>7, <2>8
<1>8. SeatsTaken[g] <= SeatsTaken'[g]
  <2> DEFINE there == {u \in people : u.group = g}
             then  == {u \in people' : u.group = g}
  <2>1. there \subseteq then
    BY <1>1
  <2>2. IsFiniteSet(then)
    BY FS_Subset, then \subseteq people' DEF ImportInv, PeopleTyped
  <2>3. SeatsTaken[g] = Cardinality(there) /\ SeatsTaken'[g] = Cardinality(then)
    BY DEF SeatsTaken
  <2> HIDE DEF there, then
  <2> QED BY <2>1, <2>2, <2>3, FS_Subset
<1>9. Joining(c, g) = 0 \/ c.seats[g] + Joining(c, g) <= g.capacity
  <2>1. CASE Joining(c, g) > 0
    <3>1. \E i \in DOMAIN c.targets : c.targets[i] = g
      BY <1>1, <2>1, JoiningSome
    <3>2. ~Present(NextGroup(c)) /\ Present(g)
      BY ImportAssumption DEF CommitImport, Present, ImportAssumption
    <3>3. g \in c.locked
      BY <1>1, <3>1, <3>2, NextGroupIs
    <3> QED BY <1>1, <3>3 DEF CallStage, Importing, HasRoom
  <2> QED BY <1>6, <2>1
<1>10. CASE Fills(c, g)
  <2>1. SeatsTaken'[g] <= SeatsTaken[g] + (g.capacity - c.seats[g])
    BY <1>6, <1>7, <1>9, <1>10 DEF Fills
  <2> QED BY <1>4, <1>5, <1>10, <2>1 DEF FilledGroup
<1>11. CASE ~Fills(c, g)
  <2>1. ~(c.seats[g] < g.capacity)
    BY <1>1, <1>11 DEF Fills, Importing
  <2>2. Joining(c, g) = 0
    BY <1>6, <1>9, <2>1
  <2>3. SeatsTaken'[g] = SeatsTaken[g]
    BY <1>6, <1>7, <1>8, <2>2
  <2> QED BY <1>4, <1>5, <1>11, <2>3 DEF SameGroup
<1> QED BY <1>10, <1>11

-----------------------------------------------------------------------------
\* Nobody's seats: the requests are where they were, and so are the enrolled.
LEMMA SeatsStay ==
  ASSUME NEW H \in SUBSET Handlers, SeatInv(H), SeatsTaken' = SeatsTaken,
         \A k \in Handlers : /\ imports'[k].phase = imports[k].phase /\ imports'[k].inserted = imports[k].inserted
                             /\ imports'[k].seats = imports[k].seats
  PROVE  SeatInv(H)'
<1>1. ASSUME NEW g \in Opened
      PROVE  FilledWithin(SeatsTaken[g], g.capacity, Cardinality(H), Filling(g), SeatsCounted(g))'
  <2>1. Filling(g)' = Filling(g)
    BY DEF Filling, Fills, Importing
  <2>2. SeatsCounted(g)' = SeatsCounted(g)
    BY DEF SeatsCounted
  <2>3. PICK taken, filling, counted : taken = SeatsTaken[g] /\ filling = Filling(g) /\ counted = SeatsCounted(g)
    OBVIOUS
  <2>4. FilledWithin(taken, g.capacity, Cardinality(H), filling, counted)
    BY <2>3 DEF SeatInv
  <2> QED BY <2>1, <2>2, <2>3, <2>4
<1>2. \A h \in Handlers \ H : imports'[h].phase = "idle"
  BY DEF SeatInv
<1> QED BY <1>1, <1>2 DEF SeatInv

LEMMA StaleIs ==
  ASSUME ImportInv, imports' = Stale(imports)
  PROVE  \A k \in Handlers : /\ imports'[k].phase = imports[k].phase /\ imports'[k].inserted = imports[k].inserted
                             /\ imports'[k].seats = imports[k].seats
<1>1. ASSUME NEW k \in Handlers
      PROVE  /\ imports'[k].phase = imports[k].phase /\ imports'[k].inserted = imports[k].inserted
             /\ imports'[k].seats = imports[k].seats
  <2>1. imports'[k] = [imports[k] EXCEPT !.fresh = FALSE]
    BY DEF Stale
  <2> QED BY <2>1, CallOf, CallShape
<1> QED BY <1>1

LEMMA ImportsSeats ==
  ASSUME ImportInv, ImportInv', NEW h \in Handlers, Imports(h), NEW g \in Opened
  PROVE  SameOthers(h) /\ (SameGroup(h, g) \/ FilledGroup(h, g) \/ CountedGroup(h, g))
<1>1. CASE Preview(h)
  <2>1. PICK rows, shown : Goes(h, [NotImporting EXCEPT !.phase = "preview", !.rows = rows, !.shown = shown])
    BY <1>1 DEF Preview
  <2>2. PICK d : d = [NotImporting EXCEPT !.phase = "preview", !.rows = rows, !.shown = shown]
    OBVIOUS
  <2>3. ~Importing(d)
    BY <2>2 DEF NotImporting, Importing
  <2>4. people' = people
    BY <1>1 DEF Preview, importTables
  <2> QED BY <2>1, <2>2, <2>3, <2>4, SeatsLeft
<1>2. CASE Confirm(h)
  <2> PICK c : c = imports[h]
    OBVIOUS
  <2>1. c.phase = "preview" /\ people' = people /\ c \in Import
    BY <1>2, CallOf DEF Confirm, importTables
  <2>2. PICK d : /\ Goes(h, d)
                 /\ d = [c EXCEPT !.phase = "insert", !.targets = GroupsFor(c.rows)] \/ d = [c EXCEPT !.phase = "refused"]
    BY <1>2 DEF Confirm
  <2>3. c.inserted = 0 /\ d.inserted = 0
    <3>1. c.inserted = 0
      BY <2>1, CallOf DEF CallStage, Importing
    <3> QED BY <2>1, <2>2, <3>1, CallShape
  <2>4. imports'[h] = d /\ SameOthers(h) /\ SeatsTaken' = SeatsTaken
    BY <2>1, <2>2, OneGoes
  <2> QED BY <2>3, <2>4 DEF SameGroup, Fills
<1>3. CASE SendCredentials(h)
  <2> PICK c : c = imports[h]
    OBVIOUS
  <2>1. c.phase = "mail" /\ people' = people /\ c \in Import
    BY <1>3, CallOf DEF SendCredentials, importTables
  <2>2. PICK d : /\ Goes(h, d)
                 /\ d = NotImporting \/ d = [c EXCEPT !.pending = Tail(@)]
    BY <1>3 DEF SendCredentials
  <2>3. ~Importing(d)
    <3>1. CASE d = NotImporting
      BY <3>1 DEF NotImporting, Importing
    <3>2. CASE d = [c EXCEPT !.pending = Tail(@)]
      <4>1. d.phase = c.phase
        BY <2>1, <3>2, CallShape
      <4> QED BY <2>1, <4>1 DEF Importing
    <3> QED BY <2>2, <3>1, <3>2
  <2> QED BY <2>1, <2>2, <2>3, SeatsLeft
<1>4. CASE CutImport(h)
  <2>1. Goes(h, NotImporting) /\ people' = people /\ ~Importing(NotImporting)
    BY <1>4 DEF CutImport, importTables, NotImporting, Importing
  <2> QED BY <2>1, SeatsLeft
<1> QED BY <1>1, <1>2, <1>3, <1>4, InsertSeats, EnrollSeats, CommitSeats DEF Imports

LEMMA OthersStay ==
  ASSUME ImportInv, NEW h \in Handlers, Imports(h)
  PROVE  SameOthers(h)
<1>1. CASE CommitImport(h)
  <2>1. \A k \in Handlers \ {h} : imports'[k] = [imports[k] EXCEPT !.fresh = FALSE]
    BY <1>1 DEF CommitImport, Stale
  <2>2. ASSUME NEW k \in Handlers \ {h}
        PROVE  /\ imports'[k].phase = imports[k].phase /\ imports'[k].inserted = imports[k].inserted
               /\ imports'[k].seats = imports[k].seats
    <3> PICK c, d : c = imports[k] /\ d = imports'[k]
      OBVIOUS
    <3>1. c \in Import /\ d = [c EXCEPT !.fresh = FALSE]
      BY <2>1, CallOf
    <3>2. d.phase = c.phase /\ d.inserted = c.inserted /\ d.seats = c.seats
      BY <3>1, CallShape
    <3> QED BY <3>2
  <2> QED BY <2>2 DEF SameOthers
<1>2. CASE ~CommitImport(h)
  <2>1. \E c : Goes(h, c)
    BY <1>2 DEF Imports, Preview, Confirm, InsertUser, EnrollBatch, SendCredentials, CutImport, Refused
  <2>2. \A k \in Handlers \ {h} : imports'[k] = imports[k]
    BY <2>1 DEF Goes, ImportInv
  <2> QED BY <2>2 DEF SameOthers
<1> QED BY <1>1, <1>2

LEMMA SeatsInit == ASSUME ImportInit, NEW H \in SUBSET Handlers, IsFiniteSet(H) PROVE SeatInv(H)
<1>1. people = {} /\ imports = [h \in Handlers |-> NotImporting]
  BY DEF ImportInit
<1>2. \A h \in Handlers : imports[h].phase = "idle"
  BY <1>1 DEF NotImporting
<1>3. ASSUME NEW g \in Opened
      PROVE  FilledWithin(SeatsTaken[g], g.capacity, Cardinality(H), Filling(g), SeatsCounted(g))
  <2>1. Filling(g) = {}
    BY <1>2 DEF Filling, Fills, Importing
  <2>2. SeatsTaken[g] = 0
    <3>1. {u \in people : u.group = g} = {}
      BY <1>1
    <3> QED BY <3>1, FS_EmptySet DEF SeatsTaken
  <2>3. Cardinality(Filling(g)) = 0 /\ Cardinality(H) \in Nat
    BY <2>1, FS_EmptySet, FS_CardinalityType
  <2>4. g.capacity \in Nat
    BY ImportAssumption DEF ImportAssumption
  <2>5. PICK n \in Nat : n = Cardinality(H)
    BY <2>3
  <2>6. 0 <= g.capacity * (n - 0) + 0
    BY <2>4, <2>5, OnceMore
  <2> QED BY <2>2, <2>3, <2>5, <2>6 DEF FilledWithin
<1> QED BY <1>2, <1>3 DEF SeatInv

LEMMA SeatsStep ==
  ASSUME ImportInv, ImportInv', NEW H \in SUBSET Handlers, IsFiniteSet(H), SeatInv(H), [ImportNext(H)]_importVars
  PROVE  SeatInv(H)'
<1>1. CASE UNCHANGED importVars
  <2>1. people' = people /\ imports' = imports
    BY <1>1 DEF importVars, importTables
  <2> QED BY <2>1, SeatsStay DEF SeatsTaken
<1>2. CASE RegisterByHand
  <2>1. PICK n \in Newcomers :
          /\ people' = people \cup {[id |-> n.id, mail |-> n.mail, status |-> "ACTIVE", group |-> None]}
          /\ imports' = Stale(imports)
    BY <1>2 DEF RegisterByHand
  <2>2. \A g \in Opened : {u \in people' : u.group = g} = {u \in people : u.group = g}
    <3>1. \A g \in Opened : g # None
      BY ImportAssumption DEF ImportAssumption
    <3> QED BY <2>1, <3>1
  <2>3. SeatsTaken' = SeatsTaken
    BY <2>2 DEF SeatsTaken
  <2> QED BY <2>1, <2>3, StaleIs, SeatsStay
<1>3. CASE ChangeOffer
  <2>1. people' = people /\ imports' = Stale(imports)
    BY <1>3 DEF ChangeOffer
  <2> QED BY <2>1, StaleIs, SeatsStay DEF SeatsTaken
<1>4. ASSUME NEW h \in H, Imports(h) PROVE SeatInv(H)'
  <2>1. \A g \in Opened : SameOthers(h) /\ (SameGroup(h, g) \/ FilledGroup(h, g) \/ CountedGroup(h, g))
    BY <1>4, ImportsSeats
  <2>2. \A g \in Opened : FilledWithin(SeatsTaken[g], g.capacity, Cardinality(H), Filling(g), SeatsCounted(g))'
    BY <2>1, GroupStep
  <2>3. \A k \in Handlers \ {h} : imports'[k].phase = imports[k].phase
    BY <1>4, OthersStay DEF SameOthers
  <2> QED BY <2>2, <2>3 DEF SeatInv
<1> QED BY <1>1, <1>2, <1>3, <1>4 DEF ImportNext

LEMMA SeatsAreWithin ==
  ASSUME ImportInv, NEW H \in SUBSET Handlers, IsFiniteSet(H), SeatInv(H)
  PROVE  SeatsWithin(Cardinality(H))
<1>1. ASSUME NEW g \in Opened PROVE SeatsTaken[g] <= Cardinality(H) * g.capacity
  <2> PICK filling : filling = Filling(g)
    OBVIOUS
  <2>1. filling \in SUBSET H /\ \A h \in filling : SeatsCounted(g)[h] < g.capacity
    BY DEF SeatInv, Filling, Fills, Importing, SeatsCounted
  <2>2. PICK m \in {0} \cup {SeatsCounted(g)[h] : h \in filling} :
          SeatsTaken[g] <= g.capacity * (Cardinality(H) - Cardinality(filling)) + m
    BY DEF SeatInv, FilledWithin
  <2>3. PICK left, gone \in Nat : left = Cardinality(H) - Cardinality(filling) /\ gone = Cardinality(filling)
    BY <2>1, FillingPart
  <2>4. PICK capacity \in Nat : capacity = g.capacity
    BY SeatTypes
  <2>5. PICK taken \in Nat : taken = SeatsTaken[g]
    BY SeatTypes
  <2>6. m \in Nat /\ (m = 0 \/ (m <= capacity /\ gone > 0))
    <3>1. CASE m = 0
      BY <3>1
    <3>2. CASE m # 0
      <4>1. PICK h \in filling : m = SeatsCounted(g)[h]
        BY <2>2, <3>2
      <4>2. m \in Nat /\ m < capacity
        BY <2>1, <2>4, <4>1, SeatTypes DEF Filling
      <4>3. IsFiniteSet(filling) /\ filling # {}
        BY <2>1, <4>1, FillingPart
      <4>4. gone > 0
        BY <2>3, <4>3, FS_EmptySet
      <4> QED BY <4>2, <4>4
    <3> QED BY <3>1, <3>2
  <2>7. Cardinality(H) = left + gone
    BY <2>1, <2>3, FillingPart
  <2>8. taken <= capacity * left + m
    BY <2>2, <2>3, <2>4, <2>5
  <2>9. taken <= (left + gone) * capacity
    <3>1. capacity * left \in Nat /\ capacity * gone \in Nat /\ (left + gone) * capacity = capacity * left + capacity * gone
      BY OnceMore
    <3>2. m <= capacity * gone
      <4>1. CASE m = 0
        BY <3>1, <4>1
      <4>2. CASE m # 0
        <5>1. PICK rest \in Nat : gone = rest + 1
          <6>1. gone - 1 \in Nat /\ gone = (gone - 1) + 1
            BY <2>6, <4>2
          <6> QED BY <6>1
        <5>2. capacity * rest \in Nat /\ capacity * gone = capacity * rest + capacity
          BY <5>1, OnceMore
        <5> QED BY <2>6, <4>2, <5>2
      <4> QED BY <4>1, <4>2
    <3>3. PICK a, b \in Nat : a = capacity * left /\ b = capacity * gone
      BY <3>1
    <3>4. taken <= a + m /\ m <= b
      BY <2>8, <3>2, <3>3
    <3> QED BY <2>6, <3>1, <3>3, <3>4
  <2> QED BY <2>4, <2>5, <2>7, <2>9
<1> QED BY <1>1 DEF SeatsWithin

-----------------------------------------------------------------------------
(* What holds of any requests, of those of a crowd, and of one request.    *)
PeopleFit == AccountInv /\ VerifyInv /\ AttemptInv /\ RecordsTypeOK /\ CommInv
CasesFit  == IntakeInv /\ InquiryInv /\ FollowInv /\ EvidenceInv

PeopleLimits(H) == LinkInv(H) /\ OpenInv(H) /\ SendsInv(H) /\ CodesInv(H) /\ AttemptLimits(H)
CaseLimits(H)   == InquiryLimits(H) /\ FollowLimits(H) /\ UploadLimits(H)

OneServed(H) ==
  AccountAlone(H) /\ GuessAlone(H) /\ RecordsAlong(H) /\ CommAlone(H) /\ FollowAlone(H)

OfficeInv ==
  /\ crowd \in SUBSET Handlers /\ crowd # {}
  /\ PeopleFit /\ CasesFit /\ RolesInv /\ PeopleLimits(crowd) /\ CaseLimits(crowd)
  /\ ImportInv /\ SeatInv(crowd) /\ ConductTypeOK /\ part \in Parts
  /\ Alone => OneServed(crowd)

LEMMA CrowdFinite == ASSUME crowd \in SUBSET Handlers PROVE IsFiniteSet(crowd)
  BY FS_Subset, RequestsAssumption DEF RequestsAssumption

LEMMA AloneLone == ASSUME crowd \in SUBSET Handlers, Alone PROVE Lone(crowd)
<1>1. IsFiniteSet(crowd) /\ Cardinality(crowd) = 1
  BY CrowdFinite DEF Alone, Served
<1>2. \E x : crowd = {x}
  BY <1>1, FS_Singleton
<1> QED BY <1>2 DEF Lone

-----------------------------------------------------------------------------
(* The start.                                                              *)
LEMMA OfficeInit == Init => OfficeInv
<1> SUFFICES ASSUME Init PROVE OfficeInv
  OBVIOUS
<1>1. /\ AccountsInit /\ VerificationInit /\ AttemptsInit /\ RecordsInit /\ CommunicationsInit
      /\ IntakeInit /\ InquiriesInit /\ FollowUpsInit /\ EvidenceInit /\ RolesInit /\ ConductInit /\ ImportInit
      /\ part \in Parts /\ crowd \in SUBSET Handlers /\ crowd # {}
  BY DEF Init
<1>2. IsFiniteSet(crowd)
  BY <1>1, CrowdFinite
<1>3. PeopleFit
  BY <1>1, AccountInitFits, VerifyInit, AttemptInitFits, RecordsInitTyped, CommInitFits DEF PeopleFit
<1>4. CasesFit
  BY <1>1, IntakeInitFits, InquiryInit, FollowInit, EvidenceInitFits DEF CasesFit
<1>5. PeopleLimits(crowd)
  BY <1>1, <1>2, LinksInit, OpenInit, SendsInit, CodesInit, AttemptInitLimits DEF PeopleLimits
<1>6. CaseLimits(crowd)
  BY <1>1, <1>2, InquiryInitLimits, FollowInitLimits, UploadsInit DEF CaseLimits
<1>7. OneServed(crowd)
  BY <1>1, AccountInitAlone, GuessInit, RecordsInitAlone, CommInitAlone, FollowInitLimits DEF OneServed
<1>8. RolesInv
  BY <1>1, RolesInitFits
<1>9. ImportInv
  BY <1>1, ImportInitFits
<1>10. SeatInv(crowd)
  BY <1>1, <1>2, SeatsInit
<1>11. ConductTypeOK
  BY <1>1 DEF ConductInit, ConductTypeOK
<1> QED BY <1>1, <1>3, <1>4, <1>5, <1>6, <1>7, <1>8, <1>9, <1>10, <1>11 DEF OfficeInv

-----------------------------------------------------------------------------
(* A step of the office is a step of each part, or leaves it as it is.     *)
AccountsMove(H)     == [AccountsNext(H)]_accountVars
VerificationMoves(H) == [VerificationNext(H)]_verifyVars
AttemptsMove(H)     == [AttemptsNext(H)]_attemptVars
RecordsMove(H)      == [RecordsNext(H)]_personVars
CommunicationsMove(H) == [CommunicationsNext(H)]_commVars
IntakeMoves(H)      == [IntakeNext(H)]_intakeVars
InquiriesMove(H)    == [InquiriesNext(H)]_inquiryVars
FollowUpsMove(H)    == [FollowUpsNext(H)]_followVars
EvidenceMoves(H)    == [EvidenceNext(H)]_evidenceVars
RolesMove           == [RolesNext]_roleVars
ImportsMove(H)      == [ImportNext(H)]_importVars
ConductMoves        == [ConductNext]_conductVars

PeopleMove(H) ==
  AccountsMove(H) /\ VerificationMoves(H) /\ AttemptsMove(H) /\ RecordsMove(H) /\ CommunicationsMove(H)
CasesMove(H)  == IntakeMoves(H) /\ InquiriesMove(H) /\ FollowUpsMove(H) /\ EvidenceMoves(H)

LEMMA OfficeStepParts ==
  ASSUME [Next]_officeVars
  PROVE  /\ crowd' = crowd /\ part' = part /\ PeopleMove(crowd) /\ CasesMove(crowd)
         /\ RolesMove /\ ImportsMove(crowd) /\ ConductMoves
<1> USE DEF PeopleMove, CasesMove, AccountsMove, VerificationMoves, AttemptsMove, RecordsMove, CommunicationsMove,
            IntakeMoves, InquiriesMove, FollowUpsMove, EvidenceMoves, RolesMove, ImportsMove, ConductMoves
<1>1. CASE UNCHANGED officeVars
  BY <1>1 DEF officeVars, peopleVars, caseVars
<1>2. CASE Next
  <2>1. crowd' = crowd /\ part' = part
    BY <1>2 DEF Next
  <2>2. PeopleNext \/ UNCHANGED peopleVars
    BY <1>2 DEF Next
  <2>3. CasesNext \/ UNCHANGED caseVars
    BY <1>2 DEF Next
  <2>4. PeopleMove(crowd)
    BY <2>2 DEF PeopleNext, peopleVars
  <2>5. CasesMove(crowd)
    BY <2>3 DEF CasesNext, caseVars
  <2>6. RolesMove
    BY <1>2 DEF Next
  <2>7. ImportsMove(crowd)
    BY <1>2 DEF Next
  <2>8. ConductMoves
    BY <1>2 DEF Next
  <2> QED BY <2>1, <2>4, <2>5, <2>6, <2>7, <2>8
<1> QED BY <1>1, <1>2

\* What some of the handlers may do, the handlers may do.
LEMMA PeopleAll ==
  ASSUME NEW H \in SUBSET Handlers, PeopleMove(H) PROVE PeopleMove(Handlers)
<1>1. AccountsMove(Handlers)
  BY DEF PeopleMove, AccountsMove, AccountsNext
<1>2. VerificationMoves(Handlers)
  BY DEF PeopleMove, VerificationMoves, VerificationNext
<1>3. RecordsMove(Handlers)
  BY DEF PeopleMove, RecordsMove, RecordsNext
<1>4. CommunicationsMove(Handlers)
  BY DEF PeopleMove, CommunicationsMove, CommunicationsNext
<1>5. AttemptsMove(Handlers)
  BY DEF PeopleMove, AttemptsMove, AttemptsNext
<1> QED BY <1>1, <1>2, <1>3, <1>4, <1>5 DEF PeopleMove

LEMMA CasesAll ==
  ASSUME NEW H \in SUBSET Handlers, CasesMove(H) PROVE CasesMove(Handlers)
<1>1. IntakeMoves(Handlers)
  BY DEF CasesMove, IntakeMoves, IntakeNext
<1>2. InquiriesMove(Handlers)
  BY DEF CasesMove, InquiriesMove, InquiriesNext
<1>3. FollowUpsMove(Handlers)
  BY DEF CasesMove, FollowUpsMove, FollowUpsNext
<1>4. EvidenceMoves(Handlers)
  BY DEF CasesMove, EvidenceMoves, EvidenceNext
<1> QED BY <1>1, <1>2, <1>3, <1>4 DEF CasesMove

LEMMA PeopleStep ==
  ASSUME PeopleFit, PeopleMove(Handlers) PROVE PeopleFit'
<1>1. AccountInv'
  BY AccountStepFits DEF PeopleFit, PeopleMove, AccountsMove
<1>2. VerifyInv'
  BY VerifyStep DEF PeopleFit, PeopleMove, VerificationMoves
<1>3. RecordsTypeOK'
  BY RecordsStep DEF PeopleFit, PeopleMove, RecordsMove
<1>4. CommInv'
  BY CommStep DEF PeopleFit, PeopleMove, CommunicationsMove
<1>5. AttemptInv'
  BY AttemptStep DEF PeopleFit, PeopleMove, AttemptsMove
<1> QED BY <1>1, <1>2, <1>3, <1>4, <1>5 DEF PeopleFit

LEMMA CasesStep ==
  ASSUME CasesFit, CasesMove(Handlers) PROVE CasesFit'
<1>1. IntakeInv'
  BY IntakeStep DEF CasesFit, CasesMove, IntakeMoves
<1>2. InquiryInv'
  BY InquiryStep DEF CasesFit, CasesMove, InquiriesMove
<1>3. FollowInv'
  BY FollowStep DEF CasesFit, CasesMove, FollowUpsMove
<1>4. EvidenceInv'
  BY EvidenceStep DEF CasesFit, CasesMove, EvidenceMoves
<1> QED BY <1>1, <1>2, <1>3, <1>4 DEF CasesFit

LEMMA PeopleStepLimits ==
  ASSUME NEW H \in SUBSET Handlers, H # {}, IsFiniteSet(H), PeopleFit, PeopleLimits(H), PeopleMove(H)
  PROVE  PeopleLimits(H)'
<1>1. LinkInv(H)'
  BY StepLinks DEF PeopleFit, PeopleLimits, PeopleMove, AccountsMove
<1>2. OpenInv(H)'
  BY StepOpen DEF PeopleFit, PeopleLimits, PeopleMove, AccountsMove
<1>3. SendsInv(H)'
  BY SendsStep DEF PeopleFit, PeopleLimits, PeopleMove, VerificationMoves
<1>4. CodesInv(H)'
  BY CodesStep DEF PeopleFit, PeopleLimits, PeopleMove, VerificationMoves
<1>5. AttemptLimits(H)'
  BY AttemptStepLimits DEF PeopleFit, PeopleLimits, PeopleMove, AttemptsMove
<1> QED BY <1>1, <1>2, <1>3, <1>4, <1>5 DEF PeopleLimits

LEMMA CasesStepLimits ==
  ASSUME NEW H \in SUBSET Handlers, H # {}, IsFiniteSet(H), CasesFit, CaseLimits(H), CasesMove(H)
  PROVE  CaseLimits(H)'
<1>1. InquiryLimits(H)'
  BY InquiryStepLimits DEF CasesFit, CaseLimits, CasesMove, InquiriesMove
<1>2. FollowLimits(H)'
  BY FollowStepLimits DEF CasesFit, CaseLimits, CasesMove, FollowUpsMove
<1>3. UploadLimits(H)'
  BY UploadsStep DEF CasesFit, CaseLimits, CasesMove, EvidenceMoves
<1> QED BY <1>1, <1>2, <1>3 DEF CaseLimits

LEMMA OneServedStep ==
  ASSUME NEW H \in SUBSET Handlers, Lone(H), PeopleFit, CasesFit, OneServed(H),
         PeopleMove(H), CasesMove(H)
  PROVE  OneServed(H)' /\ ReadingKept /\ OnlyPublishedIsRead
<1>1. AccountAlone(H)'
  BY AccountStepAlone DEF PeopleFit, OneServed, PeopleMove, AccountsMove
<1>2. GuessAlone(H)'
  BY GuessStep DEF PeopleFit, OneServed, PeopleMove, VerificationMoves
<1>3. RecordsAlong(H)'
  BY RecordsStepAlone DEF PeopleFit, OneServed, PeopleMove, RecordsMove
<1>4. CommAlone(H)' /\ ReadingKept /\ OnlyPublishedIsRead
  BY CommStepAlone DEF PeopleFit, OneServed, PeopleMove, CommunicationsMove
<1>5. FollowAlone(H)'
  BY FollowStepAlone DEF CasesFit, OneServed, CasesMove, FollowUpsMove
<1> QED BY <1>1, <1>2, <1>3, <1>4, <1>5 DEF OneServed

LEMMA OfficeStep ==
  ASSUME OfficeInv, [Next]_officeVars
  PROVE  OfficeInv'
<1>1. /\ crowd \in SUBSET Handlers /\ crowd # {} /\ PeopleFit /\ CasesFit
      /\ PeopleLimits(crowd) /\ CaseLimits(crowd)
  BY DEF OfficeInv
<1>2. crowd' = crowd /\ part' = part /\ PeopleMove(crowd) /\ CasesMove(crowd) /\ IsFiniteSet(crowd)
  BY <1>1, OfficeStepParts, CrowdFinite
<1>3. PeopleMove(Handlers) /\ CasesMove(Handlers)
  BY <1>1, <1>2, PeopleAll, CasesAll
<1>4. PeopleFit' /\ CasesFit'
  BY <1>1, <1>3, PeopleStep, CasesStep
<1>5. ASSUME NEW H, H = crowd PROVE PeopleLimits(H)' /\ CaseLimits(H)'
  BY <1>1, <1>2, <1>5, PeopleStepLimits, CasesStepLimits
<1>6. ASSUME NEW H, H = crowd, Alone PROVE OneServed(H)'
  <2>1. Lone(H) /\ OneServed(H)
    BY <1>1, <1>6, AloneLone DEF OfficeInv
  <2> QED BY <1>1, <1>2, <1>6, <2>1, OneServedStep
<1>7. Alone' => Alone
  BY <1>2 DEF Alone, Served
<1>8. (PeopleLimits(crowd) /\ CaseLimits(crowd))'
  BY <1>2, <1>5
<1>9. Alone => OneServed(crowd)'
  BY <1>2, <1>6
<1>10. RolesInv'
  BY OfficeStepParts, RolesStep DEF OfficeInv, RolesMove
<1>11. ImportsMove(Handlers)
  BY <1>1, OfficeStepParts DEF ImportsMove, ImportNext
<1>12. ImportInv /\ ImportInv'
  BY <1>11, ImportStep DEF OfficeInv, ImportsMove
<1>13. ASSUME NEW H, H = crowd PROVE SeatInv(H)'
  BY <1>1, <1>2, <1>12, <1>13, OfficeStepParts, SeatsStep DEF OfficeInv, ImportsMove
<1>14. SeatInv(crowd)'
  BY <1>2, <1>13
<1>15. ConductTypeOK' /\ (part \in Parts)'
  BY <1>2, OfficeStepParts, ConductStep DEF OfficeInv, ConductMoves
<1> QED BY <1>1, <1>2, <1>4, <1>7, <1>8, <1>9, <1>10, <1>12, <1>14, <1>15 DEF OfficeInv

LEMMA OfficeAlways == Spec => []OfficeInv
<1> QED BY OfficeInit, OfficeStep, PTL DEF Spec

-----------------------------------------------------------------------------
(* Whichever part runs, its rows and its requests keep their types.        *)
THEOREM OfficeTyped == Spec => []OfficeTypeOK
<1>1. PeopleFit => /\ AccountTypeOK /\ VerificationTypeOK /\ AttemptsTypeOK /\ RecordsTypeOK
                   /\ CommunicationsTypeOK
  <2>1. AccountInv => AccountTypeOK
    BY TypedAccounts DEF AccountInv, AccountRows, SessionsGone, AccountTypeOK
  <2> QED BY <2>1, VerifyMeans DEF PeopleFit, AttemptInv, CommInv
<1>2. CasesFit => IntakeTypeOK /\ InquiriesTypeOK /\ FollowUpsTypeOK /\ EvidenceTypeOK
  BY IntakeMeans, InquiryMeans, FollowInvMeans, EvidenceMeans DEF CasesFit
<1>3. OfficeInv => RolesTypeOK /\ ImportTypeOK /\ ConductTypeOK
  BY ImportMeans DEF OfficeInv, RolesInv
<1>4. OfficeInv => OfficeTypeOK
  <2> SUFFICES ASSUME OfficeInv PROVE OfficeTypeOK
    OBVIOUS
  <2>1. part \in Parts /\ crowd \subseteq Handlers /\ PeopleFit /\ CasesFit
    BY DEF OfficeInv
  <2> QED BY <1>1, <1>2, <1>3, <2>1 DEF OfficeTypeOK, Parts
<1> QED BY OfficeAlways, <1>4, PTL

(* What is mailed opens an account no more often than requests race: of    *)
(* every crowd, a link sets one password for each request, no more links   *)
(* or codes are open than requests are served, the codes of an hour exceed *)
(* the limit by the other requests at most, and one request at a time no   *)
(* code answers more guesses than it should.                               *)
THEOREM SecretsBounded == Spec => []MailedSecrets
<1>1. OfficeInv => MailedSecrets
  <2> SUFFICES ASSUME OfficeInv PROVE MailedSecrets
    OBVIOUS
  <2>1. crowd \in SUBSET Handlers /\ PeopleFit /\ PeopleLimits(crowd) /\ IsFiniteSet(crowd)
    BY CrowdFinite DEF OfficeInv
  <2>2. ResetOncePer(Served) /\ OpenResetsWithin(Served)
    BY <2>1, LinksMean, OpenMeans DEF PeopleFit, PeopleLimits, Served
  <2>3. SendsWithin(Served) /\ OpenCodesWithin(Served)
    BY <2>1, SendsMean, CodesMean DEF PeopleLimits, Served
  <2>4. Alone => GuessesWithin
    BY <2>1, GuessMeans DEF OfficeInv, OneServed, PeopleFit
  <2> QED BY <2>2, <2>3, <2>4 DEF MailedSecrets
<1> QED BY OfficeAlways, <1>1, PTL

(* Of every crowd of logins, whatever the limits and the window: no key    *)
(* has more failures within the window than its limit but for the other    *)
(* requests in flight, emptying and pruning the map forget none of them,   *)
(* and the wait that is told is when the key may try again.                *)
THEOREM LoginsAreLimited == Spec => []LoginsLimited
<1>1. OfficeInv => LoginsLimited
  <2> SUFFICES ASSUME OfficeInv PROVE LoginsLimited
    OBVIOUS
  <2>1. AttemptInv /\ AttemptLimits(crowd) /\ IsFiniteSet(crowd)
    BY CrowdFinite DEF OfficeInv, PeopleFit, PeopleLimits
  <2> QED BY <2>1, AttemptMeans DEF LoginsLimited, Served
<1> QED BY OfficeAlways, <1>1, PTL

(* The desk of a case, of every crowd: a question is answered, an opinion  *)
(* is open, a commitment is reminded and gets an outcome once for each     *)
(* request; answers belong to questions asked before them, nothing is      *)
(* asked before the investigation, and one request at a time nobody is     *)
(* reminded of what has an outcome.                                        *)
THEOREM DeskBounded == Spec => []DeskLimits
<1>1. OfficeInv => DeskLimits
  <2> SUFFICES ASSUME OfficeInv PROVE DeskLimits
    OBVIOUS
  <2>1. crowd \in SUBSET Handlers /\ CasesFit /\ CaseLimits(crowd) /\ IsFiniteSet(crowd)
    BY CrowdFinite DEF OfficeInv
  <2>2. AnsweredWithin(Served) /\ OpenCounselWithin(Served)
    BY <2>1, InquiryLimitsMean DEF CaseLimits, Served
  <2>3. AnswersWhatWasAsked /\ NothingBeforeInvestigation
    BY <2>1, InquiryMeans DEF CasesFit
  <2>4. RemindersWithin(Served) /\ OutcomesWithin(Served)
    BY <2>1, FollowLimitsMean DEF CasesFit, CaseLimits, Served
  <2>5. Alone => RemindedWhilePending
    BY FollowAloneMeans DEF OfficeInv, OneServed
  <2> QED BY <2>2, <2>3, <2>4, <2>5 DEF DeskLimits
<1> QED BY OfficeAlways, <1>1, PTL

(* Cases opened at once, wherever a request ends, take the numbers of      *)
(* their year in order and without gaps; a mail leaves about a notice of   *)
(* theirs, once, and what reads as sent did leave.                         *)
THEOREM CasesAreOnRecord == Spec => []CasesOnRecord
<1>1. OfficeInv => CasesOnRecord
  BY IntakeMeans DEF OfficeInv, CasesFit, CasesOnRecord
<1> QED BY OfficeAlways, <1>1, PTL

(* The files of a case, of every crowd of uploads: a stored row has its    *)
(* file, a file without a row is what a cut request left, and the evidence *)
(* exceeds its limit by the other uploads at most.                         *)
THEOREM FilesAreExplained == Spec => []FilesExplained
<1>1. OfficeInv => FilesExplained
  <2> SUFFICES ASSUME OfficeInv PROVE FilesExplained
    OBVIOUS
  <2>1. /\ crowd \in SUBSET Handlers /\ crowd # {} /\ IsFiniteSet(crowd)
        /\ EvidenceInv /\ UploadLimits(crowd)
    BY CrowdFinite DEF OfficeInv, CasesFit, CaseLimits
  <2>2. RowsHaveFiles /\ OrphansExplained
    BY <2>1, EvidenceMeans
  <2>3. UploadsWithin(Served)
    BY <2>1, UploadsMean DEF Served
  <2> QED BY <2>2, <2>3 DEF FilesExplained
<1> QED BY OfficeAlways, <1>1, PTL

(* Of requests served one at a time: a change of password leaves no other  *)
(* session of the old one, a user has roles and a teacher a profile unless *)
(* a request was cut, a communication ends after it starts and has the     *)
(* recipients of one request. In every state the feed shows it to those    *)
(* counted but for what AudienceExplained names: another name of the same  *)
(* role, a former member, an administrator's other roles, nobody aimed at. *)
THEOREM RecordsHoldAlone == Spec => []RecordsAlone
<1>1. OfficeInv => RecordsAlone
  <2> SUFFICES ASSUME OfficeInv PROVE RecordsAlone
    OBVIOUS
  <2>1. crowd \in SUBSET Handlers /\ crowd # {} /\ CommInv
    BY DEF OfficeInv, PeopleFit
  <2>2. AudienceExplained
    BY <2>1, AudienceTold
  <2>3. ASSUME Alone
        PROVE  SessionsEndWithPassword /\ WholeUnlessCut /\ DatesInOrder /\ TargetsOfOneRequest
    <3>1. AccountAlone(crowd) /\ RecordsAlong(crowd) /\ CommAlone(crowd)
      BY <2>3 DEF OfficeInv, OneServed
    <3>2. SessionsEndWithPassword
      BY <2>1, <3>1, AccountAloneMeans
    <3>3. WholeUnlessCut
      BY <2>1, <3>1, RecordsMean
    <3>4. DatesInOrder /\ TargetsOfOneRequest
      BY <2>1, <3>1 DEF CommInv, CommAlone
    <3> QED BY <3>2, <3>3, <3>4
  <2> QED BY <2>2, <2>3 DEF RecordsAlone
<1> QED BY OfficeAlways, <1>1, PTL

(* Whatever administrators do and wherever the process dies: a start fails *)
(* only after one of four happenings, or in production without the good    *)
(* ADMIN_PASSWORD it needs; a server that serves has no example password   *)
(* of the seeded user left in production, but for the two ways named, and  *)
(* administrators with what protects them unless that was undone since it  *)
(* started; students are let through to their own schedule and to nobody   *)
(* else's, and no factory role has both hands of a procedure.              *)
THEOREM RolesAreKept == Spec => []RolesKept
<1>1. OfficeInv => RolesKept
  BY RolesMean, HandsApart DEF OfficeInv, RolesKept
<1> QED BY OfficeAlways, <1>1, PTL

(* The conduct of a student, whatever his cases, the rules and the         *)
(* thresholds: the history, the alerts and the board agree on it, and a    *)
(* guide is told nothing that is not so.                                   *)
THEOREM ConductIsOnRecord == Spec => []ConductOnRecord
<1>1. OfficeInv => ConductOnRecord
  BY ConductMeans DEF OfficeInv, ConductOnRecord
<1> QED BY OfficeAlways, <1>1, PTL

(* The imports, of every crowd, whatever the sheets, the groups and their  *)
(* capacities: what the preview showed is what a confirmation does while   *)
(* nobody else changes users or groups, no two users share a key, a group  *)
(* is filled once for each import in flight, and credentials are told to   *)
(* users that are there, and to every imported one but those told of a     *)
(* failure or a cut.                                                       *)
THEOREM ImportsAreExplained == Spec => []ImportsExplained
<1>1. OfficeInv => ImportsExplained
  <2> SUFFICES ASSUME OfficeInv PROVE ImportsExplained
    OBVIOUS
  <2>1. /\ crowd \in SUBSET Handlers /\ IsFiniteSet(crowd) /\ ImportInv /\ SeatInv(crowd)
    BY CrowdFinite DEF OfficeInv
  <2>2. ASSUME NEW H, H = crowd PROVE SeatsWithin(Cardinality(H))
    BY <2>1, <2>2, SeatsAreWithin
  <2>3. SeatsWithin(Served)
    BY <2>2 DEF Served
  <2>4. FollowsPreview /\ ImportedOnce /\ CredentialsExplained
    BY <2>1, ImportMeans
  <2> QED BY <2>3, <2>4 DEF ImportsExplained
<1> QED BY <1>1, OfficeAlways, PTL

(* A session ended while no request had it in hand is ended for good.      *)
THEOREM EndedInOffice == Spec => []EndedForGood
<1>1. OfficeInv => EndedForGood
  BY DEF OfficeInv, PeopleFit, AccountInv, SessionsGone, EndedForGood
<1> QED BY OfficeAlways, <1>1, PTL

(* No request takes back the receipt of a notice, whatever races; one      *)
(* request at a time, none moves a reading or a confirmation of a          *)
(* communication, or records one of what is not published.                 *)
THEOREM ReceiptsAreKept == Spec => ReceiptsKept
<1>1. OfficeInv /\ [Next]_officeVars =>
        [\A f \in 1..Len(files) : \A t \in DOMAIN files[f].notices :
           Present(files[f].notices[t].read) =>
             files'[f].notices[t].read = files[f].notices[t].read]_intakeVars
  <2> SUFFICES ASSUME OfficeInv, [Next]_officeVars,
                      NEW f \in 1..Len(files), NEW t \in DOMAIN files[f].notices,
                      Present(files[f].notices[t].read)
               PROVE  files'[f].notices[t].read = files[f].notices[t].read
    OBVIOUS
  <2>1. IntakeInv /\ IntakeMoves(Handlers)
    BY OfficeStepParts, CasesAll DEF OfficeInv, CasesFit, CasesMove
  <2> QED BY <2>1, IntakeKeepsReceipts DEF IntakeMoves
<1>2. OfficeInv /\ [Next]_officeVars => [Alone => ReadingKept /\ OnlyPublishedIsRead]_officeVars
  <2> SUFFICES ASSUME OfficeInv, [Next]_officeVars, Alone
               PROVE  ReadingKept /\ OnlyPublishedIsRead
    OBVIOUS
  <2>1. /\ crowd \in SUBSET Handlers /\ Lone(crowd) /\ OneServed(crowd) /\ PeopleFit /\ CasesFit
        /\ PeopleMove(crowd) /\ CasesMove(crowd)
    BY AloneLone, OfficeStepParts DEF OfficeInv
  <2> QED BY <2>1, OneServedStep
<1> QED BY OfficeAlways, <1>1, <1>2, PTL DEF Spec, ReceiptsKept, ReceiptKept
=============================================================================
