--------------------------------- MODULE Roles ---------------------------------
(***************************************************************************)
(* Roles, permissions and what the server does to them when it starts      *)
(* (UsersBootstrapService), one request at a time.  Every query commits by *)
(* itself, so the process may stop between any two of them.  Of the        *)
(* catalogue it has the codes the start and the services tell apart: one of*)
(* the protected ones, the own schedule, and seeing and editing the whole. *)
(***************************************************************************)
EXTENDS Requests, Routes

Protected == "roles_permissions.edit"
Own       == "schedules.view_own"
Whole     == {"schedules.view", "schedules.edit"}
Catalogue == {Protected, Own} \cup Whole
Before    ==                       \* in the order ensurePermissions has them
  [c \in Catalogue |-> CASE c = Protected       -> {}
                         [] c = "schedules.view" -> {Protected}
                         [] c = Own              -> {Protected, "schedules.view"}
                         [] c = "schedules.edit" -> {Protected, "schedules.view", Own}]
Codes     == Catalogue \cup {"extra"}        \* a code somebody made up
Names     == {"Administrador", "Docente", "Estudiante", "Otro"}

\* Codes and names are unique, so one row for each is room enough.
Permissions == 1..Cardinality(Codes)
RoleIds     == 1..Cardinality(Names)

CONSTANTS MaxStarts, MaxEdits       \* starts, and edits after each of them

Permission == [code : Codes, slot : Codes]
SeededUser == [roles : SUBSET RoleIds, named : BOOLEAN, example : BOOLEAN]

\* What a start is given: NODE_ENV, whether ADMIN_PASSWORD would do for production,
\* and whether ADMIN_EMAIL is the address of a user other than the seeded one.
Environment == [production : BOOLEAN, strong : BOOLEAN, other : BOOLEAN]
Write      == [of : {"grants"}, role : RoleIds, ids : SUBSET Permissions]
                \cup [of : {"roles"}, ids : SUBSET RoleIds]

ASSUME RolesAssumption ==
  /\ MaxStarts \in Nat \ {0} /\ MaxEdits \in Nat
  /\ None \notin Names \cup Permission \cup SeededUser \cup Write

VARIABLES
  permission,    \* permissions: code and the pair of module and action, or None
  roleName,      \* roles.name, or None where there is no row
  grants,        \* role_permissions
  seeded,        \* the user with the reserved national id: its roles, whether it has the
                 \* names and the example password of the migration, or None
  env,           \* the environment of this start
  boot,          \* the query of the start the server is at, or what became of it
  pending,       \* setPermissionIds or replaceRoles, deleted and not yet inserted
  starts, edits,
  ever, since    \* history: what happened, and what did after the last start

roleTables == <<permission, roleName, grants, seeded>>
roleVars   == <<roleTables, env, boot, pending, starts, edits, ever, since>>

Happenings == {"miscoded", "renamed", "demoted", "cut", "edited", "another", "password"}
BootSteps  == {"permissions", "admin role", "other roles", "own schedule", "no whole schedule",
               "admin user", "serving", "failed", "stopped"}
Rows       == {p \in Permissions : Present(permission[p])}
CodeOf(p)  == permission[p].code
RowOf(c)   == {p \in Rows : CodeOf(p) = c}
Named(n)   == {r \in RoleIds : roleName[r] = n}
RowId(n)   == CHOOSE r \in RoleIds : roleName[r] = n
Codified(ids) == {CodeOf(p) : p \in ids}
FreeRole   == CHOOSE r \in RoleIds : roleName[r] = None
FreeRow    == CHOOSE p \in Permissions : permission[p] = None

Happened(what) == ever' = ever \cup what /\ since' = since \cup what

\* The migrations in order: what 001 seeds, the codes of the whole schedule (014) with
\* their grants, and the own one (015), granted to teachers and (016) to students.
SeededCodes == <<Protected, "schedules.view", "schedules.edit", Own>>
SeededRoles == <<"Administrador", "Docente", "Estudiante">>
SeededGrants(name) ==
  CASE name = "Administrador"            -> {1, 2, 3}
    [] name \in {"Docente", "Estudiante"} -> {4}
    [] OTHER                             -> {}

Migrated ==
  /\ permission = [p \in Permissions |->
       IF p \in DOMAIN SeededCodes THEN [code |-> SeededCodes[p], slot |-> SeededCodes[p]] ELSE None]
  /\ roleName = [r \in RoleIds |-> IF r \in DOMAIN SeededRoles THEN SeededRoles[r] ELSE None]
  /\ grants = [r \in RoleIds |-> SeededGrants(roleName[r])]
  /\ seeded = [roles |-> {1}, named |-> TRUE, example |-> TRUE]

\* The schema synchronized from the entities, which is not done in production, has no rows.
Synchronized ==
  /\ permission = [p \in Permissions |-> None] /\ roleName = [r \in RoleIds |-> None]
  /\ grants = [r \in RoleIds |-> {}] /\ seeded = None

RolesInit ==
  /\ env \in Environment /\ ~env.other /\ pending = None
  /\ Migrated \/ (Synchronized /\ ~env.production)
  /\ boot = "permissions" /\ starts = 1 /\ edits = 0 /\ ever = {} /\ since = {}

-----------------------------------------------------------------------------
(* The two-query writes, and the end of the process.                       *)

\* setPermissionIds deletes the grants of the role ...
ReplaceGrants(r, ids) ==
  /\ grants' = [grants EXCEPT ![r] = {}]
  /\ pending' = IF ids = {} THEN None ELSE [of |-> "grants", role |-> r, ids |-> ids]

\* ... and inserts the new ones.  replaceRoles does the same with the roles of a user.
InsertPending ==
  /\ Present(pending) /\ pending' = None
  /\ IF pending.of = "grants"
     THEN grants' = [grants EXCEPT ![pending.role] = pending.ids] /\ UNCHANGED seeded
     ELSE seeded' = [seeded EXCEPT !.roles = pending.ids] /\ UNCHANGED grants
  /\ UNCHANGED <<permission, roleName, env, boot, starts, edits, ever, since>>

Stops ==
  /\ boot # "stopped" /\ boot' = "stopped" /\ pending' = None
  /\ Happened(IF Present(pending) THEN {"cut"} ELSE {})
  /\ UNCHANGED <<roleTables, env, starts, edits>>

Starts ==
  /\ boot \in {"stopped", "failed"} /\ starts < MaxStarts
  /\ boot' = "permissions" /\ starts' = starts + 1 /\ edits' = 0 /\ since' = {}
  /\ env' \in Environment /\ (env'.other => "another" \in ever)
  /\ UNCHANGED <<roleTables, pending, ever>>

-----------------------------------------------------------------------------
(* onModuleInit, one query after another.                                  *)

At(step) == boot = step /\ pending = None

\* ensurePermissions: a code that is missing is inserted with its module and action,
\* which are unique too: a row that has them under another code makes the start fail.
EnsurePermission ==
  /\ At("permissions")
  /\ \E c \in Catalogue :
       /\ RowOf(c) = {} /\ \A d \in Before[c] : RowOf(d) # {}
       /\ IF \E p \in Rows : permission[p].slot = c
          THEN boot' = "failed" /\ UNCHANGED permission
          ELSE permission' = [permission EXCEPT ![FreeRow] = [code |-> c, slot |-> c]] /\ UNCHANGED boot
  /\ UNCHANGED <<roleName, grants, seeded, pending, env, starts, edits, ever, since>>

PermissionsEnsured ==
  /\ At("permissions") /\ \A c \in Catalogue : RowOf(c) # {}
  /\ boot' = "admin role"
  /\ UNCHANGED <<roleTables, pending, env, starts, edits, ever, since>>

\* ensureAdminRole: created, or given what it lacks; it keeps what it has.
EnsureAdminRole ==
  /\ At("admin role") /\ boot' = "other roles"
  /\ IF Named("Administrador") = {}
     THEN /\ roleName' = [roleName EXCEPT ![FreeRole] = "Administrador"]
          /\ ReplaceGrants(FreeRole, Rows)
     ELSE LET r == RowId("Administrador") IN
          /\ IF Rows \subseteq grants[r] THEN UNCHANGED <<grants, pending>>
             ELSE ReplaceGrants(r, grants[r] \cup Rows)
          /\ UNCHANGED roleName
  /\ UNCHANGED <<permission, seeded, env, starts, edits, ever, since>>

\* ensureTeacherRole, ensureStudentRole: a missing role is created without grants, the
\* teachers' first.
EnsureOtherRole ==
  /\ At("other roles")
  /\ LET missing == {n \in {"Docente", "Estudiante"} : Named(n) = {}} IN
     IF missing = {} THEN boot' = "own schedule" /\ UNCHANGED roleName
     ELSE /\ \E n \in missing :
               /\ n = "Docente" \/ "Docente" \notin missing
               /\ roleName' = [roleName EXCEPT ![FreeRole] = n]
          /\ UNCHANGED boot
  /\ UNCHANGED <<permission, grants, seeded, pending, env, starts, edits, ever, since>>

\* ensureOwnSchedulePermission grants the own schedule to teachers and students ...
GrantOwnSchedule ==
  /\ At("own schedule")
  /\ LET lacking == {r \in Named("Docente") \cup Named("Estudiante") : RowOf(Own) \cap grants[r] = {}} IN
     IF lacking = {} THEN boot' = "no whole schedule" /\ UNCHANGED <<grants, pending>>
     ELSE /\ \E r \in lacking :
               /\ roleName[r] = "Docente" \/ Named("Docente") \cap lacking = {}
               /\ ReplaceGrants(r, grants[r] \cup RowOf(Own))
          /\ UNCHANGED boot
  /\ UNCHANGED <<permission, roleName, seeded, env, starts, edits, ever, since>>

\* ... and takes the whole one from students.
RevokeWholeSchedule ==
  /\ At("no whole schedule") /\ boot' = "admin user"
  /\ LET r == RowId("Estudiante") kept == {p \in grants[r] : CodeOf(p) \notin Whole} IN
     IF kept = grants[r] THEN UNCHANGED <<grants, pending>> ELSE ReplaceGrants(r, kept)
  /\ UNCHANGED <<permission, roleName, seeded, env, starts, edits, ever, since>>

\* validateSeededAdminRecord: the names of the migration and the role.
IsMigrated(user) == user.named /\ RowId("Administrador") \in user.roles

\* ADMIN_PASSWORD is asked for in production, where it is missing or weak.
Unsafe == env.production /\ ~env.strong

Serves(user) == boot' = "serving" /\ seeded' = user
Fails        == boot' = "failed" /\ UNCHANGED seeded

\* ensureAdminUser: the user with the address, whoever it is, or else the seeded one,
\* which is validated.  In production its example password is replaced.
FoundAdminUser ==
  /\ At("admin user") /\ (env.other \/ Present(seeded)) /\ UNCHANGED pending
  /\ \/ env.other /\ (Serves(seeded) \/ (Unsafe /\ Fails))    \* by its own password
     \/ /\ ~env.other
        /\ IF ~IsMigrated(seeded) \/ (seeded.example /\ Unsafe) THEN Fails
           ELSE Serves([seeded EXCEPT !.example = @ /\ ~env.production])
  /\ UNCHANGED <<permission, roleName, grants, env, starts, edits, ever, since>>

\* Nobody is found: created, and then given the role.  Out of production the password
\* is the example one unless another is set.
CreateAdminUser ==
  /\ At("admin user") /\ ~env.other /\ ~Present(seeded)
  /\ IF Unsafe THEN Fails /\ UNCHANGED pending
     ELSE \E example \in BOOLEAN :
            /\ example => ~env.strong
            /\ Serves([roles |-> {}, named |-> TRUE, example |-> example])
            /\ pending' = [of |-> "roles", ids |-> Named("Administrador")]
  /\ UNCHANGED <<permission, roleName, grants, env, starts, edits, ever, since>>

-----------------------------------------------------------------------------
(* The operations of the administrators.                                   *)

Serving == At("serving") /\ edits < MaxEdits
RoleEdit(what) ==
  /\ edits' = edits + 1 /\ Happened(what \cup {"edited"})
  /\ UNCHANGED <<env, boot, starts>>

Chosen == {{}, RowOf(Protected), Rows \ RowOf(Protected), Rows}      \* permissionIds

\* Slip: some permission is enough.
SomethingKept(name, ids) == name = "Administrador" => ids # {}

\* assertAdminProtectedPermissions looks at the name the role has by then.
ProtectedKept(name, ids) == name = "Administrador" => Protected \in Codified(ids)

\* create: a name nobody has.
CreateRole ==
  /\ Serving
  /\ \E n \in Names, ids \in Chosen :
       /\ Named(n) = {}
       /\ roleName' = [roleName EXCEPT ![FreeRole] = n] /\ ReplaceGrants(FreeRole, ids)
  /\ UNCHANGED <<permission, seeded>> /\ RoleEdit({})

\* update: the name is saved first, and then the permissions, if they were sent and
\* those of the new name allow it.
UpdateRole ==
  /\ Serving
  /\ \E r \in RoleIds, n \in Names, sent \in Chosen \cup {None} :
       /\ Present(roleName[r]) /\ Named(n) \subseteq {r}
       /\ roleName' = [roleName EXCEPT ![r] = n]
       /\ IF sent # None /\ ProtectedKept(n, sent) THEN ReplaceGrants(r, sent)
          ELSE UNCHANGED <<grants, pending>>
       /\ RoleEdit(IF roleName[r] # n /\ "Administrador" \in {roleName[r], n} THEN {"renamed"} ELSE {})
  /\ UNCHANGED <<permission, seeded>>

\* assignPermissions: at least one.
AssignPermissions ==
  /\ Serving
  /\ \E r \in RoleIds, ids \in Chosen \ {{}} :
       Present(roleName[r]) /\ ProtectedKept(roleName[r], ids) /\ ReplaceGrants(r, ids)
  /\ UNCHANGED <<permission, roleName, seeded>> /\ RoleEdit({})

Template(name) == IF name = "Administrador" THEN Codes ELSE DefaultTemplates[name] \cap Catalogue

\* resetToDefaults: a role with a template, whose permissions all exist.
ResetToDefaults ==
  /\ Serving
  /\ \E r \in RoleIds :
       /\ roleName[r] \in {"Administrador"} \cup DOMAIN DefaultTemplates
       /\ LET ids == {p \in Rows : CodeOf(p) \in Template(roleName[r])} IN
          /\ roleName[r] # "Administrador" => Codified(ids) = Template(roleName[r])
          /\ ProtectedKept(roleName[r], ids) /\ ReplaceGrants(r, ids)
  /\ UNCHANGED <<permission, roleName, seeded>> /\ RoleEdit({})

\* Of the permissions other than p: no code and no module and action twice.
Unused(p, row) ==
  \A q \in Rows \ {p} : CodeOf(q) # row.code /\ permission[q].slot # row.slot

Miscoded(row) == IF row.code # row.slot THEN {"miscoded"} ELSE {}

CreatePermission ==
  /\ Serving
  /\ \E row \in Permission :
       /\ Rows # Permissions /\ Unused(FreeRow, row)
       /\ permission' = [permission EXCEPT ![FreeRow] = row] /\ RoleEdit(Miscoded(row))
  /\ UNCHANGED <<roleName, grants, seeded, pending>>

\* update: the code may change by itself, or follow the module and action.
UpdatePermission ==
  /\ Serving
  /\ \E p \in Rows, row \in Permission :
       /\ row.slot = permission[p].slot \/ row.code = row.slot
       /\ Unused(p, row)
       /\ permission' = [permission EXCEPT ![p] = row]
       /\ RoleEdit(IF row = permission[p] THEN {} ELSE {"miscoded"})
  /\ UNCHANGED <<roleName, grants, seeded, pending>>

\* remove: only what no role grants.
RemovePermission ==
  /\ Serving
  /\ \E p \in Rows :
       /\ \A r \in RoleIds : p \notin grants[r]
       /\ permission' = [permission EXCEPT ![p] = None]
  /\ UNCHANGED <<roleName, grants, seeded, pending>> /\ RoleEdit({})

\* PATCH /users/:id of the seeded user: other names, or other roles (replaceRoles).
EditSeeded ==
  /\ Serving /\ Present(seeded)
  /\ \E kept \in BOOLEAN, r \in {r \in RoleIds : Present(roleName[r])} :
       /\ seeded' = [seeded EXCEPT !.roles = {}, !.named = kept]
       /\ pending' = [of |-> "roles", ids |-> {r}]
       /\ RoleEdit(IF kept /\ roleName[r] = "Administrador" THEN {} ELSE {"demoted"})
  /\ UNCHANGED <<permission, roleName, grants>>

\* changePassword, resetPassword: the policy allows the example password.
PasswordOfSeeded ==
  /\ Serving /\ Present(seeded)
  /\ \E example \in BOOLEAN : seeded' = [seeded EXCEPT !.example = example]
  /\ UNCHANGED <<permission, roleName, grants, pending>> /\ RoleEdit({"password"})

\* PATCH /users/:id with a national id: the seeded user loses the reserved one, and
\* another user may get it then.
RenumberSeeded ==
  /\ Serving
  /\ IF Present(seeded) THEN seeded' = None /\ RoleEdit({"another"})
     ELSE \E r \in {r \in RoleIds : Present(roleName[r])}, named, example \in BOOLEAN :
            /\ seeded' = [roles |-> {r}, named |-> named, example |-> example]
            /\ RoleEdit({"demoted", "password"})
  /\ UNCHANGED <<permission, roleName, grants, pending>>

\* Another user gets an address that ADMIN_EMAIL may name from the next start on.
AddressOfAnother ==
  /\ Serving /\ UNCHANGED <<roleTables, pending>> /\ RoleEdit({"another"})

-----------------------------------------------------------------------------
RolesNext ==
  \/ InsertPending \/ Stops \/ Starts
  \/ EnsurePermission \/ PermissionsEnsured \/ EnsureAdminRole \/ EnsureOtherRole
  \/ GrantOwnSchedule \/ RevokeWholeSchedule \/ FoundAdminUser \/ CreateAdminUser
  \/ CreateRole \/ UpdateRole \/ AssignPermissions \/ ResetToDefaults
  \/ CreatePermission \/ UpdatePermission \/ RemovePermission
  \/ EditSeeded \/ PasswordOfSeeded \/ RenumberSeeded \/ AddressOfAnother

RolesTypeOK ==
  /\ permission \in [Permissions -> Permission \cup {None}]
  /\ roleName \in [RoleIds -> Names \cup {None}] /\ grants \in [RoleIds -> SUBSET Rows]
  /\ seeded \in SeededUser \cup {None} /\ pending \in Write \cup {None}
  /\ env \in Environment /\ boot \in BootSteps /\ starts \in 1..MaxStarts /\ edits \in 0..MaxEdits
  /\ ever \subseteq Happenings /\ since \subseteq ever

\* What a role's account is let through, had it no other.
RoleCaller(n) == Caller({n}, Codified(UNION {grants[r] : r \in Named(n)}))

(* A start fails only where somebody gave a permission a code other than   *)
(* its module and action's, renamed the role of the administrators, edited *)
(* who the seeded user is, or the process died between two queries; or in  *)
(* production without a good ADMIN_PASSWORD, while the administrator it    *)
(* finds may have the example password or there is none yet.               *)
StartsUnlessBroken ==
  boot = "failed" =>
    \/ ever \cap {"miscoded", "renamed", "demoted", "cut"} # {}
    \/ Unsafe /\ (env.other \/ (Present(seeded) => seeded.example))

(* A server of production that serves has no administrator with the example*)
(* password, unless somebody chose it since the start or ADMIN_EMAIL named *)
(* another user, which leaves the seeded one as it was.                    *)
ExampleReplaced ==
  At("serving") /\ env.production /\ ~env.other /\ "password" \notin since =>
    (Present(seeded) => ~seeded.example)

(* Unless that happened since the last start, the administrators grant the *)
(* protected permissions once the requests on roles are over.              *)
AdminKept ==
  At("serving") /\ since \cap {"miscoded", "renamed", "cut"} = {} =>
    \E r \in Named("Administrador") : RowOf(Protected) # {} /\ RowOf(Protected) \subseteq grants[r]

(* Whatever was done before, a start leaves students their own schedule    *)
(* and takes from them the routes of everybody's.                          *)
ScheduleOfStudents ==
  At("serving") /\ since = {} =>
    /\ \A route \in MyScheduleRoutes : Admitted(RoleCaller("Estudiante"), route)
    /\ \A route \in ScheduleEntryRoutes \cup TimeSlotRoutes \cup ScheduleExportRoutes :
         ~Admitted(RoleCaller("Estudiante"), route)
=============================================================================
