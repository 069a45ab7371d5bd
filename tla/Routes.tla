-------------------------------- MODULE Routes --------------------------------
(***************************************************************************)
(* The routes of the server, controller by controller, with what their     *)
(* decorators ask of the caller, and the three guards every request passes *)
(* (JwtAuthGuard, RolesGuard, PermissionsGuard).  A route is named for what*)
(* it does; writes tells whether it changes rows.  A route that asks for   *)
(* no permission is left to the checks of its service.                     *)
(***************************************************************************)
EXTENDS FiniteSets

Routed(writes, needs, ops) ==
  {[op |-> o, writes |-> writes, needs |-> needs, role |-> "any", public |-> FALSE] : o \in ops}

Reads(needs, ops)  == Routed(FALSE, needs, ops)
Writes(needs, ops) == Routed(TRUE, needs, ops)
Public(routes)     == {[r EXCEPT !.public = TRUE] : r \in routes}
OnlyFor(role, routes) == {[r EXCEPT !.role = role] : r \in routes}

-----------------------------------------------------------------------------
(* Accounts and administration.                                            *)

AuthRoutes ==
  Public(Writes({}, {"login", "forgot password", "reset password", "verify account",
                     "resend verification", "refresh"}))
    \cup Reads({}, {"me", "own sessions"})
    \cup Writes({}, {"logout", "logout all", "change password", "revoke own session"})

UserRoutes ==
  Reads({}, {"own profile", "own guardian links"})
    \cup Writes({}, {"edit own profile"})
    \cup Writes({"administrator.create"}, {"create user", "name guide teacher"})
    \cup Reads({"administrator.view"}, {"users", "user", "audit of user", "guide teachers", "guardian links"})
    \cup Writes({"administrator.edit"}, {"edit user", "edit guide teacher", "link guardian"})
    \cup Writes({"administrator.delete"}, {"remove guide teacher"})

GuardianLinkRoutes == Writes({"administrator.edit"}, {"unlink guardian"})
DepartmentRoutes   == Reads({"administrator.view"}, {"departments"})

RoleRoutes ==
  Reads({"roles_permissions.view"}, {"roles", "role"})
    \cup Writes({"roles_permissions.create"}, {"create role"})
    \cup Writes({"roles_permissions.edit"}, {"edit role", "assign permissions", "reset role"})
    \cup Writes({"roles_permissions.delete"}, {"deactivate role"})

PermissionRoutes ==
  Reads({"roles_permissions.view"}, {"permissions", "permission"})
    \cup Writes({"roles_permissions.create"}, {"create permission"})
    \cup Writes({"roles_permissions.edit"}, {"edit permission"})
    \cup Writes({"roles_permissions.delete"}, {"remove permission"})

BulkImportRoutes ==
  OnlyFor("ADMIN", Reads({}, {"validate import", "import job"})
                     \cup Writes({}, {"confirm import", "register import results"}))

ReportRoutes    == Reads({"administrator.view"}, {"users report", "structure report", "periods report"})
DashboardRoutes == Reads({"administrator.view"}, {"summary"})
PublicRoutes    == Public(Reads({}, {"campus snapshot"}))

-----------------------------------------------------------------------------
(* The academic structure.                                                 *)

AcademicYearRoutes ==
  Reads({}, {"years", "year"})
    \cup Writes({"academic_structure.configure"}, {"create year", "edit year", "activate year", "close year"})

AcademicPeriodRoutes ==
  Reads({}, {"periods"})
    \cup Writes({"periods.create"}, {"create period"})
    \cup Writes({"periods.edit"}, {"edit period", "close period", "activate period", "reopen period"})

SectionRoutes ==
  Reads({}, {"sections", "section"})
    \cup Writes({"sections.create"}, {"create section"})
    \cup Writes({"sections.edit"}, {"edit section", "remove section"})

GroupRoutes ==
  Reads({}, {"groups", "group"})
    \cup Writes({"sections.create"}, {"create group"})
    \cup Writes({"sections.edit"}, {"guide of group", "edit group", "remove group"})

SpecialtyRoutes ==
  Reads({}, {"specialties", "specialty", "hub covers"})
    \cup Writes({"specialties.create"}, {"create specialty"})
    \cup Writes({"specialties.edit"}, {"edit specialty", "remove specialty", "set cover", "drop cover"})

SubjectRoutes ==
  Reads({"academic_structure.view"}, {"subjects", "subject"})
    \cup Writes({"academic_structure.edit"}, {"create subject", "edit subject", "remove subject"})

AssignmentRoutes ==
  Reads({"academic_structure.view"}, {"assignments", "assignment"})
    \cup Writes({"academic_structure.edit"}, {"create assignment", "edit assignment"})

EnrollmentRoutes ==
  Reads({"students.view"}, {"enrollments", "enrollments as of"})
    \cup Writes({"students.create"}, {"enroll"})
    \cup Writes({"students.edit"}, {"transfer"})

StudentRoutes  == Reads({}, {"students", "student"})
                    \cup Writes({}, {"create student", "edit student", "add guardian"})
GuardianRoutes == Reads({}, {"guardian"})

-----------------------------------------------------------------------------
(* The classroom and the gate.                                             *)

ScheduleEntryRoutes ==
  Reads({"schedules.view"}, {"entries", "entry"})
    \cup Writes({"schedules.edit"}, {"create entry", "edit entry", "remove entry"})

TimeSlotRoutes ==
  Reads({"schedules.view"}, {"slots", "slot"})
    \cup Writes({"schedules.edit"}, {"create slot", "edit slot", "remove slot"})

MyScheduleRoutes     == Reads({"schedules.view_own"}, {"my schedule"})
ScheduleExportRoutes == Reads({"schedules.view"}, {"export schedule"})

AttendanceReportRoutes ==
  Reads({}, {"history", "history summary", "export history"})
    \cup Reads({"attendance.view"}, {"attendance KPIs", "attendance summary", "export attendance"})

AttendanceSessionRoutes ==
  Reads({"attendance.view"}, {"own groups", "offerings of group", "schedule context", "session",
                              "roster", "session students", "export session"})
    \cup Writes({"attendance.create"}, {"start session", "start from schedule"})
    \cup Writes({"attendance.edit"}, {"new code", "close session", "save list"})

RedeemRoutes == OnlyFor("STUDENT", Writes({}, {"redeem code"}))

JustificationRoutes ==
  Reads({}, {"justifiable absences", "justifications"})
    \cup Reads({"attendance.view"}, {"justification file"})
    \cup Writes({"attendance.justify"}, {"justify", "attach evidence"})
    \cup Writes({"attendance.review"}, {"review justification"})

ExceptionRoutes ==
  Reads({"attendance.view"}, {"exceptions", "exception"})
    \cup Writes({"attendance.edit"}, {"create exception", "edit exception", "remove exception"})

AbsenteeismRoutes ==
  Reads({"attendance.view"}, {"absenteeism", "students at risk", "alerts of absence", "rules"})
    \cup Writes({"attendance.view"}, {"read alert"})
    \cup Writes({"attendance.edit"}, {"edit rule"})

DepartureRoutes ==
  Reads({"departures.validate"}, {"validate guardian"})
    \cup Writes({"departures.create"}, {"register departure"})
    \cup Reads({"departures.view_history"}, {"departures today", "departures", "groups that leave"})
    \cup Reads({"departures.export"}, {"export departures"})

PermitRoutes ==
  Writes({"departures.view_history"}, {"permits today", "permits"})   \* the listing expires them
    \cup Writes({"departures.manage_permits"}, {"create permit"})
    \cup Writes({"departures.create"}, {"complete permit"})

-----------------------------------------------------------------------------
(* Communications and the disciplinary procedure.                          *)

CommunicationRoutes ==
  Reads({"communications.view"}, {"feed"})
    \cup Writes({"communications.view"}, {"open communication", "read communication", "acknowledge"})
    \cup Reads({"communications.create"}, {"own communications", "target options", "audience", "statistics"})
    \cup Writes({"communications.create"}, {"write communication", "edit communication", "archive communication",
                                            "remove communication", "set targets"})
    \cup Writes({"communications.publish"}, {"publish"})

NotificationRoutes == Reads({}, {"inbox"}) \cup Writes({}, {"read notification"})

CaseRoutes ==
  Reads({}, {"cases", "case", "history of student"})
    \cup Reads({"disciplinary.create"}, {"students to report"})
    \cup Writes({"disciplinary.create"}, {"open case"})
    \cup Writes({}, {"start investigation", "observe", "request information", "answer request",
                     "follow up", "close follow-up", "archive case", "communicate", "resolve case",
                     "request opinion"})
    \cup Writes({"disciplinary.review"}, {"give opinion"})
    \cup Writes({"disciplinary.configure"}, {"annul case"})

CaseCommunicationRoutes ==
  Reads({}, {"own notices", "communication of case"})
    \cup Writes({}, {"read notice", "written defense", "record delivery", "deliver charge"})
    \cup Writes({"disciplinary.respond"}, {"file defense"})

AppealRoutes ==
  Reads({}, {"eligible cases", "appeals to review", "appeal to review", "appeals", "appeal"})
    \cup Reads({"disciplinary.view"}, {"appeals dashboard"})
    \cup Writes({}, {"file revocation", "file appeal"})
    \cup Writes({"disciplinary.resolve"}, {"resolve revocation"})
    \cup Writes({"disciplinary.appeal"}, {"resolve appeal"})

EvidenceRoutes ==
  Reads({}, {"evidence"}) \cup Writes({"disciplinary.create"}, {"attach to case"})

PrecautionaryRoutes == Writes({"disciplinary.precautionary"}, {"order measure"})
AlertRoutes         == Reads({}, {"disciplinary alerts"})
CaseDashboardRoutes == Reads({}, {"disciplinary dashboard"})

CaseExportRoutes ==
  Reads({"disciplinary.export"}, {"export cases", "export history of student", "export appeals", "export case"})

InfractionRoutes ==
  Reads({"disciplinary.view"}, {"severity rules", "infractions", "infraction"})
    \cup Reads({"disciplinary.export"}, {"export infractions"})
    \cup Reads({"disciplinary.create"}, {"infraction options"})
    \cup Writes({"disciplinary.configure"}, {"create infraction", "edit infraction", "remove infraction"})

CalendarRoutes ==
  Reads({"disciplinary.configure"}, {"days off", "settings"})
    \cup Writes({"disciplinary.configure"}, {"create day off", "remove day off", "edit settings"})

LegacyAppealRoutes ==
  Reads({}, {"old appeals", "old appeal"}) \cup Writes({}, {"create old appeal", "review old appeal", "resolve old appeal"})

AllRoutes ==
  UNION {AuthRoutes, UserRoutes, GuardianLinkRoutes, DepartmentRoutes, RoleRoutes, PermissionRoutes,
         BulkImportRoutes, ReportRoutes, DashboardRoutes, PublicRoutes,
         AcademicYearRoutes, AcademicPeriodRoutes, SectionRoutes, GroupRoutes, SpecialtyRoutes,
         SubjectRoutes, AssignmentRoutes, EnrollmentRoutes, StudentRoutes, GuardianRoutes,
         ScheduleEntryRoutes, TimeSlotRoutes, MyScheduleRoutes, ScheduleExportRoutes,
         AttendanceReportRoutes, AttendanceSessionRoutes, RedeemRoutes, JustificationRoutes,
         ExceptionRoutes, AbsenteeismRoutes, DepartureRoutes, PermitRoutes,
         CommunicationRoutes, NotificationRoutes, CaseRoutes, CaseCommunicationRoutes, AppealRoutes,
         EvidenceRoutes, PrecautionaryRoutes, AlertRoutes, CaseDashboardRoutes, CaseExportRoutes,
         InfractionRoutes, CalendarRoutes, LegacyAppealRoutes}

-----------------------------------------------------------------------------
(* The factory permissions of the institutional roles.                     *)

Family == {"communications.view", "attendance.view_own", "attendance.justify",
           "disciplinary.view_own", "disciplinary.respond"}

DefaultTemplates ==
  [Docente |->
     {"attendance.create", "attendance.view", "attendance.edit", "attendance.justify", "students.view",
      "schedules.view_own", "communications.view", "communications.create", "communications.publish",
      "disciplinary.create", "disciplinary.view_own", "disciplinary.resolve", "academic_structure.view",
      "periods.view", "sections.view", "specialties.view"},
   Estudiante |->
     {"attendance.view_own", "attendance.justify", "schedules.view_own", "communications.view",
      "appeals.create", "disciplinary.view_own"},
   Orientador |-> {"disciplinary.view", "disciplinary.review", "disciplinary.export"},
   Director |->
     {"communications.view", "communications.create", "communications.publish", "communications.manage",
      "communications.stats", "disciplinary.view", "disciplinary.appeal", "disciplinary.precautionary",
      "disciplinary.export", "departures.validate", "departures.create", "departures.view_history",
      "departures.export", "departures.manage_permits"},
   Encargado |-> Family,
   Guarda |-> {"departures.validate", "departures.create", "departures.view_history", "departures.export"}]

\* The names by which a route asks for a role, and those an account may hold it by.
RoleAliases ==
  [ADMIN   |-> {"ADMIN", "Administrador"},
   STUDENT |-> {"STUDENT", "Estudiante"},
   any     |-> {}]

-----------------------------------------------------------------------------
(* The guards.  A caller is the roles and permissions of the account, as   *)
(* toAuthenticatedUser puts them together; NoCaller has signed in nowhere. *)

NoCaller == [signed |-> FALSE, roles |-> {}, permissions |-> {}]

Caller(names, permissions) ==
  [signed |-> TRUE,
   roles |-> IF "Administrador" \in names THEN {"ADMIN"} ELSE names,
   permissions |-> permissions]

RoleFits(caller, route) ==
  route.role = "any" \/ RoleAliases[route.role] \cap caller.roles # {}

PermissionsFit(caller, route) ==
  route.needs = {} \/ "ADMIN" \in caller.roles \/ route.needs \subseteq caller.permissions

Admitted(caller, route) ==
  /\ route.public \/ caller.signed
  /\ RoleFits(caller, route) /\ PermissionsFit(caller, route)

May(caller, op) == \E route \in AllRoutes : route.op = op /\ Admitted(caller, route)

-----------------------------------------------------------------------------
FactoryCaller(name) == Caller({name}, DefaultTemplates[name])

\* The two hands of a procedure: who asks for something, and who decides it.
TwoHands ==
  {<<"justify", "review justification">>, <<"open case", "annul case">>,
   <<"open case", "order measure">>, <<"open case", "give opinion">>,
   <<"file defense", "resolve revocation">>, <<"resolve revocation", "resolve appeal">>}

(* As the roles leave the factory, no role but the administrator's has both*)
(* hands of a procedure, and whoever has not signed in changes nothing but *)
(* by the routes that sign in, recover a password or verify an account.    *)
RoutesFit ==
  /\ \A name \in DOMAIN DefaultTemplates, hands \in TwoHands :
       ~(May(FactoryCaller(name), hands[1]) /\ May(FactoryCaller(name), hands[2]))
  /\ {route \in AllRoutes : route.writes /\ Admitted(NoCaller, route)} \subseteq AuthRoutes
=============================================================================
