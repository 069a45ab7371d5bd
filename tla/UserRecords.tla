------------------------------ MODULE UserRecords ------------------------------
(***************************************************************************)
(* A user and what goes with it: its roles and, for a teacher, its         *)
(* profile.  Creation and edits write them one query after another, each   *)
(* committed by itself, unless the creation enrolls a student.             *)
(***************************************************************************)
EXTENDS Requests

UserRoles == {"Docente", "Estudiante"}

VARIABLES
  person,        \* users.status, None until it is created
  personRoles,   \* user_roles
  profile,       \* teacher_profiles: the department, or None
  editing,       \* what each request is doing
  cutShort       \* history: a request ended between two of its queries

personTables == <<person, personRoles, profile>>
personVars   == <<personTables, editing, cutShort>>

Departments == {"d1", "d2"}

Editing ==
  [ phase : {"idle", "save", "clear", "insert", "profile", "put", "drop"},
    status : {"ACTIVE", "INACTIVE", None},  \* the entity that will be saved
    roles : SUBSET UserRoles,               \* roleIds, or the roles as they were read
    given : BOOLEAN,                        \* roleIds were sent
    department : Departments \cup {None} ]

NotEditing == [phase |-> "idle", status |-> None, roles |-> {}, given |-> FALSE, department |-> None]

RecordsInit ==
  /\ person = None /\ personRoles = {} /\ profile = None /\ cutShort = FALSE
  /\ editing = [h \in Handlers |-> NotEditing]

EditingGoes(h, call) == editing' = [editing EXCEPT ![h] = call]
EditingEnds(h) == EditingGoes(h, NotEditing)

\* An error of the database, the process stops, or the department is wrong.
EditingAborts(h) ==
  /\ editing[h].phase # "idle" /\ EditingEnds(h)
  /\ cutShort' = (cutShort \/ editing[h].phase # "save")
  /\ UNCHANGED personTables

\* create, without a group: an active student needs one; the user is inserted ...
CreateUser(h) ==
  \E roles \in (SUBSET UserRoles) \ {{}}, status \in {"ACTIVE", "INACTIVE"},
     department \in Departments \cup {None} :
    /\ editing[h].phase = "idle" /\ ~Present(person)
    /\ ~("Estudiante" \in roles /\ status = "ACTIVE")
    /\ person' = status
    /\ EditingGoes(h, [phase |-> "clear", status |-> status, roles |-> roles, given |-> TRUE,
                       department |-> department])
    /\ UNCHANGED <<personRoles, profile, cutShort>>

\* persistNewUserWithEnrollment: a student with a group, all in one transaction.
CreateEnrolled(h) ==
  \E roles \in SUBSET UserRoles, department \in Departments \cup {None} :
    /\ editing[h].phase = "idle" /\ ~Present(person)
    /\ "Estudiante" \in roles /\ ("Docente" \in roles => Present(department))
    /\ person' = "ACTIVE" /\ personRoles' = roles
    /\ profile' = IF "Docente" \in roles THEN department ELSE None
    /\ UNCHANGED <<editing, cutShort>>

\* update: the user as it was read, with its roles, and what is sent.
EditUser(h) ==
  \E roles \in SUBSET UserRoles, status \in {"ACTIVE", "INACTIVE"},
     department \in Departments \cup {None} :
    /\ editing[h].phase = "idle" /\ Present(person)
    /\ EditingGoes(h, [phase |-> "save", status |-> status, given |-> roles # {},
                       roles |-> IF roles = {} THEN personRoles ELSE roles,
                       department |-> department])
    /\ UNCHANGED <<personTables, cutShort>>

AfterRoles(c) == "profile"

SaveUser(h) ==
  LET c == editing[h] IN
  /\ c.phase = "save" /\ person' = c.status
  /\ EditingGoes(h, IF c.given THEN [c EXCEPT !.phase = "clear"]
                    ELSE IF Present(c.department) THEN [c EXCEPT !.phase = "profile"]
                    ELSE NotEditing)
  /\ UNCHANGED <<personRoles, profile, cutShort>>

\* replaceRoles: all of them are deleted ...
ClearRoles(h) ==
  /\ editing[h].phase = "clear"
  /\ personRoles' = {}
  /\ EditingGoes(h, [editing[h] EXCEPT !.phase = "insert"])
  /\ UNCHANGED <<person, profile, cutShort>>

\* ... and those sent are inserted.
InsertUserRoles(h) ==
  LET c == editing[h] IN
  /\ c.phase = "insert"
  /\ personRoles' = personRoles \cup c.roles
  /\ EditingGoes(h, IF AfterRoles(c) = "idle" THEN NotEditing ELSE [c EXCEPT !.phase = AfterRoles(c)])
  /\ UNCHANGED <<person, profile, cutShort>>

\* syncTeacherProfile: the profile is read; a teacher without one needs a department ...
FindProfile(h) ==
  LET c == editing[h]
      department == IF Present(c.department) THEN c.department ELSE profile
  IN
  /\ c.phase = "profile"
  /\ "Docente" \in c.roles => Present(department)
  /\ EditingGoes(h, IF "Docente" \in c.roles
                    THEN [NotEditing EXCEPT !.phase = "put", !.department = department]
                    ELSE [NotEditing EXCEPT !.phase = IF Present(profile) THEN "drop" ELSE "idle"])
  /\ UNCHANGED <<personTables, cutShort>>

\* ... which is saved, or the profile of who is no teacher is deleted.
SaveProfile(h) ==
  LET c == editing[h] IN
  /\ c.phase \in {"put", "drop"}
  /\ profile' = IF c.phase = "put" THEN c.department ELSE None
  /\ EditingEnds(h)
  /\ UNCHANGED <<person, personRoles, cutShort>>

RecordsNext(H) ==
  \E h \in H :
    \/ CreateUser(h) \/ CreateEnrolled(h) \/ EditUser(h) \/ SaveUser(h) \/ ClearRoles(h)
    \/ InsertUserRoles(h) \/ FindProfile(h) \/ SaveProfile(h) \/ EditingAborts(h)

RecordsSpec == RecordsInit /\ [][RecordsNext(Handlers)]_personVars

-----------------------------------------------------------------------------
(* Type correctness of the user and of the requests about it.              *)
RecordsTypeOK ==
  /\ person \in {"ACTIVE", "INACTIVE", None} /\ personRoles \subseteq UserRoles
  /\ profile \in Departments \cup {None} /\ cutShort \in BOOLEAN
  /\ editing \in [Handlers -> Editing]

(* Between requests a user has a role and, exactly when it is a teacher, a *)
(* profile, unless some request ended between its queries.                 *)
WholeUnlessCut ==
  Present(person) /\ ~cutShort /\ (\A h \in Handlers : editing[h].phase = "idle") =>
    personRoles # {} /\ ("Docente" \in personRoles <=> Present(profile))
=============================================================================
