------------------------------- MODULE Accounts -------------------------------
(***************************************************************************)
(* One account: its row in users, the sessions opened with it and the      *)
(* links that reset its password.  No request locks or opens a             *)
(* transaction: every query commits by itself, so that requests interleave *)
(* at each of them and one that is cut leaves its first writes behind.     *)
(*                                                                         *)
(* A password is the number of times one was set.  A refresh token is      *)
(* always the one its session holds; the expiry of a session or of a link  *)
(* is a request that stops.                                                *)
(***************************************************************************)
EXTENDS Requests, Sequences

CONSTANTS
  MaxPasswords, \* bound: passwords set
  MaxSessions,  \* bound: sessions opened
  MaxResets     \* bound: links requested

Account == [status : {"ACTIVE", "INACTIVE"}, password : 1..MaxPasswords]
Session == [opened : 1..MaxPasswords, revoked : BOOLEAN]

ASSUME AccountsAssumption ==
  /\ MaxPasswords \in Nat \ {0} /\ MaxSessions \in Nat /\ MaxResets \in Nat

VARIABLES
  account,
  sessions,    \* user_sessions; opened is the password of the login
  resets,      \* password_reset_tokens: is the link used
  accountCall,
  resetUses,   \* history: passwords set through each link
  passwords,   \* history: passwords set so far
  retired,     \* history: passwords the user replaced
  halfDone,    \* history: a request was cut after it set a password
  ended        \* history: sessions ended while no request had read them

accountRows == <<account, sessions, resets>>
accountPast == <<resetUses, passwords, retired, halfDone, ended>>
accountVars == <<accountRows, accountCall, accountPast>>

-----------------------------------------------------------------------------
AccountCall ==
  [ phase : {"idle", "login", "issue", "refresh", "change", "forgot", "reset", "used",
             "sweep", "revoke", "update"},
    entity : Account \cup {None}, session : 0..MaxSessions, reset : 0..MaxResets ]

NotCalled == [phase |-> "idle", entity |-> None, session |-> 0, reset |-> 0]

AccountsInit ==
  /\ account = [status |-> "ACTIVE", password |-> 1]
  /\ sessions = <<>> /\ resets = <<>> /\ accountCall = [h \in Handlers |-> NotCalled]
  /\ resetUses = <<>> /\ passwords = 1 /\ retired = {}
  /\ halfDone = FALSE /\ ended = {}

AccountGoes(h, call) == accountCall' = [accountCall EXCEPT ![h] = call]
AccountEnds(h) == AccountGoes(h, NotCalled)

\* A thrown check, an expired row or a lost connection.
AccountAborts(h) ==
  /\ accountCall[h].phase # "idle" /\ AccountEnds(h)
  /\ halfDone' = (halfDone \/ accountCall[h].phase \in {"used", "sweep", "revoke"})
  /\ UNCHANGED <<accountRows, resetUses, passwords, retired, ended>>

\* A request has read or inserted the session and will save it.
InHand(s) == \E h \in Handlers : accountCall[h].session = s

Live(s) == ~sessions[s].revoked

\* Slip: getActiveMatchingRefresh does not look at revokedAt.
AnyStatus(s) == account.status = "ACTIVE"

\* JwtStrategy.validate, getActiveMatchingRefresh: the session is live, the account active.
Authenticated(s) == account.status = "ACTIVE" /\ Live(s)

-----------------------------------------------------------------------------
(* Sessions                                                                *)

\* login: the row is read, the account is active and the password is right ...
Login(h) ==
  /\ accountCall[h].phase = "idle" /\ account.status = "ACTIVE"
  /\ AccountGoes(h, [NotCalled EXCEPT !.phase = "login", !.entity = account])
  /\ UNCHANGED <<accountRows, accountPast>>

\* ... issueSessionTokens inserts the session, to know its id ...
InsertSession(h) ==
  /\ accountCall[h].phase = "login" /\ Len(sessions) < MaxSessions
  /\ sessions' = Append(sessions, [opened |-> accountCall[h].entity.password, revoked |-> FALSE])
  /\ AccountGoes(h, [NotCalled EXCEPT !.phase = "issue", !.session = Len(sessions) + 1])
  /\ UNCHANGED <<account, resets, accountPast>>

\* refresh: getActiveMatchingRefresh finds the session live, the account is active.
Refresh(h) ==
  \E s \in 1..Len(sessions) :
    /\ accountCall[h].phase = "idle" /\ Authenticated(s)
    /\ AccountGoes(h, [NotCalled EXCEPT !.phase = "refresh", !.session = s])
    /\ UNCHANGED <<accountRows, accountPast>>

\* save() of a session that was read live: the hash of the token it signed, and
\* whatever else the row no longer has as it was read.
SaveSession(h) ==
  LET s == accountCall[h].session
      entity == [sessions[s] EXCEPT !.revoked = FALSE]
  IN
  /\ accountCall[h].phase \in {"issue", "refresh"}
  /\ sessions' = [sessions EXCEPT ![s] = SaveEntity(@, @, entity)]
  /\ AccountEnds(h)
  /\ UNCHANGED <<account, resets, accountPast>>

\* logout and revokeForUser.
RevokeSession(h) ==
  \E s \in 1..Len(sessions) :
    /\ accountCall[h].phase = "idle" /\ Live(s)
    /\ sessions' = [sessions EXCEPT ![s].revoked = TRUE]
    /\ ended' = IF InHand(s) THEN ended ELSE ended \cup {s}
    /\ UNCHANGED <<account, resets, accountCall, resetUses, passwords, retired, halfDone>>

AllRevoked(list) == [s \in 1..Len(list) |-> [list[s] EXCEPT !.revoked = TRUE]]

\* revokeAllForUser: by logout-all, and last in a change and in a reset of the password.
RevokeAll(h) ==
  /\ \/ accountCall[h].phase = "revoke"
     \/ accountCall[h].phase = "idle" /\ \E s \in 1..Len(sessions) : Authenticated(s)
  /\ sessions' = AllRevoked(sessions)
  /\ ended' = ended \cup {s \in 1..Len(sessions) : ~InHand(s)}
  /\ AccountEnds(h)
  /\ UNCHANGED <<account, resets, resetUses, passwords, retired, halfDone>>

-----------------------------------------------------------------------------
(* Passwords                                                               *)

\* The user's entity is saved with a new password.
SetPassword(h, entity) ==
  /\ passwords < MaxPasswords /\ passwords' = passwords + 1
  /\ account' = SaveEntity(account, account, [entity EXCEPT !.password = passwords + 1])

\* changePassword: the row is read and the current password is right ...
ChangePassword(h) ==
  /\ accountCall[h].phase = "idle" /\ \E s \in 1..Len(sessions) : Authenticated(s)
  /\ AccountGoes(h, [NotCalled EXCEPT !.phase = "change", !.entity = account])
  /\ UNCHANGED <<accountRows, accountPast>>

\* ... the new one is saved.
SaveChange(h) ==
  /\ accountCall[h].phase = "change"
  /\ SetPassword(h, accountCall[h].entity)
  /\ retired' = retired \cup {account.password}
  /\ AccountGoes(h, [NotCalled EXCEPT !.phase = "revoke"])
  /\ UNCHANGED <<sessions, resets, resetUses, halfDone, ended>>

AllUsed(list) == [r \in 1..Len(list) |-> TRUE]

\* forgotPassword: invalidateOpenForUser ...
ForgotPassword(h) ==
  /\ accountCall[h].phase = "idle" /\ account.status = "ACTIVE"
  /\ resets' = AllUsed(resets)
  /\ AccountGoes(h, [NotCalled EXCEPT !.phase = "forgot"])
  /\ UNCHANGED <<account, sessions, accountPast>>

\* ... and a new link, which is mailed; a mail that fails changes nothing.
InsertReset(h) ==
  /\ accountCall[h].phase = "forgot" /\ Len(resets) < MaxResets
  /\ resets' = Append(resets, FALSE) /\ resetUses' = Append(resetUses, 0)
  /\ AccountEnds(h)
  /\ UNCHANGED <<account, sessions, passwords, retired, halfDone, ended>>

\* Slip: the link is found whether it was used or not.
FoundByHash(r) == TRUE

FindActiveByHash(r) == ~resets[r]

\* resetPassword: the link is open, the account is active ...
ResetPassword(h) ==
  \E r \in 1..Len(resets) :
    /\ accountCall[h].phase = "idle" /\ FindActiveByHash(r) /\ account.status = "ACTIVE"
    /\ AccountGoes(h, [NotCalled EXCEPT !.phase = "reset", !.entity = account, !.reset = r])
    /\ UNCHANGED <<accountRows, accountPast>>

\* ... the password is saved ...
SaveReset(h) ==
  LET c == accountCall[h] IN
  /\ c.phase = "reset"
  /\ SetPassword(h, c.entity)
  /\ resetUses' = [resetUses EXCEPT ![c.reset] = @ + 1]
  /\ retired' = retired \cup {account.password}
  /\ AccountGoes(h, [c EXCEPT !.phase = "used", !.entity = None])
  /\ UNCHANGED <<sessions, resets, halfDone, ended>>

\* ... then the link is used, then every other one, then the sessions end.
UseReset(h) ==
  LET c == accountCall[h] IN
  /\ c.phase = "used"
  /\ resets' = [resets EXCEPT ![c.reset] = TRUE]
  /\ AccountGoes(h, [c EXCEPT !.phase = "sweep"])
  /\ UNCHANGED <<account, sessions, accountPast>>

SweepResets(h) ==
  /\ accountCall[h].phase = "sweep"
  /\ resets' = AllUsed(resets)
  /\ AccountGoes(h, [NotCalled EXCEPT !.phase = "revoke"])
  /\ UNCHANGED <<account, sessions, accountPast>>

-----------------------------------------------------------------------------
(* UsersService.update: by an administrator, or a profile by its user      *)
Update(h) ==
  /\ accountCall[h].phase = "idle"
  /\ AccountGoes(h, [NotCalled EXCEPT !.phase = "update", !.entity = account])
  /\ UNCHANGED <<accountRows, accountPast>>

SaveUpdate(h) ==
  /\ accountCall[h].phase = "update"
  /\ \E status \in {accountCall[h].entity.status, "ACTIVE", "INACTIVE"} :
       LET entity == [accountCall[h].entity EXCEPT !.status = status] IN
       \/ account' = SaveEntity(account, account, entity) /\ UNCHANGED passwords
       \/ SetPassword(h, entity)
  /\ AccountEnds(h)
  /\ UNCHANGED <<sessions, resets, resetUses, retired, halfDone, ended>>

AccountsNext(H) ==
  \E h \in H :
    \/ Login(h) \/ InsertSession(h) \/ Refresh(h) \/ SaveSession(h) \/ RevokeSession(h)
    \/ RevokeAll(h) \/ ChangePassword(h) \/ SaveChange(h) \/ ForgotPassword(h)
    \/ InsertReset(h) \/ ResetPassword(h) \/ SaveReset(h) \/ UseReset(h) \/ SweepResets(h)
    \/ Update(h) \/ SaveUpdate(h) \/ AccountAborts(h)

AccountsSpec == AccountsInit /\ [][AccountsNext(Handlers)]_accountVars

-----------------------------------------------------------------------------
(* Type correctness of the account, its sessions, links and requests.      *)
AccountTypeOK ==
  /\ account \in Account /\ sessions \in Seq(Session) /\ resets \in Seq(BOOLEAN)
  /\ accountCall \in [Handlers -> AccountCall]
  /\ resetUses \in Seq(Nat) /\ Len(resetUses) = Len(resets)
  /\ passwords \in 1..MaxPasswords /\ retired \subseteq 1..passwords
  /\ halfDone \in BOOLEAN /\ ended \subseteq 1..Len(sessions)

\* A request has set a password and not yet ended the sessions.
Replacing == \E h \in Handlers : accountCall[h].phase \in {"used", "sweep", "revoke"}

(* Whoever changes or resets the password ends every session opened with   *)
(* the old one ("Contraseña actualizada. Inicie sesión de nuevo."), except *)
(* when the request dies between saving the password and ending them.      *)
SessionsEndWithPassword ==
  ~halfDone /\ ~Replacing =>
    \A s \in 1..Len(sessions) : Live(s) => sessions[s].opened \notin retired

(* A link sets one password, and no more than one for each request that    *)
(* is served at the same time, except when a request dies between saving   *)
(* the password and marking the link.                                      *)
ResetOncePer(n) == ~halfDone => \A r \in 1..Len(resetUses) : resetUses[r] <= n

(* As many links are open as requests are served at the same time at most, *)
(* wherever a request dies: asking again invalidates what was mailed.      *)
OpenResetsWithin(n) == Cardinality({r \in 1..Len(resets) : ~resets[r]}) <= n

(* A session that was ended while no request had it in hand is ended for   *)
(* good: the stale save of a refresh revives only what it read alive.      *)
EndedForGood == \A s \in ended : sessions[s].revoked
=============================================================================
