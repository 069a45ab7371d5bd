----------------------------- MODULE PeopleProofs -----------------------------
(***************************************************************************)
(* Theorems about accounts, the codes that verify them, the limit of the   *)
(* logins, user records and communications, for every number of requests,  *)
(* of users and of rows.                                                   *)
(* The lemmas that count are those of CaseworkProofs.                      *)
(***************************************************************************)
EXTENDS Accounts, Verification, LoginAttempts, UserRecords, Communications,
        CaseworkProofs

(* An account, its sessions and its links.                                 *)

\* The account as it was at some time when n passwords had been set.
AccountUpTo(n) == [status : {"ACTIVE", "INACTIVE"}, password : 1..n]

AccountRows ==
  /\ account \in AccountUpTo(passwords) /\ passwords \in 1..MaxPasswords
  /\ sessions \in Seq(Session) /\ resets \in Seq(BOOLEAN)
  /\ resetUses \in Seq(Nat) /\ Len(resetUses) = Len(resets)
  /\ Len(sessions) =< MaxSessions /\ Len(resets) =< MaxResets
  /\ retired \subseteq 1..passwords /\ halfDone \in BOOLEAN

\* What a request carries, while there are n passwords, opened sessions and mailed links.
AccountFits(n, opened, mailed, c) ==
  /\ c.phase \in {"login", "change", "reset", "update"} => c.entity \in AccountUpTo(n)
  /\ c.phase \in {"issue", "refresh"} => c.session \in 1..opened
  /\ c.phase \in {"reset", "used"} => c.reset \in 1..mailed

\* A session that ended is revoked, and no request is about to save it.
SessionsGone == \A s \in ended : s \in 1..Len(sessions) /\ sessions[s].revoked /\ ~InHand(s)

AccountInv ==
  /\ AccountRows /\ SessionsGone /\ accountCall \in [Handlers -> AccountCall]
  /\ \A h \in Handlers : AccountFits(passwords, Len(sessions), Len(resets), accountCall[h])

-----------------------------------------------------------------------------
LEMMA MoreAccounts ==
  ASSUME NEW n \in Nat, NEW m \in Nat, n =< m PROVE AccountUpTo(n) \subseteq AccountUpTo(m)
  BY DEF AccountUpTo

LEMMA TypedAccounts == ASSUME NEW n \in 1..MaxPasswords PROVE AccountUpTo(n) \subseteq Account
  BY AccountsAssumption DEF AccountUpTo, Account

LEMMA AccountSaved ==
  ASSUME NEW n \in Nat, NEW row \in AccountUpTo(n), NEW entity \in AccountUpTo(n)
  PROVE  SaveEntity(row, row, entity) \in AccountUpTo(n)
<1>1. SaveEntity(row, row, entity) = [c \in {"status", "password"} |-> entity[c]]
  BY DEF SaveEntity, AccountUpTo
<1>2. entity = [c \in {"status", "password"} |-> entity[c]]
  BY DEF AccountUpTo
<1> QED BY <1>1, <1>2

LEMMA SessionSaved ==
  ASSUME NEW row \in Session
  PROVE  SaveEntity(row, row, [row EXCEPT !.revoked = FALSE]) \in Session
<1> DEFINE entity == [row EXCEPT !.revoked = FALSE]
<1>1. entity \in Session
  BY DEF Session
<1> HIDE DEF entity
<1>2. SaveEntity(row, row, entity) = [c \in {"opened", "revoked"} |-> entity[c]]
  BY <1>1 DEF SaveEntity, Session
<1>3. entity = [c \in {"opened", "revoked"} |-> entity[c]]
  BY <1>1 DEF Session
<1>4. SaveEntity(row, row, entity) \in Session
  BY <1>1, <1>2, <1>3
<1> QED BY <1>4 DEF entity

\* A session that is ended, all that are ended, all links that are used.
LEMMA OneEnded ==
  ASSUME NEW row \in Session
  PROVE  [row EXCEPT !.revoked = TRUE] \in Session /\ [row EXCEPT !.revoked = TRUE].revoked
  BY DEF Session

LEMMA AllEnded ==
  ASSUME NEW list \in Seq(Session)
  PROVE  /\ AllRevoked(list) \in Seq(Session) /\ Len(AllRevoked(list)) = Len(list)
         /\ \A i \in 1..Len(list) : AllRevoked(list)[i].revoked
<1> DEFINE over(i) == [list[i] EXCEPT !.revoked = TRUE]
<1>1. Len(list) \in Nat
  OBVIOUS
<1>2. \A i \in 1..Len(list) : over(i) \in Session /\ over(i).revoked
  BY OneEnded
<1>3. AllRevoked(list) = [i \in 1..Len(list) |-> over(i)]
  BY DEF AllRevoked
<1> HIDE DEF over
<1>4. AllRevoked(list) \in Seq(Session) /\ Len(AllRevoked(list)) = Len(list)
  BY <1>1, <1>2, <1>3
<1>5. \A i \in 1..Len(list) : AllRevoked(list)[i] = over(i)
  BY <1>1, <1>3
<1>6. \A i \in 1..Len(list) : AllRevoked(list)[i].revoked
  BY <1>2, <1>5
<1> QED BY <1>4, <1>6

LEMMA LinksUsed ==
  ASSUME NEW list \in Seq(BOOLEAN)
  PROVE  AllUsed(list) \in Seq(BOOLEAN) /\ Len(AllUsed(list)) = Len(list)
<1>1. Len(list) \in Nat
  OBVIOUS
<1> QED BY <1>1 DEF AllUsed

LEMMA NotCalledFits ==
  /\ NotCalled \in AccountCall /\ NotCalled.session = 0
  /\ \A n, opened, mailed : AccountFits(n, opened, mailed, NotCalled)
  BY AccountsAssumption DEF NotCalled, AccountCall, AccountFits

-----------------------------------------------------------------------------
\* A step of h keeps the invariant, if nothing is taken away and the sessions that
\* are over stay over, in no hand.
LEMMA OneAccountCallFits ==
  ASSUME AccountInv, NEW h \in Handlers, NEW c \in AccountCall, AccountRows',
         accountCall' = [accountCall EXCEPT ![h] = c],
         AccountFits(passwords', Len(sessions'), Len(resets'), c),
         passwords =< passwords', Len(sessions) =< Len(sessions'), Len(resets) =< Len(resets'),
         \A s \in ended' : /\ s \in 1..Len(sessions') /\ sessions'[s].revoked /\ c.session # s
                           /\ s \in ended \/ ~InHand(s)
  PROVE  AccountInv'
<1>t. /\ accountCall \in [Handlers -> AccountCall] /\ SessionsGone /\ passwords \in Nat /\ passwords' \in Nat
      /\ Len(sessions) \in Nat /\ Len(sessions') \in Nat /\ Len(resets) \in Nat /\ Len(resets') \in Nat
  BY AccountsAssumption DEF AccountInv, AccountRows
<1>c. accountCall'[h] = c /\ \A g \in Handlers \ {h} : accountCall'[g] = accountCall[g]
  BY <1>t
<1>1. ASSUME NEW g \in Handlers PROVE AccountFits(passwords', Len(sessions'), Len(resets'), accountCall'[g])
  <2>1. CASE g = h
    BY <1>c, <2>1
  <2>2. CASE g # h
    <3>1. accountCall'[g] = accountCall[g] /\ AccountFits(passwords, Len(sessions), Len(resets), accountCall[g])
      BY <1>c, <2>2 DEF AccountInv
    <3>2. AccountUpTo(passwords) \subseteq AccountUpTo(passwords')
      BY <1>t, MoreAccounts
    <3> QED BY <1>t, <3>1, <3>2 DEF AccountFits
  <2> QED BY <2>1, <2>2
<1>2. ASSUME NEW s \in ended' PROVE ~InHand(s)'
  <2>1. ~InHand(s) /\ c.session # s
    BY <1>t DEF SessionsGone
  <2> QED BY <1>c, <2>1 DEF InHand
<1>3. SessionsGone'
  BY <1>2 DEF SessionsGone
<1>4. accountCall' \in [Handlers -> AccountCall]
  BY <1>t
<1> QED BY <1>1, <1>3, <1>4 DEF AccountInv

\* The same for a step that leaves the sessions alone and takes up none that is over.
LEMMA AccountCallFits ==
  ASSUME AccountInv, NEW h \in Handlers, NEW c \in AccountCall, AccountRows',
         accountCall' = [accountCall EXCEPT ![h] = c], UNCHANGED <<sessions, ended>>,
         AccountFits(passwords', Len(sessions), Len(resets'), c), c.session \notin ended,
         passwords =< passwords', Len(resets) =< Len(resets')
  PROVE  AccountInv'
<1>1. \A s \in ended' : /\ s \in 1..Len(sessions') /\ sessions'[s].revoked /\ c.session # s
                        /\ s \in ended
  BY DEF AccountInv, SessionsGone
<1>2. Len(sessions) =< Len(sessions') /\ AccountFits(passwords', Len(sessions'), Len(resets'), c)
  BY DEF AccountInv, AccountRows
<1> QED BY <1>1, <1>2, OneAccountCallFits

-----------------------------------------------------------------------------
LEMMA AccountInitFits == AccountsInit => AccountInv
<1> SUFFICES ASSUME AccountsInit PROVE AccountInv
  OBVIOUS
<1>1. AccountRows
  <2>1. [status |-> "ACTIVE", password |-> 1] \in AccountUpTo(1)
    BY DEF AccountUpTo
  <2>2. account \in AccountUpTo(passwords) /\ passwords \in 1..MaxPasswords
    BY <2>1, AccountsAssumption DEF AccountsInit
  <2>3. sessions \in Seq(Session) /\ resets \in Seq(BOOLEAN) /\ resetUses \in Seq(Nat)
        /\ Len(sessions) = 0 /\ Len(resets) = 0 /\ Len(resetUses) = 0
    BY DEF AccountsInit
  <2>4. retired = {} /\ halfDone \in BOOLEAN
    BY DEF AccountsInit
  <2> QED BY <2>2, <2>3, <2>4, AccountsAssumption DEF AccountRows
<1>2. SessionsGone
  BY DEF AccountsInit, SessionsGone
<1>3. /\ accountCall \in [Handlers -> AccountCall]
      /\ \A h \in Handlers : AccountFits(passwords, Len(sessions), Len(resets), accountCall[h])
  BY NotCalledFits DEF AccountsInit
<1> QED BY <1>1, <1>2, <1>3 DEF AccountInv

LEMMA AccountStepFits ==
  ASSUME AccountInv, [AccountsNext(Handlers)]_accountVars
  PROVE  AccountInv'
<1> USE DEF AccountGoes, AccountEnds, accountRows, accountPast
<1>t. /\ accountCall \in [Handlers -> AccountCall] /\ SessionsGone /\ AccountRows /\ 0 \notin ended
      /\ \A h \in Handlers : AccountFits(passwords, Len(sessions), Len(resets), accountCall[h])
  BY DEF AccountInv, SessionsGone
<1>l. Len(sessions) \in Nat /\ Len(resets) \in Nat /\ passwords \in Nat
      /\ Len(sessions) =< Len(sessions) /\ Len(resets) =< Len(resets) /\ passwords =< passwords
      /\ Len(sessions) =< MaxSessions /\ Len(resets) =< MaxResets
      /\ MaxSessions \in Nat /\ MaxResets \in Nat /\ MaxPasswords \in Nat
  BY <1>t, AccountsAssumption DEF AccountRows
\* A step that changes no row.
<1>r. ASSUME NEW h \in Handlers, NEW c \in AccountCall, accountCall' = [accountCall EXCEPT ![h] = c],
             UNCHANGED <<accountRows, resetUses, passwords, retired, ended>>, halfDone' \in BOOLEAN,
             AccountFits(passwords, Len(sessions), Len(resets), c), c.session \notin ended
      PROVE  AccountInv'
  <2>1. AccountRows' /\ UNCHANGED <<sessions, ended>> /\ passwords' = passwords /\ resets' = resets
    BY <1>r, <1>t DEF AccountRows
  <2>2. AccountFits(passwords', Len(sessions), Len(resets'), c)
        /\ passwords =< passwords' /\ Len(resets) =< Len(resets')
    BY <1>r, <1>l, <2>1
  <2> QED BY <1>r, <2>1, <2>2, AccountCallFits
<1>1. ASSUME NEW h \in Handlers, Login(h) PROVE AccountInv'
  <2> DEFINE c == [NotCalled EXCEPT !.phase = "login", !.entity = account]
  <2>1. account \in AccountUpTo(passwords) /\ account \in Account
    BY <1>t, TypedAccounts DEF AccountRows
  <2>2. c \in AccountCall /\ AccountFits(passwords, Len(sessions), Len(resets), c) /\ c.session = 0
    BY <2>1, NotCalledFits DEF AccountCall, AccountFits
  <2>3. accountCall' = [accountCall EXCEPT ![h] = c] /\ halfDone' \in BOOLEAN
        /\ UNCHANGED <<accountRows, resetUses, passwords, retired, ended>>
    BY <1>1, <1>t DEF Login, AccountRows
  <2> HIDE DEF c, accountRows
  <2> QED BY <1>t, <1>r, <2>2, <2>3
<1>2. ASSUME NEW h \in Handlers, InsertSession(h) PROVE AccountInv'
  <2> DEFINE c == [NotCalled EXCEPT !.phase = "issue", !.session = Len(sessions) + 1]
             row == [opened |-> accountCall[h].entity.password, revoked |-> FALSE]
  <2>1. row \in Session
    <3>1. accountCall[h].entity \in AccountUpTo(passwords) /\ passwords \in 1..MaxPasswords
      BY <1>2, <1>t DEF InsertSession, AccountFits, AccountRows
    <3>2. accountCall[h].entity \in Account
      BY <3>1, TypedAccounts
    <3> QED BY <3>2 DEF Account, Session
  <2>2. c \in AccountCall /\ c.session = Len(sessions) + 1 /\ c.phase = "issue"
    <3>1. Len(sessions) + 1 \in 0..MaxSessions
      BY <1>2, <1>l DEF InsertSession
    <3> QED BY <3>1, NotCalledFits DEF AccountCall
  <2>3. sessions' = Append(sessions, row) /\ accountCall' = [accountCall EXCEPT ![h] = c]
        /\ UNCHANGED <<account, resets, resetUses, passwords, retired, halfDone, ended>>
    BY <1>2 DEF InsertSession
  <2> HIDE DEF c, row
  <2>4. /\ sessions' \in Seq(Session) /\ Len(sessions') = Len(sessions) + 1
        /\ \A s \in 1..Len(sessions) : sessions'[s] = sessions[s]
    BY <1>t, <2>1, <2>3 DEF AccountRows
  <2>5. AccountRows'
    BY <1>2, <1>t, <1>l, <2>3, <2>4 DEF InsertSession, AccountRows
  <2>6. /\ AccountFits(passwords', Len(sessions'), Len(resets'), c) /\ passwords =< passwords'
        /\ Len(sessions) =< Len(sessions') /\ Len(resets) =< Len(resets')
    BY <1>l, <2>2, <2>3, <2>4 DEF AccountFits
  <2>7. \A s \in ended' : /\ s \in 1..Len(sessions') /\ sessions'[s].revoked /\ c.session # s
                          /\ s \in ended
    BY <1>t, <1>l, <2>2, <2>3, <2>4 DEF SessionsGone
  <2> QED BY <2>2, <2>3, <2>5, <2>6, <2>7, OneAccountCallFits
<1>3. ASSUME NEW h \in Handlers, Refresh(h) PROVE AccountInv'
  <2>1. PICK s \in 1..Len(sessions) : Authenticated(s)
          /\ accountCall' = [accountCall EXCEPT ![h] = [NotCalled EXCEPT !.phase = "refresh", !.session = s]]
    BY <1>3 DEF Refresh
  <2> DEFINE c == [NotCalled EXCEPT !.phase = "refresh", !.session = s]
  <2>2. s \notin ended
    BY <1>t, <2>1 DEF SessionsGone, Authenticated, Live
  <2>3. c \in AccountCall /\ AccountFits(passwords, Len(sessions), Len(resets), c) /\ c.session = s
    <3>1. s \in 0..MaxSessions
      BY <1>l
    <3>2. c \in AccountCall /\ c.phase = "refresh" /\ c.session = s
      BY <3>1, NotCalledFits DEF AccountCall
    <3> HIDE DEF c
    <3> QED BY <3>2 DEF AccountFits
  <2>4. halfDone' \in BOOLEAN /\ UNCHANGED <<accountRows, resetUses, passwords, retired, ended>>
    BY <1>3, <1>t DEF Refresh, AccountRows
  <2> HIDE DEF c, accountRows
  <2> QED BY <1>r, <2>1, <2>2, <2>3, <2>4 DEF c
<1>4. ASSUME NEW h \in Handlers, SaveSession(h) PROVE AccountInv'
  <2> DEFINE s == accountCall[h].session
             row == SaveEntity(sessions[s], sessions[s], [sessions[s] EXCEPT !.revoked = FALSE])
  <2>1. s \in 1..Len(sessions)
    BY <1>4, <1>t DEF SaveSession, AccountFits
  <2>2. sessions[s] \in Session
    BY <1>t, <2>1 DEF AccountRows
  <2>3. row \in Session
    BY <2>2, SessionSaved
  <2>4. s \notin ended
    BY <1>t DEF SessionsGone, InHand
  <2>5. sessions' = [sessions EXCEPT ![s] = row] /\ accountCall' = [accountCall EXCEPT ![h] = NotCalled]
        /\ UNCHANGED <<account, resets, accountPast>>
    BY <1>4 DEF SaveSession
  <2> HIDE DEF row, s, accountPast
  <2>6. /\ sessions' \in Seq(Session) /\ Len(sessions') = Len(sessions)
        /\ \A i \in 1..Len(sessions) : i # s => sessions'[i] = sessions[i]
    BY <1>t, <2>1, <2>3, <2>5 DEF AccountRows
  <2>7. AccountRows'
    BY <1>t, <2>5, <2>6 DEF AccountRows, accountPast
  <2>8. /\ AccountFits(passwords', Len(sessions'), Len(resets'), NotCalled) /\ passwords =< passwords'
        /\ Len(sessions) =< Len(sessions') /\ Len(resets) =< Len(resets')
    BY <1>l, <2>5, <2>6, NotCalledFits DEF accountPast
  <2>9. \A i \in ended' : /\ i \in 1..Len(sessions') /\ sessions'[i].revoked /\ NotCalled.session # i
                          /\ i \in ended
    BY <1>t, <2>4, <2>5, <2>6, NotCalledFits DEF SessionsGone, accountPast
  <2> QED BY <2>5, <2>7, <2>8, <2>9, NotCalledFits, OneAccountCallFits
<1>5. ASSUME NEW h \in Handlers, RevokeSession(h) PROVE AccountInv'
  <2>1. PICK s \in 1..Len(sessions) :
          /\ sessions' = [sessions EXCEPT ![s].revoked = TRUE]
          /\ ended' = ended \/ (ended' = ended \cup {s} /\ ~InHand(s))
    BY <1>5 DEF RevokeSession
  <2> DEFINE row == [sessions[s] EXCEPT !.revoked = TRUE]
  <2>2. row \in Session /\ row.revoked
    BY <1>t, OneEnded DEF AccountRows
  <2>3. sessions' = [sessions EXCEPT ![s] = row]
    BY <2>1
  <2>4. UNCHANGED <<account, resets, accountCall, resetUses, passwords, retired, halfDone>>
    BY <1>5 DEF RevokeSession
  <2> HIDE DEF row
  <2>5. /\ sessions' \in Seq(Session) /\ Len(sessions') = Len(sessions)
        /\ \A i \in 1..Len(sessions) : sessions'[i] = IF i = s THEN row ELSE sessions[i]
    BY <1>t, <2>2, <2>3 DEF AccountRows
  <2>6. AccountRows'
    BY <1>t, <2>4, <2>5 DEF AccountRows
  <2>7. \A i \in ended' : i \in ended \/ (i = s /\ ~InHand(s))
    <3>1. CASE ended' = ended
      BY <3>1
    <3>2. CASE ended' = ended \cup {s} /\ ~InHand(s)
      BY <3>2
    <3> QED BY <2>1, <3>1, <3>2
  <2>8. SessionsGone'
    BY <1>t, <2>2, <2>4, <2>5, <2>7 DEF SessionsGone, InHand
  <2>9. \A g \in Handlers : AccountFits(passwords', Len(sessions'), Len(resets'), accountCall'[g])
    BY <1>t, <2>4, <2>5
  <2> QED BY <1>t, <2>4, <2>6, <2>8, <2>9 DEF AccountInv
<1>6. ASSUME NEW h \in Handlers, RevokeAll(h) PROVE AccountInv'
  <2>1. /\ sessions' = AllRevoked(sessions) /\ accountCall' = [accountCall EXCEPT ![h] = NotCalled]
        /\ ended' = ended \cup {s \in 1..Len(sessions) : ~InHand(s)}
        /\ UNCHANGED <<account, resets, resetUses, passwords, retired, halfDone>>
    BY <1>6 DEF RevokeAll
  <2>2. /\ sessions' \in Seq(Session) /\ Len(sessions') = Len(sessions)
        /\ \A i \in 1..Len(sessions) : sessions'[i].revoked
    BY <1>t, <2>1, AllEnded DEF AccountRows
  <2>3. AccountRows'
    BY <1>t, <2>1, <2>2 DEF AccountRows
  <2>4. /\ AccountFits(passwords', Len(sessions'), Len(resets'), NotCalled) /\ passwords =< passwords'
        /\ Len(sessions) =< Len(sessions') /\ Len(resets) =< Len(resets')
    BY <1>l, <2>1, <2>2, NotCalledFits
  <2>5. \A i \in ended' : /\ i \in 1..Len(sessions') /\ sessions'[i].revoked /\ NotCalled.session # i
                          /\ i \in ended \/ ~InHand(i)
    BY <1>t, <2>1, <2>2, NotCalledFits DEF SessionsGone
  <2> QED BY <2>1, <2>3, <2>4, <2>5, NotCalledFits, OneAccountCallFits
\* A password is set: the entity that is saved was read some passwords ago.
<1>p. ASSUME NEW h \in Handlers, NEW entity \in AccountUpTo(passwords), SetPassword(h, entity)
      PROVE  /\ account' \in AccountUpTo(passwords') /\ passwords' = passwords + 1
             /\ passwords' \in 1..MaxPasswords
  <2> DEFINE new == [entity EXCEPT !.password = passwords + 1]
  <2>1. passwords' = passwords + 1 /\ passwords' \in 1..MaxPasswords
        /\ account' = SaveEntity(account, account, new)
    BY <1>p, <1>l DEF SetPassword
  <2>2. new \in AccountUpTo(passwords + 1) /\ passwords + 1 \in Nat
    BY <1>l DEF AccountUpTo
  <2>3. account \in AccountUpTo(passwords + 1)
    BY <1>t, <1>l, MoreAccounts DEF AccountRows
  <2> HIDE DEF new
  <2> QED BY <2>1, <2>2, <2>3, AccountSaved
<1>7. ASSUME NEW h \in Handlers, ChangePassword(h) \/ Update(h) PROVE AccountInv'
  <2>1. PICK phase \in {"change", "update"} :
          accountCall' = [accountCall EXCEPT ![h] = [NotCalled EXCEPT !.phase = phase, !.entity = account]]
    BY <1>7 DEF ChangePassword, Update
  <2> DEFINE c == [NotCalled EXCEPT !.phase = phase, !.entity = account]
  <2>2. account \in AccountUpTo(passwords) /\ account \in Account
    BY <1>t, TypedAccounts DEF AccountRows
  <2>3. c \in AccountCall /\ AccountFits(passwords, Len(sessions), Len(resets), c) /\ c.session = 0
    BY <2>2, NotCalledFits DEF AccountCall, AccountFits
  <2>4. halfDone' \in BOOLEAN /\ UNCHANGED <<accountRows, resetUses, passwords, retired, ended>>
    BY <1>7, <1>t DEF ChangePassword, Update, AccountRows
  <2> HIDE DEF accountRows
  <2> QED BY <1>t, <1>r, <2>1, <2>3, <2>4
<1>8. ASSUME NEW h \in Handlers, SaveChange(h) PROVE AccountInv'
  <2> DEFINE c == [NotCalled EXCEPT !.phase = "revoke"]
  <2>1. c \in AccountCall /\ c.session = 0 /\ \A n, o, m : AccountFits(n, o, m, c)
    BY AccountsAssumption DEF NotCalled, AccountCall, AccountFits
  <2>2. accountCall[h].entity \in AccountUpTo(passwords)
    BY <1>8, <1>t DEF SaveChange, AccountFits
  <2>3. /\ account' \in AccountUpTo(passwords') /\ passwords' = passwords + 1
        /\ passwords' \in 1..MaxPasswords
    BY <1>8, <1>p, <2>2 DEF SaveChange
  <2>4. /\ retired' = retired \cup {account.password} /\ accountCall' = [accountCall EXCEPT ![h] = c]
        /\ UNCHANGED <<sessions, resets, resetUses, halfDone, ended>>
    BY <1>8 DEF SaveChange
  <2>5. account.password \in 1..passwords
    BY <1>t DEF AccountRows, AccountUpTo
  <2>6. AccountRows' /\ passwords =< passwords' /\ Len(resets) =< Len(resets')
    BY <1>t, <1>l, <2>3, <2>4, <2>5 DEF AccountRows
  <2>7. UNCHANGED <<sessions, ended>>
    BY <2>4
  <2> HIDE DEF c
  <2> QED BY <1>t, <2>1, <2>4, <2>6, <2>7, AccountCallFits
<1>9. ASSUME NEW h \in Handlers, ForgotPassword(h) \/ UseReset(h) \/ SweepResets(h) PROVE AccountInv'
  <2>1. /\ resets' \in Seq(BOOLEAN) /\ Len(resets') = Len(resets)
    <3>1. CASE ForgotPassword(h) \/ SweepResets(h)
      BY <1>t, <3>1, LinksUsed DEF ForgotPassword, SweepResets, AccountRows
    <3>2. CASE UseReset(h)
      BY <1>t, <3>2 DEF UseReset, AccountRows, AccountFits
    <3> QED BY <1>9, <3>1, <3>2
  <2>2. PICK c \in AccountCall : /\ accountCall' = [accountCall EXCEPT ![h] = c]
          /\ c.phase \in {"forgot", "sweep", "revoke"} /\ c.session \in {0, accountCall[h].session}
    <3>1. /\ [NotCalled EXCEPT !.phase = "forgot"] \in AccountCall
          /\ [NotCalled EXCEPT !.phase = "revoke"] \in AccountCall
          /\ [accountCall[h] EXCEPT !.phase = "sweep"] \in AccountCall
      BY <1>t, AccountsAssumption DEF NotCalled, AccountCall
    <3>2. /\ [NotCalled EXCEPT !.phase = "forgot"].session = 0
          /\ [NotCalled EXCEPT !.phase = "forgot"].phase = "forgot"
          /\ [NotCalled EXCEPT !.phase = "revoke"].session = 0
          /\ [NotCalled EXCEPT !.phase = "revoke"].phase = "revoke"
          /\ [accountCall[h] EXCEPT !.phase = "sweep"].session = accountCall[h].session
          /\ [accountCall[h] EXCEPT !.phase = "sweep"].phase = "sweep"
      BY <1>t DEF NotCalled, AccountCall
    <3> QED BY <1>9, <3>1, <3>2 DEF ForgotPassword, UseReset, SweepResets
  <2>3. UNCHANGED <<account, sessions, resetUses, passwords, retired, halfDone, ended>>
    BY <1>9 DEF ForgotPassword, UseReset, SweepResets
  <2>4. AccountRows' /\ passwords =< passwords' /\ Len(resets) =< Len(resets')
        /\ UNCHANGED <<sessions, ended>>
    BY <1>t, <1>l, <2>1, <2>3 DEF AccountRows
  <2>5. c.session \notin ended
    BY <1>t, <2>2 DEF SessionsGone, InHand
  <2>6. AccountFits(passwords', Len(sessions), Len(resets'), c)
    BY <2>2 DEF AccountFits
  <2> QED BY <2>2, <2>4, <2>5, <2>6, AccountCallFits
<1>10. ASSUME NEW h \in Handlers, InsertReset(h) PROVE AccountInv'
  <2>1. /\ resets' = Append(resets, FALSE) /\ resetUses' = Append(resetUses, 0)
        /\ accountCall' = [accountCall EXCEPT ![h] = NotCalled] /\ Len(resets) < MaxResets
        /\ UNCHANGED <<account, sessions, passwords, retired, halfDone, ended>>
    BY <1>10 DEF InsertReset
  <2>2. /\ resets' \in Seq(BOOLEAN) /\ Len(resets') = Len(resets) + 1
        /\ resetUses' \in Seq(Nat) /\ Len(resetUses') = Len(resetUses) + 1
    BY <1>t, <2>1 DEF AccountRows
  <2>3. AccountRows' /\ passwords =< passwords' /\ Len(resets) =< Len(resets')
    BY <1>t, <1>l, <2>1, <2>2 DEF AccountRows
  <2>4. AccountFits(passwords', Len(sessions), Len(resets'), NotCalled) /\ NotCalled.session \notin ended
        /\ UNCHANGED <<sessions, ended>>
    BY <1>t, <2>1, NotCalledFits
  <2> QED BY <2>1, <2>3, <2>4, NotCalledFits, AccountCallFits
<1>11. ASSUME NEW h \in Handlers, ResetPassword(h) PROVE AccountInv'
  <2>1. PICK r \in 1..Len(resets) :
          accountCall' = [accountCall EXCEPT ![h] =
            [NotCalled EXCEPT !.phase = "reset", !.entity = account, !.reset = r]]
    BY <1>11 DEF ResetPassword
  <2> DEFINE c == [NotCalled EXCEPT !.phase = "reset", !.entity = account, !.reset = r]
  <2>2. account \in AccountUpTo(passwords) /\ account \in Account
    BY <1>t, TypedAccounts DEF AccountRows
  <2>3. c \in AccountCall /\ AccountFits(passwords, Len(sessions), Len(resets), c) /\ c.session = 0
    <3>1. r \in 0..MaxResets
      BY <1>l
    <3>2. /\ c \in AccountCall /\ c.phase = "reset" /\ c.entity = account /\ c.session = 0
          /\ c.reset = r
      BY <2>2, <3>1, NotCalledFits DEF AccountCall
    <3> HIDE DEF c
    <3> QED BY <2>2, <3>2 DEF AccountFits
  <2>4. halfDone' \in BOOLEAN /\ UNCHANGED <<accountRows, resetUses, passwords, retired, ended>>
    BY <1>11, <1>t DEF ResetPassword, AccountRows
  <2> HIDE DEF accountRows
  <2> QED BY <1>t, <1>r, <2>1, <2>3, <2>4
<1>12. ASSUME NEW h \in Handlers, SaveReset(h) PROVE AccountInv'
  <2> DEFINE c == [accountCall[h] EXCEPT !.phase = "used", !.entity = None]
  <2>1. /\ accountCall[h].entity \in AccountUpTo(passwords)
        /\ accountCall[h].reset \in 1..Len(resets) /\ accountCall[h] \in AccountCall
    BY <1>12, <1>t DEF SaveReset, AccountFits
  <2>2. /\ c \in AccountCall /\ c.session = accountCall[h].session /\ c.phase = "used"
        /\ c.reset = accountCall[h].reset
    BY <2>1 DEF AccountCall
  <2>3. /\ account' \in AccountUpTo(passwords') /\ passwords' = passwords + 1
        /\ passwords' \in 1..MaxPasswords
    BY <1>12, <1>p, <2>1 DEF SaveReset
  <2>4. /\ retired' = retired \cup {account.password} /\ accountCall' = [accountCall EXCEPT ![h] = c]
        /\ resetUses' = [resetUses EXCEPT ![accountCall[h].reset] = @ + 1]
        /\ UNCHANGED <<sessions, resets, halfDone, ended>>
    BY <1>12 DEF SaveReset
  <2>5. account.password \in 1..passwords
    BY <1>t DEF AccountRows, AccountUpTo
  <2>6. resetUses' \in Seq(Nat) /\ Len(resetUses') = Len(resetUses)
    <3>1. accountCall[h].reset \in 1..Len(resetUses) /\ resetUses \in Seq(Nat)
      BY <1>t, <2>1 DEF AccountRows
    <3>2. resetUses[accountCall[h].reset] + 1 \in Nat
      BY <3>1
    <3> QED BY <2>4, <3>1, <3>2
  <2>7. AccountRows' /\ passwords =< passwords' /\ Len(resets) =< Len(resets') /\ UNCHANGED <<sessions, ended>>
    BY <1>t, <1>l, <2>3, <2>4, <2>5, <2>6 DEF AccountRows
  <2> HIDE DEF c
  <2>8. c.session \notin ended
    BY <1>t, <2>2 DEF SessionsGone, InHand
  <2>9. AccountFits(passwords', Len(sessions), Len(resets'), c)
    BY <2>1, <2>2, <2>4 DEF AccountFits
  <2> QED BY <2>2, <2>4, <2>7, <2>8, <2>9, AccountCallFits
<1>13. ASSUME NEW h \in Handlers, SaveUpdate(h) PROVE AccountInv'
  <2>1. accountCall[h].entity \in AccountUpTo(passwords)
    BY <1>13, <1>t DEF SaveUpdate, AccountFits
  <2>2. PICK status \in {accountCall[h].entity.status, "ACTIVE", "INACTIVE"} :
          LET entity == [accountCall[h].entity EXCEPT !.status = status] IN
          \/ account' = SaveEntity(account, account, entity) /\ UNCHANGED passwords
          \/ SetPassword(h, entity)
    BY <1>13 DEF SaveUpdate
  <2> DEFINE entity == [accountCall[h].entity EXCEPT !.status = status]
  <2>3. entity \in AccountUpTo(passwords)
    BY <2>1 DEF AccountUpTo
  <2>4. \/ account' = SaveEntity(account, account, entity) /\ UNCHANGED passwords
        \/ SetPassword(h, entity)
    BY <2>2
  <2> HIDE DEF entity
  <2>5. account' \in AccountUpTo(passwords') /\ passwords' \in {passwords, passwords + 1}
        /\ passwords' \in 1..MaxPasswords
    <3>1. CASE account' = SaveEntity(account, account, entity) /\ UNCHANGED passwords
      BY <1>t, <1>l, <2>3, <3>1, AccountSaved DEF AccountRows
    <3>2. CASE SetPassword(h, entity)
      BY <1>p, <2>3, <3>2
    <3> QED BY <2>4, <3>1, <3>2
  <2>6. accountCall' = [accountCall EXCEPT ![h] = NotCalled]
        /\ UNCHANGED <<sessions, resets, resetUses, retired, halfDone, ended>>
    BY <1>13 DEF SaveUpdate
  <2>7. AccountRows' /\ passwords =< passwords' /\ Len(resets) =< Len(resets') /\ UNCHANGED <<sessions, ended>>
    BY <1>t, <1>l, <2>5, <2>6 DEF AccountRows
  <2>8. AccountFits(passwords', Len(sessions), Len(resets'), NotCalled) /\ NotCalled.session \notin ended
    BY <1>t, NotCalledFits
  <2> QED BY <2>6, <2>7, <2>8, NotCalledFits, AccountCallFits
<1>14. ASSUME NEW h \in Handlers, AccountAborts(h) PROVE AccountInv'
  <2>1. /\ accountCall' = [accountCall EXCEPT ![h] = NotCalled] /\ halfDone' \in BOOLEAN
        /\ UNCHANGED <<accountRows, resetUses, passwords, retired, ended>>
    BY <1>14, <1>t DEF AccountAborts, AccountRows
  <2>2. AccountFits(passwords, Len(sessions), Len(resets), NotCalled) /\ NotCalled.session \notin ended
    BY <1>t, NotCalledFits
  <2> HIDE DEF accountRows
  <2> QED BY <1>r, <2>1, <2>2, NotCalledFits
<1>15. CASE UNCHANGED accountVars
  BY <1>15 DEF accountVars, AccountInv, AccountRows, SessionsGone, InHand
<1> QED
  BY <1>1, <1>2, <1>3, <1>4, <1>5, <1>6, <1>7, <1>8, <1>9, <1>10, <1>11, <1>12, <1>13, <1>14,
     <1>15 DEF AccountsNext

-----------------------------------------------------------------------------
(* Type correctness of the account, its sessions, links and requests.      *)
THEOREM AccountsTyped == AccountsSpec => []AccountTypeOK
<1>1. AccountInv => AccountTypeOK
  BY TypedAccounts DEF AccountInv, AccountRows, SessionsGone, AccountTypeOK
<1> QED BY AccountInitFits, AccountStepFits, <1>1, PTL DEF AccountsSpec

(* A session that was revoked (logout, revokeAllForUser) while no request  *)
(* had it in hand stays revoked, however many logins, refreshes and        *)
(* changes of password interleave with it.                                 *)
THEOREM EndedStayEnded == AccountsSpec => []EndedForGood
<1>1. AccountInv => EndedForGood
  BY DEF AccountInv, SessionsGone, EndedForGood
<1> QED BY AccountInitFits, AccountStepFits, <1>1, PTL DEF AccountsSpec

-----------------------------------------------------------------------------
(* The links that reset the password, each used by requests that race.     *)

\* The requests that found link r open and have not set a password yet ("reset"), and
\* those that have and must still mark it ("used").
Linking(H, calls, phase, r) == {h \in H : calls[h].phase = phase /\ calls[h].reset = r}

LinkPhase(c, phase, r) == c.phase = phase /\ c.reset = r

\* While a link is open nobody has marked it: whoever set a password is still about to.
\* Once it is closed no more requests find it.
LinkInv(H) ==
  ~halfDone => \A r \in 1..Len(resets) :
    /\ resetUses[r] + Cardinality(Linking(H, accountCall, "reset", r)) <= Cardinality(H)
    /\ ~resets[r] => resetUses[r] = Cardinality(Linking(H, accountCall, "used", r))

LEMMA LinkingFinite ==
  ASSUME NEW H \in SUBSET Handlers, IsFiniteSet(H), NEW calls, NEW r
  PROVE  /\ \A phase : /\ IsFiniteSet(Linking(H, calls, phase, r))
                       /\ Cardinality(Linking(H, calls, phase, r)) \in Nat
         /\ Cardinality(H) \in Nat
         /\ Cardinality(Linking(H, calls, "reset", r)) + Cardinality(Linking(H, calls, "used", r))
              <= Cardinality(H)
<1>1. ASSUME NEW phase
      PROVE  IsFiniteSet(Linking(H, calls, phase, r)) /\ Cardinality(Linking(H, calls, phase, r)) \in Nat
  <2>1. Linking(H, calls, phase, r) \in SUBSET H
    BY DEF Linking
  <2> QED BY <2>1, FS_Subset, FS_CardinalityType
<1>2. Cardinality(H) \in Nat
  BY FS_CardinalityType
<1> DEFINE setting == Linking(H, calls, "reset", r)  marking == Linking(H, calls, "used", r)
<1>3. setting \cup marking \in SUBSET H /\ setting \cap marking = {}
  BY DEF Linking
<1>4. Cardinality(setting \cup marking) <= Cardinality(H)
  BY <1>3, FS_Subset
<1>5. /\ IsFiniteSet(setting) /\ Cardinality(setting) \in Nat
      /\ IsFiniteSet(marking) /\ Cardinality(marking) \in Nat
  BY <1>1
<1>6. Cardinality(setting \cap marking) = 0
  BY <1>3, FS_EmptySet
<1> HIDE DEF setting, marking
<1>7. Cardinality(setting \cup marking)
        = Cardinality(setting) + Cardinality(marking) - Cardinality(setting \cap marking)
  BY <1>5, FS_Union
<1>8. Cardinality(setting) + Cardinality(marking) <= Cardinality(H)
  BY <1>4, <1>5, <1>6, <1>7
<1> QED BY <1>1, <1>2, <1>8 DEF setting, marking

\* A step of h leaves the other requests where they are ...
AccountSteps(h) == \A g \in Handlers \ {h} : accountCall'[g] = accountCall[g]

\* ... and moves these counts by one at most.
LEMMA CountMoves ==
  ASSUME NEW H \in SUBSET Handlers, IsFiniteSet(H), NEW h \in H, AccountSteps(h), NEW phase, NEW r
  PROVE  Cardinality(Linking(H, accountCall', phase, r)) =
           IF LinkPhase(accountCall'[h], phase, r)
           THEN IF LinkPhase(accountCall[h], phase, r)
                THEN Cardinality(Linking(H, accountCall, phase, r))
                ELSE Cardinality(Linking(H, accountCall, phase, r)) + 1
           ELSE IF LinkPhase(accountCall[h], phase, r)
                THEN Cardinality(Linking(H, accountCall, phase, r)) - 1
                ELSE Cardinality(Linking(H, accountCall, phase, r))
<1> DEFINE old == Linking(H, accountCall, phase, r)  new == Linking(H, accountCall', phase, r)
           here == LinkPhase(accountCall'[h], phase, r)
<1>1. h \in old <=> LinkPhase(accountCall[h], phase, r)
  BY DEF Linking, LinkPhase
<1>2. new = IF here THEN old \cup {h} ELSE old \ {h}
  BY DEF Linking, LinkPhase, AccountSteps
<1>3. IsFiniteSet(old)
  BY LinkingFinite
<1> HIDE DEF old, new, here
<1>4. Cardinality(old \cup {h}) = IF h \in old THEN Cardinality(old) ELSE Cardinality(old) + 1
  BY <1>3, FS_AddElement
<1>5. Cardinality(old \ {h}) = IF h \in old THEN Cardinality(old) - 1 ELSE Cardinality(old)
  BY <1>3, FS_RemoveElement
<1>6. Cardinality(new) = IF here THEN IF h \in old THEN Cardinality(old) ELSE Cardinality(old) + 1
                         ELSE IF h \in old THEN Cardinality(old) - 1 ELSE Cardinality(old)
  BY <1>2, <1>4, <1>5
<1> QED BY <1>1, <1>6 DEF old, new, here

\* A step of h that sets no password through a link: it may give up a link and close links.
LEMMA LinksStand ==
  ASSUME NEW H \in SUBSET Handlers, IsFiniteSet(H), AccountInv, LinkInv(H), NEW h \in H, AccountSteps(h),
         accountCall'[h].phase \notin {"reset", "used"}, accountCall[h].phase = "used" => halfDone',
         resetUses' = resetUses, Len(resets') = Len(resets), halfDone => halfDone',
         \A r \in 1..Len(resets) : ~resets'[r] => ~resets[r]
  PROVE  LinkInv(H)'
<1> SUFFICES ASSUME ~halfDone', NEW r \in 1..Len(resets)
             PROVE  /\ resetUses[r] + Cardinality(Linking(H, accountCall', "reset", r)) <= Cardinality(H)
                    /\ ~resets'[r] => resetUses[r] = Cardinality(Linking(H, accountCall', "used", r))
  BY DEF LinkInv
<1>1. /\ resetUses[r] + Cardinality(Linking(H, accountCall, "reset", r)) <= Cardinality(H)
      /\ ~resets[r] => resetUses[r] = Cardinality(Linking(H, accountCall, "used", r))
      /\ resetUses[r] \in Nat
  BY DEF LinkInv, AccountInv, AccountRows
<1>2. Cardinality(Linking(H, accountCall, "reset", r)) \in Nat /\ Cardinality(H) \in Nat
  BY LinkingFinite
<1>3. /\ ~LinkPhase(accountCall'[h], "reset", r) /\ ~LinkPhase(accountCall'[h], "used", r)
      /\ ~LinkPhase(accountCall[h], "used", r)
  BY DEF LinkPhase
<1>4. Cardinality(Linking(H, accountCall', "used", r)) = Cardinality(Linking(H, accountCall, "used", r))
  BY <1>3, CountMoves
<1>5. \/ Cardinality(Linking(H, accountCall', "reset", r)) = Cardinality(Linking(H, accountCall, "reset", r))
      \/ Cardinality(Linking(H, accountCall', "reset", r)) = Cardinality(Linking(H, accountCall, "reset", r)) - 1
  BY <1>3, CountMoves
<1>6. resetUses[r] + Cardinality(Linking(H, accountCall', "reset", r)) <= Cardinality(H)
  BY <1>1, <1>2, <1>5
<1> QED BY <1>1, <1>4, <1>6

LEMMA StepLinks ==
  ASSUME NEW H \in SUBSET Handlers, IsFiniteSet(H), AccountInv, LinkInv(H), [AccountsNext(H)]_accountVars
  PROVE  LinkInv(H)'
<1> USE DEF AccountGoes, AccountEnds
<1>t. /\ accountCall \in [Handlers -> AccountCall] /\ resets \in Seq(BOOLEAN) /\ Len(resets) \in Nat
      /\ resetUses \in Seq(Nat) /\ Len(resetUses) = Len(resets)
      /\ \A h \in Handlers : AccountFits(passwords, Len(sessions), Len(resets), accountCall[h])
  BY DEF AccountInv, AccountRows
<1>i. NotCalled.phase \notin {"reset", "used"}
  BY DEF NotCalled
<1>u. ASSUME UNCHANGED <<accountCall, resets, resetUses, halfDone>> PROVE LinkInv(H)'
  BY <1>u DEF LinkInv, Linking
<1>q. ASSUME NEW h \in H, NEW c, accountCall' = [accountCall EXCEPT ![h] = c],
             c.phase \notin {"reset", "used"}, accountCall[h].phase # "used",
             UNCHANGED <<resets, resetUses, halfDone>>
      PROVE  LinkInv(H)'
  <2>1. AccountSteps(h) /\ accountCall'[h] = c
    BY <1>t, <1>q DEF AccountSteps
  <2> QED BY <1>q, <2>1, LinksStand
<1>1. ASSUME NEW h \in H, Login(h) \/ ChangePassword(h) \/ Update(h) \/ Refresh(h) PROVE LinkInv(H)'
  <2>1. PICK c : /\ accountCall' = [accountCall EXCEPT ![h] = c] /\ c.phase \notin {"reset", "used"}
                 /\ accountCall[h].phase # "used" /\ UNCHANGED <<resets, resetUses, halfDone>>
    BY <1>1 DEF Login, ChangePassword, Update, Refresh, NotCalled, accountRows, accountPast
  <2> QED BY <1>q, <2>1
<1>2. ASSUME NEW h \in H, InsertSession(h) \/ SaveChange(h) PROVE LinkInv(H)'
  <2>1. PICK c : /\ accountCall' = [accountCall EXCEPT ![h] = c] /\ c.phase \notin {"reset", "used"}
                 /\ accountCall[h].phase # "used" /\ UNCHANGED <<resets, resetUses, halfDone>>
    BY <1>2 DEF InsertSession, SaveChange, NotCalled, accountPast
  <2> QED BY <1>q, <2>1
<1>3. ASSUME NEW h \in H, SaveSession(h) \/ SaveUpdate(h) \/ RevokeAll(h) PROVE LinkInv(H)'
  <2>1. /\ accountCall' = [accountCall EXCEPT ![h] = NotCalled] /\ accountCall[h].phase # "used"
        /\ UNCHANGED <<resets, resetUses, halfDone>>
    BY <1>3 DEF SaveSession, SaveUpdate, RevokeAll, accountPast
  <2> QED BY <1>i, <1>q, <2>1
<1>4. ASSUME NEW h \in H, RevokeSession(h) PROVE LinkInv(H)'
  BY <1>4, <1>u DEF RevokeSession
<1>5. ASSUME NEW h \in H, ForgotPassword(h) \/ SweepResets(h) PROVE LinkInv(H)'
  <2>1. PICK c : /\ accountCall' = [accountCall EXCEPT ![h] = c] /\ c.phase \notin {"reset", "used"}
                 /\ accountCall[h].phase # "used" /\ UNCHANGED <<resetUses, halfDone>>
                 /\ resets' = AllUsed(resets)
    BY <1>5 DEF ForgotPassword, SweepResets, NotCalled, accountPast
  <2>2. Len(resets') = Len(resets) /\ \A r \in 1..Len(resets) : resets'[r]
    BY <1>t, <2>1 DEF AllUsed
  <2>3. AccountSteps(h) /\ accountCall'[h] = c
    BY <1>t, <2>1 DEF AccountSteps
  <2> QED BY <2>1, <2>2, <2>3, LinksStand
<1>6. ASSUME NEW h \in H, InsertReset(h) PROVE LinkInv(H)'
  <2> DEFINE new == Len(resets) + 1
  <2>1. /\ accountCall' = [accountCall EXCEPT ![h] = NotCalled] /\ accountCall[h].phase = "forgot"
        /\ resets' = Append(resets, FALSE) /\ resetUses' = Append(resetUses, 0) /\ halfDone' = halfDone
    BY <1>6 DEF InsertReset
  <2>2. /\ Len(resets') = new /\ resetUses'[new] = 0
        /\ \A r \in 1..Len(resets) : resets'[r] = resets[r] /\ resetUses'[r] = resetUses[r]
    BY <1>t, <2>1
  <2>3. ASSUME NEW r, NEW phase \in {"reset", "used"}
        PROVE  Cardinality(Linking(H, accountCall', phase, r)) = Cardinality(Linking(H, accountCall, phase, r))
    <3>1. AccountSteps(h) /\ accountCall'[h] = NotCalled
      BY <1>t, <2>1 DEF AccountSteps
    <3>2. ~LinkPhase(accountCall'[h], phase, r) /\ ~LinkPhase(accountCall[h], phase, r)
      BY <1>i, <2>1, <3>1 DEF LinkPhase
    <3> QED BY <3>1, <3>2, CountMoves
  <2>4. Linking(H, accountCall, "reset", new) = {} /\ Linking(H, accountCall, "used", new) = {}
    BY <1>t DEF Linking, AccountFits
  <2>5. Cardinality(Linking(H, accountCall', "reset", new)) = 0 /\ Cardinality(Linking(H, accountCall', "used", new)) = 0
    BY <2>3, <2>4, FS_EmptySet
  <2>6. Cardinality(H) \in Nat
    BY LinkingFinite
  <2>7. ASSUME ~halfDone', NEW r \in 1..Len(resets')
        PROVE  /\ resetUses'[r] + Cardinality(Linking(H, accountCall', "reset", r)) <= Cardinality(H)
               /\ ~resets'[r] => resetUses'[r] = Cardinality(Linking(H, accountCall', "used", r))
    <3>1. CASE r = new
      BY <2>2, <2>5, <2>6, <3>1
    <3>2. CASE r # new
      <4>1. r \in 1..Len(resets)
        BY <1>t, <2>2, <2>7, <3>2
      <4> QED BY <2>1, <2>2, <2>3, <2>7, <4>1 DEF LinkInv
    <3> QED BY <3>1, <3>2
  <2> QED BY <2>7 DEF LinkInv
<1>7. ASSUME NEW h \in H, ResetPassword(h) PROVE LinkInv(H)'
  <2>1. PICK r \in 1..Len(resets) :
          /\ accountCall[h].phase = "idle" /\ ~resets[r]
          /\ accountCall' = [accountCall EXCEPT ![h] =
               [NotCalled EXCEPT !.phase = "reset", !.entity = account, !.reset = r]]
          /\ UNCHANGED <<resets, resetUses, halfDone>>
    BY <1>7 DEF ResetPassword, FindActiveByHash, accountRows, accountPast
  <2> DEFINE c == [NotCalled EXCEPT !.phase = "reset", !.entity = account, !.reset = r]
  <2>2. c.phase = "reset" /\ c.reset = r
    BY DEF NotCalled
  <2>3. AccountSteps(h) /\ accountCall'[h] = c
    BY <1>t, <2>1 DEF AccountSteps
  <2> HIDE DEF c
  <2>w. \A q :
               /\ LinkPhase(accountCall'[h], "reset", q) <=> q = r
               /\ ~LinkPhase(accountCall'[h], "used", q)
               /\ ~LinkPhase(accountCall[h], "reset", q)
               /\ ~LinkPhase(accountCall[h], "used", q)
    BY <2>1, <2>2, <2>3 DEF LinkPhase
  <2>4. ASSUME ~halfDone', NEW q \in 1..Len(resets)
        PROVE  /\ resetUses[q] + Cardinality(Linking(H, accountCall', "reset", q)) <= Cardinality(H)
               /\ ~resets[q] => resetUses[q] = Cardinality(Linking(H, accountCall', "used", q))
    <3>1. Cardinality(Linking(H, accountCall', "used", q)) = Cardinality(Linking(H, accountCall, "used", q))
      BY <2>3, <2>w, CountMoves
    <3>2. /\ resetUses[q] + Cardinality(Linking(H, accountCall, "reset", q)) <= Cardinality(H)
          /\ ~resets[q] => resetUses[q] = Cardinality(Linking(H, accountCall, "used", q))
      BY <2>1, <2>4 DEF LinkInv
    <3>3. CASE q = r
      <4>1. Cardinality(Linking(H, accountCall', "reset", q)) + Cardinality(Linking(H, accountCall', "used", q))
              <= Cardinality(H)
        BY LinkingFinite
      <4>2. resetUses[q] = Cardinality(Linking(H, accountCall', "used", q))
        BY <2>1, <3>1, <3>2, <3>3
      <4>3. Cardinality(Linking(H, accountCall', "reset", q)) \in Nat /\ resetUses[q] \in Nat
        BY <1>t, LinkingFinite
      <4>4. resetUses[q] + Cardinality(Linking(H, accountCall', "reset", q)) <= Cardinality(H)
        BY <4>1, <4>2, <4>3
      <4> QED BY <4>2, <4>4
    <3>4. CASE q # r
      <4>1. Cardinality(Linking(H, accountCall', "reset", q)) = Cardinality(Linking(H, accountCall, "reset", q))
        BY <2>3, <2>w, <3>4, CountMoves
      <4> QED BY <3>1, <3>2, <4>1
    <3> QED BY <3>3, <3>4
  <2> QED BY <2>1, <2>4 DEF LinkInv
<1>8. ASSUME NEW h \in H, SaveReset(h) PROVE LinkInv(H)'
  <2> DEFINE r == accountCall[h].reset
             c == [accountCall[h] EXCEPT !.phase = "used", !.entity = None]
  <2>1. /\ accountCall[h].phase = "reset" /\ accountCall' = [accountCall EXCEPT ![h] = c]
        /\ resetUses' = [resetUses EXCEPT ![r] = @ + 1] /\ UNCHANGED <<resets, halfDone>>
    BY <1>8 DEF SaveReset
  <2>2. /\ c.phase = "used" /\ c.reset = r /\ r \in 1..Len(resets)
        /\ AccountSteps(h) /\ accountCall'[h] = c
    BY <1>t, <2>1 DEF AccountCall, AccountFits, AccountSteps
  <2>w. \A q :
               /\ ~LinkPhase(accountCall'[h], "reset", q)
               /\ LinkPhase(accountCall'[h], "used", q) <=> q = r
               /\ LinkPhase(accountCall[h], "reset", q) <=> q = r
               /\ ~LinkPhase(accountCall[h], "used", q)
    BY <2>1, <2>2 DEF LinkPhase
  <2> HIDE DEF c, r
  <2>3. ASSUME ~halfDone', NEW q \in 1..Len(resets)
        PROVE  /\ resetUses'[q] + Cardinality(Linking(H, accountCall', "reset", q)) <= Cardinality(H)
               /\ ~resets[q] => resetUses'[q] = Cardinality(Linking(H, accountCall', "used", q))
    <3>1. /\ resetUses[q] + Cardinality(Linking(H, accountCall, "reset", q)) <= Cardinality(H)
          /\ ~resets[q] => resetUses[q] = Cardinality(Linking(H, accountCall, "used", q))
      BY <2>1, <2>3 DEF LinkInv
    <3>2. CASE q = r
      <4>1. /\ Cardinality(Linking(H, accountCall', "used", q)) = Cardinality(Linking(H, accountCall, "used", q)) + 1
            /\ Cardinality(Linking(H, accountCall', "reset", q)) = Cardinality(Linking(H, accountCall, "reset", q)) - 1
        BY <2>2, <2>w, <3>2, CountMoves
      <4>2. resetUses'[q] = resetUses[q] + 1 /\ resetUses[q] \in Nat
        BY <1>t, <2>1, <2>2, <3>2
      <4>3. Cardinality(Linking(H, accountCall, "reset", q)) \in Nat /\ Cardinality(H) \in Nat
        BY LinkingFinite
      <4>4. resetUses'[q] + Cardinality(Linking(H, accountCall', "reset", q)) <= Cardinality(H)
        BY <3>1, <4>1, <4>2, <4>3
      <4> QED BY <3>1, <4>1, <4>2, <4>4
    <3>3. CASE q # r
      <4>1. /\ Cardinality(Linking(H, accountCall', "used", q)) = Cardinality(Linking(H, accountCall, "used", q))
            /\ Cardinality(Linking(H, accountCall', "reset", q)) = Cardinality(Linking(H, accountCall, "reset", q))
        BY <2>2, <2>w, <3>3, CountMoves
      <4>2. resetUses'[q] = resetUses[q]
        BY <1>t, <2>1, <3>3
      <4> QED BY <3>1, <4>1, <4>2
    <3> QED BY <3>2, <3>3
  <2> QED BY <2>1, <2>3 DEF LinkInv
<1>9. ASSUME NEW h \in H, UseReset(h) PROVE LinkInv(H)'
  <2> DEFINE r == accountCall[h].reset
             c == [accountCall[h] EXCEPT !.phase = "sweep"]
  <2>1. /\ accountCall[h].phase = "used" /\ accountCall' = [accountCall EXCEPT ![h] = c]
        /\ resets' = [resets EXCEPT ![r] = TRUE] /\ UNCHANGED <<resetUses, halfDone>>
    BY <1>9 DEF UseReset, accountPast
  <2>2. c.phase = "sweep" /\ r \in 1..Len(resets) /\ AccountSteps(h) /\ accountCall'[h] = c
    BY <1>t, <2>1 DEF AccountCall, AccountFits, AccountSteps
  <2>w. \A q :
               /\ ~LinkPhase(accountCall'[h], "reset", q)
               /\ ~LinkPhase(accountCall'[h], "used", q)
               /\ ~LinkPhase(accountCall[h], "reset", q)
               /\ LinkPhase(accountCall[h], "used", q) <=> q = r
    BY <2>1, <2>2 DEF LinkPhase
  <2> HIDE DEF c, r
  <2>3. /\ Len(resets') = Len(resets) /\ resets'[r]
        /\ \A q \in 1..Len(resets) \ {r} : resets'[q] = resets[q]
    BY <1>t, <2>1, <2>2
  <2>4. ASSUME ~halfDone', NEW q \in 1..Len(resets)
        PROVE  /\ resetUses[q] + Cardinality(Linking(H, accountCall', "reset", q)) <= Cardinality(H)
               /\ ~resets'[q] => resetUses[q] = Cardinality(Linking(H, accountCall', "used", q))
    <3>1. /\ resetUses[q] + Cardinality(Linking(H, accountCall, "reset", q)) <= Cardinality(H)
          /\ ~resets[q] => resetUses[q] = Cardinality(Linking(H, accountCall, "used", q))
      BY <2>1, <2>4 DEF LinkInv
    <3>2. Cardinality(Linking(H, accountCall', "reset", q)) = Cardinality(Linking(H, accountCall, "reset", q))
      BY <2>2, <2>w, CountMoves
    <3>3. q # r => Cardinality(Linking(H, accountCall', "used", q)) = Cardinality(Linking(H, accountCall, "used", q))
      BY <2>2, <2>w, CountMoves
    <3> QED BY <2>3, <3>1, <3>2, <3>3
  <2> QED BY <2>1, <2>3, <2>4 DEF LinkInv
<1>10. ASSUME NEW h \in H, AccountAborts(h) PROVE LinkInv(H)'
  <2>1. /\ accountCall' = [accountCall EXCEPT ![h] = NotCalled]
        /\ accountCall[h].phase = "used" => halfDone'
        /\ halfDone => halfDone'
        /\ UNCHANGED <<resets, resetUses>>
    BY <1>10 DEF AccountAborts, accountRows
  <2>2. AccountSteps(h) /\ accountCall'[h] = NotCalled
    BY <1>t, <2>1 DEF AccountSteps
  <2> QED BY <1>i, <2>1, <2>2, LinksStand
<1>11. CASE UNCHANGED accountVars
  <2>1. UNCHANGED <<accountCall, resets, resetUses, halfDone>>
    BY <1>11 DEF accountVars, accountRows, accountPast
  <2> QED BY <1>u, <2>1
<1> QED
  BY <1>1, <1>2, <1>3, <1>4, <1>5, <1>6, <1>7, <1>8, <1>9, <1>10, <1>11 DEF AccountsNext

LEMMA LinksMean ==
  ASSUME NEW H \in SUBSET Handlers, IsFiniteSet(H), AccountInv, LinkInv(H)
  PROVE  ResetOncePer(Cardinality(H))
<1> SUFFICES ASSUME ~halfDone, NEW r \in 1..Len(resetUses) PROVE resetUses[r] <= Cardinality(H)
  BY DEF ResetOncePer
<1>1. /\ resetUses[r] + Cardinality(Linking(H, accountCall, "reset", r)) <= Cardinality(H)
      /\ resetUses[r] \in Nat
  BY DEF AccountInv, AccountRows, LinkInv
<1>2. Cardinality(Linking(H, accountCall, "reset", r)) \in Nat /\ Cardinality(H) \in Nat
  BY LinkingFinite
<1> QED BY <1>1, <1>2

LEMMA LinksInit == ASSUME NEW H PROVE AccountsInit => LinkInv(H)
  BY DEF AccountsInit, LinkInv

(* A link (password_reset_tokens) sets at most as many passwords as there  *)
(* are requests in flight, one when they are served one at a time, unless  *)
(* one dies between saving the password and marking the link.              *)
THEOREM ResetsPerRequest == AccountsSpec => []ResetOncePer(Cardinality(Handlers))
<1>1. AccountsInit => LinkInv(Handlers)
  BY LinksInit
<1>2. AccountInv /\ LinkInv(Handlers) => ResetOncePer(Cardinality(Handlers))
  BY LinksMean, RequestsAssumption DEF RequestsAssumption
<1>3. AccountInv /\ LinkInv(Handlers) /\ [AccountsNext(Handlers)]_accountVars => LinkInv(Handlers)'
  BY StepLinks, RequestsAssumption DEF RequestsAssumption
<1> QED BY AccountInitFits, AccountStepFits, <1>1, <1>2, <1>3, PTL DEF AccountsSpec

-----------------------------------------------------------------------------
(* The links that are open at once.                                        *)

OpenLinks(list) == {r \in 1..Len(list) : ~list[r]}

\* The requests that closed the links mailed before and have not inserted theirs.
Asking(H, calls) == {h \in H : calls[h].phase = "forgot"}

\* Who asks for a link closes every other one first.
OpenInv(H) == Cardinality(OpenLinks(resets)) + Cardinality(Asking(H, accountCall)) <= Cardinality(H)

LEMMA OpenFinite ==
  ASSUME NEW H \in SUBSET Handlers, IsFiniteSet(H), NEW list \in Seq(BOOLEAN), NEW calls
  PROVE  /\ IsFiniteSet(OpenLinks(list)) /\ Cardinality(OpenLinks(list)) \in Nat
         /\ IsFiniteSet(Asking(H, calls)) /\ Cardinality(Asking(H, calls)) \in Nat
         /\ Cardinality(Asking(H, calls)) <= Cardinality(H) /\ Cardinality(H) \in Nat
<1>1. Len(list) \in Nat
  OBVIOUS
<1>2. IsFiniteSet(1..Len(list))
  BY <1>1, FS_Interval
<1>3. OpenLinks(list) \in SUBSET (1..Len(list)) /\ Asking(H, calls) \in SUBSET H
  BY DEF OpenLinks, Asking
<1>4. IsFiniteSet(OpenLinks(list)) /\ IsFiniteSet(Asking(H, calls))
      /\ Cardinality(Asking(H, calls)) <= Cardinality(H)
  BY <1>2, <1>3, FS_Subset
<1> QED BY <1>4, FS_CardinalityType

\* A step that opens no link and asks for none.
LEMMA OpenFall ==
  ASSUME NEW H \in SUBSET Handlers, IsFiniteSet(H), resets \in Seq(BOOLEAN), OpenInv(H),
         OpenLinks(resets') \subseteq OpenLinks(resets), Asking(H, accountCall') \subseteq Asking(H, accountCall)
  PROVE  OpenInv(H)'
<1>1. /\ IsFiniteSet(OpenLinks(resets)) /\ Cardinality(OpenLinks(resets)) \in Nat
      /\ IsFiniteSet(Asking(H, accountCall)) /\ Cardinality(Asking(H, accountCall)) \in Nat
      /\ Cardinality(H) \in Nat
  BY OpenFinite
<1>2. IsFiniteSet(OpenLinks(resets')) /\ Cardinality(OpenLinks(resets')) <= Cardinality(OpenLinks(resets))
  BY <1>1, FS_Subset
<1>3. /\ IsFiniteSet(Asking(H, accountCall'))
      /\ Cardinality(Asking(H, accountCall')) <= Cardinality(Asking(H, accountCall))
  BY <1>1, FS_Subset
<1>4. Cardinality(OpenLinks(resets')) \in Nat /\ Cardinality(Asking(H, accountCall')) \in Nat
  BY <1>2, <1>3, FS_CardinalityType
<1> QED BY <1>1, <1>2, <1>3, <1>4 DEF OpenInv

LEMMA StepOpen ==
  ASSUME NEW H \in SUBSET Handlers, IsFiniteSet(H), AccountInv, OpenInv(H), [AccountsNext(H)]_accountVars
  PROVE  OpenInv(H)'
<1> USE DEF AccountGoes, AccountEnds
<1>t. accountCall \in [Handlers -> AccountCall] /\ resets \in Seq(BOOLEAN) /\ Len(resets) \in Nat
  BY DEF AccountInv, AccountRows
<1>q. ASSUME NEW h \in H, AccountSteps(h), accountCall'[h].phase # "forgot",
             resets' = resets \/ resets' = AllUsed(resets)
      PROVE  OpenInv(H)'
  <2>1. OpenLinks(resets') \subseteq OpenLinks(resets)
    BY <1>t, <1>q DEF OpenLinks, AllUsed
  <2>2. Asking(H, accountCall') \subseteq Asking(H, accountCall)
    BY <1>q DEF Asking, AccountSteps
  <2> QED BY <1>t, <2>1, <2>2, OpenFall
<1>1. ASSUME NEW h \in H, NEW c, accountCall' = [accountCall EXCEPT ![h] = c],
             c.phase # "forgot", resets' = resets \/ resets' = AllUsed(resets)
      PROVE  OpenInv(H)'
  <2>1. AccountSteps(h) /\ accountCall'[h] = c
    BY <1>t, <1>1 DEF AccountSteps
  <2> QED BY <1>1, <1>q, <2>1
<1>2. ASSUME NEW h \in H,
             Login(h) \/ InsertSession(h) \/ Refresh(h) \/ ChangePassword(h) \/ SaveChange(h) \/ Update(h)
      PROVE  OpenInv(H)'
  <2>1. CASE Login(h) \/ ChangePassword(h) \/ Update(h) \/ Refresh(h)
    <3>1. PICK c : /\ accountCall' = [accountCall EXCEPT ![h] = c]
                   /\ c.phase \in {"login", "change", "update", "refresh"} /\ UNCHANGED <<resets, resetUses>>
      BY <2>1 DEF Login, ChangePassword, Update, Refresh, NotCalled, accountRows, accountPast
    <3> QED BY <1>1, <3>1
  <2>2. CASE InsertSession(h) \/ SaveChange(h)
    <3>1. PICK c : /\ accountCall' = [accountCall EXCEPT ![h] = c]
                   /\ c.phase \in {"issue", "revoke"} /\ UNCHANGED <<resets, resetUses>>
      BY <2>2 DEF InsertSession, SaveChange, NotCalled, accountPast
    <3> QED BY <1>1, <3>1
  <2> QED BY <1>2, <2>1, <2>2
<1>8. ASSUME NEW h \in H,
             SaveSession(h) \/ RevokeAll(h) \/ SaveUpdate(h) \/ AccountAborts(h)
      PROVE  OpenInv(H)'
  <2>1. /\ accountCall' = [accountCall EXCEPT ![h] = NotCalled] /\ NotCalled.phase # "forgot"
        /\ resets' = resets
    BY <1>8 DEF SaveSession, RevokeAll, SaveUpdate, AccountAborts, NotCalled, accountRows, accountPast
  <2> QED BY <1>1, <2>1
<1>9. ASSUME NEW h \in H, SweepResets(h) \/ ResetPassword(h) PROVE OpenInv(H)'
  <2>1. CASE SweepResets(h)
    <3>1. /\ accountCall' = [accountCall EXCEPT ![h] = [NotCalled EXCEPT !.phase = "revoke"]]
          /\ resets' = AllUsed(resets)
      BY <2>1 DEF SweepResets
    <3>2. [NotCalled EXCEPT !.phase = "revoke"].phase = "revoke"
      BY DEF NotCalled
    <3> QED BY <1>1, <3>1, <3>2
  <2>2. CASE ResetPassword(h)
    <3>1. PICK c : /\ accountCall' = [accountCall EXCEPT ![h] = c]
                   /\ c.phase = "reset" /\ UNCHANGED <<resets, resetUses>>
      BY <2>2 DEF ResetPassword, NotCalled, accountRows, accountPast
    <3> QED BY <1>1, <3>1
  <2> QED BY <1>9, <2>1, <2>2
<1>10. ASSUME NEW h \in H, SaveReset(h) PROVE OpenInv(H)'
  <2> DEFINE c == [accountCall[h] EXCEPT !.phase = "used", !.entity = None]
  <2>1. accountCall' = [accountCall EXCEPT ![h] = c] /\ resets' = resets
    BY <1>10 DEF SaveReset
  <2>2. c.phase = "used"
    BY <1>t DEF AccountCall
  <2> QED BY <1>1, <2>1, <2>2
<1>3. ASSUME NEW h \in H, UseReset(h) PROVE OpenInv(H)'
  <2>1. AccountSteps(h) /\ accountCall'[h].phase # "forgot"
    BY <1>t, <1>3 DEF UseReset, AccountCall, AccountSteps
  <2>2. resets' = [resets EXCEPT ![accountCall[h].reset] = TRUE]
    BY <1>3 DEF UseReset
  <2>3. OpenLinks(resets') \subseteq OpenLinks(resets)
    BY <1>t, <2>2 DEF OpenLinks
  <2>4. Asking(H, accountCall') \subseteq Asking(H, accountCall)
    BY <2>1 DEF Asking, AccountSteps
  <2> QED BY <1>t, <2>3, <2>4, OpenFall
<1>4. ASSUME NEW h \in H, RevokeSession(h) PROVE OpenInv(H)'
  <2>1. UNCHANGED <<accountCall, resets>>
    BY <1>4 DEF RevokeSession
  <2> QED BY <2>1 DEF OpenInv
<1>5. ASSUME NEW h \in H, ForgotPassword(h) PROVE OpenInv(H)'
  <2>1. resets' = AllUsed(resets)
    BY <1>5 DEF ForgotPassword
  <2>2. OpenLinks(resets') = {}
    BY <1>t, <2>1 DEF OpenLinks, AllUsed
  <2>3. Cardinality(OpenLinks(resets')) = 0
    BY <2>2, FS_EmptySet
  <2>4. /\ Cardinality(Asking(H, accountCall')) <= Cardinality(H)
        /\ Cardinality(Asking(H, accountCall')) \in Nat /\ Cardinality(H) \in Nat
    BY <1>t, OpenFinite
  <2> QED BY <2>3, <2>4 DEF OpenInv
<1>6. ASSUME NEW h \in H, InsertReset(h) PROVE OpenInv(H)'
  <2> DEFINE new == Len(resets) + 1
  <2>1. /\ accountCall' = [accountCall EXCEPT ![h] = NotCalled] /\ accountCall[h].phase = "forgot"
        /\ resets' = Append(resets, FALSE)
    BY <1>6 DEF InsertReset
  <2>2. AccountSteps(h) /\ accountCall'[h] = NotCalled
    BY <1>t, <2>1 DEF AccountSteps
  <2>3. h \in Asking(H, accountCall) /\ Asking(H, accountCall') = Asking(H, accountCall) \ {h}
    BY <2>1, <2>2 DEF Asking, AccountSteps, NotCalled
  <2>4. new \notin OpenLinks(resets) /\ OpenLinks(resets') = OpenLinks(resets) \cup {new}
    BY <1>t, <2>1 DEF OpenLinks
  <2>5. /\ IsFiniteSet(OpenLinks(resets)) /\ Cardinality(OpenLinks(resets)) \in Nat
        /\ IsFiniteSet(Asking(H, accountCall)) /\ Cardinality(Asking(H, accountCall)) \in Nat
        /\ Cardinality(H) \in Nat
    BY <1>t, OpenFinite
  <2> HIDE DEF new
  <2>6. Cardinality(Asking(H, accountCall')) = Cardinality(Asking(H, accountCall)) - 1
    <3> DEFINE asked == Asking(H, accountCall)  left == Asking(H, accountCall')
    <3>1. IsFiniteSet(asked) /\ h \in asked /\ left = asked \ {h}
      BY <2>3, <2>5
    <3> HIDE DEF asked, left
    <3>2. Cardinality(left) = Cardinality(asked) - 1
      BY <3>1, FS_RemoveElement
    <3> QED BY <3>2 DEF asked, left
  <2>7. Cardinality(OpenLinks(resets')) = Cardinality(OpenLinks(resets)) + 1
    BY <2>4, <2>5, FS_AddElement
  <2> QED BY <2>5, <2>6, <2>7 DEF OpenInv
<1>7. CASE UNCHANGED accountVars
  <2>1. UNCHANGED <<accountCall, resets>>
    BY <1>7 DEF accountVars, accountRows
  <2> QED BY <2>1 DEF OpenInv
<1> QED
  BY <1>2, <1>3, <1>4, <1>5, <1>6, <1>7, <1>8, <1>9, <1>10 DEF AccountsNext

LEMMA OpenInit == ASSUME NEW H \in SUBSET Handlers, IsFiniteSet(H) PROVE AccountsInit => OpenInv(H)
<1> SUFFICES ASSUME AccountsInit PROVE OpenInv(H)
  OBVIOUS
<1>1. OpenLinks(resets) = {} /\ Asking(H, accountCall) = {}
  BY DEF AccountsInit, OpenLinks, Asking, NotCalled
<1>2. Cardinality(OpenLinks(resets)) = 0 /\ Cardinality(Asking(H, accountCall)) = 0
  BY <1>1, FS_EmptySet
<1>3. Cardinality(H) \in Nat
  BY FS_CardinalityType
<1> QED BY <1>2, <1>3 DEF OpenInv

LEMMA OpenMeans ==
  ASSUME NEW H \in SUBSET Handlers, IsFiniteSet(H), AccountInv, OpenInv(H)
  PROVE  OpenResetsWithin(Cardinality(H))
<1>1. /\ Cardinality(OpenLinks(resets)) \in Nat /\ Cardinality(Asking(H, accountCall)) \in Nat
      /\ Cardinality(H) \in Nat
  BY OpenFinite DEF AccountInv, AccountRows
<1>2. Cardinality(OpenLinks(resets)) <= Cardinality(H)
  BY <1>1 DEF OpenInv
<1> QED BY <1>2 DEF OpenResetsWithin, OpenLinks

(* At most as many links are open as requests are in flight, one when they *)
(* are served one at a time, wherever a request dies: asking for a link    *)
(* invalidates the ones mailed before (invalidateOpenForUser).             *)
THEOREM OpenLinksBounded == AccountsSpec => []OpenResetsWithin(Cardinality(Handlers))
<1>1. AccountsInit => OpenInv(Handlers)
  BY OpenInit, RequestsAssumption DEF RequestsAssumption
<1>2. AccountInv /\ OpenInv(Handlers) => OpenResetsWithin(Cardinality(Handlers))
  BY OpenMeans, RequestsAssumption DEF RequestsAssumption
<1>3. AccountInv /\ OpenInv(Handlers) /\ [AccountsNext(Handlers)]_accountVars => OpenInv(Handlers)'
  BY StepOpen, RequestsAssumption DEF RequestsAssumption
<1> QED BY AccountInitFits, AccountStepFits, <1>1, <1>2, <1>3, PTL DEF AccountsSpec

-----------------------------------------------------------------------------
(* Served one request at a time.                                           *)
\* What the only request knows of the account: as it read it, it still is.
AccountKnows(row, list, c) ==
  /\ c.phase \in {"login", "change", "reset", "update"} => c.entity = row
  /\ c.phase \in {"issue", "refresh"} => ~list[c.session].revoked

Mid(c) == c.phase \in {"used", "sweep", "revoke"}

\* No session that is live was opened with a password that was replaced.
AllCurrent(list, past) == \A s \in 1..Len(list) : ~list[s].revoked => list[s].opened \notin past

AccountAlone(H) ==
  /\ \A h \in Handlers \ H : accountCall[h] = NotCalled
  /\ \A h \in H : AccountKnows(account, sessions, accountCall[h])
  /\ account.password \notin retired
  /\ halfDone \/ (\E h \in H : Mid(accountCall[h])) \/ AllCurrent(sessions, retired)

LEMMA AccountSavedAs ==
  ASSUME NEW n \in Nat, NEW row \in AccountUpTo(n), NEW entity \in AccountUpTo(n)
  PROVE  SaveEntity(row, row, entity) = entity
<1>1. SaveEntity(row, row, entity) = [c \in {"status", "password"} |-> entity[c]]
  BY DEF SaveEntity, AccountUpTo
<1>2. entity = [c \in {"status", "password"} |-> entity[c]]
  BY DEF AccountUpTo
<1> QED BY <1>1, <1>2

LEMMA SessionSavedAs ==
  ASSUME NEW row \in Session, ~row.revoked
  PROVE  SaveEntity(row, row, [row EXCEPT !.revoked = FALSE]) = row
<1>1. [row EXCEPT !.revoked = FALSE] = row
  BY DEF Session
<1>2. SaveEntity(row, row, row) = [c \in {"opened", "revoked"} |-> row[c]]
  BY DEF SaveEntity, Session
<1>3. row = [c \in {"opened", "revoked"} |-> row[c]]
  BY DEF Session
<1> QED BY <1>1, <1>2, <1>3

\* A step of the only request, and what it leaves behind.
LEMMA OnlyAccountCall ==
  ASSUME NEW H \in SUBSET Handlers, Lone(H), AccountInv, AccountAlone(H), NEW h \in H, NEW c,
         accountCall' = [accountCall EXCEPT ![h] = c],
         AccountKnows(account', sessions', c), account'.password \notin retired',
         halfDone' \/ Mid(c) \/ AllCurrent(sessions', retired')
  PROVE  AccountAlone(H)'
<1>1. accountCall'[h] = c /\ \A g \in Handlers \ {h} : accountCall'[g] = accountCall[g]
  BY DEF AccountInv
<1>2. \A g \in H : g = h
  BY DEF Lone
<1>3. \A g \in Handlers \ H : accountCall'[g] = NotCalled
  BY <1>1, <1>2 DEF AccountAlone
<1>4. \A g \in H : AccountKnows(account', sessions', accountCall'[g])
  BY <1>1, <1>2
<1>5. halfDone' \/ (\E g \in H : Mid(accountCall'[g])) \/ AllCurrent(sessions', retired')
  BY <1>1
<1> QED BY <1>3, <1>4, <1>5 DEF AccountAlone

LEMMA AccountStepAlone ==
  ASSUME NEW H \in SUBSET Handlers, Lone(H), AccountInv, AccountAlone(H), [AccountsNext(H)]_accountVars
  PROVE  AccountAlone(H)'
<1> USE DEF AccountGoes, AccountEnds
<1>t. /\ accountCall \in [Handlers -> AccountCall] /\ passwords \in Nat
      /\ account \in AccountUpTo(passwords) /\ sessions \in Seq(Session) /\ Len(sessions) \in Nat
      /\ retired \subseteq 1..passwords /\ account.password \in 1..passwords
      /\ \A h \in Handlers : AccountFits(passwords, Len(sessions), Len(resets), accountCall[h])
  BY AccountsAssumption DEF AccountInv, AccountRows, AccountUpTo
<1>a. /\ account.password \notin retired
      /\ \A h \in H : AccountKnows(account, sessions, accountCall[h])
  BY DEF AccountAlone
<1>b. ASSUME NEW h \in H, ~Mid(accountCall[h]) PROVE halfDone \/ AllCurrent(sessions, retired)
  BY <1>b DEF AccountAlone, Lone
<1>n. AccountKnows(account', sessions', NotCalled)
  BY DEF AccountKnows, NotCalled
\* The rows stay: only the request changes.
<1>q. ASSUME NEW h \in H, NEW c, accountCall' = [accountCall EXCEPT ![h] = c], ~Mid(accountCall[h]),
             AccountKnows(account, sessions, c), UNCHANGED <<account, sessions, retired, halfDone>>
      PROVE  AccountAlone(H)'
  BY <1>a, <1>b, <1>q, OnlyAccountCall
<1>1. ASSUME NEW h \in H, Login(h) \/ ChangePassword(h) \/ Update(h) PROVE AccountAlone(H)'
  <2>1. PICK c : /\ accountCall' = [accountCall EXCEPT ![h] = c] /\ accountCall[h].phase = "idle"
                 /\ c.entity = account /\ c.phase \in {"login", "change", "update"}
                 /\ UNCHANGED <<account, sessions, retired, halfDone>>
    <3>1. ASSUME NEW phase \in {"login", "change", "update"}
          PROVE  [NotCalled EXCEPT !.phase = phase, !.entity = account].phase = phase
                 /\ [NotCalled EXCEPT !.phase = phase, !.entity = account].entity = account
      BY DEF NotCalled
    <3>2. CASE Login(h)
      BY <3>1, <3>2 DEF Login, accountRows, accountPast
    <3>3. CASE ChangePassword(h)
      BY <3>1, <3>3 DEF ChangePassword, accountRows, accountPast
    <3>4. CASE Update(h)
      BY <3>1, <3>4 DEF Update, accountRows, accountPast
    <3> QED BY <1>1, <3>2, <3>3, <3>4
  <2>2. AccountKnows(account, sessions, c) /\ ~Mid(accountCall[h])
    BY <2>1 DEF AccountKnows, Mid
  <2> QED BY <1>q, <2>1, <2>2
<1>2. ASSUME NEW h \in H, InsertSession(h) PROVE AccountAlone(H)'
  <2> DEFINE new == [opened |-> accountCall[h].entity.password, revoked |-> FALSE]
             c == [NotCalled EXCEPT !.phase = "issue", !.session = Len(sessions) + 1]
  <2>1. /\ accountCall[h].phase = "login" /\ accountCall' = [accountCall EXCEPT ![h] = c]
        /\ sessions' = Append(sessions, new) /\ UNCHANGED <<account, retired, halfDone>>
    BY <1>2 DEF InsertSession, accountPast
  <2>2. new.opened = account.password /\ ~new.revoked
    BY <1>a, <2>1 DEF AccountKnows
  <2>3. c.phase = "issue" /\ c.session = Len(sessions) + 1
    BY DEF NotCalled
  <2> HIDE DEF new, c
  <2>4. /\ Len(sessions') = Len(sessions) + 1 /\ sessions'[Len(sessions) + 1] = new
        /\ \A s \in 1..Len(sessions) : sessions'[s] = sessions[s]
    BY <1>t, <2>1
  <2>5. AccountKnows(account', sessions', c)
    BY <2>2, <2>3, <2>4 DEF AccountKnows
  <2>6. AllCurrent(sessions, retired) => AllCurrent(sessions', retired')
    BY <1>a, <1>t, <2>1, <2>2, <2>4 DEF AllCurrent
  <2>7. halfDone \/ AllCurrent(sessions, retired)
    BY <1>b, <2>1 DEF Mid
  <2> QED BY <1>a, <2>1, <2>5, <2>6, <2>7, OnlyAccountCall
<1>3. ASSUME NEW h \in H, Refresh(h) PROVE AccountAlone(H)'
  <2>1. PICK s \in 1..Len(sessions) :
          /\ accountCall' = [accountCall EXCEPT ![h] = [NotCalled EXCEPT !.phase = "refresh", !.session = s]]
          /\ accountCall[h].phase = "idle" /\ ~sessions[s].revoked
          /\ UNCHANGED <<account, sessions, retired, halfDone>>
    BY <1>3 DEF Refresh, Authenticated, Live, accountRows, accountPast
  <2> DEFINE c == [NotCalled EXCEPT !.phase = "refresh", !.session = s]
  <2>2. c.phase = "refresh" /\ c.session = s
    BY DEF NotCalled
  <2>3. AccountKnows(account, sessions, c) /\ ~Mid(accountCall[h])
    BY <2>1, <2>2 DEF AccountKnows, Mid
  <2> HIDE DEF c
  <2>4. accountCall' = [accountCall EXCEPT ![h] = c]
    BY <2>1 DEF c
  <2> QED BY <1>q, <2>1, <2>3, <2>4
<1>4. ASSUME NEW h \in H, SaveSession(h) PROVE AccountAlone(H)'
  <2> DEFINE s == accountCall[h].session
  <2>1. /\ accountCall[h].phase \in {"issue", "refresh"}
        /\ accountCall' = [accountCall EXCEPT ![h] = NotCalled]
        /\ sessions' = [sessions EXCEPT ![s] =
                          SaveEntity(sessions[s], sessions[s], [sessions[s] EXCEPT !.revoked = FALSE])]
        /\ UNCHANGED <<account, retired, halfDone>>
    BY <1>4 DEF SaveSession, accountPast
  <2>2. s \in 1..Len(sessions) /\ sessions[s] \in Session /\ ~sessions[s].revoked
    BY <1>a, <1>t, <2>1 DEF AccountFits, AccountKnows
  <2>3. SaveEntity(sessions[s], sessions[s], [sessions[s] EXCEPT !.revoked = FALSE]) = sessions[s]
    BY <2>2, SessionSavedAs
  <2>4. sessions' = sessions
    BY <1>t, <2>1, <2>2, <2>3
  <2>5. ~Mid(accountCall[h]) /\ AccountKnows(account, sessions, NotCalled)
    BY <2>1 DEF Mid, AccountKnows, NotCalled
  <2> QED BY <1>q, <2>1, <2>4, <2>5
<1>5. ASSUME NEW h \in H, RevokeSession(h) PROVE AccountAlone(H)'
  <2>1. PICK s \in 1..Len(sessions) :
          /\ accountCall[h].phase = "idle" /\ sessions' = [sessions EXCEPT ![s].revoked = TRUE]
          /\ UNCHANGED <<account, accountCall, retired, halfDone>>
    BY <1>5 DEF RevokeSession
  <2>2. /\ Len(sessions') = Len(sessions) /\ sessions'[s].revoked
        /\ \A r \in 1..Len(sessions) \ {s} : sessions'[r] = sessions[r]
    BY <1>t, <2>1 DEF Session
  <2>3. AllCurrent(sessions, retired) => AllCurrent(sessions', retired')
    BY <2>1, <2>2 DEF AllCurrent
  <2>4. accountCall' = [accountCall EXCEPT ![h] = accountCall[h]]
    BY <1>t, <2>1
  <2>5. AccountKnows(account', sessions', accountCall[h])
    BY <2>1 DEF AccountKnows
  <2>6. halfDone \/ AllCurrent(sessions, retired)
    BY <1>b, <2>1 DEF Mid
  <2> QED BY <1>a, <2>1, <2>3, <2>4, <2>5, <2>6, OnlyAccountCall
<1>6. ASSUME NEW h \in H, RevokeAll(h) PROVE AccountAlone(H)'
  <2>1. /\ accountCall' = [accountCall EXCEPT ![h] = NotCalled] /\ sessions' = AllRevoked(sessions)
        /\ UNCHANGED <<account, retired, halfDone>>
    BY <1>6 DEF RevokeAll
  <2>2. AllCurrent(sessions', retired')
    <3>1. \A s \in 1..Len(sessions) : [sessions[s] EXCEPT !.revoked = TRUE].revoked
      BY <1>t DEF Session
    <3>2. sessions' = [s \in 1..Len(sessions) |-> [sessions[s] EXCEPT !.revoked = TRUE]]
      BY <2>1 DEF AllRevoked
    <3>3. Len(sessions') = Len(sessions)
      BY <1>t, <3>2
    <3>4. \A s \in 1..Len(sessions) : sessions'[s] = [sessions[s] EXCEPT !.revoked = TRUE]
      BY <3>2
    <3> QED BY <3>1, <3>3, <3>4 DEF AllCurrent
  <2> QED BY <1>a, <1>n, <2>1, <2>2, OnlyAccountCall
<1>7. ASSUME NEW h \in H, SaveChange(h) \/ SaveReset(h) PROVE AccountAlone(H)'
  <2>1. /\ accountCall[h].phase \in {"change", "reset"} /\ passwords < MaxPasswords
        /\ account' = SaveEntity(account, account, [accountCall[h].entity EXCEPT !.password = passwords + 1])
        /\ retired' = retired \cup {account.password} /\ UNCHANGED <<sessions, halfDone>>
    BY <1>7 DEF SaveChange, SaveReset, SetPassword
  <2>2. PICK c : accountCall' = [accountCall EXCEPT ![h] = c] /\ c.phase \in {"revoke", "used"}
    <3>1. [accountCall[h] EXCEPT !.phase = "used", !.entity = None].phase = "used"
      BY <1>t DEF AccountCall
    <3>2. [NotCalled EXCEPT !.phase = "revoke"].phase = "revoke"
      BY DEF NotCalled
    <3> QED BY <1>7, <3>1, <3>2 DEF SaveChange, SaveReset
  <2>3. accountCall[h].entity = account
    BY <1>a, <2>1 DEF AccountKnows
  <2> DEFINE entity == [account EXCEPT !.password = passwords + 1]
  <2>4. /\ account \in AccountUpTo(passwords + 1) /\ entity \in AccountUpTo(passwords + 1)
        /\ entity.password = passwords + 1
    BY <1>t DEF AccountUpTo
  <2> HIDE DEF entity
  <2>5. account' = entity
    BY <1>t, <2>1, <2>3, <2>4, AccountSavedAs DEF entity
  <2>6. account'.password \notin retired'
    BY <1>t, <2>1, <2>4, <2>5
  <2>7. AccountKnows(account', sessions', c) /\ Mid(c)
    BY <2>2 DEF AccountKnows, Mid
  <2> QED BY <2>2, <2>6, <2>7, OnlyAccountCall
<1>8. ASSUME NEW h \in H, ForgotPassword(h) \/ InsertReset(h) PROVE AccountAlone(H)'
  <2>1. PICK c : /\ accountCall' = [accountCall EXCEPT ![h] = c] /\ c.phase \in {"forgot", "idle"}
                 /\ accountCall[h].phase \in {"idle", "forgot"}
                 /\ UNCHANGED <<account, sessions, retired, halfDone>>
    BY <1>8 DEF ForgotPassword, InsertReset, NotCalled, accountPast
  <2>2. AccountKnows(account, sessions, c) /\ ~Mid(accountCall[h])
    BY <2>1 DEF AccountKnows, Mid
  <2> QED BY <1>q, <2>1, <2>2
<1>9. ASSUME NEW h \in H, ResetPassword(h) PROVE AccountAlone(H)'
  <2>1. PICK r \in 1..Len(resets) :
          /\ accountCall' = [accountCall EXCEPT ![h] =
               [NotCalled EXCEPT !.phase = "reset", !.entity = account, !.reset = r]]
          /\ accountCall[h].phase = "idle"
          /\ UNCHANGED <<account, sessions, retired, halfDone>>
    BY <1>9 DEF ResetPassword, accountRows, accountPast
  <2> DEFINE c == [NotCalled EXCEPT !.phase = "reset", !.entity = account, !.reset = r]
  <2>2. AccountKnows(account, sessions, c) /\ ~Mid(accountCall[h])
    BY <2>1 DEF AccountKnows, NotCalled, Mid
  <2> HIDE DEF c
  <2>4. accountCall' = [accountCall EXCEPT ![h] = c]
    BY <2>1 DEF c
  <2> QED BY <1>q, <2>1, <2>2, <2>4
<1>10. ASSUME NEW h \in H, UseReset(h) \/ SweepResets(h) PROVE AccountAlone(H)'
  <2>1. UNCHANGED <<account, sessions, retired, halfDone>>
    BY <1>10 DEF UseReset, SweepResets, accountPast
  <2>2. PICK c : accountCall' = [accountCall EXCEPT ![h] = c] /\ c.phase \in {"sweep", "revoke"}
    <3>1. [accountCall[h] EXCEPT !.phase = "sweep"].phase = "sweep"
      BY <1>t DEF AccountCall
    <3>2. [NotCalled EXCEPT !.phase = "revoke"].phase = "revoke"
      BY DEF NotCalled
    <3> QED BY <1>10, <3>1, <3>2 DEF UseReset, SweepResets
  <2>3. AccountKnows(account', sessions', c) /\ Mid(c)
    BY <2>2 DEF AccountKnows, Mid
  <2> QED BY <1>a, <2>1, <2>2, <2>3, OnlyAccountCall
<1>11. ASSUME NEW h \in H, SaveUpdate(h) PROVE AccountAlone(H)'
  <2>1. /\ accountCall[h].phase = "update" /\ accountCall' = [accountCall EXCEPT ![h] = NotCalled]
        /\ UNCHANGED <<sessions, retired, halfDone>>
    BY <1>11 DEF SaveUpdate
  <2>2. accountCall[h].entity = account
    BY <1>a, <2>1 DEF AccountKnows
  <2>3. PICK status \in {account.status, "ACTIVE", "INACTIVE"} :
          LET entity == [account EXCEPT !.status = status] IN
          \/ account' = SaveEntity(account, account, entity)
          \/ account' = SaveEntity(account, account, [entity EXCEPT !.password = passwords + 1])
    BY <1>11, <2>2 DEF SaveUpdate, SetPassword
  <2> DEFINE kept == [account EXCEPT !.status = status]  set == [kept EXCEPT !.password = passwords + 1]
  <2>4. /\ account \in AccountUpTo(passwords + 1)
        /\ kept \in AccountUpTo(passwords + 1) /\ set \in AccountUpTo(passwords + 1)
        /\ kept.password = account.password /\ set.password = passwords + 1
    <3>1. /\ account.status \in {"ACTIVE", "INACTIVE"} /\ account.password \in 1..(passwords + 1)
          /\ passwords + 1 \in 1..(passwords + 1)
          /\ account = [status |-> account.status, password |-> account.password]
      BY <1>t DEF AccountUpTo
    <3>2. status \in {"ACTIVE", "INACTIVE"}
      BY <3>1
    <3>3. kept = [status |-> status, password |-> account.password]
      BY <1>t DEF AccountUpTo
    <3>4. set = [status |-> status, password |-> passwords + 1]
      <4> HIDE DEF kept
      <4> QED BY <3>3
    <3> HIDE DEF kept, set
    <3> QED BY <3>1, <3>2, <3>3, <3>4 DEF AccountUpTo
  <2> HIDE DEF kept, set
  <2>5. account' = SaveEntity(account, account, kept) \/ account' = SaveEntity(account, account, set)
    BY <2>3 DEF kept, set
  <2>6. account' = kept \/ account' = set
    BY <1>t, <2>4, <2>5, AccountSavedAs
  <2>7. account'.password \notin retired'
    BY <1>a, <1>t, <2>1, <2>4, <2>6
  <2>8. halfDone \/ AllCurrent(sessions, retired)
    BY <1>b, <2>1 DEF Mid
  <2> QED BY <1>n, <2>1, <2>7, <2>8, OnlyAccountCall
<1>12. ASSUME NEW h \in H, AccountAborts(h) PROVE AccountAlone(H)'
  <2>1. /\ accountCall' = [accountCall EXCEPT ![h] = NotCalled]
        /\ halfDone' = (halfDone \/ Mid(accountCall[h]))
        /\ UNCHANGED <<account, sessions, retired>>
    BY <1>12 DEF AccountAborts, accountRows, Mid
  <2>2. ~Mid(accountCall[h]) /\ ~halfDone => AllCurrent(sessions, retired)
    BY <1>b
  <2> QED BY <1>a, <1>n, <2>1, <2>2, OnlyAccountCall
<1>13. CASE UNCHANGED accountVars
  BY <1>13 DEF accountVars, accountRows, accountPast, AccountAlone
<1> QED
  BY <1>1, <1>2, <1>3, <1>4, <1>5, <1>6, <1>7, <1>8, <1>9, <1>10, <1>11, <1>12, <1>13 DEF AccountsNext

LEMMA AccountInitAlone == ASSUME NEW H \in SUBSET Handlers PROVE AccountsInit => AccountAlone(H)
  BY DEF AccountsInit, AccountAlone, AccountKnows, NotCalled, AllCurrent

LEMMA AccountAloneMeans ==
  ASSUME NEW H \in SUBSET Handlers, AccountAlone(H) PROVE SessionsEndWithPassword
  BY DEF AccountAlone, SessionsEndWithPassword, Replacing, Mid, AllCurrent, Live

-----------------------------------------------------------------------------
(* The codes that verify an account.                                       *)

\* What a request knows of the code it will save.
VerifyKnows(list, c) ==
  c.phase = "save" =>
    /\ c.code \in 1..Len(list) /\ c.entity \in Code /\ c.entity.sent = list[c.code].sent
    /\ c.entity.open => c.entity.attempts <= MaxAttempts

\* Codes are created one after the other, and one that is open may still be tried.
CodesFit(now, list) ==
  /\ \A i, j \in 1..Len(list) : i <= j => list[i].sent <= list[j].sent
  /\ \A i \in 1..Len(list) : /\ list[i].sent <= now
                             /\ list[i].open => list[i].attempts <= MaxAttempts

VerifyInv ==
  /\ minute \in 0..LastMinute /\ userStatus \in {"PENDING", "ACTIVE", "INACTIVE"}
  /\ codes \in Seq(Code) /\ Len(codes) <= MaxCodes /\ guesses \in Seq(Nat) /\ Len(guesses) = Len(codes)
  /\ verifyCall \in [Handlers -> VerifyCall]
  /\ CodesFit(minute, codes) /\ \A h \in Handlers : VerifyKnows(codes, verifyCall[h])

LEMMA CodesLater ==
  ASSUME NEW now \in Nat, NEW later \in Nat, now <= later,
         NEW list, Len(list) \in Nat, \A i \in 1..Len(list) : list[i].sent \in Nat, CodesFit(now, list)
  PROVE  CodesFit(later, list)
<1>1. /\ \A i, j \in 1..Len(list) : i <= j => list[i].sent <= list[j].sent
      /\ \A i \in 1..Len(list) : list[i].sent <= now /\ (list[i].open => list[i].attempts <= MaxAttempts)
  BY DEF CodesFit
<1>2. ASSUME NEW i \in 1..Len(list) PROVE list[i].sent <= later
  <2>1. list[i].sent \in Nat /\ list[i].sent <= now
    BY <1>1
  <2> QED BY <2>1
<1> QED BY <1>1, <1>2 DEF CodesFit

LEMMA VerifyFacts ==
  ASSUME VerifyInv
  PROVE  /\ minute \in Nat /\ minute <= LastMinute /\ LastMinute \in Nat
         /\ codes \in Seq(Code) /\ Len(codes) \in Nat /\ Len(codes) <= MaxCodes /\ MaxCodes \in Nat
         /\ guesses \in Seq(Nat) /\ Len(guesses) = Len(codes)
         /\ verifyCall \in [Handlers -> VerifyCall] /\ CodesFit(minute, codes)
         /\ \A h \in Handlers : VerifyKnows(codes, verifyCall[h])
         /\ MaxAttempts \in Nat /\ Hour \in Nat
  BY VerificationAssumption DEF VerifyInv, VerificationAssumption

LEMMA CodeFacts ==
  ASSUME NEW code \in Code
  PROVE  code.sent \in Nat /\ code.attempts \in Nat /\ code.open \in BOOLEAN /\ code.sent <= LastMinute
  BY VerificationAssumption DEF Code, VerificationAssumption

LEMMA NotVerifyingFits ==
  /\ NotVerifying \in VerifyCall /\ NotVerifying.phase = "idle"
  /\ \A list : VerifyKnows(list, NotVerifying)
<1>1. NotVerifying \in VerifyCall /\ NotVerifying.phase = "idle"
  BY VerificationAssumption DEF NotVerifying, VerifyCall, VerificationAssumption
<1> QED BY <1>1 DEF VerifyKnows

LEMMA VerifyingPhase ==
  ASSUME NEW p \in {"count", "issue", "insert", "activate"}
  PROVE  /\ [NotVerifying EXCEPT !.phase = p] \in VerifyCall
         /\ [NotVerifying EXCEPT !.phase = p].phase = p
         /\ \A list : VerifyKnows(list, [NotVerifying EXCEPT !.phase = p])
<1>1. /\ [NotVerifying EXCEPT !.phase = p] \in VerifyCall
      /\ [NotVerifying EXCEPT !.phase = p].phase = p
  BY NotVerifyingFits DEF VerifyCall
<1> QED BY <1>1 DEF VerifyKnows

\* A code that is saved is the entity that was read.
LEMMA CodeSaved ==
  ASSUME NEW row \in Code, NEW entity \in Code PROVE SaveEntity(row, row, entity) = entity
<1>1. SaveEntity(row, row, entity) = [c \in {"sent", "attempts", "open"} |-> entity[c]]
  BY DEF SaveEntity, Code
<1>2. entity = [c \in {"sent", "attempts", "open"} |-> entity[c]]
  BY DEF Code
<1> QED BY <1>1, <1>2

\* invalidateActiveForUser: every code is closed, and nothing else of it changes.
LEMMA CodesClosed ==
  ASSUME NEW list \in Seq(Code)
  PROVE  /\ Invalidated(list) \in Seq(Code) /\ Len(Invalidated(list)) = Len(list)
         /\ \A i \in 1..Len(list) : /\ Invalidated(list)[i].sent = list[i].sent
                                    /\ Invalidated(list)[i].attempts = list[i].attempts
                                    /\ ~Invalidated(list)[i].open
<1> DEFINE closed(i) == [list[i] EXCEPT !.open = FALSE]
<1>1. Len(list) \in Nat
  OBVIOUS
<1>2. \A i \in 1..Len(list) : /\ closed(i) \in Code /\ closed(i).sent = list[i].sent
                              /\ closed(i).attempts = list[i].attempts /\ ~closed(i).open
  <2> TAKE i \in 1..Len(list)
  <2>1. list[i] \in Code
    BY <1>1
  <2> QED BY <2>1 DEF Code
<1>3. Invalidated(list) = [i \in 1..Len(list) |-> closed(i)]
  BY DEF Invalidated
<1> HIDE DEF closed
<1>4. Invalidated(list) \in Seq(Code) /\ Len(Invalidated(list)) = Len(list)
  BY <1>1, <1>2, <1>3
<1>5. \A i \in 1..Len(list) : Invalidated(list)[i] = closed(i)
  BY <1>1, <1>3
<1> QED BY <1>2, <1>4, <1>5

\* The active code is an open one.
LEMMA ActiveIsOpen ==
  ASSUME codes \in Seq(Code), ActiveCode # 0
  PROVE  ActiveCode \in 1..Len(codes) /\ codes[ActiveCode].open
<1>1. OpenCodes # {} /\ OpenCodes \subseteq 1..Len(codes) /\ Len(codes) \in Nat
  BY DEF ActiveCode, OpenCodes
<1>2. \E i \in OpenCodes : \A j \in OpenCodes : j <= i
  BY <1>1, LastIn
<1>3. ActiveCode \in OpenCodes
  BY <1>1, <1>2 DEF ActiveCode
<1> QED BY <1>3 DEF OpenCodes

LEMMA VerifyInit == VerificationInit => VerifyInv
<1> SUFFICES ASSUME VerificationInit PROVE VerifyInv
  OBVIOUS
<1>1. /\ minute \in 0..LastMinute /\ userStatus \in {"PENDING", "ACTIVE", "INACTIVE"}
      /\ codes \in Seq(Code) /\ Len(codes) = 0 /\ Len(codes) <= MaxCodes
      /\ guesses \in Seq(Nat) /\ Len(guesses) = Len(codes)
  BY VerificationAssumption DEF VerificationInit, VerificationAssumption
<1>2. verifyCall \in [Handlers -> VerifyCall] /\ \A h \in Handlers : VerifyKnows(codes, verifyCall[h])
  BY NotVerifyingFits DEF VerificationInit
<1>3. CodesFit(minute, codes)
  BY <1>1 DEF CodesFit
<1> QED BY <1>1, <1>2, <1>3 DEF VerifyInv

\* A request goes on, and the codes stand.
LEMMA VerifyGoesOn ==
  ASSUME VerifyInv, NEW h \in Handlers, NEW c \in VerifyCall, verifyCall' = [verifyCall EXCEPT ![h] = c],
         UNCHANGED <<minute, codes, guesses>>, userStatus' \in {"PENDING", "ACTIVE", "INACTIVE"},
         VerifyKnows(codes, c)
  PROVE  VerifyInv'
<1>1. verifyCall' \in [Handlers -> VerifyCall] /\ verifyCall'[h] = c
      /\ \A g \in Handlers \ {h} : verifyCall'[g] = verifyCall[g]
  BY DEF VerifyInv
<1>2. \A g \in Handlers : VerifyKnows(codes, verifyCall'[g])
  BY <1>1 DEF VerifyInv
<1> QED BY <1>1, <1>2 DEF VerifyInv

LEMMA VerifyStep == VerifyInv /\ [VerificationNext(Handlers)]_verifyVars => VerifyInv'
<1> SUFFICES ASSUME VerifyInv, [VerificationNext(Handlers)]_verifyVars PROVE VerifyInv'
  OBVIOUS
<1> USE DEF VerifyGoes, VerifyEnds, verifyTables
<1>t. /\ minute \in Nat /\ minute <= LastMinute /\ LastMinute \in Nat
      /\ codes \in Seq(Code) /\ Len(codes) \in Nat /\ Len(codes) <= MaxCodes /\ MaxCodes \in Nat
      /\ guesses \in Seq(Nat) /\ Len(guesses) = Len(codes)
      /\ verifyCall \in [Handlers -> VerifyCall] /\ CodesFit(minute, codes)
      /\ \A h \in Handlers : VerifyKnows(codes, verifyCall[h])
      /\ MaxAttempts \in Nat /\ Hour \in Nat
  BY VerifyFacts
<1>u. userStatus \in {"PENDING", "ACTIVE", "INACTIVE"}
  BY DEF VerifyInv
<1>p. \A p \in {"count", "issue", "insert", "activate"} :
        /\ [NotVerifying EXCEPT !.phase = p] \in VerifyCall
        /\ \A list : VerifyKnows(list, [NotVerifying EXCEPT !.phase = p])
  BY VerifyingPhase
<1>i. NotVerifying \in VerifyCall /\ \A list : VerifyKnows(list, NotVerifying)
  BY NotVerifyingFits
<1>1. ASSUME NEW h \in Handlers, Resend(h) PROVE VerifyInv'
  BY <1>1, <1>u, <1>p, VerifyGoesOn DEF Resend
<1>2. ASSUME NEW h \in Handlers, CountSent(h) PROVE VerifyInv'
  BY <1>2, <1>u, <1>p, VerifyGoesOn DEF CountSent
<1>3. ASSUME NEW h \in Handlers, Activate(h) PROVE VerifyInv'
  BY <1>3, <1>i, VerifyGoesOn DEF Activate
<1>4. ASSUME NEW h \in Handlers, VerifyAborts(h) PROVE VerifyInv'
  BY <1>4, <1>u, <1>i, VerifyGoesOn DEF VerifyAborts
<1>5. ASSUME NEW h \in Handlers, ChangeStatus(h) PROVE VerifyInv'
  <2>1. userStatus' \in {"PENDING", "ACTIVE", "INACTIVE"} /\ UNCHANGED <<minute, codes, verifyCall, guesses>>
    BY <1>5 DEF ChangeStatus
  <2> QED BY <1>t, <2>1 DEF VerifyInv
<1>6. CASE MinutePasses
  <2>1. minute' = minute + 1 /\ minute' \in 0..LastMinute /\ UNCHANGED <<userStatus, codes, verifyCall, guesses>>
    BY <1>t, <1>6 DEF MinutePasses
  <2>2. \A i \in 1..Len(codes) : codes[i].sent \in Nat
    BY <1>t, CodeFacts
  <2>3. PICK now \in Nat : now = minute' /\ minute <= now
    BY <1>t, <2>1
  <2>4. CodesFit(now, codes)
    BY <1>t, <2>2, <2>3, CodesLater
  <2>5. CodesFit(minute', codes)
    BY <2>3, <2>4
  <2> QED BY <1>t, <1>u, <2>1, <2>5 DEF VerifyInv
<1>7. ASSUME NEW h \in Handlers, Invalidate(h) PROVE VerifyInv'
  <2>1. /\ codes' = Invalidated(codes) /\ verifyCall' = [verifyCall EXCEPT ![h] = [NotVerifying EXCEPT !.phase = "insert"]]
        /\ UNCHANGED <<minute, userStatus, guesses>>
    BY <1>7 DEF Invalidate
  <2>2. /\ codes' \in Seq(Code) /\ Len(codes') = Len(codes)
        /\ \A i \in 1..Len(codes) : codes'[i].sent = codes[i].sent /\ ~codes'[i].open
    BY <1>t, <2>1, CodesClosed
  <2>3. CodesFit(minute, codes')
    <3>1. \A i, j \in 1..Len(codes) : i <= j => codes'[i].sent <= codes'[j].sent
      BY <1>t, <2>2 DEF CodesFit
    <3>2. \A i \in 1..Len(codes) : codes'[i].sent <= minute
      BY <1>t, <2>2 DEF CodesFit
    <3> QED BY <2>2, <3>1, <3>2 DEF CodesFit
  <2>4. \A c : VerifyKnows(codes, c) => VerifyKnows(codes', c)
    BY <2>2 DEF VerifyKnows
  <2>5. /\ verifyCall' \in [Handlers -> VerifyCall] /\ verifyCall'[h] = [NotVerifying EXCEPT !.phase = "insert"]
        /\ \A g \in Handlers \ {h} : verifyCall'[g] = verifyCall[g]
    BY <1>t, <1>p, <2>1
  <2>6. \A g \in Handlers : VerifyKnows(codes', verifyCall'[g])
    BY <1>t, <1>p, <2>4, <2>5
  <2> QED BY <1>t, <1>u, <2>1, <2>2, <2>3, <2>5, <2>6 DEF VerifyInv
<1>8. ASSUME NEW h \in Handlers, InsertCode(h) PROVE VerifyInv'
  <2> DEFINE code == [sent |-> minute, attempts |-> 0, open |-> TRUE]
  <2>1. /\ Len(codes) < MaxCodes /\ codes' = Append(codes, code) /\ guesses' = Append(guesses, 0)
        /\ verifyCall' = [verifyCall EXCEPT ![h] = NotVerifying] /\ UNCHANGED <<minute, userStatus>>
    BY <1>8 DEF InsertCode
  <2>2. code \in Code /\ code.sent = minute /\ code.attempts = 0
    BY <1>t DEF Code
  <2> HIDE DEF code
  <2>3. /\ codes' \in Seq(Code) /\ Len(codes') = Len(codes) + 1 /\ codes'[Len(codes) + 1] = code
        /\ \A i \in 1..Len(codes) : codes'[i] = codes[i]
        /\ guesses' \in Seq(Nat) /\ Len(guesses') = Len(guesses) + 1
    BY <1>t, <2>1, <2>2
  <2>4. 1..Len(codes') = 1..Len(codes) \cup {Len(codes) + 1} /\ Len(codes) + 1 \notin 1..Len(codes)
    BY <1>t, <2>3
  <2>5. \A i \in 1..Len(codes) : codes[i].sent \in Nat /\ codes[i].sent <= minute
    BY <1>t, CodeFacts DEF CodesFit
  <2>6. CodesFit(minute, codes')
    <3>1. \A i, j \in 1..Len(codes') : i <= j => codes'[i].sent <= codes'[j].sent
      <4> SUFFICES ASSUME NEW i \in 1..Len(codes'), NEW j \in 1..Len(codes'), i <= j
                   PROVE  codes'[i].sent <= codes'[j].sent
        OBVIOUS
      <4>1. CASE j \in 1..Len(codes)
        <5>1. i \in 1..Len(codes)
          BY <1>t, <2>3, <4>1
        <5> QED BY <1>t, <2>3, <4>1, <5>1 DEF CodesFit
      <4>2. CASE j = Len(codes) + 1
        <5>1. codes'[i].sent <= minute
          <6>1. CASE i \in 1..Len(codes)
            BY <2>3, <2>5, <6>1
          <6>2. CASE i = Len(codes) + 1
            BY <1>t, <2>2, <2>3, <6>2
          <6> QED BY <2>4, <6>1, <6>2
        <5> QED BY <2>2, <2>3, <4>2, <5>1
      <4> QED BY <2>4, <4>1, <4>2
    <3>2. \A i \in 1..Len(codes') : codes'[i].sent <= minute /\ (codes'[i].open => codes'[i].attempts <= MaxAttempts)
      <4> TAKE i \in 1..Len(codes')
      <4>1. CASE i \in 1..Len(codes)
        BY <1>t, <2>3, <4>1 DEF CodesFit
      <4>2. CASE i = Len(codes) + 1
        BY <1>t, <2>2, <2>3, <4>2
      <4> QED BY <2>4, <4>1, <4>2
    <3> QED BY <3>1, <3>2 DEF CodesFit
  <2>7. \A c : VerifyKnows(codes, c) => VerifyKnows(codes', c)
    BY <2>3, <2>4 DEF VerifyKnows
  <2>8. /\ verifyCall' \in [Handlers -> VerifyCall] /\ verifyCall'[h] = NotVerifying
        /\ \A g \in Handlers \ {h} : verifyCall'[g] = verifyCall[g]
    BY <1>t, <1>i, <2>1
  <2>9. \A g \in Handlers : VerifyKnows(codes', verifyCall'[g])
    BY <1>t, <1>i, <2>7, <2>8
  <2>10. Len(codes') <= MaxCodes /\ Len(guesses') = Len(codes')
    BY <1>t, <2>1, <2>3
  <2> QED BY <1>t, <1>u, <2>1, <2>3, <2>6, <2>8, <2>9, <2>10 DEF VerifyInv
<1>9. ASSUME NEW h \in Handlers, FindCode(h) PROVE VerifyInv'
  <2>1. PICK right \in BOOLEAN :
          LET i       == ActiveCode
              code    == codes[i]
              tried   == code.attempts + 1
              expired == code.sent + Ttl < minute
              compared == ~expired /\ MayCompare(tried)
          IN
          /\ verifyCall[h].phase = "idle" /\ userStatus = "PENDING" /\ i # 0
          /\ right => compared
          /\ VerifyGoes(h, [phase |-> "save", code |-> i, right |-> right,
                            entity |-> [code EXCEPT !.attempts = IF expired THEN @ ELSE tried,
                                                    !.open = compared /\ ~right]])
          /\ UNCHANGED <<minute, verifyTables, guesses>>
    BY <1>9 DEF FindCode
  <2> DEFINE i == ActiveCode
             expired == codes[i].sent + Ttl < minute
             tried == codes[i].attempts + 1
             open == (~expired /\ MayCompare(tried)) /\ ~right
             n == IF expired THEN codes[i].attempts ELSE tried
             entity == [codes[i] EXCEPT !.attempts = n, !.open = open]
             c == [phase |-> "save", code |-> i, right |-> right, entity |-> entity]
  <2>2. verifyCall' = [verifyCall EXCEPT ![h] = c] /\ UNCHANGED <<minute, userStatus, codes, guesses>> /\ i # 0
    BY <2>1
  <2>3. i \in 1..Len(codes) /\ codes[i].open
    BY <1>t, <2>1, ActiveIsOpen
  <2>4. codes[i] \in Code /\ codes[i].attempts \in Nat /\ codes[i].attempts <= MaxAttempts
    BY <1>t, <2>3, CodeFacts DEF CodesFit
  <2>5. n \in 0..(MaxAttempts + 1) /\ open \in BOOLEAN /\ (open => n <= MaxAttempts)
    BY <1>t, <2>4 DEF MayCompare
  <2>6. i \in 0..MaxCodes
    BY <1>t, <2>3
  <2> HIDE DEF n, open, i
  <2>7. entity \in Code /\ entity.sent = codes[i].sent /\ entity.attempts = n /\ entity.open = open
    BY <2>4, <2>5 DEF Code
  <2> HIDE DEF entity
  <2>8. c \in VerifyCall /\ VerifyKnows(codes, c)
    BY <2>3, <2>5, <2>6, <2>7 DEF VerifyCall, VerifyKnows
  <2> QED BY <1>u, <2>2, <2>8, VerifyGoesOn
<1>10. ASSUME NEW h \in Handlers, SaveCode(h) PROVE VerifyInv'
  <2> DEFINE i == verifyCall[h].code  entity == verifyCall[h].entity
             c == [NotVerifying EXCEPT !.phase = IF verifyCall[h].right THEN "activate" ELSE "idle"]
  <2>1. /\ verifyCall[h].phase = "save" /\ codes' = [codes EXCEPT ![i] = SaveEntity(codes[i], codes[i], entity)]
        /\ verifyCall' = [verifyCall EXCEPT ![h] = c]
        /\ guesses' = (IF verifyCall[h].right \/ entity.open THEN [guesses EXCEPT ![i] = @ + 1] ELSE guesses)
        /\ UNCHANGED <<minute, userStatus>>
    BY <1>10 DEF SaveCode
  <2>2. /\ i \in 1..Len(codes) /\ entity \in Code /\ entity.sent = codes[i].sent
        /\ entity.open => entity.attempts <= MaxAttempts
    BY <1>t, <2>1 DEF VerifyKnows
  <2>3. c \in VerifyCall /\ \A list : VerifyKnows(list, c)
    <3>1. CASE verifyCall[h].right
      <4>1. c = [NotVerifying EXCEPT !.phase = "activate"]
        BY <3>1
      <4> HIDE DEF c
      <4> QED BY <1>p, <4>1
    <3>2. CASE ~verifyCall[h].right
      <4>1. c = [NotVerifying EXCEPT !.phase = "idle"]
        BY <3>2
      <4>2. NotVerifying.phase = "idle" /\ NotVerifying \in VerifyCall
        BY NotVerifyingFits
      <4> HIDE DEF c
      <4>3. [NotVerifying EXCEPT !.phase = "idle"] = NotVerifying
        BY <4>2 DEF VerifyCall
      <4> QED BY <1>i, <4>1, <4>3
    <3> QED BY <3>1, <3>2
  <2> HIDE DEF i, entity, c
  <2>4. codes' = [codes EXCEPT ![i] = entity]
    <3>1. codes[i] \in Code
      BY <1>t, <2>2
    <3>2. SaveEntity(codes[i], codes[i], entity) = entity
      BY <2>2, <3>1, CodeSaved
    <3> QED BY <2>1, <3>2
  <2>5. /\ codes' \in Seq(Code) /\ Len(codes') = Len(codes)
        /\ codes'[i] = entity /\ \A j \in 1..Len(codes) \ {i} : codes'[j] = codes[j]
    BY <1>t, <2>2, <2>4
  <2>6. guesses' \in Seq(Nat) /\ Len(guesses') = Len(guesses)
    BY <1>t, <2>1, <2>2
  <2>7. \A j \in 1..Len(codes) : codes'[j].sent = codes[j].sent
    BY <2>2, <2>5
  <2>8. CodesFit(minute, codes')
    BY <1>t, <2>2, <2>5, <2>7 DEF CodesFit
  <2>9. \A d : VerifyKnows(codes, d) => VerifyKnows(codes', d)
    BY <2>5, <2>7 DEF VerifyKnows
  <2>10. /\ verifyCall' \in [Handlers -> VerifyCall] /\ verifyCall'[h] = c
         /\ \A g \in Handlers \ {h} : verifyCall'[g] = verifyCall[g]
    BY <1>t, <2>1, <2>3
  <2>11. \A g \in Handlers : VerifyKnows(codes', verifyCall'[g])
    BY <1>t, <2>3, <2>9, <2>10
  <2> QED BY <1>t, <1>u, <2>1, <2>5, <2>6, <2>8, <2>10, <2>11 DEF VerifyInv
<1>11. CASE UNCHANGED verifyVars
  BY <1>t, <1>11 DEF verifyVars, VerifyInv
<1> QED BY <1>1, <1>2, <1>3, <1>4, <1>5, <1>6, <1>7, <1>8, <1>9, <1>10, <1>11 DEF VerificationNext

LEMMA VerifyMeans == VerifyInv => VerificationTypeOK
  BY DEF VerifyInv, VerificationTypeOK

-----------------------------------------------------------------------------
(* The codes of an hour.                                                   *)

\* The codes created within an hour from the ith on, and who is past the count.
SentFrom(list, i) == {j \in i..Len(list) : list[j].sent < list[i].sent + Hour}

PastCount(H, calls) == {h \in H : calls[h].phase \in {"issue", "insert"}}

\* Until the hour is over, the requests past the count add to its codes.
SendsFit(H, now, list, calls) ==
  \A i \in 1..Len(list) :
    Within(MaxPerHour + Cardinality(H) - 1, SentFrom(list, i),
           IF now < list[i].sent + Hour THEN PastCount(H, calls) ELSE {})

SendsInv(H) == SendsFit(H, minute, codes, verifyCall)

LEMMA SentFromFinite ==
  ASSUME NEW list, Len(list) \in Nat, NEW i \in 1..Len(list)
  PROVE  IsFiniteSet(SentFrom(list, i))
<1>1. IsFiniteSet(i..Len(list))
  BY FS_Interval
<1>2. SentFrom(list, i) \subseteq i..Len(list)
  BY DEF SentFrom
<1> QED BY <1>1, <1>2, FS_Subset

\* Time passes, and nobody passes the count.
LEMMA SendsFall ==
  ASSUME NEW H \in SUBSET Handlers, IsFiniteSet(H), VerifyInv, SendsInv(H), minute' \in Nat, minute <= minute',
         Len(codes') = Len(codes), \A i \in 1..Len(codes) : codes'[i].sent = codes[i].sent,
         PastCount(H, verifyCall') \subseteq PastCount(H, verifyCall)
  PROVE  SendsInv(H)'
<1>t. /\ minute \in Nat /\ codes \in Seq(Code) /\ Len(codes) \in Nat /\ Hour \in Nat
      /\ MaxPerHour \in Nat /\ Cardinality(H) \in Nat
  BY VerifyFacts, VerificationAssumption, FS_CardinalityType DEF VerificationAssumption
<1> DEFINE n == MaxPerHour + Cardinality(H) - 1
<1>n. n \in Int /\ n = MaxPerHour + Cardinality(H) - 1
  BY <1>t
<1> HIDE DEF n
<1>1. ASSUME NEW i \in 1..Len(codes)
      PROVE  Within(n, SentFrom(codes', i), IF minute' < codes'[i].sent + Hour THEN PastCount(H, verifyCall') ELSE {})
  <2> DEFINE W == IF minute < codes[i].sent + Hour THEN PastCount(H, verifyCall) ELSE {}
             V == IF minute' < codes'[i].sent + Hour THEN PastCount(H, verifyCall') ELSE {}
  <2>1. Within(n, SentFrom(codes, i), W)
    BY <1>n DEF SendsInv, SendsFit
  <2>2. SentFrom(codes', i) = SentFrom(codes, i)
    BY <1>t DEF SentFrom
  <2>3. V \subseteq W
    <3>1. codes[i].sent \in Nat
      BY <1>t, CodeFacts
    <3> QED BY <1>t, <3>1
  <2> HIDE DEF W, V
  <2>4. Within(n, SentFrom(codes', i), V)
    BY <1>n, <2>1, <2>2, <2>3, WithinFalls
  <2> QED BY <2>4 DEF V
<1> QED BY <1>1, <1>n DEF SendsInv, SendsFit

\* A request passes the count: the codes from the ith on are among those it counts.
LEMMA SendsCounted ==
  ASSUME NEW H \in SUBSET Handlers, IsFiniteSet(H), VerifyInv, SendsInv(H), SentLastHour < MaxPerHour,
         UNCHANGED <<minute, codes>>
  PROVE  SendsInv(H)'
<1>t. /\ minute \in Nat /\ codes \in Seq(Code) /\ Len(codes) \in Nat /\ Hour \in Nat
      /\ MaxPerHour \in Nat /\ Cardinality(H) \in Nat /\ CodesFit(minute, codes)
  BY VerifyFacts, VerificationAssumption, FS_CardinalityType DEF VerificationAssumption
<1> DEFINE n == MaxPerHour + Cardinality(H) - 1  recent == {i \in 1..Len(codes) : codes[i].sent > minute - Hour}
<1>n. n \in Int /\ n = MaxPerHour + Cardinality(H) - 1
  BY <1>t
<1>r. IsFiniteSet(recent) /\ Cardinality(recent) \in Nat /\ Cardinality(recent) < MaxPerHour
  <2>1. IsFiniteSet(1..Len(codes)) /\ recent \subseteq 1..Len(codes)
    BY <1>t, FS_Interval
  <2>2. IsFiniteSet(recent)
    BY <2>1, FS_Subset
  <2>3. Cardinality(recent) \in Nat
    BY <2>2, FS_CardinalityType
  <2> QED BY <2>2, <2>3 DEF SentLastHour
<1>s. \A i \in 1..Len(codes) : codes[i].sent \in Nat
  BY <1>t, CodeFacts
<1>m. \A i \in 1..Len(codes) : \A j \in SentFrom(codes, i) : minute < codes[i].sent + Hour => j \in recent
  <2> SUFFICES ASSUME NEW i \in 1..Len(codes), NEW j \in SentFrom(codes, i), minute < codes[i].sent + Hour
               PROVE  j \in recent
    OBVIOUS
  <2>1. j \in 1..Len(codes) /\ i <= j
    BY <1>t DEF SentFrom
  <2>2. codes[i].sent <= codes[j].sent
    BY <1>t, <2>1 DEF CodesFit
  <2> QED BY <1>t, <1>s, <2>1, <2>2
<1> HIDE DEF n, recent
<1>1. ASSUME NEW i \in 1..Len(codes)
      PROVE  Within(n, SentFrom(codes, i), IF minute < codes[i].sent + Hour THEN PastCount(H, verifyCall') ELSE {})
  <2> DEFINE W == IF minute < codes[i].sent + Hour THEN PastCount(H, verifyCall) ELSE {}
             V == IF minute < codes[i].sent + Hour THEN PastCount(H, verifyCall') ELSE {}
  <2>1. Within(n, SentFrom(codes, i), W)
    BY <1>n DEF SendsInv, SendsFit
  <2>2. CASE ~(minute < codes[i].sent + Hour)
    BY <2>1, <2>2
  <2>3. CASE minute < codes[i].sent + Hour
    <3>1. SentFrom(codes, i) \subseteq recent
      BY <1>m, <2>3
    <3>2. /\ IsFiniteSet(SentFrom(codes, i)) /\ Cardinality(SentFrom(codes, i)) <= Cardinality(recent)
      BY <1>r, <3>1, FS_Subset
    <3>3. Cardinality(SentFrom(codes, i)) \in Nat
      BY <3>2, FS_CardinalityType
    <3>4. Cardinality(SentFrom(codes, i)) + Cardinality(H) <= n
      BY <1>t, <1>n, <1>r, <3>2, <3>3
    <3>5. V \subseteq H
      BY DEF PastCount
    <3> HIDE DEF V
    <3>6. Within(n, SentFrom(codes, i), V)
      BY <1>n, <3>2, <3>4, <3>5, WithinStarts
    <3> QED BY <3>6 DEF V
  <2> QED BY <2>2, <2>3
<1> QED BY <1>1, <1>n DEF SendsInv, SendsFit

\* The code of a request that is past the count.
LEMMA SendsInsert ==
  ASSUME NEW H \in SUBSET Handlers, IsFiniteSet(H), VerifyInv, SendsInv(H), NEW h \in H, InsertCode(h)
  PROVE  SendsInv(H)'
<1>t. /\ minute \in Nat /\ codes \in Seq(Code) /\ Len(codes) \in Nat /\ Hour \in Nat
      /\ MaxPerHour \in Nat \ {0} /\ Cardinality(H) \in Nat /\ verifyCall \in [Handlers -> VerifyCall]
  BY VerifyFacts, VerificationAssumption, FS_CardinalityType DEF VerificationAssumption
<1> DEFINE n == MaxPerHour + Cardinality(H) - 1  last == Len(codes) + 1
           before == PastCount(H, verifyCall)  after == PastCount(H, verifyCall')
           code == [sent |-> minute, attempts |-> 0, open |-> TRUE]
<1>n. /\ n \in Int /\ n = MaxPerHour + Cardinality(H) - 1 /\ Cardinality(H) <= n
      /\ last = Len(codes) + 1 /\ last \in Nat
  BY <1>t
<1>i. n \in Int
  BY <1>t
<1>1. /\ verifyCall[h].phase = "insert" /\ codes' = Append(codes, code)
      /\ verifyCall' = [verifyCall EXCEPT ![h] = NotVerifying] /\ minute' = minute
  BY DEF InsertCode, VerifyEnds, VerifyGoes
<1>2. code \in Code /\ code.sent = minute
  <2>1. minute \in 0..LastMinute /\ MaxAttempts \in Nat
    BY VerificationAssumption DEF VerifyInv, VerificationAssumption
  <2> QED BY <2>1 DEF Code
<1>3. h \in before /\ after \subseteq before \ {h} /\ before \subseteq H
  <2>1. verifyCall'[h] = NotVerifying /\ \A g \in H \ {h} : verifyCall'[g] = verifyCall[g]
    BY <1>t, <1>1
  <2> QED BY <1>1, <2>1 DEF PastCount, NotVerifying
<1> HIDE DEF n, before, after, code, last
<1>4. /\ Len(codes') = last /\ codes'[last] = code /\ \A i \in 1..Len(codes) : codes'[i] = codes[i]
  BY <1>t, <1>n, <1>1, <1>2
<1>5. 1..last = 1..Len(codes) \cup {last} /\ last \notin 1..Len(codes)
  BY <1>t, <1>n
<1>6. ASSUME NEW i \in 1..last
      PROVE  Within(n, SentFrom(codes', i), IF minute < codes'[i].sent + Hour THEN after ELSE {})
  <2> DEFINE V == IF minute < codes'[i].sent + Hour THEN after ELSE {}
  <2>1. CASE i = last
    <3> DEFINE none == {}
    <3>1. Within(n, none, H)
      <4>1. IsFiniteSet(none) /\ Cardinality(none) = 0
        BY FS_EmptySet
      <4>2. Cardinality(none) + Cardinality(H) <= n
        BY <1>t, <1>n, <4>1
      <4> HIDE DEF none
      <4> QED BY <1>n, <4>1, <4>2, WithinStarts
    <3>2. SentFrom(codes', i) \subseteq none \cup {last}
      BY <1>n, <1>4, <2>1 DEF SentFrom
    <3>3. V \subseteq H \ {h}
      BY <1>3
    <3> HIDE DEF V, none
    <3>4. Within(n, SentFrom(codes', i), V)
      <4>1. Moved(none, H, SentFrom(codes', i), V)
        BY <3>2, <3>3 DEF Moved
      <4> QED BY <1>i, <3>1, <4>1, WithinMoved
    <3> QED BY <3>4 DEF V
  <2>2. CASE i \in 1..Len(codes)
    <3> DEFINE W == IF minute < codes[i].sent + Hour THEN before ELSE {}
    <3>1. Within(n, SentFrom(codes, i), W)
      BY <1>n, <2>2 DEF SendsInv, SendsFit, before
    <3>2. codes[i].sent \in Nat /\ codes'[i] = codes[i]
      BY <1>t, <1>4, <2>2, CodeFacts
    <3>3. CASE minute < codes[i].sent + Hour
      <4>1. SentFrom(codes', i) \subseteq SentFrom(codes, i) \cup {last}
        <5> SUFFICES ASSUME NEW j \in SentFrom(codes', i) PROVE j \in SentFrom(codes, i) \cup {last}
          OBVIOUS
        <5>1. j \in i..last /\ codes'[j].sent < codes'[i].sent + Hour
          BY <1>4 DEF SentFrom
        <5>2. CASE j # last
          <6>1. j \in i..Len(codes) /\ j \in 1..Len(codes)
            BY <1>t, <1>n, <2>2, <5>1, <5>2
          <6> QED BY <1>4, <3>2, <5>1, <6>1 DEF SentFrom
        <5> QED BY <5>2
      <4>2. W = before /\ V = after
        BY <3>2, <3>3
      <4> HIDE DEF V, W
      <4>3. h \in W /\ V \subseteq W \ {h}
        BY <1>3, <4>2
      <4>4. Within(n, SentFrom(codes', i), V)
        <5>1. Moved(SentFrom(codes, i), W, SentFrom(codes', i), V)
          BY <4>1, <4>3 DEF Moved
        <5> QED BY <1>i, <3>1, <5>1, WithinMoved
      <4> QED BY <4>4 DEF V
    <3>4. CASE ~(minute < codes[i].sent + Hour)
      <4>1. SentFrom(codes', i) \subseteq SentFrom(codes, i)
        <5> SUFFICES ASSUME NEW j \in SentFrom(codes', i) PROVE j \in SentFrom(codes, i)
          OBVIOUS
        <5>1. j \in i..last /\ codes'[j].sent < codes'[i].sent + Hour
          BY <1>4 DEF SentFrom
        <5>2. j # last
          BY <1>t, <1>2, <1>4, <3>2, <3>4, <5>1
        <5>3. j \in i..Len(codes) /\ j \in 1..Len(codes)
          BY <1>t, <1>n, <2>2, <5>1, <5>2
        <5> QED BY <1>4, <3>2, <5>1, <5>3 DEF SentFrom
      <4>2. W = {} /\ V = {}
        BY <3>2, <3>4
      <4> HIDE DEF V, W
      <4>3. Within(n, SentFrom(codes', i), V)
        BY <1>n, <3>1, <4>1, <4>2, WithinFalls
      <4> QED BY <4>3 DEF V
    <3> QED BY <3>3, <3>4
  <2> QED BY <1>5, <2>1, <2>2
<1>7. minute' = minute
  BY <1>1
<1> QED BY <1>4, <1>6, <1>7, <1>n DEF SendsInv, SendsFit, after

LEMMA SendsStep ==
  ASSUME NEW H \in SUBSET Handlers, IsFiniteSet(H), VerifyInv, SendsInv(H), [VerificationNext(H)]_verifyVars
  PROVE  SendsInv(H)'
<1> USE DEF VerifyGoes, VerifyEnds, verifyTables
<1>t. /\ minute \in Nat /\ codes \in Seq(Code) /\ Len(codes) \in Nat
      /\ verifyCall \in [Handlers -> VerifyCall]
      /\ \A h \in Handlers : VerifyKnows(codes, verifyCall[h])
  BY VerifyFacts
\* A step of a request that was not past the count, or that has been refused.
<1>q. ASSUME NEW h \in H, NEW c, verifyCall' = [verifyCall EXCEPT ![h] = c],
             c.phase \notin {"issue", "insert"} \/ verifyCall[h].phase = "issue",
             minute' = minute, Len(codes') = Len(codes), \A i \in 1..Len(codes) : codes'[i].sent = codes[i].sent
      PROVE  SendsInv(H)'
  <2>1. verifyCall'[h] = c /\ \A g \in H \ {h} : verifyCall'[g] = verifyCall[g]
    BY <1>t, <1>q
  <2>2. PastCount(H, verifyCall') \subseteq PastCount(H, verifyCall)
    BY <1>q, <2>1 DEF PastCount
  <2>3. minute' \in Nat /\ minute <= minute'
    BY <1>t, <1>q
  <2> QED BY <1>q, <2>2, <2>3, SendsFall
<1>1. ASSUME NEW h \in H, Resend(h) \/ Activate(h) \/ VerifyAborts(h) \/ FindCode(h) PROVE SendsInv(H)'
  <2>1. PICK c : /\ verifyCall' = [verifyCall EXCEPT ![h] = c] /\ c.phase \in {"count", "idle", "save"}
                 /\ minute' = minute /\ codes' = codes
    <3>1. CASE Resend(h)
      BY <3>1 DEF Resend, NotVerifying
    <3>2. CASE Activate(h)
      BY <3>2 DEF Activate, NotVerifying
    <3>3. CASE VerifyAborts(h)
      BY <3>3 DEF VerifyAborts, NotVerifying
    <3>4. CASE FindCode(h)
      BY <3>4 DEF FindCode
    <3> QED BY <1>1, <3>1, <3>2, <3>3, <3>4
  <2> QED BY <1>q, <2>1
<1>2. ASSUME NEW h \in H, CountSent(h) PROVE SendsInv(H)'
  BY <1>2, SendsCounted DEF CountSent
<1>3. ASSUME NEW h \in H, Invalidate(h) PROVE SendsInv(H)'
  <2>1. /\ codes' = Invalidated(codes) /\ verifyCall' = [verifyCall EXCEPT ![h] = [NotVerifying EXCEPT !.phase = "insert"]]
        /\ minute' = minute
        /\ verifyCall[h].phase = "issue" \/ codes = <<>>
    BY <1>3 DEF Invalidate
  <2>2. Len(codes') = Len(codes) /\ \A i \in 1..Len(codes) : codes'[i].sent = codes[i].sent
    BY <1>t, <2>1, CodesClosed
  <2>3. CASE verifyCall[h].phase = "issue"
    BY <1>q, <2>1, <2>2, <2>3
  <2>4. CASE codes = <<>>
    <3>1. Len(codes') = 0
      BY <2>2, <2>4
    <3> QED BY <3>1 DEF SendsInv, SendsFit
  <2> QED BY <2>1, <2>3, <2>4
<1>4. ASSUME NEW h \in H, InsertCode(h) PROVE SendsInv(H)'
  BY <1>4, SendsInsert
<1>5. ASSUME NEW h \in H, SaveCode(h) PROVE SendsInv(H)'
  <2> DEFINE i == verifyCall[h].code  entity == verifyCall[h].entity
             p == IF verifyCall[h].right THEN "activate" ELSE "idle"
             c == [NotVerifying EXCEPT !.phase = p]
  <2>1. /\ verifyCall[h].phase = "save" /\ codes' = [codes EXCEPT ![i] = SaveEntity(codes[i], codes[i], entity)]
        /\ verifyCall' = [verifyCall EXCEPT ![h] = c] /\ minute' = minute
    BY <1>5 DEF SaveCode
  <2>2. i \in 1..Len(codes) /\ entity \in Code /\ entity.sent = codes[i].sent
    BY <1>t, <2>1 DEF VerifyKnows
  <2>3. c.phase \notin {"issue", "insert"}
    BY DEF NotVerifying
  <2> HIDE DEF i, entity, c
  <2>4. codes' = [codes EXCEPT ![i] = entity]
    <3>1. codes[i] \in Code
      BY <1>t, <2>2
    <3>2. SaveEntity(codes[i], codes[i], entity) = entity
      BY <2>2, <3>1, CodeSaved
    <3> QED BY <2>1, <3>2
  <2>5. Len(codes') = Len(codes) /\ \A j \in 1..Len(codes) : codes'[j].sent = codes[j].sent
    BY <1>t, <2>2, <2>4
  <2> QED BY <1>q, <2>1, <2>3, <2>5
<1>6. CASE MinutePasses \/ \E h \in H : ChangeStatus(h)
  <2>1. minute' \in Nat /\ minute <= minute' /\ UNCHANGED <<codes, verifyCall>>
    BY <1>t, <1>6 DEF MinutePasses, ChangeStatus
  <2> QED BY <2>1, SendsFall
<1>7. CASE UNCHANGED verifyVars
  BY <1>7 DEF verifyVars, SendsInv
<1> QED BY <1>1, <1>2, <1>3, <1>4, <1>5, <1>6, <1>7 DEF VerificationNext

LEMMA SendsInit == ASSUME NEW H PROVE VerificationInit => SendsInv(H)
  BY DEF VerificationInit, SendsInv, SendsFit

LEMMA SendsMean ==
  ASSUME NEW H \in SUBSET Handlers, IsFiniteSet(H), SendsInv(H)
  PROVE  SendsWithin(Cardinality(H))
<1>1. MaxPerHour + Cardinality(H) - 1 \in Int
  BY VerificationAssumption, FS_CardinalityType DEF VerificationAssumption
<1>2. \A i \in 1..Len(codes) : Cardinality(SentFrom(codes, i)) <= MaxPerHour + Cardinality(H) - 1
  BY <1>1, WithinMeans DEF SendsInv, SendsFit
<1> QED BY <1>2 DEF SendsWithin, SentFrom

-----------------------------------------------------------------------------
(* The codes that are open at once.                                        *)

\* A code is open, or a request that read it open will save it so.
KeptOpen(H, list, calls) ==
  {i \in 1..Len(list) :
     \/ list[i].open
     \/ \E h \in H : calls[h].phase = "save" /\ calls[h].entity.open /\ calls[h].code = i}

Inserting(H, calls) == {h \in H : calls[h].phase = "insert"}

Reopening(H, calls) == {h \in H : calls[h].phase = "save" /\ calls[h].entity.open}

CodesInv(H) == Within(Cardinality(H), KeptOpen(H, codes, verifyCall), Inserting(H, verifyCall))

LEMMA CodesFall ==
  ASSUME NEW H \in SUBSET Handlers, IsFiniteSet(H), CodesInv(H),
         KeptOpen(H, codes', verifyCall') \subseteq KeptOpen(H, codes, verifyCall),
         Inserting(H, verifyCall') \subseteq Inserting(H, verifyCall)
  PROVE  CodesInv(H)'
<1> DEFINE n == Cardinality(H)  S == KeptOpen(H, codes, verifyCall)  W == Inserting(H, verifyCall)
           T == KeptOpen(H, codes', verifyCall')  V == Inserting(H, verifyCall')
<1>1. n \in Int /\ Within(n, S, W) /\ T \subseteq S /\ V \subseteq W
  BY FS_CardinalityType DEF CodesInv
<1> HIDE DEF n, S, W, T, V
<1>2. Within(n, T, V)
  BY <1>1, WithinFalls
<1> QED BY <1>2 DEF CodesInv, n, T, V

\* Whoever invalidates leaves the codes that others will save open.
LEMMA CodesInvalidated ==
  ASSUME NEW H \in SUBSET Handlers, IsFiniteSet(H), VerifyInv, NEW h \in H, Invalidate(h)
  PROVE  CodesInv(H)'
<1> DEFINE S == Reopening(H, verifyCall')  W == Inserting(H, verifyCall')
           T == {verifyCall'[g].code : g \in S}
           kept == KeptOpen(H, codes', verifyCall')
<1>1. codes' = Invalidated(codes) /\ codes \in Seq(Code)
  BY VerifyFacts DEF Invalidate
<1>2. Len(codes') = Len(codes) /\ \A i \in 1..Len(codes) : ~codes'[i].open
  BY <1>1, CodesClosed
<1>3. kept \subseteq T
  BY <1>2 DEF KeptOpen, Reopening
<1>4. IsFiniteSet(S) /\ Cardinality(S) \in Nat /\ IsFiniteSet(W) /\ Cardinality(W) \in Nat
  <2>1. S \subseteq H /\ W \subseteq H
    BY DEF Reopening, Inserting
  <2> HIDE DEF S, W
  <2>2. IsFiniteSet(S) /\ IsFiniteSet(W)
    BY <2>1, FS_Subset
  <2> QED BY <2>2, FS_CardinalityType
<1>5. IsFiniteSet(T) /\ Cardinality(T) <= Cardinality(S)
  <2> DEFINE f == [g \in S |-> verifyCall'[g].code]
  <2>1. f \in Surjection(S, T)
    BY DEF Surjection
  <2> HIDE DEF f, S, T
  <2> QED BY <1>4, <2>1, FS_Surjection
<1>6. Cardinality(S) + Cardinality(W) <= Cardinality(H) /\ Cardinality(H) \in Nat
  <2>1. S \cap W = {} /\ S \cup W \subseteq H
    BY DEF Reopening, Inserting
  <2> HIDE DEF S, W
  <2>2. Cardinality(S \cup W) = Cardinality(S) + Cardinality(W) - Cardinality(S \cap W)
    BY <1>4, FS_Union
  <2>3. Cardinality(S \cap W) = 0
    BY <2>1, FS_EmptySet
  <2>4. Cardinality(S \cup W) <= Cardinality(H)
    BY <2>1, FS_Subset
  <2>5. Cardinality(H) \in Nat
    BY FS_CardinalityType
  <2> QED BY <1>4, <2>2, <2>3, <2>4, <2>5
<1> HIDE DEF S, W, T, kept
<1>7. IsFiniteSet(kept) /\ Cardinality(kept) <= Cardinality(T)
  BY <1>3, <1>5, FS_Subset
<1>8. Cardinality(kept) \in Nat /\ Cardinality(T) \in Nat
  BY <1>5, <1>7, FS_CardinalityType
<1>9. Within(Cardinality(H), kept, W)
  BY <1>4, <1>5, <1>6, <1>7, <1>8 DEF Within
<1> QED BY <1>9 DEF CodesInv, kept, W

LEMMA CodesInsert ==
  ASSUME NEW H \in SUBSET Handlers, IsFiniteSet(H), VerifyInv, CodesInv(H), NEW h \in H, InsertCode(h)
  PROVE  CodesInv(H)'
<1> DEFINE n == Cardinality(H)  S == KeptOpen(H, codes, verifyCall)  W == Inserting(H, verifyCall)
           T == KeptOpen(H, codes', verifyCall')  V == Inserting(H, verifyCall')
           code == [sent |-> minute, attempts |-> 0, open |-> TRUE]  last == Len(codes) + 1
<1>t. codes \in Seq(Code) /\ Len(codes) \in Nat /\ verifyCall \in [Handlers -> VerifyCall]
  BY VerifyFacts
<1>1. /\ verifyCall[h].phase = "insert" /\ codes' = Append(codes, code)
      /\ verifyCall' = [verifyCall EXCEPT ![h] = NotVerifying]
  BY DEF InsertCode, VerifyEnds, VerifyGoes
<1>2. verifyCall'[h] = NotVerifying /\ \A g \in H \ {h} : verifyCall'[g] = verifyCall[g]
  BY <1>t, <1>1
<1>3. /\ Len(codes') = last /\ \A i \in 1..Len(codes) : codes'[i] = codes[i]
      /\ \A i \in 1..last : i # last => i \in 1..Len(codes)
  <2> HIDE DEF code
  <2> QED BY <1>t, <1>1
<1>4. T \subseteq S \cup {last}
  <2> HIDE DEF last
  <2> SUFFICES ASSUME NEW i \in T, i # last PROVE i \in S
    OBVIOUS
  <2>1. i \in 1..Len(codes) /\ codes'[i] = codes[i]
    BY <1>3 DEF KeptOpen
  <2>2. CASE codes'[i].open
    BY <2>1, <2>2 DEF KeptOpen
  <2>3. CASE \E g \in H : verifyCall'[g].phase = "save" /\ verifyCall'[g].entity.open /\ verifyCall'[g].code = i
    BY <1>2, <2>1, <2>3 DEF KeptOpen, NotVerifying
  <2> QED BY <2>2, <2>3 DEF KeptOpen
<1>5. h \in W /\ V \subseteq W \ {h}
  BY <1>1, <1>2 DEF Inserting, NotVerifying
<1>6. n \in Int /\ Within(n, S, W)
  BY FS_CardinalityType DEF CodesInv
<1> HIDE DEF n, S, T, V, W, last, code
<1>7. Within(n, T, V)
  <2>1. Moved(S, W, T, V)
    BY <1>4, <1>5 DEF Moved
  <2> QED BY <1>6, <2>1, WithinMoved
<1> QED BY <1>7 DEF CodesInv, n, T, V

LEMMA CodesStep ==
  ASSUME NEW H \in SUBSET Handlers, IsFiniteSet(H), VerifyInv, CodesInv(H), [VerificationNext(H)]_verifyVars
  PROVE  CodesInv(H)'
<1> USE DEF VerifyGoes, VerifyEnds, verifyTables
<1>t. /\ codes \in Seq(Code) /\ Len(codes) \in Nat
      /\ verifyCall \in [Handlers -> VerifyCall]
      /\ \A h \in Handlers : VerifyKnows(codes, verifyCall[h])
  BY VerifyFacts
\* A step that opens no code and inserts none.
<1>q. ASSUME NEW h \in H, NEW c, verifyCall' = [verifyCall EXCEPT ![h] = c], c.phase # "insert",
             c.phase = "save" => c.code \in 1..Len(codes) /\ codes[c.code].open, codes' = codes
      PROVE  CodesInv(H)'
  <2>1. verifyCall'[h] = c /\ \A g \in H \ {h} : verifyCall'[g] = verifyCall[g]
    BY <1>t, <1>q
  <2>2. Inserting(H, verifyCall') \subseteq Inserting(H, verifyCall)
    BY <1>q, <2>1 DEF Inserting
  <2>3. KeptOpen(H, codes', verifyCall') \subseteq KeptOpen(H, codes, verifyCall)
    BY <1>q, <2>1 DEF KeptOpen
  <2> QED BY <2>2, <2>3, CodesFall
<1>1. ASSUME NEW h \in H, Resend(h) \/ CountSent(h) \/ Activate(h) \/ VerifyAborts(h) PROVE CodesInv(H)'
  <2>1. PICK c : /\ verifyCall' = [verifyCall EXCEPT ![h] = c] /\ c.phase \in {"count", "issue", "idle"}
                 /\ codes' = codes
    <3>1. CASE Resend(h)
      BY <3>1 DEF Resend, NotVerifying
    <3>2. CASE Activate(h)
      BY <3>2 DEF Activate, NotVerifying
    <3>3. CASE VerifyAborts(h)
      BY <3>3 DEF VerifyAborts, NotVerifying
    <3>4. CASE CountSent(h)
      BY <3>4 DEF CountSent, NotVerifying
    <3> QED BY <1>1, <3>1, <3>2, <3>3, <3>4
  <2> QED BY <1>q, <2>1
<1>2. ASSUME NEW h \in H, FindCode(h) PROVE CodesInv(H)'
  <2>1. PICK c : /\ verifyCall' = [verifyCall EXCEPT ![h] = c] /\ c.phase = "save" /\ c.code = ActiveCode
                 /\ codes' = codes /\ ActiveCode # 0
    <3>1. PICK right \in BOOLEAN :
            LET i       == ActiveCode
                code    == codes[i]
                tried   == code.attempts + 1
                expired == code.sent + Ttl < minute
                compared == ~expired /\ MayCompare(tried)
            IN
            /\ verifyCall[h].phase = "idle" /\ userStatus = "PENDING" /\ i # 0
            /\ right => compared
            /\ VerifyGoes(h, [phase |-> "save", code |-> i, right |-> right,
                              entity |-> [code EXCEPT !.attempts = IF expired THEN @ ELSE tried,
                                                      !.open = compared /\ ~right]])
            /\ UNCHANGED <<minute, verifyTables, guesses>>
      BY <1>2 DEF FindCode
    <3> DEFINE a == ActiveCode
               open == (~(codes[a].sent + Ttl < minute) /\ MayCompare(codes[a].attempts + 1)) /\ ~right
               n == IF codes[a].sent + Ttl < minute THEN codes[a].attempts ELSE codes[a].attempts + 1
               entity == [codes[a] EXCEPT !.attempts = n, !.open = open]
               c == [phase |-> "save", code |-> a, right |-> right, entity |-> entity]
    <3>2. /\ verifyCall' = [verifyCall EXCEPT ![h] = c] /\ codes' = codes /\ a # 0
      BY <3>1
    <3> HIDE DEF entity, a
    <3>3. c.phase = "save" /\ c.code = a
      OBVIOUS
    <3> HIDE DEF c
    <3> QED BY <3>2, <3>3 DEF a
  <2>2. ActiveCode \in 1..Len(codes) /\ codes[ActiveCode].open
    BY <1>t, <2>1, ActiveIsOpen
  <2> QED BY <1>q, <2>1, <2>2
<1>3. ASSUME NEW h \in H, Invalidate(h) PROVE CodesInv(H)'
  BY <1>3, CodesInvalidated
<1>4. ASSUME NEW h \in H, InsertCode(h) PROVE CodesInv(H)'
  BY <1>4, CodesInsert
<1>5. ASSUME NEW h \in H, SaveCode(h) PROVE CodesInv(H)'
  <2> DEFINE i == verifyCall[h].code  entity == verifyCall[h].entity
             p == IF verifyCall[h].right THEN "activate" ELSE "idle"
             c == [NotVerifying EXCEPT !.phase = p]
  <2>1. /\ verifyCall[h].phase = "save" /\ codes' = [codes EXCEPT ![i] = SaveEntity(codes[i], codes[i], entity)]
        /\ verifyCall' = [verifyCall EXCEPT ![h] = c]
    BY <1>5 DEF SaveCode
  <2>2. i \in 1..Len(codes) /\ entity \in Code
    BY <1>t, <2>1 DEF VerifyKnows
  <2>3. c.phase \notin {"insert", "save"}
    BY DEF NotVerifying
  <2>4. codes' = [codes EXCEPT ![i] = entity]
    <3> HIDE DEF i, entity, c
    <3>1. codes[i] \in Code
      BY <1>t, <2>2
    <3>2. SaveEntity(codes[i], codes[i], entity) = entity
      BY <2>2, <3>1, CodeSaved
    <3> QED BY <2>1, <3>2
  <2> HIDE DEF c
  <2>5. verifyCall'[h] = c /\ \A g \in H \ {h} : verifyCall'[g] = verifyCall[g]
    BY <1>t, <2>1
  <2>6. Inserting(H, verifyCall') \subseteq Inserting(H, verifyCall)
    BY <2>3, <2>5 DEF Inserting
  <2>7. entity.open => i \in KeptOpen(H, codes, verifyCall)
    BY <2>1, <2>2 DEF KeptOpen
  <2> HIDE DEF i, entity
  <2>8. /\ Len(codes') = Len(codes) /\ codes'[i] = entity
        /\ \A j \in 1..Len(codes) \ {i} : codes'[j] = codes[j]
    BY <1>t, <2>2, <2>4
  <2>9. KeptOpen(H, codes', verifyCall') \subseteq KeptOpen(H, codes, verifyCall)
    <3> SUFFICES ASSUME NEW j \in KeptOpen(H, codes', verifyCall') PROVE j \in KeptOpen(H, codes, verifyCall)
      OBVIOUS
    <3>1. j \in 1..Len(codes)
      BY <2>8 DEF KeptOpen
    <3>2. CASE codes'[j].open /\ j = i
      BY <2>7, <2>8, <3>2
    <3>3. CASE codes'[j].open /\ j # i
      BY <2>8, <3>1, <3>3 DEF KeptOpen
    <3>4. CASE \E g \in H : verifyCall'[g].phase = "save" /\ verifyCall'[g].entity.open /\ verifyCall'[g].code = j
      BY <2>3, <2>5, <3>1, <3>4 DEF KeptOpen
    <3> QED BY <3>2, <3>3, <3>4 DEF KeptOpen
  <2> QED BY <2>6, <2>9, CodesFall
<1>6. CASE MinutePasses \/ (\E h \in H : ChangeStatus(h)) \/ UNCHANGED verifyVars
  <2>1. UNCHANGED <<codes, verifyCall>>
    BY <1>6 DEF MinutePasses, ChangeStatus, verifyVars
  <2> QED BY <2>1 DEF CodesInv
<1> QED BY <1>1, <1>2, <1>3, <1>4, <1>5, <1>6 DEF VerificationNext

LEMMA CodesInit == ASSUME NEW H \in SUBSET Handlers, IsFiniteSet(H) PROVE VerificationInit => CodesInv(H)
<1> SUFFICES ASSUME VerificationInit PROVE CodesInv(H)
  OBVIOUS
<1>1. KeptOpen(H, codes, verifyCall) = {} /\ Inserting(H, verifyCall) \subseteq H
  BY DEF VerificationInit, KeptOpen, Inserting
<1> DEFINE S == KeptOpen(H, codes, verifyCall)  W == Inserting(H, verifyCall)
<1> HIDE DEF S, W
<1>2. Within(Cardinality(H), S, W)
  BY <1>1, WithinOnce DEF S, W
<1> QED BY <1>2 DEF CodesInv, S, W

LEMMA CodesMean ==
  ASSUME NEW H \in SUBSET Handlers, IsFiniteSet(H), CodesInv(H)
  PROVE  OpenCodesWithin(Cardinality(H))
<1>1. Cardinality(H) \in Int /\ OpenCodes \subseteq KeptOpen(H, codes, verifyCall)
  BY FS_CardinalityType DEF OpenCodes, KeptOpen
<1>2. Within(Cardinality(H), OpenCodes, Inserting(H, verifyCall))
  BY <1>1, WithinFalls DEF CodesInv
<1> QED BY <1>1, <1>2, WithinMeans DEF OpenCodesWithin

-----------------------------------------------------------------------------
(* The guesses a code answers to the only request.                         *)
GuessKnows(list, c) ==
  c.phase = "save" =>
    /\ list[c.code].attempts <= c.entity.attempts
    /\ c.right \/ c.entity.open =>
         c.entity.attempts = list[c.code].attempts + 1 /\ c.entity.attempts <= MaxAttempts

GuessAlone(H) ==
  /\ \A i \in 1..Len(codes) : guesses[i] <= codes[i].attempts /\ guesses[i] <= MaxAttempts
  /\ \A h \in H : GuessKnows(codes, verifyCall[h])

LEMMA GuessStep ==
  ASSUME NEW H \in SUBSET Handlers, Lone(H), VerifyInv, GuessAlone(H), [VerificationNext(H)]_verifyVars
  PROVE  GuessAlone(H)'
<1> USE DEF VerifyGoes, VerifyEnds, verifyTables
<1>t. /\ codes \in Seq(Code) /\ Len(codes) \in Nat /\ guesses \in Seq(Nat) /\ Len(guesses) = Len(codes)
      /\ verifyCall \in [Handlers -> VerifyCall] /\ MaxAttempts \in Nat
      /\ \A h \in Handlers : VerifyKnows(codes, verifyCall[h])
  BY VerifyFacts
<1>l. \A g, h \in H : g = h
  BY DEF Lone
\* The request goes on to something else than a save.
<1>q. ASSUME NEW h \in H, NEW c, verifyCall' = [verifyCall EXCEPT ![h] = c], c.phase # "save",
             \A i \in 1..Len(codes') : guesses'[i] <= codes'[i].attempts /\ guesses'[i] <= MaxAttempts
      PROVE  GuessAlone(H)'
  <2>1. \A g \in H : verifyCall'[g] = c
    BY <1>t, <1>l, <1>q
  <2> QED BY <1>q, <2>1 DEF GuessAlone, GuessKnows
<1>1. ASSUME NEW h \in H, Resend(h) \/ CountSent(h) \/ Activate(h) \/ VerifyAborts(h) PROVE GuessAlone(H)'
  <2>1. PICK c : /\ verifyCall' = [verifyCall EXCEPT ![h] = c] /\ c.phase \in {"count", "issue", "idle"}
                 /\ codes' = codes /\ guesses' = guesses
    <3>1. CASE Resend(h)
      BY <3>1 DEF Resend, NotVerifying
    <3>2. CASE Activate(h)
      BY <3>2 DEF Activate, NotVerifying
    <3>3. CASE VerifyAborts(h)
      BY <3>3 DEF VerifyAborts, NotVerifying
    <3>4. CASE CountSent(h)
      BY <3>4 DEF CountSent, NotVerifying
    <3> QED BY <1>1, <3>1, <3>2, <3>3, <3>4
  <2> QED BY <1>q, <2>1 DEF GuessAlone
<1>2. ASSUME NEW h \in H, FindCode(h) PROVE GuessAlone(H)'
  <2>1. PICK right \in BOOLEAN :
          LET i       == ActiveCode
              code    == codes[i]
              tried   == code.attempts + 1
              expired == code.sent + Ttl < minute
              compared == ~expired /\ MayCompare(tried)
          IN
          /\ verifyCall[h].phase = "idle" /\ userStatus = "PENDING" /\ i # 0
          /\ right => compared
          /\ VerifyGoes(h, [phase |-> "save", code |-> i, right |-> right,
                            entity |-> [code EXCEPT !.attempts = IF expired THEN @ ELSE tried,
                                                    !.open = compared /\ ~right]])
          /\ UNCHANGED <<minute, verifyTables, guesses>>
    BY <1>2 DEF FindCode
  <2> DEFINE i == ActiveCode
             expired == codes[i].sent + Ttl < minute
             tried == codes[i].attempts + 1
             compared == ~expired /\ MayCompare(tried)
             open == compared /\ ~right
             n == IF expired THEN codes[i].attempts ELSE tried
             entity == [codes[i] EXCEPT !.attempts = n, !.open = open]
             c == [phase |-> "save", code |-> i, right |-> right, entity |-> entity]
  <2>2. verifyCall' = [verifyCall EXCEPT ![h] = c] /\ UNCHANGED <<codes, guesses>>
    BY <2>1
  <2>3. i \in 1..Len(codes)
    BY <1>t, <2>1, ActiveIsOpen
  <2>4. codes[i] \in Code /\ codes[i].attempts \in Nat
    BY <1>t, <2>3, CodeFacts
  <2>5. /\ codes[i].attempts <= n
        /\ right \/ open => n = codes[i].attempts + 1 /\ n <= MaxAttempts
    BY <1>t, <2>1, <2>4 DEF MayCompare
  <2> HIDE DEF n, open, i
  <2>6. entity.attempts = n /\ (entity.open <=> open)
    BY <2>4 DEF Code
  <2> HIDE DEF entity
  <2>7. GuessKnows(codes, c)
    BY <2>5, <2>6 DEF GuessKnows
  <2>8. \A g \in H : verifyCall'[g] = c
    BY <1>t, <1>l, <2>2
  <2> QED BY <2>2, <2>7, <2>8 DEF GuessAlone
<1>3. ASSUME NEW h \in H, Invalidate(h) PROVE GuessAlone(H)'
  <2>1. /\ codes' = Invalidated(codes) /\ verifyCall' = [verifyCall EXCEPT ![h] = [NotVerifying EXCEPT !.phase = "insert"]]
        /\ guesses' = guesses
    BY <1>3 DEF Invalidate
  <2>2. Len(codes') = Len(codes) /\ \A i \in 1..Len(codes) : codes'[i].attempts = codes[i].attempts
    BY <1>t, <2>1, CodesClosed
  <2>3. [NotVerifying EXCEPT !.phase = "insert"].phase # "save"
    BY DEF NotVerifying
  <2>4. \A i \in 1..Len(codes') : guesses'[i] <= codes'[i].attempts /\ guesses'[i] <= MaxAttempts
    BY <2>1, <2>2 DEF GuessAlone
  <2> QED BY <1>q, <2>1, <2>3, <2>4
<1>4. ASSUME NEW h \in H, InsertCode(h) PROVE GuessAlone(H)'
  <2> DEFINE code == [sent |-> minute, attempts |-> 0, open |-> TRUE]
  <2>1. /\ codes' = Append(codes, code) /\ guesses' = Append(guesses, 0)
        /\ verifyCall' = [verifyCall EXCEPT ![h] = NotVerifying]
    BY <1>4 DEF InsertCode
  <2>2. code.attempts = 0
    OBVIOUS
  <2> HIDE DEF code
  <2>3. /\ Len(codes') = Len(codes) + 1 /\ codes'[Len(codes) + 1] = code /\ guesses'[Len(codes) + 1] = 0
        /\ \A i \in 1..Len(codes) : codes'[i] = codes[i] /\ guesses'[i] = guesses[i]
        /\ \A i \in 1..(Len(codes) + 1) : i \in 1..Len(codes) \/ i = Len(codes) + 1
    BY <1>t, <2>1
  <2>4. \A i \in 1..Len(codes') : guesses'[i] <= codes'[i].attempts /\ guesses'[i] <= MaxAttempts
    <3> TAKE i \in 1..Len(codes')
    <3>1. CASE i \in 1..Len(codes)
      BY <2>3, <3>1 DEF GuessAlone
    <3>2. CASE i = Len(codes) + 1
      BY <1>t, <2>2, <2>3, <3>2
    <3> QED BY <2>3, <3>1, <3>2
  <2>5. NotVerifying.phase # "save"
    BY DEF NotVerifying
  <2> QED BY <1>q, <2>1, <2>4, <2>5
<1>5. ASSUME NEW h \in H, SaveCode(h) PROVE GuessAlone(H)'
  <2> DEFINE i == verifyCall[h].code  entity == verifyCall[h].entity  right == verifyCall[h].right
             p == IF right THEN "activate" ELSE "idle"
             c == [NotVerifying EXCEPT !.phase = p]
  <2>1. /\ verifyCall[h].phase = "save" /\ codes' = [codes EXCEPT ![i] = SaveEntity(codes[i], codes[i], entity)]
        /\ verifyCall' = [verifyCall EXCEPT ![h] = c]
        /\ guesses' = IF right \/ entity.open THEN [guesses EXCEPT ![i] = @ + 1] ELSE guesses
    BY <1>5 DEF SaveCode
  <2>2. i \in 1..Len(codes) /\ entity \in Code
    BY <1>t, <2>1 DEF VerifyKnows
  <2>3. c.phase # "save"
    BY DEF NotVerifying
  <2>k. /\ codes[i].attempts <= entity.attempts
        /\ right \/ entity.open => entity.attempts = codes[i].attempts + 1 /\ entity.attempts <= MaxAttempts
    BY <2>1 DEF GuessAlone, GuessKnows
  <2> HIDE DEF c, i, entity, right
  <2>4. codes' = [codes EXCEPT ![i] = entity]
    <3>1. codes[i] \in Code
      BY <1>t, <2>2
    <3>2. SaveEntity(codes[i], codes[i], entity) = entity
      BY <2>2, <3>1, CodeSaved
    <3> QED BY <2>1, <3>2
  <2>5. /\ Len(codes') = Len(codes) /\ codes'[i] = entity
        /\ \A j \in 1..Len(codes) \ {i} : codes'[j] = codes[j] /\ guesses'[j] = guesses[j]
        /\ guesses'[i] = IF right \/ entity.open THEN guesses[i] + 1 ELSE guesses[i]
    BY <1>t, <2>1, <2>2, <2>4
  <2>6. /\ guesses[i] \in Nat /\ codes[i].attempts \in Nat /\ entity.attempts \in Nat
        /\ guesses[i] <= codes[i].attempts /\ guesses[i] <= MaxAttempts
    BY <1>t, <2>2, CodeFacts DEF GuessAlone
  <2>7. guesses'[i] <= codes'[i].attempts /\ guesses'[i] <= MaxAttempts
    <3>1. CASE right \/ entity.open
      BY <1>t, <2>5, <2>6, <2>k, <3>1
    <3>2. CASE ~(right \/ entity.open)
      BY <1>t, <2>5, <2>6, <2>k, <3>2
    <3> QED BY <3>1, <3>2
  <2>8. \A j \in 1..Len(codes') : guesses'[j] <= codes'[j].attempts /\ guesses'[j] <= MaxAttempts
    BY <2>5, <2>7 DEF GuessAlone
  <2> QED BY <1>q, <2>1, <2>3, <2>8
<1>6. CASE MinutePasses \/ (\E h \in H : ChangeStatus(h)) \/ UNCHANGED verifyVars
  <2>1. UNCHANGED <<codes, verifyCall, guesses>>
    BY <1>6 DEF MinutePasses, ChangeStatus, verifyVars
  <2> QED BY <2>1 DEF GuessAlone
<1> QED BY <1>1, <1>2, <1>3, <1>4, <1>5, <1>6 DEF VerificationNext

LEMMA GuessInit == ASSUME NEW H \in SUBSET Handlers PROVE VerificationInit => GuessAlone(H)
  BY DEF VerificationInit, GuessAlone, GuessKnows, NotVerifying

LEMMA GuessMeans == ASSUME NEW H, VerifyInv, GuessAlone(H) PROVE GuessesWithin
  BY VerifyFacts DEF GuessAlone, GuessesWithin

-----------------------------------------------------------------------------
(* A user, its roles and its profile.                                      *)

\* A user with these roles and this profile is whole.
WholeUser(held, prof) == held # {} /\ ("Docente" \in held <=> Present(prof))

\* What the only request knows of the user it writes.
EditKnows(row, held, prof, c) ==
  /\ c.phase \in {"idle", "save"} => (Present(row) => WholeUser(held, prof))
  /\ c.phase \in {"save", "clear", "insert", "profile"} => c.roles # {}
  /\ c.phase = "save" => Present(row) /\ (c.given \/ c.roles = held)
  /\ c.phase = "insert" => held = {}
  /\ c.phase = "profile" => held = c.roles
  /\ c.phase \in {"put", "drop"} => held # {}
  /\ c.phase = "put" => "Docente" \in held /\ Present(c.department)
  /\ c.phase = "drop" => "Docente" \notin held

RecordsAlong(H) == \A h \in H : cutShort \/ EditKnows(person, personRoles, profile, editing[h])

LEMMA NotEditingFits == NotEditing \in Editing /\ NotEditing.phase = "idle"
  BY DEF NotEditing, Editing

LEMMA RecordsStep == RecordsTypeOK /\ [RecordsNext(Handlers)]_personVars => RecordsTypeOK'
<1> SUFFICES ASSUME RecordsTypeOK, [RecordsNext(Handlers)]_personVars PROVE RecordsTypeOK'
  OBVIOUS
<1> USE DEF EditingGoes, EditingEnds, personTables
<1>t. /\ person \in {"ACTIVE", "INACTIVE", None} /\ personRoles \subseteq UserRoles
      /\ profile \in Departments \cup {None} /\ cutShort \in BOOLEAN
      /\ editing \in [Handlers -> Editing]
  BY DEF RecordsTypeOK
<1>i. NotEditing \in Editing
  BY NotEditingFits
<1>q. ASSUME NEW h \in Handlers, NEW c \in Editing, editing' = [editing EXCEPT ![h] = c],
             person' \in {"ACTIVE", "INACTIVE", None}, personRoles' \subseteq UserRoles,
             profile' \in Departments \cup {None}, cutShort' \in BOOLEAN
      PROVE  RecordsTypeOK'
  BY <1>t, <1>q DEF RecordsTypeOK
<1>1. ASSUME NEW h \in Handlers, CreateUser(h) PROVE RecordsTypeOK'
  <2>1. PICK roles \in (SUBSET UserRoles) \ {{}}, status \in {"ACTIVE", "INACTIVE"},
             department \in Departments \cup {None} :
          /\ person' = status
          /\ EditingGoes(h, [phase |-> "clear", status |-> status, roles |-> roles, given |-> TRUE,
                             department |-> department])
          /\ UNCHANGED <<personRoles, profile, cutShort>>
    BY <1>1 DEF CreateUser
  <2>2. [phase |-> "clear", status |-> status, roles |-> roles, given |-> TRUE,
         department |-> department] \in Editing
    BY <2>1 DEF Editing
  <2> QED BY <1>t, <1>q, <2>1, <2>2
<1>2. ASSUME NEW h \in Handlers, CreateEnrolled(h) PROVE RecordsTypeOK'
  <2>1. /\ person' \in {"ACTIVE", "INACTIVE", None} /\ personRoles' \subseteq UserRoles
        /\ profile' \in Departments \cup {None} /\ UNCHANGED <<editing, cutShort>>
    BY <1>2 DEF CreateEnrolled
  <2> QED BY <1>t, <2>1 DEF RecordsTypeOK
<1>3. ASSUME NEW h \in Handlers, EditUser(h) PROVE RecordsTypeOK'
  <2>1. PICK roles \in SUBSET UserRoles, status \in {"ACTIVE", "INACTIVE"},
             department \in Departments \cup {None} :
          /\ EditingGoes(h, [phase |-> "save", status |-> status, given |-> roles # {},
                             roles |-> IF roles = {} THEN personRoles ELSE roles,
                             department |-> department])
          /\ UNCHANGED <<personTables, cutShort>>
    BY <1>3 DEF EditUser
  <2> DEFINE given == roles # {}  whole == IF roles = {} THEN personRoles ELSE roles
  <2>2. given \in BOOLEAN /\ whole \in SUBSET UserRoles
    BY <1>t
  <2>3. [phase |-> "save", status |-> status, given |-> given, roles |-> whole,
         department |-> department] \in Editing
    <3> HIDE DEF given, whole
    <3> QED BY <2>2 DEF Editing
  <2> QED BY <1>t, <1>q, <2>1, <2>3
<1>4. ASSUME NEW h \in Handlers, SaveUser(h) PROVE RecordsTypeOK'
  <2> DEFINE c == editing[h]
             d == IF c.given THEN [c EXCEPT !.phase = "clear"]
                  ELSE IF Present(c.department) THEN [c EXCEPT !.phase = "profile"] ELSE NotEditing
  <2>1. person' = c.status /\ editing' = [editing EXCEPT ![h] = d] /\ UNCHANGED <<personRoles, profile, cutShort>>
    BY <1>4 DEF SaveUser
  <2>2. c \in Editing
    BY <1>t
  <2> HIDE DEF c
  <2>3. [c EXCEPT !.phase = "clear"] \in Editing /\ [c EXCEPT !.phase = "profile"] \in Editing
        /\ c.status \in {"ACTIVE", "INACTIVE", None}
    BY <2>2 DEF Editing
  <2>4. d \in Editing
    BY <1>i, <2>3
  <2> QED BY <1>t, <1>q, <2>1, <2>3, <2>4
<1>5. ASSUME NEW h \in Handlers, ClearRoles(h) PROVE RecordsTypeOK'
  <2>1. [editing[h] EXCEPT !.phase = "insert"] \in Editing
    BY <1>t DEF Editing
  <2> QED BY <1>t, <1>q, <1>5, <2>1 DEF ClearRoles
<1>6. ASSUME NEW h \in Handlers, InsertUserRoles(h) PROVE RecordsTypeOK'
  <2>1. /\ personRoles' = personRoles \cup editing[h].roles
        /\ editing' = [editing EXCEPT ![h] = [editing[h] EXCEPT !.phase = "profile"]]
        /\ UNCHANGED <<person, profile, cutShort>>
    BY <1>6 DEF InsertUserRoles, AfterRoles
  <2>2. [editing[h] EXCEPT !.phase = "profile"] \in Editing /\ editing[h].roles \subseteq UserRoles
    BY <1>t DEF Editing
  <2> QED BY <1>t, <1>q, <2>1, <2>2
<1>7. ASSUME NEW h \in Handlers, FindProfile(h) PROVE RecordsTypeOK'
  <2> DEFINE c == editing[h]
             department == IF Present(c.department) THEN c.department ELSE profile
             p == IF Present(profile) THEN "drop" ELSE "idle"
             d == IF "Docente" \in c.roles
                  THEN [NotEditing EXCEPT !.phase = "put", !.department = department]
                  ELSE [NotEditing EXCEPT !.phase = p]
  <2>1. editing' = [editing EXCEPT ![h] = d] /\ UNCHANGED <<person, personRoles, profile, cutShort>>
    BY <1>7 DEF FindProfile
  <2>2. department \in Departments \cup {None} /\ p \in {"drop", "idle"}
    BY <1>t DEF Editing
  <2> HIDE DEF department, p
  <2>3. [NotEditing EXCEPT !.phase = "put", !.department = department] \in Editing
        /\ [NotEditing EXCEPT !.phase = p] \in Editing
    BY <1>i, <2>2 DEF Editing
  <2>4. d \in Editing
    BY <2>3
  <2> HIDE DEF d
  <2> QED BY <1>t, <1>q, <2>1, <2>4
<1>8. ASSUME NEW h \in Handlers, SaveProfile(h) PROVE RecordsTypeOK'
  <2>1. editing[h].department \in Departments \cup {None}
    BY <1>t DEF Editing
  <2> QED BY <1>t, <1>i, <1>q, <1>8, <2>1 DEF SaveProfile
<1>9. ASSUME NEW h \in Handlers, EditingAborts(h) PROVE RecordsTypeOK'
  <2>1. cutShort' \in BOOLEAN /\ editing' = [editing EXCEPT ![h] = NotEditing] /\ UNCHANGED <<person, personRoles, profile>>
    BY <1>t, <1>9 DEF EditingAborts
  <2> QED BY <1>t, <1>i, <1>q, <2>1
<1>10. CASE UNCHANGED personVars
  BY <1>t, <1>10 DEF personVars, RecordsTypeOK
<1> QED BY <1>1, <1>2, <1>3, <1>4, <1>5, <1>6, <1>7, <1>8, <1>9, <1>10 DEF RecordsNext

LEMMA RecordsInitTyped == RecordsInit => RecordsTypeOK
  BY NotEditingFits DEF RecordsInit, RecordsTypeOK

LEMMA RecordsStepAlone ==
  ASSUME NEW H \in SUBSET Handlers, Lone(H), RecordsTypeOK, RecordsAlong(H), [RecordsNext(H)]_personVars
  PROVE  RecordsAlong(H)'
<1> USE DEF EditingGoes, EditingEnds, personTables
<1>t. editing \in [Handlers -> Editing] /\ personRoles \subseteq UserRoles /\ cutShort \in BOOLEAN
  BY DEF RecordsTypeOK
<1>l. \A g, h \in H : g = h
  BY DEF Lone
<1>q. ASSUME NEW h \in H, NEW c, editing' = [editing EXCEPT ![h] = c], cutShort' \/ EditKnows(person', personRoles', profile', c)
      PROVE  RecordsAlong(H)'
  <2>1. \A g \in H : editing'[g] = c
    BY <1>t, <1>l, <1>q
  <2> QED BY <1>q, <2>1 DEF RecordsAlong
<1>1. CASE UNCHANGED personVars
  BY <1>1 DEF personVars, RecordsAlong, EditKnows, WholeUser
<1>k. ASSUME NEW h \in H PROVE editing[h] \in Editing /\ (cutShort \/ EditKnows(person, personRoles, profile, editing[h]))
  BY <1>t DEF RecordsAlong
<1>2. ASSUME NEW h \in H, CreateUser(h) PROVE RecordsAlong(H)'
  <2>1. PICK roles \in (SUBSET UserRoles) \ {{}}, status \in {"ACTIVE", "INACTIVE"},
             department \in Departments \cup {None} :
          editing' = [editing EXCEPT ![h] = [phase |-> "clear", status |-> status, roles |-> roles, given |-> TRUE,
                                             department |-> department]]
    BY <1>2 DEF CreateUser
  <2> DEFINE c == [phase |-> "clear", status |-> status, roles |-> roles, given |-> TRUE, department |-> department]
  <2>2. c.phase = "clear" /\ c.roles # {}
    BY <2>1
  <2>4. editing' = [editing EXCEPT ![h] = c]
    BY <2>1
  <2> HIDE DEF c
  <2>3. EditKnows(person', personRoles', profile', c)
    BY <2>2 DEF EditKnows
  <2> QED BY <1>q, <2>3, <2>4
<1>3. ASSUME NEW h \in H, CreateEnrolled(h) PROVE RecordsAlong(H)'
  <2>1. /\ editing[h].phase = "idle" /\ personRoles' # {} /\ ("Docente" \in personRoles' <=> Present(profile'))
        /\ editing' = editing
    BY <1>3 DEF CreateEnrolled, Present
  <2>2. EditKnows(person', personRoles', profile', editing[h])
    BY <2>1 DEF EditKnows, WholeUser
  <2>3. \A g \in H : editing'[g] = editing[h]
    BY <1>l, <2>1
  <2> QED BY <2>1, <2>2, <2>3 DEF RecordsAlong, EditKnows, WholeUser
<1>4. ASSUME NEW h \in H, EditUser(h) PROVE RecordsAlong(H)'
  <2>1. PICK roles \in SUBSET UserRoles, status \in {"ACTIVE", "INACTIVE"},
             department \in Departments \cup {None} :
          /\ editing[h].phase = "idle" /\ Present(person)
          /\ EditingGoes(h, [phase |-> "save", status |-> status, given |-> roles # {},
                             roles |-> IF roles = {} THEN personRoles ELSE roles,
                             department |-> department])
          /\ UNCHANGED <<person, personRoles, profile, cutShort>>
    BY <1>4 DEF EditUser
  <2> DEFINE given == roles # {}  whole == IF roles = {} THEN personRoles ELSE roles
             c == [phase |-> "save", status |-> status, given |-> given, roles |-> whole, department |-> department]
  <2>2. CASE cutShort
    BY <1>q, <2>1, <2>2
  <2>3. CASE EditKnows(person, personRoles, profile, editing[h])
    <3>1. WholeUser(personRoles, profile)
      BY <2>1, <2>3 DEF EditKnows
    <3>2. c.phase = "save" /\ c.roles = whole /\ c.given = given
      OBVIOUS
    <3>3. whole # {} /\ (given \/ whole = personRoles)
      BY <3>1 DEF WholeUser
    <3>4. editing' = [editing EXCEPT ![h] = c]
      BY <2>1
    <3> HIDE DEF c, given, whole
    <3>5. EditKnows(person', personRoles', profile', c)
      BY <2>1, <3>1, <3>2, <3>3 DEF EditKnows, WholeUser
    <3> QED BY <1>q, <3>4, <3>5
  <2> QED BY <1>k, <2>2, <2>3
<1>5. ASSUME NEW h \in H, SaveUser(h) PROVE RecordsAlong(H)'
  <2> DEFINE c == editing[h]
             d == IF c.given THEN [c EXCEPT !.phase = "clear"]
                  ELSE IF Present(c.department) THEN [c EXCEPT !.phase = "profile"] ELSE NotEditing
  <2>1. /\ c.phase = "save" /\ editing' = [editing EXCEPT ![h] = d]
        /\ UNCHANGED <<personRoles, profile, cutShort>>
    BY <1>5 DEF SaveUser
  <2>2. CASE cutShort
    BY <1>q, <2>1, <2>2
  <2>3. CASE EditKnows(person, personRoles, profile, c)
    <3>1. c \in Editing
      BY <1>k
    <3> HIDE DEF c
    <3>2. c.roles # {} /\ WholeUser(personRoles, profile) /\ (c.given \/ c.roles = personRoles)
      BY <2>1, <2>3 DEF EditKnows
    <3>3. CASE c.given
      <4>1. d = [c EXCEPT !.phase = "clear"] /\ d.phase = "clear" /\ d.roles = c.roles
        BY <3>1, <3>3 DEF Editing
      <4> HIDE DEF d
      <4>2. EditKnows(person', personRoles', profile', d)
        BY <3>2, <4>1 DEF EditKnows
      <4> QED BY <1>q, <2>1, <4>2
    <3>4. CASE ~c.given /\ Present(c.department)
      <4>1. d = [c EXCEPT !.phase = "profile"] /\ d.phase = "profile" /\ d.roles = c.roles
        BY <3>1, <3>4 DEF Editing
      <4> HIDE DEF d
      <4>2. EditKnows(person', personRoles', profile', d)
        BY <2>1, <3>2, <3>4, <4>1 DEF EditKnows
      <4> QED BY <1>q, <2>1, <4>2
    <3>5. CASE ~c.given /\ ~Present(c.department)
      <4>1. d = NotEditing /\ d.phase = "idle"
        BY <3>5, NotEditingFits
      <4> HIDE DEF d
      <4>2. EditKnows(person', personRoles', profile', d)
        BY <2>1, <3>2, <4>1 DEF EditKnows, WholeUser
      <4> QED BY <1>q, <2>1, <4>2
    <3> QED BY <3>3, <3>4, <3>5
  <2> QED BY <1>k, <2>2, <2>3
<1>6. ASSUME NEW h \in H, ClearRoles(h) PROVE RecordsAlong(H)'
  <2> DEFINE d == [editing[h] EXCEPT !.phase = "insert"]
  <2>1. /\ editing[h].phase = "clear" /\ personRoles' = {} /\ editing' = [editing EXCEPT ![h] = d]
        /\ UNCHANGED <<person, profile, cutShort>>
    BY <1>6 DEF ClearRoles
  <2>2. CASE cutShort
    BY <1>q, <2>1, <2>2
  <2>3. CASE EditKnows(person, personRoles, profile, editing[h])
    <3>1. d.phase = "insert" /\ d.roles = editing[h].roles
      BY <1>k DEF Editing
    <3> HIDE DEF d
    <3>2. EditKnows(person', personRoles', profile', d)
      BY <2>1, <2>3, <3>1 DEF EditKnows
    <3> QED BY <1>q, <2>1, <3>2
  <2> QED BY <1>k, <2>2, <2>3
<1>7. ASSUME NEW h \in H, InsertUserRoles(h) PROVE RecordsAlong(H)'
  <2> DEFINE d == [editing[h] EXCEPT !.phase = "profile"]
  <2>1. /\ editing[h].phase = "insert" /\ personRoles' = personRoles \cup editing[h].roles
        /\ editing' = [editing EXCEPT ![h] = d] /\ UNCHANGED <<person, profile, cutShort>>
    BY <1>7 DEF InsertUserRoles, AfterRoles
  <2>2. CASE cutShort
    BY <1>q, <2>1, <2>2
  <2>3. CASE EditKnows(person, personRoles, profile, editing[h])
    <3>1. d.phase = "profile" /\ d.roles = editing[h].roles
      BY <1>k DEF Editing
    <3> HIDE DEF d
    <3>2. EditKnows(person', personRoles', profile', d)
      BY <2>1, <2>3, <3>1 DEF EditKnows
    <3> QED BY <1>q, <2>1, <3>2
  <2> QED BY <1>k, <2>2, <2>3
<1>8. ASSUME NEW h \in H, FindProfile(h) PROVE RecordsAlong(H)'
  <2> DEFINE c == editing[h]
             department == IF Present(c.department) THEN c.department ELSE profile
             p == IF Present(profile) THEN "drop" ELSE "idle"
             d == IF "Docente" \in c.roles
                  THEN [NotEditing EXCEPT !.phase = "put", !.department = department]
                  ELSE [NotEditing EXCEPT !.phase = p]
  <2>1. /\ c.phase = "profile" /\ ("Docente" \in c.roles => Present(department))
        /\ editing' = [editing EXCEPT ![h] = d] /\ UNCHANGED <<person, personRoles, profile, cutShort>>
    BY <1>8 DEF FindProfile
  <2>2. CASE cutShort
    BY <1>q, <2>1, <2>2
  <2>3. CASE EditKnows(person, personRoles, profile, c)
    <3>1. c.roles # {} /\ personRoles = c.roles
      BY <2>1, <2>3 DEF EditKnows
    <3>2. CASE "Docente" \in c.roles
      <4>1. d.phase = "put" /\ d.department = department
        <5> HIDE DEF department
        <5> QED BY <3>2, NotEditingFits DEF Editing
      <4>2. Present(d.department)
        BY <2>1, <3>2, <4>1
      <4> HIDE DEF d
      <4>3. EditKnows(person', personRoles', profile', d)
        BY <2>1, <3>1, <3>2, <4>1, <4>2 DEF EditKnows
      <4> QED BY <1>q, <2>1, <4>3
    <3>3. CASE "Docente" \notin c.roles /\ Present(profile)
      <4>1. d.phase = "drop"
        BY <3>3, NotEditingFits DEF Editing
      <4> HIDE DEF d
      <4>2. EditKnows(person', personRoles', profile', d)
        BY <2>1, <3>1, <3>3, <4>1 DEF EditKnows
      <4> QED BY <1>q, <2>1, <4>2
    <3>4. CASE "Docente" \notin c.roles /\ ~Present(profile)
      <4>1. d.phase = "idle"
        BY <3>4, NotEditingFits DEF Editing
      <4> HIDE DEF d
      <4>2. EditKnows(person', personRoles', profile', d)
        BY <2>1, <3>1, <3>4, <4>1 DEF EditKnows, WholeUser
      <4> QED BY <1>q, <2>1, <4>2
    <3> QED BY <3>2, <3>3, <3>4
  <2> QED BY <1>k, <2>2, <2>3
<1>9. ASSUME NEW h \in H, SaveProfile(h) PROVE RecordsAlong(H)'
  <2>1. /\ editing[h].phase \in {"put", "drop"} /\ editing' = [editing EXCEPT ![h] = NotEditing]
        /\ profile' = (IF editing[h].phase = "put" THEN editing[h].department ELSE None)
        /\ UNCHANGED <<person, personRoles, cutShort>>
    BY <1>9 DEF SaveProfile
  <2>2. CASE cutShort
    BY <1>q, <2>1, <2>2
  <2>3. CASE EditKnows(person, personRoles, profile, editing[h])
    <3>1. personRoles # {} /\ ("Docente" \in personRoles <=> Present(profile'))
      <4>1. CASE editing[h].phase = "put"
        BY <2>1, <2>3, <4>1 DEF EditKnows
      <4>2. CASE editing[h].phase = "drop"
        BY <2>1, <2>3, <4>2 DEF EditKnows, Present
      <4> QED BY <2>1, <4>1, <4>2
    <3>2. EditKnows(person', personRoles', profile', NotEditing)
      BY <2>1, <3>1, NotEditingFits DEF EditKnows, WholeUser
    <3> QED BY <1>q, <2>1, <3>2
  <2> QED BY <1>k, <2>2, <2>3
<1>10. ASSUME NEW h \in H, EditingAborts(h) PROVE RecordsAlong(H)'
  <2>1. /\ cutShort' = (cutShort \/ editing[h].phase # "save") /\ editing' = [editing EXCEPT ![h] = NotEditing]
        /\ UNCHANGED <<person, personRoles, profile>>
    BY <1>10 DEF EditingAborts
  <2>2. CASE cutShort \/ editing[h].phase # "save"
    BY <1>q, <2>1, <2>2
  <2>3. CASE EditKnows(person, personRoles, profile, editing[h]) /\ editing[h].phase = "save"
    <3>1. EditKnows(person', personRoles', profile', NotEditing)
      BY <2>1, <2>3, NotEditingFits DEF EditKnows, WholeUser
    <3> QED BY <1>q, <2>1, <3>1
  <2> QED BY <1>k, <2>2, <2>3
<1> QED BY <1>1, <1>2, <1>3, <1>4, <1>5, <1>6, <1>7, <1>8, <1>9, <1>10 DEF RecordsNext

LEMMA RecordsInitAlone == ASSUME NEW H \in SUBSET Handlers PROVE RecordsInit => RecordsAlong(H)
  BY NotEditingFits DEF RecordsInit, RecordsAlong, EditKnows, Present

\* The requests that are not served are idle.
LEMMA RecordsMean ==
  ASSUME NEW H \in SUBSET Handlers, H # {}, RecordsAlong(H)
  PROVE  WholeUnlessCut
  BY DEF RecordsAlong, EditKnows, WholeUser, WholeUnlessCut

-----------------------------------------------------------------------------
(* A communication, its recipients and its reads.                          *)

LEMMA NotWritingFits == NotWriting \in Writing /\ NotWriting.phase = "idle"
  BY DEF NotWriting, Writing

\* A row that is saved as an entity of its own kind becomes the entity.
LEMMA CommunicationSaved ==
  ASSUME NEW row \in Communication, NEW entity \in Communication
  PROVE  SaveEntity(row, row, entity) = entity
<1>1. SaveEntity(row, row, entity) = [c \in {"status", "publish", "expires"} |-> entity[c]]
  BY DEF SaveEntity, Communication
<1>2. entity = [c \in {"status", "publish", "expires"} |-> entity[c]]
  BY DEF Communication
<1> QED BY <1>1, <1>2

LEMMA ReadSaved ==
  ASSUME NEW row \in Read, NEW entity \in Read
  PROVE  SaveEntity(row, row, entity) = entity
<1>1. SaveEntity(row, row, entity) = [c \in {"at", "ack"} |-> entity[c]]
  BY DEF SaveEntity, Read
<1>2. entity = [c \in {"at", "ack"} |-> entity[c]]
  BY DEF Read
<1> QED BY <1>1, <1>2

LEMMA EditsTyped ==
  ASSUME NEW row \in Communication, moment \in Moments
  PROVE  Edits(row) \subseteq Communication
<1>1. Published(row) \in Communication
  <2> DEFINE at == IF Present(row.publish) THEN row.publish ELSE moment
  <2>1. at \in Moments \cup {None}
    BY DEF Communication
  <2>2. Published(row) = [row EXCEPT !.status = "PUBLISHED", !.publish = at]
    BY DEF Published
  <2> HIDE DEF at
  <2> QED BY <2>1, <2>2 DEF Communication
<1>2. \A status \in {"DRAFT", "ARCHIVED"} : [row EXCEPT !.status = status] \in Communication
  BY DEF Communication
<1>3. \A at \in Moments \cup {None} : /\ [row EXCEPT !.publish = at] \in Communication
                                      /\ [row EXCEPT !.expires = at] \in Communication
  BY DEF Communication
<1> HIDE DEF Moments
<1> QED BY <1>1, <1>2, <1>3 DEF Edits

\* What a request knows of the communication or the read it writes.
WritingKnows(c) ==
  /\ c.phase = "save" => /\ c.entity \in Communication /\ DatesFit(StartOf(c.entity), c.entity.expires)
                         /\ c.targets \in NormalTargets \cup {{}}
  /\ c.phase \in {"clear", "aim"} => c.targets \in NormalTargets
  /\ c.phase \in {"find", "insert", "amend"} => c.reader \in Readers
  /\ c.phase \in {"insert", "amend"} => c.row \in Read

CommInv ==
  /\ CommunicationsTypeOK /\ DatesInOrder
  /\ \A h \in Handlers : WritingKnows(writing[h])

\* What the only request knows of the rows it writes.
ReadKnows(row, list, aimed, c) ==
  /\ c.phase = "aim" => aimed = {}
  /\ c.phase \in {"find", "insert", "amend"} => Present(row) /\ row.status = "PUBLISHED"
  /\ c.phase = "insert" => ~Present(list[c.reader])
  /\ c.phase = "amend" => /\ Present(list[c.reader]) /\ c.row.at = list[c.reader].at
                          /\ Present(list[c.reader].ack) => c.row.ack = list[c.reader].ack

CommAlone(H) ==
  /\ TargetsOfOneRequest
  /\ \A h \in H : ReadKnows(communication, reads, recipients, writing[h])

LEMMA CommFacts ==
  ASSUME CommInv
  PROVE  /\ moment \in Moments /\ communication \in Communication \cup {None} /\ written \in BOOLEAN
         /\ recipients \subseteq Targets /\ reads \in [Readers -> Read \cup {None}]
         /\ writing \in [Handlers -> Writing] /\ DatesInOrder
         /\ \A h \in Handlers : writing[h] \in Writing /\ WritingKnows(writing[h])
  BY DEF CommInv, CommunicationsTypeOK

LEMMA CommInitFits == CommunicationsInit => CommInv
<1> SUFFICES ASSUME CommunicationsInit PROVE CommInv
  OBVIOUS
<1>1. 0 \in Moments
  BY CommunicationsAssumption DEF Moments
<1>2. \A h \in Handlers : writing[h] = NotWriting
  BY DEF CommunicationsInit
<1>3. WritingKnows(NotWriting)
  BY NotWritingFits DEF WritingKnows
<1>4. CommunicationsTypeOK /\ DatesInOrder
  BY <1>1, NotWritingFits DEF CommunicationsInit, CommunicationsTypeOK, DatesInOrder, Present
<1> QED BY <1>2, <1>3, <1>4 DEF CommInv

\* A step that gives one request another call, and keeps the tables in order.
LEMMA CommGoesOn ==
  ASSUME CommInv, NEW h \in Handlers, NEW c \in Writing, WritingKnows(c), WritingGoes(h, c),
         moment' \in Moments, communication' \in Communication \cup {None}, written' \in BOOLEAN,
         recipients' \subseteq Targets, reads' \in [Readers -> Read \cup {None}], DatesInOrder'
  PROVE  CommInv'
<1>1. writing' \in [Handlers -> Writing]
  BY CommFacts DEF WritingGoes
<1>2. \A g \in Handlers : writing'[g] = IF g = h THEN c ELSE writing[g]
  BY CommFacts DEF WritingGoes
<1>3. \A g \in Handlers : WritingKnows(writing'[g])
  BY CommFacts, <1>2
<1> QED BY <1>1, <1>3 DEF CommInv, CommunicationsTypeOK

LEMMA CommStep == CommInv /\ [CommunicationsNext(Handlers)]_commVars => CommInv'
<1> SUFFICES ASSUME CommInv, [CommunicationsNext(Handlers)]_commVars PROVE CommInv'
  OBVIOUS
<1> USE CommFacts DEF WritingEnds, commTables
<1>n. NotWriting \in Writing /\ WritingKnows(NotWriting)
  BY NotWritingFits DEF WritingKnows
<1>s. ASSUME UNCHANGED communication PROVE DatesInOrder'
  BY <1>s DEF DatesInOrder
<1>z. {} \in SUBSET Targets /\ NormalTargets \subseteq SUBSET Targets
  BY DEF NormalTargets, Targets
<1>1. ASSUME NEW h \in Handlers, CreateCommunication(h) PROVE CommInv'
  <2>1. PICK entity \in Communication, targets \in NormalTargets :
          /\ DatesFit(StartOf(entity), entity.expires) /\ communication' = entity /\ written' = TRUE
          /\ WritingGoes(h, [NotWriting EXCEPT !.phase = "clear", !.targets = targets])
          /\ UNCHANGED <<moment, recipients, reads>>
    BY <1>1 DEF CreateCommunication
  <2> DEFINE c == [NotWriting EXCEPT !.phase = "clear", !.targets = targets]
  <2>2. c \in Writing /\ c.phase = "clear" /\ c.targets = targets
    BY <1>n, <1>z DEF Writing
  <2> HIDE DEF c
  <2>3. WritingKnows(c)
    BY <2>2 DEF WritingKnows
  <2>4. DatesInOrder'
    BY <2>1 DEF DatesInOrder
  <2>5. WritingGoes(h, c)
    BY <2>1 DEF c
  <2> QED BY CommGoesOn, <2>1, <2>2, <2>3, <2>4, <2>5
<1>2. ASSUME NEW h \in Handlers, EditCommunication(h) PROVE CommInv'
  <2>1. PICK entity \in Edits(communication) \cup {communication}, targets \in NormalTargets \cup {{}} :
          /\ DatesStillFit(entity)
          /\ WritingGoes(h, [NotWriting EXCEPT !.phase = "save", !.entity = entity, !.targets = targets])
    BY <1>2 DEF EditCommunication
  <2>2. Present(communication) /\ UNCHANGED <<moment, communication, recipients, reads, written>>
    BY <1>2 DEF EditCommunication
  <2>3. communication \in Communication
    BY <2>2 DEF Present
  <2>4. entity \in Communication
    BY <2>1, <2>3, EditsTyped
  <2> DEFINE c == [NotWriting EXCEPT !.phase = "save", !.entity = entity, !.targets = targets]
  <2>5. c \in Writing /\ c.phase = "save" /\ c.targets = targets /\ c.entity = entity
    BY <1>n, <1>z, <2>4 DEF Writing
  <2> HIDE DEF c
  <2>6. WritingKnows(c)
    BY <2>1, <2>4, <2>5 DEF WritingKnows, DatesStillFit
  <2>7. WritingGoes(h, c)
    BY <2>1 DEF c
  <2>8. DatesInOrder'
    BY <1>s, <2>2
  <2> QED BY CommGoesOn, <2>2, <2>5, <2>6, <2>7, <2>8
<1>3. ASSUME NEW h \in Handlers, SaveCommunication(h) PROVE CommInv'
  <2> DEFINE c == writing[h]
             d == IF c.targets = {} THEN NotWriting ELSE [c EXCEPT !.phase = "clear", !.entity = None]
  <2>1. /\ c.phase = "save"
        /\ communication' = IF Present(communication)
                            THEN SaveEntity(communication, communication, c.entity) ELSE c.entity
        /\ WritingGoes(h, d) /\ UNCHANGED <<moment, recipients, reads, written>>
    BY <1>3 DEF SaveCommunication
  <2>2. c \in Writing /\ WritingKnows(c)
    OBVIOUS
  <2> HIDE DEF c
  <2>3. /\ c.entity \in Communication /\ DatesFit(StartOf(c.entity), c.entity.expires)
        /\ c.targets \in NormalTargets \cup {{}}
    BY <2>1, <2>2 DEF WritingKnows
  <2>4. communication' = c.entity
    <3>1. CASE Present(communication)
      <4>1. communication \in Communication
        BY <3>1 DEF Present
      <4> QED BY <2>1, <2>3, <3>1, <4>1, CommunicationSaved
    <3> QED BY <2>1, <3>1
  <2>5. DatesInOrder'
    BY <2>3, <2>4 DEF DatesInOrder
  <2>6. d \in Writing /\ WritingKnows(d)
    <3>1. CASE c.targets = {}
      BY <1>n, <3>1
    <3>2. CASE c.targets # {}
      <4>1. d \in Writing /\ d.phase = "clear" /\ d.targets = c.targets
        BY <2>2, <3>2 DEF Writing
      <4>2. d.targets \in NormalTargets
        BY <2>3, <3>2, <4>1
      <4> HIDE DEF d
      <4> QED BY <4>1, <4>2 DEF WritingKnows
    <3> QED BY <3>1, <3>2
  <2> HIDE DEF d
  <2> QED BY CommGoesOn, <2>1, <2>3, <2>4, <2>5, <2>6
<1>4. ASSUME NEW h \in Handlers, ClearTargets(h) PROVE CommInv'
  <2> DEFINE c == [writing[h] EXCEPT !.phase = "aim"]
  <2>1. writing[h].phase = "clear" /\ recipients' = {} /\ WritingGoes(h, c)
        /\ UNCHANGED <<moment, communication, reads, written>>
    BY <1>4 DEF ClearTargets, NoTargets
  <2>2. c \in Writing /\ c.phase = "aim" /\ c.targets = writing[h].targets
    BY DEF Writing
  <2>3. writing[h].targets \in NormalTargets
    BY <2>1 DEF WritingKnows
  <2> HIDE DEF c
  <2>4. WritingKnows(c)
    BY <2>2, <2>3 DEF WritingKnows
  <2>5. DatesInOrder'
    BY <1>s, <2>1
  <2> QED BY CommGoesOn, <1>z, <2>1, <2>2, <2>4, <2>5
<1>5. ASSUME NEW h \in Handlers, InsertTargets(h) PROVE CommInv'
  <2>1. writing[h].phase = "aim" /\ recipients' = recipients \cup writing[h].targets
        /\ WritingGoes(h, NotWriting) /\ UNCHANGED <<moment, communication, reads, written>>
    BY <1>5 DEF InsertTargets
  <2>2. recipients' \subseteq Targets
    BY <1>z, <2>1 DEF WritingKnows
  <2>5. DatesInOrder'
    BY <1>s, <2>1
  <2> QED BY CommGoesOn, <1>n, <2>1, <2>2, <2>5
<1>6. ASSUME NEW h \in Handlers, RemoveCommunication(h) PROVE CommInv'
  <2>1. /\ communication' = None /\ recipients' = {} /\ reads' = [r \in Readers |-> None]
        /\ UNCHANGED <<moment, written, writing>>
    BY <1>6 DEF RemoveCommunication
  <2>2. DatesInOrder'
    BY <2>1 DEF DatesInOrder, Present
  <2>3. reads' \in [Readers -> Read \cup {None}]
    BY <2>1
  <2> QED BY <2>1, <2>2, <2>3 DEF CommInv, CommunicationsTypeOK
<1>7. ASSUME NEW h \in Handlers, OpenCommunication(h) PROVE CommInv'
  <2>1. PICK r \in Readers, confirms \in BOOLEAN :
          /\ WritingGoes(h, [NotWriting EXCEPT !.phase = "find", !.reader = r, !.confirms = confirms])
          /\ UNCHANGED <<moment, communication, recipients, reads, written>>
    BY <1>7 DEF OpenCommunication
  <2> DEFINE c == [NotWriting EXCEPT !.phase = "find", !.reader = r, !.confirms = confirms]
  <2>2. c \in Writing /\ c.phase = "find" /\ c.reader = r
    BY <1>n DEF Writing
  <2>5. WritingGoes(h, c)
    BY <2>1
  <2> HIDE DEF c
  <2>3. WritingKnows(c)
    BY <2>2 DEF WritingKnows
  <2>4. DatesInOrder'
    BY <1>s, <2>1
  <2> QED BY CommGoesOn, <2>1, <2>2, <2>3, <2>4, <2>5
<1>8. ASSUME NEW h \in Handlers, FindRead(h) PROVE CommInv'
  <2> DEFINE c == writing[h]
             row == reads[c.reader]
             fresh == [at |-> moment, ack |-> IF c.confirms THEN moment ELSE None]
             found == IF Present(row) THEN Confirmed(row) ELSE fresh
             p == IF Present(row) THEN "amend" ELSE "insert"
             d == [c EXCEPT !.phase = p, !.row = found]
  <2>1. c.phase = "find" /\ UNCHANGED <<moment, communication, recipients, reads, written>>
    BY <1>8 DEF FindRead
  <2>2. WritingGoes(h, NotWriting) \/ WritingGoes(h, d)
    BY <1>8 DEF FindRead
  <2>3. c \in Writing /\ c.reader \in Readers
    BY <2>1 DEF WritingKnows
  <2>4. row \in Read \cup {None}
    BY <2>3
  <2> HIDE DEF c, row
  <2>5. found \in Read
    <3>1. CASE Present(row)
      <4>1. row \in Read
        BY <2>4, <3>1 DEF Present
      <4>2. [row EXCEPT !.ack = moment] \in Read
        BY <4>1 DEF Read
      <4> QED BY <3>1, <4>1, <4>2 DEF Confirmed
    <3>2. CASE ~Present(row)
      <4>1. fresh \in Read
        BY DEF Read
      <4> QED BY <3>2, <4>1
    <3> QED BY <3>1, <3>2
  <2>6. p \in {"amend", "insert"}
    OBVIOUS
  <2> HIDE DEF found, p
  <2>7. d \in Writing /\ d.phase = p /\ d.reader = c.reader /\ d.row = found
    BY <2>3, <2>5, <2>6 DEF Writing
  <2> HIDE DEF d
  <2>8. WritingKnows(d)
    BY <2>3, <2>5, <2>6, <2>7 DEF WritingKnows
  <2>9. DatesInOrder'
    BY <1>s, <2>1
  <2>10. CASE WritingGoes(h, NotWriting)
    BY CommGoesOn, <1>n, <2>1, <2>9, <2>10
  <2>11. CASE WritingGoes(h, d)
    BY CommGoesOn, <2>1, <2>7, <2>8, <2>9, <2>11
  <2> QED BY <2>2, <2>10, <2>11
<1>9. ASSUME NEW h \in Handlers, SaveRead(h) PROVE CommInv'
  <2> DEFINE c == writing[h]
             stored == reads[c.reader]
             saved == IF Present(stored) THEN SaveEntity(stored, stored, c.row) ELSE c.row
  <2>1. /\ c.phase \in {"insert", "amend"} /\ reads' = [reads EXCEPT ![c.reader] = saved]
        /\ WritingGoes(h, NotWriting) /\ UNCHANGED <<moment, communication, recipients, written>>
    BY <1>9 DEF SaveRead
  <2>2. c.reader \in Readers /\ c.row \in Read
    BY <2>1 DEF WritingKnows
  <2>3. stored \in Read \cup {None}
    BY <2>2
  <2> HIDE DEF stored
  <2>4. saved \in Read
    <3>1. CASE Present(stored)
      BY <2>2, <2>3, <3>1, ReadSaved DEF Present
    <3> QED BY <2>2, <3>1
  <2> HIDE DEF saved
  <2>5. reads' \in [Readers -> Read \cup {None}]
    BY <2>1, <2>4
  <2>6. DatesInOrder'
    BY <1>s, <2>1
  <2> QED BY CommGoesOn, <1>n, <2>1, <2>5, <2>6
<1>10. ASSUME NEW h \in Handlers, WritingAborts(h) PROVE CommInv'
  <2>1. WritingGoes(h, NotWriting) /\ UNCHANGED <<moment, communication, recipients, reads, written>>
    BY <1>10 DEF WritingAborts
  <2>2. DatesInOrder'
    BY <1>s, <2>1
  <2> QED BY CommGoesOn, <1>n, <2>1, <2>2
<1>11. CASE MomentPasses
  <2>1. moment' \in Moments
    BY <1>11, CommunicationsAssumption DEF MomentPasses, Moments
  <2> QED BY <1>11, <2>1 DEF MomentPasses, CommInv, CommunicationsTypeOK, DatesInOrder
<1>12. CASE UNCHANGED commVars
  BY <1>12 DEF commVars, CommInv, CommunicationsTypeOK, DatesInOrder
<1> QED BY <1>1, <1>2, <1>3, <1>4, <1>5, <1>6, <1>7, <1>8, <1>9, <1>10, <1>11, <1>12
        DEF CommunicationsNext

\* The audience told to the author, for any recipients.
LEMMA AudienceTold == ASSUME CommInv PROVE AudienceExplained
<1> SUFFICES ASSUME NEW held \in SUBSET RoleNames, NEW tie \in Tie
             PROVE  /\ AimedAt(held, tie) /\ ~Counted(held, tie) =>
                         \E names \in RoleFamilies : names \cap held # {} /\ names \cap recipients # {}
                    /\ Counted(held, tie) /\ ~AimedAt(held, tie) =>
                         recipients = {} \/ tie = "former" \/ "Administrador" \in held
  BY DEF AudienceExplained
<1> DEFINE roles == Caller(held, {}).roles
<1>1. roles = IF "Administrador" \in held THEN {"ADMIN"} ELSE held
  BY DEF Caller
<1>2. KnownAs(held) = roles \cup UNION {names \in RoleFamilies : names \cap roles # {}}
  BY DEF KnownAs
<1> HIDE DEF roles
<1>3. ASSUME AimedAt(held, tie), ~Counted(held, tie)
      PROVE  \E names \in RoleFamilies : names \cap held # {} /\ names \cap recipients # {}
  <2>1. PICK name \in KnownAs(held) \cap recipients : name \notin held
    BY <1>3 DEF AimedAt, Counted
  <2>2. CASE "Administrador" \in held
    <3>1. {"ADMIN", "Administrador"} \in RoleFamilies
      BY DEF RoleFamilies
    <3>2. ASSUME NEW names \in RoleFamilies, "ADMIN" \in names PROVE names = {"ADMIN", "Administrador"}
      <4>1. \/ names = {"ADMIN", "Administrador"} \/ names = {"TEACHER", "Docente"}
            \/ names = {"STUDENT", "Estudiante"} \/ names = {"GUARDIAN", "Encargado", "Padre"}
        BY DEF RoleFamilies
      <4> QED BY <3>2, <4>1
    <3>3. name \in {"ADMIN", "Administrador"}
      BY <1>1, <1>2, <2>1, <2>2, <3>2
    <3> QED BY <2>1, <2>2, <3>1, <3>3
  <2>3. CASE "Administrador" \notin held
    BY <1>1, <1>2, <2>1, <2>3
  <2> QED BY <2>2, <2>3
<1>4. ASSUME Counted(held, tie), ~AimedAt(held, tie)
      PROVE  recipients = {} \/ tie = "former" \/ "Administrador" \in held
  BY <1>1, <1>2, <1>4 DEF Counted, AimedAt, Tie
<1> QED BY <1>3, <1>4

LEMMA CommInitAlone ==
  ASSUME NEW H \in SUBSET Handlers PROVE CommunicationsInit => CommAlone(H)
  BY NotWritingFits DEF CommunicationsInit, CommAlone, ReadKnows, TargetsOfOneRequest

LEMMA CommStepAlone ==
  ASSUME NEW H \in SUBSET Handlers, Lone(H), CommInv, CommAlone(H), [CommunicationsNext(H)]_commVars
  PROVE  CommAlone(H)' /\ ReadingKept /\ OnlyPublishedIsRead
<1> DEFINE Goal == CommAlone(H)' /\ ReadingKept /\ OnlyPublishedIsRead
<1> SUFFICES Goal
  OBVIOUS
<1> USE DEF WritingEnds, commTables
<1>t. /\ reads \in [Readers -> Read \cup {None}] /\ writing \in [Handlers -> Writing]
      /\ communication \in Communication \cup {None}
  BY CommFacts
<1>l. \A g, h \in H : g = h
  BY DEF Lone
<1>k. ASSUME NEW h \in H
      PROVE  /\ writing[h] \in Writing /\ WritingKnows(writing[h])
             /\ ReadKnows(communication, reads, recipients, writing[h])
  BY CommFacts DEF CommAlone
<1>n. ASSUME NEW row, NEW list, NEW aimed PROVE ReadKnows(row, list, aimed, NotWriting)
  BY NotWritingFits DEF ReadKnows
<1>r. ASSUME UNCHANGED reads PROVE ReadingKept /\ OnlyPublishedIsRead
  BY <1>r DEF ReadingKept, OnlyPublishedIsRead
<1>a. ASSUME UNCHANGED recipients PROVE TargetsOfOneRequest'
  BY <1>a DEF CommAlone, TargetsOfOneRequest
<1>q. ASSUME NEW h \in H, NEW c, WritingGoes(h, c),
             ReadKnows(communication', reads', recipients', c), TargetsOfOneRequest'
      PROVE  CommAlone(H)'
  <2>1. \A g \in H : writing'[g] = c
    BY <1>t, <1>l, <1>q DEF WritingGoes
  <2> QED BY <1>q, <2>1 DEF CommAlone
<1>1. ASSUME NEW h \in H, CreateCommunication(h) PROVE Goal
  <2>1. PICK entity \in Communication, targets \in NormalTargets :
          /\ WritingGoes(h, [NotWriting EXCEPT !.phase = "clear", !.targets = targets])
          /\ UNCHANGED <<moment, recipients, reads>>
    BY <1>1 DEF CreateCommunication
  <2> DEFINE c == [NotWriting EXCEPT !.phase = "clear", !.targets = targets]
  <2>2. c.phase = "clear"
    BY NotWritingFits DEF Writing
  <2>3. WritingGoes(h, c)
    BY <2>1
  <2> HIDE DEF c
  <2>4. ReadKnows(communication', reads', recipients', c)
    BY <2>2 DEF ReadKnows
  <2> QED BY <1>a, <1>q, <1>r, <2>1, <2>3, <2>4
<1>2. ASSUME NEW h \in H, EditCommunication(h) PROVE Goal
  <2>1. PICK entity \in Edits(communication) \cup {communication}, targets \in NormalTargets \cup {{}} :
          WritingGoes(h, [NotWriting EXCEPT !.phase = "save", !.entity = entity, !.targets = targets])
    BY <1>2 DEF EditCommunication
  <2> DEFINE c == [NotWriting EXCEPT !.phase = "save", !.entity = entity, !.targets = targets]
  <2>2. c.phase = "save" /\ UNCHANGED <<recipients, reads>>
    BY <1>2, NotWritingFits DEF Writing, EditCommunication
  <2>3. WritingGoes(h, c)
    BY <2>1
  <2> HIDE DEF c
  <2>4. ReadKnows(communication', reads', recipients', c)
    BY <2>2 DEF ReadKnows
  <2> QED BY <1>a, <1>q, <1>r, <2>2, <2>3, <2>4
<1>3. ASSUME NEW h \in H, SaveCommunication(h) PROVE Goal
  <2> DEFINE c == writing[h]
             d == IF c.targets = {} THEN NotWriting ELSE [c EXCEPT !.phase = "clear", !.entity = None]
  <2>1. WritingGoes(h, d) /\ UNCHANGED <<recipients, reads>>
    BY <1>3 DEF SaveCommunication
  <2>2. d = NotWriting \/ d.phase = "clear"
    BY <1>k DEF Writing
  <2> HIDE DEF d
  <2>3. ReadKnows(communication', reads', recipients', d)
    <3>1. CASE d = NotWriting
      BY <1>n, <3>1
    <3>2. CASE d.phase = "clear"
      BY <3>2 DEF ReadKnows
    <3> QED BY <2>2, <3>1, <3>2
  <2> QED BY <1>a, <1>q, <1>r, <2>1, <2>3
<1>4. ASSUME NEW h \in H, ClearTargets(h) PROVE Goal
  <2> DEFINE c == [writing[h] EXCEPT !.phase = "aim"]
  <2>1. recipients' = {} /\ WritingGoes(h, c) /\ UNCHANGED reads
    BY <1>4 DEF ClearTargets, NoTargets
  <2>2. c.phase = "aim"
    BY <1>k DEF Writing
  <2> HIDE DEF c
  <2>3. ReadKnows(communication', reads', recipients', c)
    BY <2>1, <2>2 DEF ReadKnows
  <2>4. TargetsOfOneRequest'
    BY <2>1 DEF TargetsOfOneRequest
  <2> QED BY <1>q, <1>r, <2>1, <2>3, <2>4
<1>5. ASSUME NEW h \in H, InsertTargets(h) PROVE Goal
  <2>1. writing[h].phase = "aim" /\ recipients' = recipients \cup writing[h].targets
        /\ WritingGoes(h, NotWriting) /\ UNCHANGED reads
    BY <1>5 DEF InsertTargets
  <2>2. writing[h].targets \in NormalTargets /\ recipients = {}
    BY <1>k, <2>1 DEF WritingKnows, ReadKnows
  <2>3. TargetsOfOneRequest'
    BY <2>1, <2>2 DEF TargetsOfOneRequest
  <2> QED BY <1>n, <1>q, <1>r, <2>1, <2>3
<1>6. ASSUME NEW h \in H, RemoveCommunication(h) PROVE Goal
  <2>1. /\ writing[h].phase = "idle" /\ recipients' = {} /\ reads' = [r \in Readers |-> None]
        /\ writing' = writing
    BY <1>6 DEF RemoveCommunication
  <2>2. TargetsOfOneRequest'
    BY <2>1 DEF TargetsOfOneRequest
  <2>3. \A g \in H : writing'[g].phase = "idle"
    BY <1>l, <2>1
  <2>4. \A g \in H : ReadKnows(communication', reads', recipients', writing'[g])
    BY <2>3 DEF ReadKnows
  <2>5. ReadingKept /\ OnlyPublishedIsRead
    BY <2>1 DEF ReadingKept, OnlyPublishedIsRead, Present
  <2> QED BY <2>2, <2>4, <2>5 DEF CommAlone
<1>7. ASSUME NEW h \in H, OpenCommunication(h) PROVE Goal
  <2>1. PICK r \in Readers, confirms \in BOOLEAN :
          /\ Present(communication) /\ Readable(r)
          /\ WritingGoes(h, [NotWriting EXCEPT !.phase = "find", !.reader = r, !.confirms = confirms])
          /\ UNCHANGED <<communication, recipients, reads>>
    BY <1>7 DEF OpenCommunication
  <2> DEFINE c == [NotWriting EXCEPT !.phase = "find", !.reader = r, !.confirms = confirms]
  <2>2. c.phase = "find" /\ c.reader = r
    BY NotWritingFits DEF Writing
  <2>3. WritingGoes(h, c)
    BY <2>1
  <2> HIDE DEF c
  <2>4. communication.status = "PUBLISHED"
    BY <2>1 DEF Readable
  <2>5. ReadKnows(communication', reads', recipients', c)
    BY <2>1, <2>2, <2>4 DEF ReadKnows
  <2> QED BY <1>a, <1>q, <1>r, <2>1, <2>3, <2>5
<1>8. ASSUME NEW h \in H, FindRead(h) PROVE Goal
  <2> DEFINE c == writing[h]
             row == reads[c.reader]
             fresh == [at |-> moment, ack |-> IF c.confirms THEN moment ELSE None]
             found == IF Present(row) THEN Confirmed(row) ELSE fresh
             p == IF Present(row) THEN "amend" ELSE "insert"
             d == [c EXCEPT !.phase = p, !.row = found]
  <2>1. c.phase = "find" /\ UNCHANGED <<moment, communication, recipients, reads, written>>
    BY <1>8 DEF FindRead
  <2>2. WritingGoes(h, NotWriting) \/ WritingGoes(h, d)
    BY <1>8 DEF FindRead
  <2>3. /\ c \in Writing /\ c.reader \in Readers
        /\ Present(communication) /\ communication.status = "PUBLISHED"
    BY <1>k, <2>1 DEF WritingKnows, ReadKnows
  <2>4. row \in Read \cup {None}
    BY <1>t, <2>3
  <2>r. row = reads[c.reader]
    OBVIOUS
  <2> HIDE DEF c, row
  <2>5. Present(row) => found.at = row.at /\ (Present(row.ack) => found.ack = row.ack)
    <3> SUFFICES ASSUME Present(row) PROVE found.at = row.at /\ (Present(row.ack) => found.ack = row.ack)
      OBVIOUS
    <3>1. row \in Read
      BY <2>4 DEF Present
    <3>2. found = Confirmed(row)
      OBVIOUS
    <3> HIDE DEF found
    <3> QED BY <3>1, <3>2 DEF Confirmed, Read
  <2>6. p = "amend" <=> Present(row)
    OBVIOUS
  <2>8. p \in {"amend", "insert"}
    OBVIOUS
  <2> HIDE DEF found, p
  <2>7. d.phase = p /\ d.reader = c.reader /\ d.row = found
    BY <2>3 DEF Writing
  <2> HIDE DEF d
  <2>9. ReadKnows(communication', reads', recipients', d)
    BY <2>1, <2>3, <2>5, <2>6, <2>7, <2>8, <2>r DEF ReadKnows
  <2>10. CASE WritingGoes(h, NotWriting)
    BY <1>a, <1>n, <1>q, <1>r, <2>1, <2>10
  <2>11. CASE WritingGoes(h, d)
    BY <1>a, <1>q, <1>r, <2>1, <2>9, <2>11
  <2> QED BY <2>2, <2>10, <2>11
<1>9. ASSUME NEW h \in H, SaveRead(h) PROVE Goal
  <2> DEFINE c == writing[h]
             stored == reads[c.reader]
             saved == IF Present(stored) THEN SaveEntity(stored, stored, c.row) ELSE c.row
  <2>1. /\ c.phase \in {"insert", "amend"} /\ reads' = [reads EXCEPT ![c.reader] = saved]
        /\ WritingGoes(h, NotWriting) /\ UNCHANGED recipients
    BY <1>9 DEF SaveRead
  <2>2. c.reader \in Readers /\ c.row \in Read /\ communication.status = "PUBLISHED"
    BY <1>k, <2>1 DEF WritingKnows, ReadKnows
  <2>3. Present(stored) => /\ stored \in Read /\ c.row.at = stored.at
                           /\ Present(stored.ack) => c.row.ack = stored.ack
    BY <1>k, <1>t, <2>1, <2>2 DEF ReadKnows, Present
  <2>s. stored = reads[c.reader]
    OBVIOUS
  <2> HIDE DEF stored, c
  <2>4. saved = c.row
    <3>1. CASE Present(stored)
      BY <2>2, <2>3, <3>1, ReadSaved
    <3> QED BY <3>1
  <2> HIDE DEF saved
  <2>5. \A r \in Readers : reads'[r] = IF r = c.reader THEN c.row ELSE reads[r]
    BY <1>t, <2>1, <2>4
  <2>6. ReadingKept
    BY <2>3, <2>5, <2>s DEF ReadingKept
  <2>8. OnlyPublishedIsRead
    BY <2>2, <2>5 DEF OnlyPublishedIsRead
  <2> QED BY <1>a, <1>n, <1>q, <2>1, <2>6, <2>8
<1>10. ASSUME NEW h \in H, WritingAborts(h) PROVE Goal
  BY <1>a, <1>n, <1>q, <1>r, <1>10 DEF WritingAborts
<1>11. CASE MomentPasses
  <2>1. UNCHANGED <<communication, recipients, reads, writing>>
    BY <1>11 DEF MomentPasses
  <2> QED BY <1>r, <2>1 DEF CommAlone, TargetsOfOneRequest
<1>12. CASE UNCHANGED commVars
  <2>1. UNCHANGED <<communication, recipients, reads, writing>>
    BY <1>12 DEF commVars
  <2> QED BY <1>r, <2>1 DEF CommAlone, TargetsOfOneRequest
<1> QED BY <1>1, <1>2, <1>3, <1>4, <1>5, <1>6, <1>7, <1>8, <1>9, <1>10, <1>11, <1>12
        DEF CommunicationsNext

-----------------------------------------------------------------------------
(* Logins.  Instants are appended as they come, so that what is recent is  *)
(* the end of a bucket.                                                    *)
Cuts(times, since, p) ==
  p \in 0..Len(times) /\ \A i \in 1..Len(times) : i > p <=> times[i] > since

InstantsSorted(times) ==
  /\ times \in Seq(0..LastInstant)
  /\ \A i, j \in DOMAIN times : i <= j => times[i] <= times[j]

LEMMA SortedIs ==
  ASSUME NEW times, InstantsSorted(times)
  PROVE  /\ Len(times) \in Nat /\ DOMAIN times = 1..Len(times)
         /\ \A i \in 1..Len(times) : times[i] \in 0..LastInstant /\ times[i] \in Nat
         /\ \A i, j \in 1..Len(times) : i <= j => times[i] <= times[j]
<1>1. times \in Seq(0..LastInstant)
  BY DEF InstantsSorted
<1>2. Len(times) \in Nat /\ DOMAIN times = 1..Len(times) /\ \A i \in 1..Len(times) : times[i] \in 0..LastInstant
  <2>1. PICK S : S = 0..LastInstant
    OBVIOUS
  <2>2. times \in Seq(S)
    BY <1>1, <2>1
  <2>3. Len(times) \in Nat /\ DOMAIN times = 1..Len(times) /\ \A i \in 1..Len(times) : times[i] \in S
    BY <2>2
  <2> QED BY <2>1, <2>3
<1>3. \A i \in 0..LastInstant : i \in Nat
  BY AttemptsAssumption DEF AttemptsAssumption
<1> QED BY <1>2, <1>3 DEF InstantsSorted

LEMMA ListIs ==
  ASSUME NEW S, NEW n \in Nat, NEW list \in [1..n -> S]
  PROVE  list \in Seq(S) /\ Len(list) = n /\ DOMAIN list = 1..n
<1>1. list \in Seq(S)
  OBVIOUS
<1>2. DOMAIN list = 1..n
  OBVIOUS
<1> QED BY <1>1, <1>2

LEMMA CutExists ==
  ASSUME NEW times, InstantsSorted(times), NEW since \in Int
  PROVE  \E p \in 0..Len(times) : Cuts(times, since, p)
<1>1. /\ Len(times) \in Nat /\ DOMAIN times = 1..Len(times) /\ \A i \in DOMAIN times : times[i] \in Nat
      /\ \A i, j \in DOMAIN times : i <= j => times[i] <= times[j]
  BY SortedIs
<1> DEFINE kept == PositionsAfter(times, since)
<1>2. kept = {i \in 1..Len(times) : times[i] > since}
  BY <1>1 DEF PositionsAfter
<1>3. CASE kept = {}
  <2>1. Len(times) \in 0..Len(times) /\ \A i \in 1..Len(times) : ~(i > Len(times)) /\ ~(times[i] > since)
    BY <1>1, <1>2, <1>3
  <2> QED BY <2>1 DEF Cuts
<1>4. CASE kept # {}
  <2>1. kept \in SUBSET Nat
    BY <1>1, <1>2
  <2> HIDE DEF kept
  <2>2. PICK first \in kept : \A y \in kept : first <= y
    BY <1>4, <2>1, LeastIn
  <2>3. first \in 1..Len(times) /\ times[first] > since
    BY <1>2, <2>2
  <2>4. ASSUME NEW i \in 1..Len(times) PROVE i > first - 1 <=> times[i] > since
    <3>1. CASE times[i] > since
      <4>1. first <= i
        BY <1>2, <2>2, <3>1
      <4> QED BY <2>3, <3>1, <4>1
    <3>2. CASE ~(times[i] > since)
      <4>1. ~(first <= i)
        BY <1>1, <2>3, <3>2
      <4> QED BY <2>3, <3>2, <4>1
    <3> QED BY <3>1, <3>2
  <2>5. first - 1 \in 0..Len(times)
    BY <1>1, <2>3
  <2> QED BY <2>4, <2>5 DEF Cuts
<1> QED BY <1>3, <1>4

\* What came after an instant is what is left of a bucket.
KeptFrom(times, since, n, p) ==
  /\ After(times, since) = [k \in 1..(n - p) |-> times[p + k]]
  /\ PositionsAfter(times, since) = (p + 1)..n
  /\ Cardinality(PositionsAfter(times, since)) = n - p /\ IsFiniteSet(PositionsAfter(times, since))

LEMMA AfterIs ==
  ASSUME NEW times, NEW n \in Nat, DOMAIN times = 1..n, Len(times) = n, NEW since, NEW p, Cuts(times, since, p)
  PROVE  KeptFrom(times, since, n, p)
<1>1. p \in 0..n /\ \A i \in 1..n : i > p <=> times[i] > since
  BY DEF Cuts
<1> DEFINE kept == PositionsAfter(times, since)
<1>2. kept = (p + 1)..n
  BY <1>1 DEF PositionsAfter
<1>3. IsFiniteSet(kept) /\ Cardinality(kept) = n - p
  <2>1. IsFiniteSet((p + 1)..n) /\ Cardinality((p + 1)..n) = IF p + 1 > n THEN 0 ELSE n - (p + 1) + 1
    BY <1>1, FS_Interval
  <2> QED BY <1>1, <1>2, <2>1
<1>4. ASSUME NEW i \in kept PROVE Cardinality({j \in kept : j <= i}) = i - p
  <2>1. {j \in kept : j <= i} = (p + 1)..i
    BY <1>1, <1>2
  <2>2. i \in Nat /\ p + 1 <= i
    BY <1>1, <1>2
  <2>3. Cardinality((p + 1)..i) = IF p + 1 > i THEN 0 ELSE i - (p + 1) + 1
    BY <1>1, <2>2, FS_Interval
  <2>4. Cardinality((p + 1)..i) = i - p
    BY <1>1, <2>2, <2>3
  <2> QED BY <2>1, <2>4
<1>5. ASSUME NEW k \in 1..(n - p)
      PROVE  (CHOOSE i \in kept : Cardinality({j \in kept : j <= i}) = k) = p + k
  <2>1. p + k \in kept /\ p + k \in Int
    BY <1>1, <1>2
  <2> HIDE DEF kept
  <2>2. Cardinality({j \in kept : j <= p + k}) = k
    BY <1>1, <1>4, <2>1
  <2>3. \A i \in kept : Cardinality({j \in kept : j <= i}) = k => i = p + k
    <3>1. \A i \in kept : i \in Int
      BY <1>1, <1>2
    <3> QED BY <1>1, <1>4, <3>1
  <2> QED BY <2>1, <2>2, <2>3
<1>6. After(times, since) =
        [k \in 1..Cardinality(kept) |-> times[CHOOSE i \in kept : Cardinality({j \in kept : j <= i}) = k]]
  BY DEF After
<1> HIDE DEF kept
<1>7. After(times, since) = [k \in 1..(n - p) |-> times[p + k]]
  BY <1>3, <1>5, <1>6
<1> QED BY <1>2, <1>3, <1>7 DEF kept, KeptFrom

LEMMA AfterSorted ==
  ASSUME NEW times, InstantsSorted(times), NEW since \in Int
  PROVE  /\ InstantsSorted(After(times, since))
         /\ Len(After(times, since)) = Cardinality(PositionsAfter(times, since))
         /\ \A i \in 1..Len(After(times, since)) : After(times, since)[i] > since
         /\ \A i \in DOMAIN After(times, since) : \E j \in DOMAIN times : After(times, since)[i] = times[j]
<1>1. PICK n \in Nat : n = Len(times) /\ DOMAIN times = 1..n
  BY SortedIs
<1>2. PICK p \in 0..n : Cuts(times, since, p)
  BY <1>1, CutExists
<1>k. PICK kept : kept = After(times, since)
  OBVIOUS
<1>t. Len(times) = n /\ DOMAIN times = 1..n /\ Cuts(times, since, p)
  BY <1>1, <1>2
<1>a. KeptFrom(times, since, n, p)
  BY <1>t, AfterIs
<1>3. kept = [k \in 1..(n - p) |-> times[p + k]] /\ Cardinality(PositionsAfter(times, since)) = n - p
  BY <1>k, <1>a DEF KeptFrom
<1>4. n - p \in Nat /\ \A k \in 1..(n - p) : p + k \in 1..n /\ p + k > p
  BY <1>1
<1>5. /\ \A i \in 1..n : times[i] \in 0..LastInstant
      /\ \A i, j \in 1..n : i <= j => times[i] <= times[j]
  BY <1>1, SortedIs
<1>6. kept \in [1..(n - p) -> 0..LastInstant]
  BY <1>3, <1>4, <1>5
<1>7. kept \in Seq(0..LastInstant) /\ Len(kept) = n - p /\ DOMAIN kept = 1..(n - p)
  <2>1. PICK S, m : S = 0..LastInstant /\ m = n - p /\ m \in Nat
    BY <1>4
  <2>2. kept \in [1..m -> S]
    BY <1>6, <2>1
  <2>3. kept \in Seq(S) /\ Len(kept) = m /\ DOMAIN kept = 1..m
    BY <2>1, <2>2, ListIs
  <2> QED BY <2>1, <2>3
<1>8. \A i, j \in 1..(n - p) : i <= j => kept[i] <= kept[j]
  <2>1. \A i, j \in 1..(n - p) : i <= j => p + i <= p + j
    BY <1>1
  <2> QED BY <1>3, <1>4, <1>5, <2>1
<1>9. \A i \in 1..(n - p) : kept[i] = times[p + i] /\ p + i \in 1..n
  BY <1>3, <1>4
<1>10. \A i \in 1..(n - p) : kept[i] > since
  BY <1>1, <1>2, <1>4, <1>9 DEF Cuts
<1>11. InstantsSorted(kept)
  BY <1>7, <1>8 DEF InstantsSorted
<1> QED BY <1>1, <1>3, <1>7, <1>9, <1>10, <1>11, <1>k

\* Dropping what is old first changes nothing of what is recent later.
LEMMA AfterTwice ==
  ASSUME NEW times, InstantsSorted(times), NEW since \in Int, NEW later \in Int, since <= later
  PROVE  After(After(times, since), later) = After(times, later)
<1>1. PICK n \in Nat : n = Len(times) /\ DOMAIN times = 1..n
  BY SortedIs
<1>2. PICK p \in 0..n : Cuts(times, since, p)
  BY <1>1, CutExists
<1>3. PICK q \in 0..n : Cuts(times, later, q)
  BY <1>1, CutExists
<1>4. \A i \in 1..n : times[i] \in Int
  BY <1>1, SortedIs
<1>5. p <= q
  <2> SUFFICES ASSUME q < p PROVE FALSE
    BY <1>2, <1>3
  <2>1. p \in 1..n /\ p > q /\ ~(p > p)
    BY <1>2, <1>3
  <2>2. times[p] > later /\ ~(times[p] > since) /\ times[p] \in Int
    BY <1>1, <1>2, <1>3, <1>4, <2>1 DEF Cuts
  <2> QED BY <2>2
<1> DEFINE kept == After(times, since)
<1>6. kept = [k \in 1..(n - p) |-> times[p + k]]
  BY <1>1, <1>2, AfterIs DEF KeptFrom
<1>7. After(times, later) = [k \in 1..(n - q) |-> times[q + k]]
  BY <1>1, <1>3, AfterIs DEF KeptFrom
<1>8. InstantsSorted(kept)
  BY AfterSorted
<1> HIDE DEF kept
<1>9. n - p \in Nat /\ DOMAIN kept = 1..(n - p) /\ Len(kept) = n - p
  <2>1. n - p \in Nat /\ DOMAIN kept = 1..(n - p)
    BY <1>2, <1>6
  <2> QED BY <1>8, <2>1 DEF InstantsSorted
<1>10. Cuts(kept, later, q - p)
  <2>1. q - p \in 0..(n - p)
    BY <1>2, <1>3, <1>5
  <2>2. ASSUME NEW i \in 1..(n - p) PROVE i > q - p <=> kept[i] > later
    <3>1. kept[i] = times[p + i] /\ p + i \in 1..n /\ (i > q - p <=> p + i > q)
      BY <1>2, <1>3, <1>6
    <3> QED BY <1>1, <1>3, <3>1 DEF Cuts
  <2> QED BY <1>9, <2>1, <2>2 DEF Cuts
<1>11. After(kept, later) = [k \in 1..((n - p) - (q - p)) |-> kept[(q - p) + k]]
  BY <1>9, <1>10, AfterIs DEF KeptFrom
<1>12. (n - p) - (q - p) = n - q
  BY <1>2, <1>3
<1>13. ASSUME NEW k \in 1..(n - q) PROVE kept[(q - p) + k] = times[q + k]
  <2>1. (q - p) + k \in 1..(n - p) /\ p + ((q - p) + k) = q + k
    BY <1>2, <1>3, <1>5
  <2> QED BY <1>6, <2>1
<1>14. After(kept, later) = [k \in 1..(n - q) |-> times[q + k]]
  BY <1>11, <1>12, <1>13
<1> QED BY <1>7, <1>14 DEF kept

\* A failure that comes last is recent.
LEMMA AfterAppend ==
  ASSUME NEW times, InstantsSorted(times), NEW since \in Int, NEW at \in 0..LastInstant, at > since,
         \A i \in DOMAIN times : times[i] <= at
  PROVE  /\ After(Append(times, at), since) = Append(After(times, since), at)
         /\ InstantsSorted(Append(times, at))
         /\ PositionsAfter(Append(times, at), since) \subseteq PositionsAfter(times, since) \cup {Len(times) + 1}
         /\ \A i \in DOMAIN Append(times, at) : Append(times, at)[i] <= at
<1>1. PICK n \in Nat : n = Len(times) /\ DOMAIN times = 1..n
  BY SortedIs
<1>2. PICK p \in 0..n : Cuts(times, since, p)
  BY <1>1, CutExists
<1> DEFINE more == Append(times, at)
           kept == After(times, since)
<1>3. /\ DOMAIN more = 1..(n + 1) /\ Len(more) = n + 1 /\ n + 1 \in Nat /\ more \in Seq(0..LastInstant)
      /\ \A i \in 1..n : more[i] = times[i] /\ more[i] \in Nat /\ more[i] <= at
      /\ more[n + 1] = at /\ \A i, j \in 1..n : i <= j => times[i] <= times[j]
  <2>1. times \in Seq(0..LastInstant)
    BY DEF InstantsSorted
  <2>2. /\ DOMAIN more = 1..(n + 1) /\ Len(more) = n + 1 /\ n + 1 \in Nat /\ more \in Seq(0..LastInstant)
        /\ \A i \in 1..n : more[i] = times[i]
    BY <1>1, <2>1
  <2>3. \A i \in 1..n : times[i] \in Nat /\ times[i] <= at
    BY <1>1, SortedIs
  <2>4. more[n + 1] = at
    BY <1>1, <2>1
  <2>5. \A i, j \in 1..n : i <= j => times[i] <= times[j]
    BY <1>1, SortedIs
  <2> QED BY <2>2, <2>3, <2>4, <2>5
<1> HIDE DEF more
<1>4. \A i \in 1..(n + 1) : i \in 1..n \/ i = n + 1
  BY <1>1
<1>5. InstantsSorted(more)
  <2>1. ASSUME NEW i \in 1..(n + 1), NEW j \in 1..(n + 1), i <= j PROVE more[i] <= more[j]
    <3>1. CASE j \in 1..n
      <4>1. i \in 1..n
        BY <2>1, <3>1
      <4> QED BY <1>3, <2>1, <3>1, <4>1
    <3>2. CASE j = n + 1
      BY <1>3, <1>4, <3>2
    <3> QED BY <1>4, <3>1, <3>2
  <2> QED BY <1>3, <2>1 DEF InstantsSorted
<1>6. Cuts(more, since, p)
  <2>1. p \in 0..(n + 1)
    BY <1>2
  <2>2. ASSUME NEW i \in 1..(n + 1) PROVE i > p <=> more[i] > since
    <3>1. CASE i \in 1..n
      BY <1>1, <1>2, <1>3, <3>1 DEF Cuts
    <3>2. CASE i = n + 1
      BY <1>2, <1>3, <3>2
    <3> QED BY <1>4, <3>1, <3>2
  <2> QED BY <1>3, <2>1, <2>2 DEF Cuts
<1>7. After(more, since) = [k \in 1..((n + 1) - p) |-> more[p + k]]
  BY <1>3, <1>6, AfterIs DEF KeptFrom
<1>8. kept = [k \in 1..(n - p) |-> times[p + k]]
  BY <1>1, <1>2, AfterIs DEF KeptFrom
<1>9. InstantsSorted(kept)
  BY AfterSorted
<1> HIDE DEF kept
<1>10. n - p \in Nat /\ kept \in Seq(0..LastInstant) /\ Len(kept) = n - p /\ DOMAIN kept = 1..(n - p)
  <2>1. n - p \in Nat /\ DOMAIN kept = 1..(n - p)
    BY <1>2, <1>8
  <2> QED BY <1>9, <2>1 DEF InstantsSorted
<1>11. Append(kept, at) = [k \in 1..((n - p) + 1) |-> IF k = (n - p) + 1 THEN at ELSE kept[k]]
  <2>1. PICK m \in Nat : m = n - p
    BY <1>10
  <2>2. Append(kept, at) \in Seq(0..LastInstant) /\ Len(Append(kept, at)) = m + 1 /\ DOMAIN Append(kept, at) = 1..(m + 1)
    BY <1>10, <2>1
  <2>3. \A k \in 1..(m + 1) : Append(kept, at)[k] = IF k = m + 1 THEN at ELSE kept[k]
    BY <1>10, <2>1
  <2>4. Append(kept, at) = [k \in 1..(m + 1) |-> Append(kept, at)[k]]
    <3>1. \A s \in Seq(0..LastInstant) : s = [k \in DOMAIN s |-> s[k]]
      OBVIOUS
    <3> QED BY <2>2, <3>1
  <2> QED BY <2>1, <2>3, <2>4
<1>12. (n + 1) - p = (n - p) + 1
  BY <1>2
<1>13. ASSUME NEW k \in 1..((n - p) + 1) PROVE more[p + k] = IF k = (n - p) + 1 THEN at ELSE kept[k]
  <2>1. CASE k = (n - p) + 1
    <3>1. p + k = n + 1
      BY <1>2, <2>1
    <3> QED BY <1>3, <2>1, <3>1
  <2>2. CASE k # (n - p) + 1
    <3>1. k \in 1..(n - p) /\ p + k \in 1..n
      BY <1>2, <1>10, <2>2
    <3> QED BY <1>3, <1>8, <2>2, <3>1
  <2> QED BY <2>1, <2>2
<1>14. After(more, since) = Append(kept, at)
  BY <1>7, <1>11, <1>12, <1>13
<1>15. PositionsAfter(more, since) \subseteq PositionsAfter(times, since) \cup {n + 1}
  BY <1>1, <1>3, <1>4 DEF PositionsAfter
<1>16. \A i \in 1..(n + 1) : more[i] <= at
  BY <1>3, <1>4
<1> QED BY <1>1, <1>3, <1>5, <1>14, <1>15, <1>16 DEF more, kept

-----------------------------------------------------------------------------
Orderly(times) == InstantsSorted(times) /\ \A i \in DOMAIN times : times[i] <= instant
Started(map, k) == IF map[k] = None THEN <<>> ELSE map[k]

AttemptInv ==
  /\ AttemptsTypeOK /\ FailuresKept
  /\ \A k \in Buckets : Orderly(Failures(k)) /\ Orderly(failed[k])

\* The logins past the check of a key.
PastCheck(k) == {h \in Handlers : Present(trying[h]) /\ k \in {trying[h], Address}}

AttemptLimits(H) ==
  /\ \A h \in Handlers \ H : ~Present(trying[h])
  /\ \A k \in Buckets :
       Within(MaxPer[k] + Cardinality(H) - 1, PositionsAfter(failed[k], instant - Window), PastCheck(k))

LEMMA EmptyKept ==
  /\ InstantsSorted(<<>>) /\ \A since \in Int : After(<<>>, since) = <<>> /\ PositionsAfter(<<>>, since) = {}
<1>1. InstantsSorted(<<>>)
  BY DEF InstantsSorted
<1>2. ASSUME NEW since \in Int PROVE After(<<>>, since) = <<>> /\ PositionsAfter(<<>>, since) = {}
  <2>1. PositionsAfter(<<>>, since) = {}
    BY DEF PositionsAfter
  <2>2. Len(After(<<>>, since)) = 0 /\ InstantsSorted(After(<<>>, since))
    BY <1>1, <2>1, AfterSorted, FS_EmptySet
  <2>3. \A list : InstantsSorted(list) /\ Len(list) = 0 => list = <<>>
    BY DEF InstantsSorted
  <2> QED BY <2>1, <2>2, <2>3
<1> QED BY <1>1, <1>2

LEMMA SinceTyped ==
  ASSUME AttemptsTypeOK
  PROVE  instant - Window \in Int /\ instant \in 0..LastInstant /\ instant \in Nat /\ instant > instant - Window
         /\ Window \in Nat
<1>1. Window \in Nat \ {0} /\ LastInstant \in Nat
  BY AttemptsAssumption DEF AttemptsAssumption
<1>2. instant \in 0..LastInstant
  BY DEF AttemptsTypeOK
<1> QED BY <1>1, <1>2

LEMMA AttemptInitFits == AttemptsInit => AttemptInv
<1> SUFFICES ASSUME AttemptsInit PROVE AttemptInv
  OBVIOUS
<1>1. /\ instant = 0 /\ trying = [h \in Handlers |-> None]
      /\ buckets = [k \in Buckets |-> None] /\ failed = [k \in Buckets |-> <<>>]
  BY DEF AttemptsInit
<1>2. AttemptsTypeOK
  <2>1. 0 \in 0..LastInstant
    BY AttemptsAssumption DEF AttemptsAssumption
  <2>2. <<>> \in Seq(0..LastInstant)
    BY EmptyKept DEF InstantsSorted
  <2> QED BY <1>1, <2>1, <2>2 DEF AttemptsTypeOK
<1>3. \A k \in Buckets : Failures(k) = <<>> /\ failed[k] = <<>>
  BY <1>1 DEF Failures
<1>4. Orderly(<<>>)
  BY EmptyKept DEF Orderly
<1>5. FailuresKept
  BY <1>3 DEF FailuresKept
<1> QED BY <1>2, <1>3, <1>4, <1>5 DEF AttemptInv

LEMMA AttemptInitLimits ==
  ASSUME AttemptsInit, NEW H \in SUBSET Handlers, H # {}, IsFiniteSet(H)
  PROVE  AttemptLimits(H)
<1>1. \A h \in Handlers : ~Present(trying[h])
  BY DEF AttemptsInit, Present
<1>2. ASSUME NEW k \in Buckets
      PROVE  Within(MaxPer[k] + Cardinality(H) - 1, PositionsAfter(failed[k], instant - Window), PastCheck(k))
  <2>1. PastCheck(k) = {}
    BY <1>1 DEF PastCheck
  <2>2. PositionsAfter(failed[k], instant - Window) = {}
    BY DEF AttemptsInit, PositionsAfter
  <2>3. MaxPer[k] \in Nat /\ Cardinality(H) \in Nat /\ Cardinality(H) # 0 /\ MaxPer[k] # 0
    BY FS_CardinalityType, FS_EmptySet, AttemptsAssumption DEF AttemptsAssumption
  <2>4. IsFiniteSet({}) /\ Cardinality({}) = 0
    BY FS_EmptySet
  <2>5. 0 + 0 <= MaxPer[k] + Cardinality(H) - 1
    BY <2>3
  <2> QED BY <2>1, <2>2, <2>4, <2>5 DEF Within
<1> QED BY <1>1, <1>2 DEF AttemptLimits

\* What a key may do, and what it is told.
LEMMA AllowedIs ==
  ASSUME AttemptInv, NEW k \in Buckets, Allowed(k)
  PROVE  Cardinality(PositionsAfter(failed[k], instant - Window)) < MaxPer[k]
<1> DEFINE since == instant - Window
<1>1. since \in Int /\ instant \in Nat /\ Window \in Nat /\ MaxPer[k] \in Nat /\ MaxPer[k] # 0
  BY SinceTyped, AttemptsAssumption DEF AttemptInv, AttemptsAssumption
<1>2. InstantsSorted(Failures(k)) /\ InstantsSorted(failed[k]) /\ Recent(Failures(k)) = Recent(failed[k])
  BY DEF AttemptInv, Orderly, FailuresKept
<1> DEFINE recent == Recent(failed[k])
<1>3. /\ InstantsSorted(recent) /\ Len(recent) = Cardinality(PositionsAfter(failed[k], since))
      /\ \A i \in 1..Len(recent) : recent[i] > since
  BY <1>1, <1>2, AfterSorted DEF Recent
<1>4. RetryAfter(recent, MaxPer[k]) <= 0
  BY <1>2 DEF Allowed
<1> HIDE DEF recent
<1>5. Len(recent) \in Nat /\ \A i \in 1..Len(recent) : recent[i] \in Nat
  BY <1>3, SortedIs
<1>6. ASSUME Len(recent) >= MaxPer[k] PROVE FALSE
  <2>1. PICK at : at = Len(recent) - MaxPer[k] + 1 /\ at \in 1..Len(recent)
    BY <1>1, <1>5, <1>6
  <2>2. recent[at] \in Nat /\ recent[at] > instant - Window
    BY <1>3, <1>5, <2>1
  <2>3. recent[at] + Window - instant <= 0
    BY <1>1, <1>4, <1>5, <1>6, <2>1 DEF RetryAfter
  <2> QED BY <1>1, <2>2, <2>3
<1> QED BY <1>1, <1>3, <1>5, <1>6

LEMMA WaitMeans == AttemptInv => WaitIsExact
<1> SUFFICES ASSUME AttemptInv, NEW k \in Buckets, NEW wait, wait = RetryAfter(Recent(Failures(k)), MaxPer[k]), wait > 0
             PROVE  LeftAfter(k, wait) < MaxPer[k] /\ LeftAfter(k, wait - 1) >= MaxPer[k]
  BY DEF WaitIsExact
<1>1. /\ instant - Window \in Int /\ instant \in Nat /\ Window \in Nat /\ MaxPer[k] \in Nat /\ MaxPer[k] # 0
  BY SinceTyped, AttemptsAssumption DEF AttemptInv, AttemptsAssumption
<1>2. PICK recent : recent = Recent(Failures(k))
  OBVIOUS
<1>3. InstantsSorted(recent)
  BY <1>1, <1>2, AfterSorted DEF AttemptInv, Orderly, Recent
<1>4. PICK n \in Nat : /\ n = Len(recent) /\ DOMAIN recent = 1..n /\ \A i \in 1..n : recent[i] \in Nat
                       /\ \A i, j \in 1..n : i <= j => recent[i] <= recent[j]
  BY <1>3, SortedIs
<1>5. n >= MaxPer[k]
  BY <1>1, <1>2, <1>4 DEF RetryAfter
<1>6. PICK at : at = n - MaxPer[k] + 1 /\ at \in 1..n
  BY <1>1, <1>4, <1>5
<1>7. wait = recent[at] + Window - instant /\ recent[at] \in Nat
  BY <1>1, <1>2, <1>4, <1>5, <1>6 DEF RetryAfter
<1>8. /\ LeftAfter(k, wait) = Cardinality(PositionsAfter(recent, recent[at]))
      /\ LeftAfter(k, wait - 1) = Cardinality(PositionsAfter(recent, recent[at] - 1))
  <2>1. instant + wait - Window = recent[at] /\ instant + (wait - 1) - Window = recent[at] - 1
    BY <1>1, <1>7
  <2> QED BY <1>2, <2>1 DEF LeftAfter
<1>9. PositionsAfter(recent, recent[at]) \subseteq (at + 1)..n
  <2>1. ASSUME NEW i \in 1..n, recent[i] > recent[at] PROVE i \in (at + 1)..n
    <3>1. ~(i <= at)
      BY <1>4, <1>6, <2>1
    <3> QED BY <1>4, <1>6, <3>1
  <2> QED BY <1>4, <2>1 DEF PositionsAfter
<1>10. at..n \subseteq PositionsAfter(recent, recent[at] - 1) /\ PositionsAfter(recent, recent[at] - 1) \subseteq 1..n
  <2>1. ASSUME NEW i \in at..n PROVE i \in 1..n /\ recent[i] > recent[at] - 1
    <3>1. i \in 1..n /\ at <= i
      BY <1>4, <1>6
    <3> QED BY <1>4, <1>6, <3>1
  <2> QED BY <1>4, <2>1 DEF PositionsAfter
<1>11. IsFiniteSet((at + 1)..n) /\ Cardinality((at + 1)..n) = n - at
  <2>1. IsFiniteSet((at + 1)..n) /\ Cardinality((at + 1)..n) = IF at + 1 > n THEN 0 ELSE n - (at + 1) + 1
    <3>1. at + 1 \in Int /\ n \in Int
      BY <1>4, <1>6
    <3> QED BY <3>1, FS_Interval
  <2> QED BY <1>4, <1>6, <2>1
<1>12. IsFiniteSet(1..n) /\ Cardinality(at..n) = MaxPer[k]
  <2>1. IsFiniteSet(1..n) /\ Cardinality(at..n) = IF at > n THEN 0 ELSE n - at + 1
    <3>1. at \in Int /\ n \in Int /\ 1 \in Int
      BY <1>4, <1>6
    <3> QED BY <3>1, FS_Interval
  <2> QED BY <1>1, <1>4, <1>6, <2>1
<1>13. Cardinality(PositionsAfter(recent, recent[at])) <= n - at /\ Cardinality(PositionsAfter(recent, recent[at])) \in Nat
  BY <1>9, <1>11, FS_Subset, FS_CardinalityType
<1>14. Cardinality(at..n) <= Cardinality(PositionsAfter(recent, recent[at] - 1))
  BY <1>10, <1>12, FS_Subset
<1>15. LeftAfter(k, wait) < MaxPer[k]
  BY <1>1, <1>6, <1>8, <1>13
<1>16. LeftAfter(k, wait - 1) >= MaxPer[k]
  <2>1. Cardinality(PositionsAfter(recent, recent[at] - 1)) \in Nat
    BY <1>10, <1>12, FS_Subset, FS_CardinalityType
  <2> QED BY <1>1, <1>8, <1>12, <1>14, <2>1
<1> QED BY <1>15, <1>16

-----------------------------------------------------------------------------
\* A bucket and the failures it stands for, after a step that takes no time.
Agree(b, f) == Orderly(b) /\ Orderly(f) /\ Recent(b) = Recent(f)

LEMMA SameInstant ==
  ASSUME AttemptInv, instant' = instant, AttemptsTypeOK', \A k \in Buckets : Agree(Failures(k)', failed'[k])
  PROVE  AttemptInv'
<1>1. ASSUME NEW k \in Buckets
      PROVE  /\ Orderly(Failures(k))' /\ Orderly(failed[k])' /\ (Recent(Failures(k)) = Recent(failed[k]))'
  <2>1. PICK b, f : b = Failures(k)' /\ f = failed'[k]
    OBVIOUS
  <2>2. Agree(b, f)
    BY <2>1
  <2>3. Orderly(b)' /\ Orderly(f)' /\ (Recent(b) = Recent(f))'
    BY <2>2 DEF Agree, Orderly, Recent, InstantsSorted
  <2> QED BY <2>1, <2>3
<1> QED BY <1>1 DEF AttemptInv, FailuresKept

LEMMA AgreeNow == ASSUME AttemptInv, NEW k \in Buckets PROVE Agree(Failures(k), failed[k])
  BY DEF AttemptInv, FailuresKept, Agree

LEMMA AgreeNothing == ASSUME AttemptsTypeOK PROVE Agree(<<>>, <<>>)
  BY EmptyKept DEF Agree, Orderly

\* A bucket from which what is old was dropped.
LEMMA AgreeFiltered ==
  ASSUME AttemptsTypeOK, NEW b, NEW f, Agree(b, f)
  PROVE  Agree(Recent(b), f) /\ Recent(b) \in Seq(0..LastInstant)
<1> DEFINE since == instant - Window
<1>1. since \in Int /\ InstantsSorted(b) /\ \A i \in DOMAIN b : b[i] <= instant
  BY SinceTyped DEF Agree, Orderly
<1>2. PICK r : r = Recent(b)
  OBVIOUS
<1>3. InstantsSorted(r) /\ \A i \in DOMAIN r : \E j \in DOMAIN b : r[i] = b[j]
  BY <1>1, <1>2, AfterSorted DEF Recent
<1>4. Orderly(r)
  BY <1>1, <1>3 DEF Orderly
<1>5. Recent(r) = Recent(b)
  <2>1. since <= since
    BY <1>1
  <2> QED BY <1>1, <1>2, <2>1, AfterTwice DEF Recent
<1> QED BY <1>2, <1>3, <1>4, <1>5 DEF Agree, InstantsSorted

\* A failure that is counted.
LEMMA AgreeFailed ==
  ASSUME AttemptsTypeOK, NEW b, NEW f, Agree(b, f)
  PROVE  /\ Agree(Append(b, instant), Append(f, instant))
         /\ PositionsAfter(Append(f, instant), instant - Window) \subseteq
              PositionsAfter(f, instant - Window) \cup {Len(f) + 1}
<1> PICK since, at : since = instant - Window /\ at = instant
  OBVIOUS
<1>1. since \in Int /\ at \in 0..LastInstant /\ at > since
  BY SinceTyped
<1>2. /\ InstantsSorted(b) /\ InstantsSorted(f) /\ \A i \in DOMAIN b : b[i] <= at
      /\ \A i \in DOMAIN f : f[i] <= at
  BY DEF Agree, Orderly
<1>3. /\ After(Append(b, at), since) = Append(After(b, since), at) /\ InstantsSorted(Append(b, at))
      /\ \A i \in DOMAIN Append(b, at) : Append(b, at)[i] <= at
  BY <1>1, <1>2, AfterAppend
<1>4. /\ After(Append(f, at), since) = Append(After(f, since), at) /\ InstantsSorted(Append(f, at))
      /\ PositionsAfter(Append(f, at), since) \subseteq PositionsAfter(f, since) \cup {Len(f) + 1}
      /\ \A i \in DOMAIN Append(f, at) : Append(f, at)[i] <= at
  BY <1>1, <1>2, AfterAppend
<1>5. After(b, since) = After(f, since)
  BY DEF Agree, Recent
<1>6. Orderly(Append(b, at)) /\ Orderly(Append(f, at))
  BY <1>3, <1>4 DEF Orderly
<1>7. Recent(Append(b, at)) = Recent(Append(f, at))
  BY <1>3, <1>4, <1>5 DEF Recent
<1> QED BY <1>4, <1>6, <1>7 DEF Agree

LEMMA BucketIs ==
  ASSUME AttemptsTypeOK, NEW k \in Buckets
  PROVE  /\ buckets[k] \in Seq(0..LastInstant) \cup {None} /\ Failures(k) \in Seq(0..LastInstant)
         /\ failed[k] \in Seq(0..LastInstant)
<1>1. buckets[k] \in Seq(0..LastInstant) \cup {None} /\ failed[k] \in Seq(0..LastInstant)
  BY DEF AttemptsTypeOK
<1>2. <<>> \in Seq(0..LastInstant)
  OBVIOUS
<1> QED BY <1>1, <1>2 DEF Failures

LEMMA NoneIsNoBucket == \A list \in Seq(0..LastInstant) : list # None
  BY AttemptsAssumption DEF AttemptsAssumption

LEMMA AssertAllowedKeeps == ASSUME AttemptInv, NEW h \in Handlers, AssertAllowed(h) PROVE AttemptInv'
<1>1. PICK id \in Identifiers :
        /\ buckets' = [k \in Buckets |-> IF k \in {id, Address} THEN Filtered(k) ELSE buckets[k]]
        /\ trying' = [trying EXCEPT ![h] = IF Allowed(id) /\ Allowed(Address) THEN id ELSE None]
        /\ instant' = instant /\ failed' = failed
  BY DEF AssertAllowed
<1>2. AttemptsTypeOK
  BY DEF AttemptInv
<1>3. ASSUME NEW k \in Buckets
      PROVE  buckets'[k] \in Seq(0..LastInstant) \cup {None} /\ Agree(Failures(k)', failed'[k])
  <2>1. Agree(Failures(k), failed[k])
    BY AgreeNow
  <2>2. CASE buckets'[k] = buckets[k]
    <3>1. Failures(k)' = Failures(k)
      BY <2>2 DEF Failures
    <3> QED BY <1>1, <1>2, <2>1, <2>2, <3>1, BucketIs
  <2>3. CASE buckets'[k] # buckets[k]
    <3>1. buckets[k] # None /\ buckets'[k] = Recent(buckets[k])
      BY <1>1, <2>3 DEF Filtered
    <3>2. Failures(k) = buckets[k]
      BY <3>1 DEF Failures
    <3>3. Agree(Recent(buckets[k]), failed[k]) /\ Recent(buckets[k]) \in Seq(0..LastInstant)
      BY <1>2, <2>1, <3>2, AgreeFiltered
    <3>4. Failures(k)' = Recent(buckets[k])
      BY <3>1, <3>3, NoneIsNoBucket DEF Failures
    <3> QED BY <1>1, <3>1, <3>3, <3>4
  <2> QED BY <2>2, <2>3
<1>4. AttemptsTypeOK'
  <2>1. DOMAIN buckets' = Buckets /\ buckets' = [k \in Buckets |-> buckets'[k]]
    BY <1>1
  <2>2. buckets' \in [Buckets -> Seq(0..LastInstant) \cup {None}]
    BY <1>3, <2>1
  <2>3. trying' \in [Handlers -> Identifiers \cup {None}]
    BY <1>1, <1>2 DEF AttemptsTypeOK
  <2> QED BY <1>1, <1>2, <2>2, <2>3 DEF AttemptsTypeOK
<1> QED BY <1>1, <1>3, <1>4, SameInstant

\* The bucket of a key once the map is pruned.
LEMMA PrunedIs ==
  ASSUME NEW map, NEW k \in Buckets
  PROVE  /\ DOMAIN map = Buckets => DOMAIN Pruned(map) = Buckets
         /\ Pruned(map)[k] = map[k] \/ (Pruned(map)[k] = None /\ (map[k] = None \/ Recent(map[k]) = <<>>))
  BY DEF Pruned, Present, SomeRecent

LEMMA RegisterFailureKeeps == ASSUME AttemptInv, NEW h \in Handlers, RegisterFailure(h) PROVE AttemptInv'
<1> DEFINE keys == {trying[h], Address}
<1>1. PICK map :
        /\ map = [k \in Buckets |-> IF k \in keys THEN Append(Failures(k), instant) ELSE buckets[k]]
        /\ buckets' = Pruned(map)
        /\ failed' = [k \in Buckets |-> IF k \in keys THEN Append(failed[k], instant) ELSE failed[k]]
        /\ trying' = [trying EXCEPT ![h] = None] /\ instant' = instant
  BY DEF RegisterFailure
<1> HIDE DEF keys
<1>2. AttemptsTypeOK
  BY DEF AttemptInv
<1>3. ASSUME NEW k \in Buckets
      PROVE  /\ buckets'[k] \in Seq(0..LastInstant) \cup {None} /\ failed'[k] \in Seq(0..LastInstant)
             /\ Agree(Failures(k)', failed'[k])
  <2>1. Agree(Failures(k), failed[k])
    BY AgreeNow
  <2>2. PICK b : b = Started(map, k)
    OBVIOUS
  <2>3. Agree(b, failed'[k]) /\ map[k] \in Seq(0..LastInstant) \cup {None}
    <3>1. CASE k \in keys
      <4>1. map[k] = Append(Failures(k), instant) /\ failed'[k] = Append(failed[k], instant)
        BY <1>1, <3>1
      <4>2. Agree(Append(Failures(k), instant), Append(failed[k], instant))
        BY <1>2, <2>1, AgreeFailed
      <4>3. map[k] \in Seq(0..LastInstant)
        BY <4>1, <4>2 DEF Agree, Orderly, InstantsSorted
      <4>4. b = map[k]
        BY <2>2, <4>3, NoneIsNoBucket DEF Started
      <4> QED BY <4>1, <4>2, <4>3, <4>4
    <3>2. CASE k \notin keys
      <4>1. map[k] = buckets[k] /\ failed'[k] = failed[k]
        BY <1>1, <3>2
      <4>2. b = Failures(k)
        BY <2>2, <4>1 DEF Started, Failures
      <4> QED BY <1>2, <2>1, <4>1, <4>2, BucketIs
    <3> QED BY <3>1, <3>2
  <2>4. /\ buckets'[k] = map[k] \/ (buckets'[k] = None /\ (map[k] = None \/ Recent(map[k]) = <<>>))
    BY <1>1, PrunedIs
  <2>5. Agree(Failures(k)', failed'[k])
    <3>1. CASE Failures(k)' = b
      BY <2>3, <3>1
    <3>2. CASE Failures(k)' # b
      <4>1. buckets'[k] = None /\ map[k] # None /\ Recent(map[k]) = <<>>
        BY <2>2, <2>4, <3>2 DEF Failures, Started
      <4>2. Failures(k)' = <<>> /\ b = map[k]
        BY <2>2, <4>1 DEF Failures, Started
      <4>3. Recent(failed'[k]) = <<>> /\ Orderly(failed'[k])
        BY <2>3, <4>1, <4>2 DEF Agree
      <4>4. Agree(<<>>, <<>>)
        BY <1>2, AgreeNothing
      <4>5. Recent(<<>>) = <<>>
        BY <1>2, EmptyKept, SinceTyped DEF Recent
      <4> QED BY <4>2, <4>3, <4>4, <4>5 DEF Agree
    <3> QED BY <3>1, <3>2
  <2>6. failed'[k] \in Seq(0..LastInstant)
    BY <2>3 DEF Agree, Orderly, InstantsSorted
  <2> QED BY <2>3, <2>4, <2>5, <2>6
<1>4. AttemptsTypeOK'
  <2>1. buckets' = [k \in Buckets |-> buckets'[k]]
    BY <1>1 DEF Pruned
  <2>2. buckets' \in [Buckets -> Seq(0..LastInstant) \cup {None}]
    BY <1>3, <2>1
  <2>3. failed' \in [Buckets -> Seq(0..LastInstant)]
    BY <1>1, <1>3
  <2>4. trying' \in [Handlers -> Identifiers \cup {None}]
    BY <1>1, <1>2 DEF AttemptsTypeOK
  <2> QED BY <1>1, <1>2, <2>2, <2>3, <2>4 DEF AttemptsTypeOK
<1> QED BY <1>1, <1>3, <1>4, SameInstant

LEMMA RegisterSuccessKeeps == ASSUME AttemptInv, NEW h \in Handlers, RegisterSuccess(h) PROVE AttemptInv'
<1>1. /\ buckets' = [buckets EXCEPT ![trying[h]] = None] /\ failed' = [failed EXCEPT ![trying[h]] = <<>>]
      /\ trying' = [trying EXCEPT ![h] = None] /\ instant' = instant /\ AttemptsTypeOK
  BY DEF RegisterSuccess, AttemptInv
<1>2. ASSUME NEW k \in Buckets
      PROVE  Agree(Failures(k)', failed'[k])
  <2>1. CASE k = trying[h]
    <3>1. buckets'[k] = None /\ failed'[k] = <<>>
      BY <1>1, <2>1 DEF AttemptsTypeOK
    <3> QED BY <1>1, <3>1, AgreeNothing DEF Failures
  <2>2. CASE k # trying[h]
    <3>1. buckets'[k] = buckets[k] /\ failed'[k] = failed[k]
      BY <1>1, <2>2 DEF AttemptsTypeOK
    <3> QED BY <3>1, AgreeNow DEF Failures
  <2> QED BY <2>1, <2>2
<1>3. AttemptsTypeOK'
  <2>1. <<>> \in Seq(0..LastInstant)
    OBVIOUS
  <2> QED BY <1>1, <2>1 DEF AttemptsTypeOK
<1> QED BY <1>1, <1>2, <1>3, SameInstant

LEMMA LoginAbortsKeeps == ASSUME AttemptInv, NEW h \in Handlers, LoginAborts(h) PROVE AttemptInv'
<1>1. /\ trying' = [trying EXCEPT ![h] = None] /\ instant' = instant /\ buckets' = buckets /\ failed' = failed
      /\ AttemptsTypeOK
  BY DEF LoginAborts, AttemptInv
<1>2. \A k \in Buckets : Agree(Failures(k)', failed'[k])
  BY <1>1, AgreeNow DEF Failures
<1>3. AttemptsTypeOK'
  BY <1>1 DEF AttemptsTypeOK
<1> QED BY <1>1, <1>2, <1>3, SameInstant

LEMMA InstantPassesKeeps == ASSUME AttemptInv, InstantPasses PROVE AttemptInv'
<1>1. /\ instant < LastInstant /\ instant' = instant + 1 /\ buckets' = buckets /\ trying' = trying /\ failed' = failed
      /\ AttemptsTypeOK
  BY DEF InstantPasses, AttemptInv
<1> PICK since, later : since = instant - Window /\ later = instant' - Window
  OBVIOUS
<1>2. since \in Int /\ later \in Int /\ since <= later /\ instant \in Nat /\ instant' \in 0..LastInstant
  <2>1. LastInstant \in Nat
    BY AttemptsAssumption DEF AttemptsAssumption
  <2> QED BY <1>1, <2>1, SinceTyped
<1>3. ASSUME NEW k \in Buckets
      PROVE  /\ Orderly(Failures(k))' /\ Orderly(failed[k])' /\ (Recent(Failures(k)) = Recent(failed[k]))'
  <2>1. PICK b, f : b = Failures(k) /\ f = failed[k]
    OBVIOUS
  <2>2. b = Failures(k)' /\ f = failed'[k]
    BY <1>1, <2>1 DEF Failures
  <2>3. Agree(b, f)
    BY <2>1, AgreeNow
  <2>4. InstantsSorted(b) /\ InstantsSorted(f) /\ After(b, since) = After(f, since)
    BY <2>3 DEF Agree, Orderly, Recent
  <2>5. After(b, later) = After(f, later)
    <3>1. After(After(b, since), later) = After(b, later)
      BY <1>2, <2>4, AfterTwice
    <3>2. After(After(f, since), later) = After(f, later)
      BY <1>2, <2>4, AfterTwice
    <3> QED BY <2>4, <3>1, <3>2
  <2>6. ASSUME NEW t, Orderly(t) PROVE Orderly(t)'
    <3>1. InstantsSorted(t) /\ \A i \in DOMAIN t : t[i] <= instant /\ t[i] \in Nat
      BY <2>6, SortedIs DEF Orderly
    <3>2. \A i \in DOMAIN t : t[i] <= instant + 1
      BY <1>2, <3>1
    <3> QED BY <1>1, <3>1, <3>2 DEF Orderly, InstantsSorted
  <2>7. Orderly(b)' /\ Orderly(f)'
    BY <2>3, <2>6 DEF Agree
  <2>8. (Recent(b) = Recent(f))'
    BY <2>5 DEF Recent
  <2> QED BY <2>2, <2>7, <2>8
<1>4. AttemptsTypeOK'
  BY <1>1, <1>2 DEF AttemptsTypeOK
<1> QED BY <1>3, <1>4 DEF AttemptInv, FailuresKept

LEMMA AttemptStep == ASSUME AttemptInv, [AttemptsNext(Handlers)]_attemptVars PROVE AttemptInv'
<1>1. CASE UNCHANGED attemptVars
  <2>1. instant' = instant /\ buckets' = buckets /\ trying' = trying /\ failed' = failed
    BY <1>1 DEF attemptVars
  <2>2. AttemptsTypeOK'
    BY <2>1 DEF AttemptInv, AttemptsTypeOK
  <2>3. \A k \in Buckets : Agree(Failures(k)', failed'[k])
    BY <2>1, AgreeNow DEF Failures
  <2> QED BY <2>1, <2>2, <2>3, SameInstant
<1>2. CASE AttemptsNext(Handlers)
  BY <1>2, AssertAllowedKeeps, RegisterFailureKeeps, RegisterSuccessKeeps, LoginAbortsKeeps, InstantPassesKeeps
     DEF AttemptsNext
<1> QED BY <1>1, <1>2

\* The failures that count of a key, and the logins past its check.
InWindow(k) == PositionsAfter(failed[k], instant - Window)

LEMMA StillWithin ==
  ASSUME NEW H, AttemptLimits(H), NEW k \in Buckets, NEW n \in Int, n = MaxPer[k] + Cardinality(H) - 1,
         InWindow(k)' \subseteq InWindow(k), PastCheck(k)' \subseteq PastCheck(k)
  PROVE  Within(n, InWindow(k)', PastCheck(k)')
<1>1. Within(n, InWindow(k), PastCheck(k))
  BY DEF AttemptLimits, InWindow
<1> QED BY <1>1, WithinFalls

LEMMA AttemptStepLimits ==
  ASSUME AttemptInv, NEW H \in SUBSET Handlers, H # {}, IsFiniteSet(H), AttemptLimits(H),
         [AttemptsNext(H)]_attemptVars
  PROVE  AttemptLimits(H)'
<1>1. AttemptsTypeOK /\ \A h \in Handlers \ H : ~Present(trying[h])
  BY DEF AttemptInv, AttemptLimits
<1>2. ASSUME NEW k \in Buckets
      PROVE  /\ MaxPer[k] \in Nat /\ Cardinality(H) \in Nat /\ Cardinality(H) # 0
             /\ MaxPer[k] + Cardinality(H) - 1 \in Int
  BY FS_CardinalityType, FS_EmptySet, AttemptsAssumption DEF AttemptsAssumption
<1> DEFINE Limit(k) == MaxPer[k] + Cardinality(H) - 1
           Fits == /\ \A h \in Handlers \ H : ~Present(trying'[h])
                   /\ \A k \in Buckets : Within(Limit(k), InWindow(k)', PastCheck(k)')
<1>3. Fits => AttemptLimits(H)'
  BY DEF AttemptLimits, InWindow
<1>4. ASSUME \A k \in Buckets : InWindow(k)' \subseteq InWindow(k), \A k \in Buckets : PastCheck(k)' \subseteq PastCheck(k),
             \A h \in Handlers \ H : ~Present(trying'[h])
      PROVE  Fits
  BY <1>2, <1>4, StillWithin
<1>5. ASSUME trying' = trying \/ \E h \in H : trying' = [trying EXCEPT ![h] = None]
      PROVE  /\ \A k \in Buckets : PastCheck(k)' \subseteq PastCheck(k)
             /\ \A h \in Handlers \ H : ~Present(trying'[h])
  BY <1>1, <1>5 DEF PastCheck, Present, AttemptsTypeOK
<1>6. ASSUME NEW h \in H, AssertAllowed(h) PROVE Fits
  <2>1. PICK id \in Identifiers :
          /\ ~Present(trying[h]) /\ instant' = instant /\ failed' = failed
          /\ trying' = [trying EXCEPT ![h] = IF Allowed(id) /\ Allowed(Address) THEN id ELSE None]
    BY <1>6 DEF AssertAllowed
  <2>2. \A k \in Buckets : InWindow(k)' = InWindow(k)
    BY <2>1 DEF InWindow
  <2>3. CASE ~(Allowed(id) /\ Allowed(Address))
    <3>1. trying' = [trying EXCEPT ![h] = None]
      BY <2>1, <2>3
    <3> QED BY <1>4, <1>5, <2>2, <3>1
  <2>4. CASE Allowed(id) /\ Allowed(Address)
    <3>1. trying' = [trying EXCEPT ![h] = id]
      BY <2>1, <2>4
    <3>2. \A g \in Handlers \ H : ~Present(trying'[g])
      BY <1>1, <3>1 DEF AttemptsTypeOK
    <3>3. ASSUME NEW k \in Buckets PROVE PastCheck(k)' \subseteq H
      BY <3>2 DEF PastCheck
    <3>4. ASSUME NEW k \in Buckets PROVE Within(Limit(k), InWindow(k)', PastCheck(k)')
      <4>1. CASE k \in {id, Address}
        <5>1. Cardinality(InWindow(k)) < MaxPer[k]
          BY <2>4, <4>1, AllowedIs DEF InWindow
        <5>2. IsFiniteSet(InWindow(k))
          BY <1>1 DEF AttemptLimits, InWindow, Within
        <5>3. Cardinality(InWindow(k)) \in Nat
          BY <5>2, FS_CardinalityType
        <5>4. Cardinality(InWindow(k)) + Cardinality(H) <= Limit(k)
          BY <1>2, <5>1, <5>3
        <5>5. Limit(k) \in Int
          BY <1>2
        <5> HIDE DEF Limit
        <5> QED BY <2>2, <3>3, <5>2, <5>4, <5>5, WithinStarts
      <4>2. CASE k \notin {id, Address}
        <5>1. PastCheck(k)' \subseteq PastCheck(k)
          BY <1>1, <3>1, <4>2 DEF PastCheck, AttemptsTypeOK
        <5> QED BY <1>2, <2>2, <5>1, StillWithin
      <4> QED BY <4>1, <4>2
    <3> QED BY <3>2, <3>4
  <2> QED BY <2>3, <2>4
<1>7. ASSUME NEW h \in H, RegisterFailure(h) PROVE Fits
  <2> PICK keys : keys = {trying[h], Address}
    OBVIOUS
  <2>1. /\ Present(trying[h]) /\ instant' = instant /\ trying' = [trying EXCEPT ![h] = None]
        /\ failed' = [k \in Buckets |-> IF k \in keys THEN Append(failed[k], instant) ELSE failed[k]]
    BY <1>7 DEF RegisterFailure
  <2>2. /\ \A k \in Buckets : PastCheck(k)' \subseteq PastCheck(k)
        /\ \A g \in Handlers \ H : ~Present(trying'[g])
    BY <1>5, <2>1
  <2>3. ASSUME NEW k \in Buckets PROVE Within(Limit(k), InWindow(k)', PastCheck(k)')
    <3>1. CASE k \in keys
      <4>1. h \in PastCheck(k)
        BY <2>1, <3>1 DEF PastCheck
      <4>2. PastCheck(k)' \subseteq PastCheck(k) \ {h}
        BY <1>1, <2>1, <2>2 DEF PastCheck, Present, AttemptsTypeOK
      <4>3. InWindow(k)' \subseteq InWindow(k) \cup {Len(failed[k]) + 1}
        <5>1. failed'[k] = Append(failed[k], instant)
          BY <2>1, <3>1
        <5>2. Agree(Failures(k), failed[k])
          BY AgreeNow
        <5> QED BY <1>1, <2>1, <5>1, <5>2, AgreeFailed DEF InWindow
      <4>4. Within(Limit(k), InWindow(k), PastCheck(k))
        BY DEF AttemptLimits, InWindow
      <4>5. Limit(k) \in Int
        BY <1>2
      <4>6. Moved(InWindow(k), PastCheck(k), InWindow(k)', PastCheck(k)')
        BY <4>1, <4>2, <4>3 DEF Moved
      <4> HIDE DEF Limit
      <4> QED BY <4>4, <4>5, <4>6, WithinMoved
    <3>2. CASE k \notin keys
      <4>1. InWindow(k)' = InWindow(k)
        BY <2>1, <3>2 DEF InWindow
      <4> QED BY <1>2, <2>2, <4>1, StillWithin
    <3> QED BY <3>1, <3>2
  <2> QED BY <2>2, <2>3
<1>8. ASSUME NEW h \in H, RegisterSuccess(h) PROVE Fits
  <2>1. /\ instant' = instant /\ trying' = [trying EXCEPT ![h] = None]
        /\ failed' = [failed EXCEPT ![trying[h]] = <<>>]
    BY <1>8 DEF RegisterSuccess
  <2>2. ASSUME NEW k \in Buckets PROVE InWindow(k)' \subseteq InWindow(k)
    <3>1. failed'[k] = failed[k] \/ failed'[k] = <<>>
      BY <1>1, <2>1 DEF AttemptsTypeOK
    <3> QED BY <2>1, <3>1 DEF InWindow, PositionsAfter
  <2> QED BY <1>4, <1>5, <2>1, <2>2
<1>9. ASSUME NEW h \in H, LoginAborts(h) PROVE Fits
  <2>1. /\ instant' = instant /\ failed' = failed /\ trying' = [trying EXCEPT ![h] = None]
    BY <1>9 DEF LoginAborts
  <2>2. \A k \in Buckets : InWindow(k)' = InWindow(k)
    BY <2>1 DEF InWindow
  <2> QED BY <1>4, <1>5, <2>1, <2>2
<1>10. ASSUME InstantPasses PROVE Fits
  <2>1. instant' = instant + 1 /\ failed' = failed /\ trying' = trying
    BY <1>10 DEF InstantPasses
  <2>2. ASSUME NEW k \in Buckets PROVE InWindow(k)' \subseteq InWindow(k)
    <3>1. InstantsSorted(failed[k])
      BY DEF AttemptInv, Orderly
    <3>2. DOMAIN failed[k] = 1..Len(failed[k]) /\ \A i \in DOMAIN failed[k] : failed[k][i] \in Nat
      BY <3>1, SortedIs
    <3>3. PICK f, since, later : f = failed[k] /\ since = instant - Window /\ later = instant' - Window
      OBVIOUS
    <3>4. since \in Int /\ later \in Int /\ later > since
      BY <1>1, <2>1, <3>3, SinceTyped
    <3>5. \A i \in DOMAIN f : f[i] > later => f[i] > since
      BY <3>2, <3>3, <3>4
    <3>6. f = failed'[k]
      BY <2>1, <3>3
    <3>7. InWindow(k)' = PositionsAfter(f, later) /\ InWindow(k) = PositionsAfter(f, since)
      BY <3>3, <3>6 DEF InWindow
    <3> QED BY <3>5, <3>7 DEF PositionsAfter
  <2> QED BY <1>4, <1>5, <2>1, <2>2
<1>11. CASE UNCHANGED attemptVars
  <2>1. instant' = instant /\ failed' = failed /\ trying' = trying
    BY <1>11 DEF attemptVars
  <2>2. \A k \in Buckets : InWindow(k)' = InWindow(k)
    BY <2>1 DEF InWindow
  <2> QED BY <1>3, <1>4, <1>5, <2>1, <2>2
<1> HIDE DEF Fits
<1> QED BY <1>3, <1>6, <1>7, <1>8, <1>9, <1>10, <1>11 DEF AttemptsNext

LEMMA AttemptMeans ==
  ASSUME AttemptInv, NEW H, IsFiniteSet(H), AttemptLimits(H)
  PROVE  AttemptsTypeOK /\ FailuresWithin(Cardinality(H)) /\ FailuresKept /\ WaitIsExact
<1>1. ASSUME NEW k \in Buckets PROVE Len(Recent(failed[k])) <= MaxPer[k] + Cardinality(H) - 1
  <2>1. MaxPer[k] + Cardinality(H) - 1 \in Int
    BY FS_CardinalityType, AttemptsAssumption DEF AttemptsAssumption
  <2>2. Cardinality(PositionsAfter(failed[k], instant - Window)) <= MaxPer[k] + Cardinality(H) - 1
    BY <2>1, WithinMeans DEF AttemptLimits
  <2>3. Len(After(failed[k], instant - Window)) = Cardinality(PositionsAfter(failed[k], instant - Window))
    BY SinceTyped, AfterSorted DEF AttemptInv, Orderly
  <2> QED BY <2>2, <2>3 DEF Recent
<1> QED BY <1>1, WaitMeans DEF AttemptInv, FailuresWithin
===============================================================================
