----------------------------- MODULE Verification -----------------------------
(***************************************************************************)
(* The verification of a new account by the code that is mailed to it: the *)
(* codes of one user, sent again, guessed, expired and consumed.  Every    *)
(* query commits by itself and rows are saved as they were read.           *)
(***************************************************************************)
EXTENDS Requests, Sequences

CONSTANTS
  MaxAttempts,   \* MAX_ATTEMPTS
  Cooldown,      \* RESEND_COOLDOWN_MS, in minutes
  Ttl,           \* TTL_MS
  Hour,          \* the hour in which codes are counted
  MaxPerHour,    \* MAX_RESENDS_PER_HOUR
  LastMinute,    \* bound
  MaxCodes       \* bound

Code == [sent : 0..LastMinute, attempts : 0..(MaxAttempts + 1), open : BOOLEAN]

ASSUME VerificationAssumption ==
  /\ MaxAttempts \in Nat /\ Cooldown \in Nat /\ Ttl \in Nat /\ Hour \in Nat
  /\ MaxPerHour \in Nat \ {0} /\ LastMinute \in Nat /\ MaxCodes \in Nat

VARIABLES
  minute,
  userStatus,   \* users.status of the account
  codes,        \* account_verifications, in the order they were created
  verifyCall,
  guesses       \* history: guesses answered for each code

verifyTables == <<userStatus, codes>>
verifyVars   == <<minute, verifyTables, verifyCall, guesses>>

-----------------------------------------------------------------------------
VerifyCall ==
  [ phase : {"idle", "count", "issue", "insert", "save", "activate"},
    code : 0..MaxCodes, entity : Code \cup {None}, right : BOOLEAN ]

NotVerifying == [phase |-> "idle", code |-> 0, entity |-> None, right |-> FALSE]

VerificationInit ==
  /\ minute = 0 /\ userStatus = "PENDING" /\ codes = <<>> /\ guesses = <<>>
  /\ verifyCall = [h \in Handlers |-> NotVerifying]

VerifyGoes(h, call) == verifyCall' = [verifyCall EXCEPT ![h] = call]
VerifyEnds(h) == VerifyGoes(h, NotVerifying)

\* A check that answers the generic message, or a lost connection.
VerifyAborts(h) ==
  /\ verifyCall[h].phase # "idle" /\ VerifyEnds(h)
  /\ UNCHANGED <<minute, verifyTables, guesses>>

OpenCodes == {i \in 1..Len(codes) : codes[i].open}

\* findActiveByUserId: the latest that is not consumed, 0 when there is none.
ActiveCode ==
  IF OpenCodes = {} THEN 0 ELSE CHOOSE i \in OpenCodes : \A j \in OpenCodes : j <= i

-----------------------------------------------------------------------------
(* Sending                                                                 *)

CooledDown(i) == minute - codes[i].sent >= Cooldown

\* resendVerification: the account is pending, the active code is old enough ...
Resend(h) ==
  /\ verifyCall[h].phase = "idle" /\ userStatus = "PENDING"
  /\ ActiveCode # 0 => CooledDown(ActiveCode)
  /\ VerifyGoes(h, [NotVerifying EXCEPT !.phase = "count"])
  /\ UNCHANGED <<minute, verifyTables, guesses>>

SentLastHour == Cardinality({i \in 1..Len(codes) : codes[i].sent > minute - Hour})

\* ... and not too many were created in the last hour ...
CountSent(h) ==
  /\ verifyCall[h].phase = "count" /\ SentLastHour < MaxPerHour
  /\ VerifyGoes(h, [NotVerifying EXCEPT !.phase = "issue"])
  /\ UNCHANGED <<minute, verifyTables, guesses>>

Invalidated(list) == [i \in 1..Len(list) |-> [list[i] EXCEPT !.open = FALSE]]

\* issueAndSend, from a resend or from the creation of the user: the account is read
\* again, then invalidateActiveForUser ...
Invalidate(h) ==
  /\ \/ verifyCall[h].phase = "issue"
     \/ verifyCall[h].phase = "idle" /\ codes = <<>>
  /\ userStatus = "PENDING"
  /\ codes' = Invalidated(codes)
  /\ VerifyGoes(h, [NotVerifying EXCEPT !.phase = "insert"])
  /\ UNCHANGED <<minute, userStatus, guesses>>

\* ... and a new code, mailed or not.
InsertCode(h) ==
  /\ verifyCall[h].phase = "insert" /\ Len(codes) < MaxCodes
  /\ codes' = Append(codes, [sent |-> minute, attempts |-> 0, open |-> TRUE])
  /\ guesses' = Append(guesses, 0)
  /\ VerifyEnds(h)
  /\ UNCHANGED <<minute, userStatus>>

-----------------------------------------------------------------------------
(* Verifying                                                               *)
MayCompare(attempts) == attempts <= MaxAttempts

\* verifyAccount: the account is pending, and it has an active code; what will be
\* saved of the code, and whether the guess is right.
FindCode(h) ==
  \E right \in BOOLEAN :
    LET i       == ActiveCode
        code    == codes[i]
        tried   == code.attempts + 1
        expired == code.sent + Ttl < minute
        compared == ~expired /\ MayCompare(tried)
    IN
    /\ verifyCall[h].phase = "idle" /\ userStatus = "PENDING" /\ i # 0
    /\ right => compared
    /\ VerifyGoes(h, [phase |-> "save", code |-> i, right |-> right,
                      entity |-> [code EXCEPT !.attempts = IF expired THEN @ ELSE tried,
                                              !.open = compared /\ ~right]])
    /\ UNCHANGED <<minute, verifyTables, guesses>>

\* The caller learns of the guess when it is saved.
SaveCode(h) ==
  LET c == verifyCall[h] IN
  /\ c.phase = "save"
  /\ codes' = [codes EXCEPT ![c.code] = SaveEntity(@, @, c.entity)]
  /\ VerifyGoes(h, [NotVerifying EXCEPT !.phase = IF c.right THEN "activate" ELSE "idle"])
  /\ guesses' = IF c.right \/ c.entity.open THEN [guesses EXCEPT ![c.code] = @ + 1] ELSE guesses
  /\ UNCHANGED <<minute, userStatus>>

\* The user's entity, read pending, is saved active.
Activate(h) ==
  /\ verifyCall[h].phase = "activate" /\ userStatus' = "ACTIVE"
  /\ VerifyEnds(h)
  /\ UNCHANGED <<minute, codes, guesses>>

-----------------------------------------------------------------------------
\* UsersService.update gives the account another status.
ChangeStatus(h) ==
  /\ verifyCall[h].phase = "idle"
  /\ userStatus' \in {"PENDING", "ACTIVE", "INACTIVE"} \ {userStatus}
  /\ UNCHANGED <<minute, codes, verifyCall, guesses>>

MinutePasses ==
  /\ minute < LastMinute /\ minute' = minute + 1
  /\ UNCHANGED <<verifyTables, verifyCall, guesses>>

VerificationNext(H) ==
  \/ \E h \in H :
       \/ Resend(h) \/ CountSent(h) \/ Invalidate(h) \/ InsertCode(h) \/ FindCode(h)
       \/ SaveCode(h) \/ Activate(h) \/ ChangeStatus(h) \/ VerifyAborts(h)
  \/ MinutePasses

VerificationSpec == VerificationInit /\ [][VerificationNext(Handlers)]_verifyVars

-----------------------------------------------------------------------------
(* Type correctness of the codes and of the requests about them.           *)
VerificationTypeOK ==
  /\ minute \in 0..LastMinute /\ userStatus \in {"PENDING", "ACTIVE", "INACTIVE"}
  /\ codes \in Seq(Code) /\ guesses \in Seq(Nat) /\ Len(guesses) = Len(codes)
  /\ verifyCall \in [Handlers -> VerifyCall]

(* No code answers more than MAX_ATTEMPTS guesses.                         *)
GuessesWithin == \A i \in 1..Len(guesses) : guesses[i] <= MaxAttempts

(* No more codes are created in an hour than the limit, but for the other  *)
(* requests that were already past the count.                              *)
SendsWithin(n) ==
  \A i \in 1..Len(codes) :
    Cardinality({j \in i..Len(codes) : codes[j].sent < codes[i].sent + Hour})
      <= MaxPerHour + n - 1

(* As many codes are open as requests are served at the same time at most: *)
(* the stale save of a guess may open again the one it was compared with.  *)
OpenCodesWithin(n) == Cardinality(OpenCodes) <= n
=============================================================================
