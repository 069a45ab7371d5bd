----------------------------- MODULE LoginAttempts -----------------------------
(***************************************************************************)
(* The limit of failed logins, in memory: a bucket of instants for each    *)
(* identifier and for each address, emptied lazily and pruned when there   *)
(* are many.  A login is checked, awaited and then counted, so that        *)
(* several may be under way past the same check.                           *)
(***************************************************************************)
EXTENDS Requests, Sequences

CONSTANTS
  Identifiers, \* "id:..." keys
  Address,     \* the "ip:..." key of all the requests
  MaxPer,      \* LOGIN_MAX_ATTEMPTS of an identifier and LOGIN_MAX_ATTEMPTS_PER_IP, by key
  Window,      \* LOGIN_LOCK_MINUTES
  PruneAt,     \* prune: the size from which the map is cleaned
  LastInstant, \* bound
  MaxFailures  \* bound: failures remembered by a bucket

Buckets == Identifiers \cup {Address}

ASSUME AttemptsAssumption ==
  /\ MaxPer \in [Buckets -> Nat \ {0}] /\ Window \in Nat \ {0} /\ PruneAt \in Nat
  /\ LastInstant \in Nat /\ MaxFailures \in Nat /\ Address \notin Identifiers
  /\ None \notin Seq(0..LastInstant)

VARIABLES
  instant,
  buckets,    \* None: the key is not in the map
  trying,     \* handler -> the identifier it is logging in, or None
  failed      \* history: failures of each key since its last success

attemptVars == <<instant, buckets, trying, failed>>

Failures(k) == IF buckets[k] = None THEN <<>> ELSE buckets[k]

\* The positions of what came after an instant; what stands there, in its order.
PositionsAfter(times, since) == {i \in DOMAIN times : times[i] > since}

After(times, since) ==
  LET kept == PositionsAfter(times, since) IN
  [n \in 1..Cardinality(kept) |-> times[CHOOSE i \in kept : Cardinality({j \in kept : j <= i}) = n]]

Recent(times) == After(times, instant - Window)

AttemptsInit ==
  /\ instant = 0 /\ trying = [h \in Handlers |-> None]
  /\ buckets = [k \in Buckets |-> None] /\ failed = [k \in Buckets |-> <<>>]

\* Slip: the wait is counted from the oldest failure of the bucket.
WaitForOldest(times, max) ==
  IF Len(times) < max THEN 0 ELSE times[1] + Window - instant

\* retryAfterMs of failures that are all recent.
RetryAfter(times, max) ==
  IF Len(times) < max THEN 0 ELSE times[Len(times) - max + 1] + Window - instant

Filtered(k) == IF buckets[k] = None THEN None ELSE Recent(buckets[k])

Allowed(k) == RetryAfter(Recent(Failures(k)), MaxPer[k]) <= 0

\* assertAllowed: both buckets drop what is old, and both must have room.
AssertAllowed(h) ==
  \E id \in Identifiers :
    /\ ~Present(trying[h])
    /\ buckets' = [k \in Buckets |-> IF k \in {id, Address} THEN Filtered(k) ELSE buckets[k]]
    /\ trying' = [trying EXCEPT ![h] = IF Allowed(id) /\ Allowed(Address) THEN id ELSE None]
    /\ UNCHANGED <<instant, failed>>

SomeRecent(times) == Recent(times) # <<>>

Pruned(map) ==
  IF Cardinality({k \in Buckets : Present(map[k])}) < PruneAt THEN map
  ELSE [k \in Buckets |-> IF Present(map[k]) /\ SomeRecent(map[k]) THEN map[k] ELSE None]

\* The login was refused: registerFailure.
RegisterFailure(h) ==
  LET keys == {trying[h], Address} IN
  /\ Present(trying[h]) /\ \A k \in keys : Len(failed[k]) < MaxFailures
  /\ buckets' = Pruned([k \in Buckets |-> IF k \in keys THEN Append(Failures(k), instant)
                                                        ELSE buckets[k]])
  /\ failed' = [k \in Buckets |-> IF k \in keys THEN Append(failed[k], instant) ELSE failed[k]]
  /\ trying' = [trying EXCEPT ![h] = None]
  /\ UNCHANGED instant

\* The login was good: registerSuccess.
RegisterSuccess(h) ==
  /\ Present(trying[h])
  /\ buckets' = [buckets EXCEPT ![trying[h]] = None]
  /\ failed' = [failed EXCEPT ![trying[h]] = <<>>]
  /\ trying' = [trying EXCEPT ![h] = None]
  /\ UNCHANGED instant

\* Any other error (an account that is blocked, the database) counts as neither.
LoginAborts(h) ==
  /\ Present(trying[h]) /\ trying' = [trying EXCEPT ![h] = None]
  /\ UNCHANGED <<instant, buckets, failed>>

InstantPasses ==
  /\ instant < LastInstant /\ instant' = instant + 1
  /\ UNCHANGED <<buckets, trying, failed>>

AttemptsNext(H) ==
  \/ \E h \in H : AssertAllowed(h) \/ RegisterFailure(h) \/ RegisterSuccess(h) \/ LoginAborts(h)
  \/ InstantPasses

AttemptsSpec == AttemptsInit /\ [][AttemptsNext(Handlers)]_attemptVars

-----------------------------------------------------------------------------
(* Type correctness of the buckets and the logins under way.               *)
AttemptsTypeOK ==
  /\ instant \in 0..LastInstant /\ buckets \in [Buckets -> Seq(0..LastInstant) \cup {None}]
  /\ trying \in [Handlers -> Identifiers \cup {None}]
  /\ failed \in [Buckets -> Seq(0..LastInstant)]

(* No key has more failures within the window than its limit, but for the  *)
(* other requests that were already past the check.                        *)
FailuresWithin(n) == \A k \in Buckets : Len(Recent(failed[k])) <= MaxPer[k] + n - 1

(* Emptying and pruning the map never forget a failure within the window.  *)
FailuresKept == \A k \in Buckets : Recent(Failures(k)) = Recent(failed[k])

\* Failures of k still in the window after so many instants without another one.
LeftAfter(k, wait) ==
  Cardinality(PositionsAfter(Recent(Failures(k)), instant + wait - Window))

(* The wait that is announced is exact, also when racing logins went past  *)
(* the limit: after it the key may try again, and not an instant before.   *)
WaitIsExact ==
  \A k \in Buckets :
    LET wait == RetryAfter(Recent(Failures(k)), MaxPer[k]) IN
    wait > 0 => /\ LeftAfter(k, wait) < MaxPer[k]
                /\ LeftAfter(k, wait - 1) >= MaxPer[k]
=============================================================================
