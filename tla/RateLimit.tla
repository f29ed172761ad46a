----------------------------- MODULE RateLimit -----------------------------
(***************************************************************************)
(* The dependency every /v1 route goes through, get_principal of           *)
(* api/deps.py, for the requests of one API key: authenticate, look again  *)
(* at the key under a row lock, refill and charge the token bucket of      *)
(* repository/rate_repo.py under its own row lock, commit.  Beside the     *)
(* requests, which run on threads and in other processes, one transaction  *)
(* revokes the key.  An action is one statement sent to the database with  *)
(* the Python code up to the next one.                                     *)
(*                                                                         *)
(* A token is Scale units and a tick of the clock is worth Refill units,   *)
(* so that fractions of a token are integers here.                         *)
(***************************************************************************)
EXTENDS Integers, Sequences, FiniteSets

CONSTANTS
    Requests,       \* the requests that carry the key
    Capacity,       \* TASKQ_RATE_BURST, in tokens
    Scale,          \* units of a token
    Refill,         \* TASKQ_RATE_PER_SEC, in units of a tick
    TicksPerSecond,
    MaxClock,       \* bound: the clock stops there
    RowLocks,       \* FOR UPDATE locks the row; SQLite ignores it
    RoundsTokens,   \* the Integer column of tokens rounds, as on PostgreSQL
    Zone,           \* how far east of UTC the TimeZone of the session is, in ticks
    Revoker,        \* the transaction around revoke_api_key
    Nobody

ASSUME BucketAssumption ==
    /\ Capacity \in Nat \ {0} /\ Scale \in Nat \ {0} /\ Refill \in Nat \ {0}
    /\ TicksPerSecond \in Nat \ {0} /\ MaxClock \in Nat
ASSUME DatabaseAssumption == RowLocks \in BOOLEAN /\ RoundsTokens \in BOOLEAN /\ Zone \in Int
ASSUME ActorAssumption == Revoker \notin Requests /\ Nobody \notin Requests \cup {Revoker}

VARIABLES
    clock,
    revoked,     \* api_keys.revoked_at is not null, as committed
    bucket,      \* the committed rate_buckets row
    keyLock,     \* who holds the row lock of the key
    bucketLock,  \* who holds the lock of the bucket (on SQLite, of the database)
    pc,          \* where each request is
    now,         \* the time each request read before it asked for the bucket
    mine,        \* the bucket as each request changed it
    loaded,      \* the bucket as each request loaded it
    revoker,     \* where the revoking transaction is
    emptied,     \* the time it stamps on the bucket
    admitted,    \* history: the bucket times of the committed admissions
    retryAt,     \* history: when a denied request was told to come back
    seen         \* history: the admissions committed when it was denied

keyVars == <<revoked, keyLock>>
bucketVars == <<bucket, bucketLock>>
localVars == <<now, mine, loaded>>
revokerVars == <<revoker, emptied>>
denialVars == <<retryAt, seen>>
vars == <<clock, keyVars, bucketVars, pc, localVars, revokerVars, admitted, denialVars>>

Full == Capacity * Scale

\* The instant that updated_at keeps of the time t, which take_token() writes without
\* its zone: the column has one, and the database takes t for a time of the session's.
\* SQLite keeps it as it is, as if Zone were 0.
Naive(t) == t - Zone

Instants == 0 .. MaxClock \cup {Naive(t) : t \in 0 .. MaxClock}

NoBucket == [tokens |-> -1, at |-> -1]
Buckets == [tokens : 0 .. Full, at : Instants]

Answers == {"admitted", "denied", "rejected", "failed"}
InTransaction == {"authenticated", "checked", "missing", "charged"}

\* The types; no bucket ever holds more than its capacity or less than nothing.
TypeOK ==
    /\ clock \in 0 .. MaxClock
    /\ revoked \in BOOLEAN
    /\ bucket \in Buckets \cup {NoBucket}
    /\ keyLock \in Requests \cup {Revoker, Nobody}
    /\ bucketLock \in Requests \cup {Revoker, Nobody}
    /\ pc \in [Requests -> {"new"} \cup InTransaction \cup Answers]
    /\ now \in [Requests -> 0 .. MaxClock]
    /\ mine \in [Requests -> Buckets \cup {NoBucket}]
    /\ loaded \in [Requests -> Buckets \cup {NoBucket}]
    /\ revoker \in {"new", "emptied", "done", "failed"}
    /\ emptied \in 0 .. MaxClock
    /\ admitted \in Seq(Instants)
    /\ retryAt \in [Requests -> Nat]
    /\ seen \in [Requests -> Nat]

Init ==
    /\ clock = 0
    /\ revoked = FALSE
    /\ bucket = NoBucket
    /\ keyLock = Nobody
    /\ bucketLock = Nobody
    /\ pc = [q \in Requests |-> "new"]
    /\ now = [q \in Requests |-> 0]
    /\ mine = [q \in Requests |-> NoBucket]
    /\ loaded = [q \in Requests |-> NoBucket]
    /\ revoker = "new"
    /\ emptied = 0
    /\ admitted = <<>>
    /\ retryAt = [q \in Requests |-> 0]
    /\ seen = [q \in Requests |-> 0]

Tick ==
    /\ clock < MaxClock
    /\ clock' = clock + 1
    /\ UNCHANGED <<keyVars, bucketVars, pc, localVars, revokerVars, admitted, denialVars>>

-----------------------------------------------------------------------------
(* Row locks.  FOR UPDATE waits where the database has row locks; a         *)
(* statement that writes waits in any case.                                 *)

Go(q, to) == pc' = [pc EXCEPT ![q] = to]

Free(lock) == ~RowLocks \/ lock = Nobody

Claim(lock, a) == IF RowLocks THEN a ELSE lock

Release(lock, a) == IF lock = a THEN Nobody ELSE lock

\* The end of a's transaction.
Unlock(a) ==
    /\ keyLock' = Release(keyLock, a)
    /\ bucketLock' = Release(bucketLock, a)

-----------------------------------------------------------------------------
(* A request                                                                *)

\* authenticate(): a plain read of the key.
Authenticate(q) ==
    /\ pc[q] = "new"
    /\ Go(q, IF revoked THEN "rejected" ELSE "authenticated")
    /\ UNCHANGED <<clock, keyVars, bucketVars, localVars, revokerVars, admitted, denialVars>>

\* mutant: consume_or_raise trusts the key it has authenticated
LockKeyNoRecheck(q) ==
    /\ pc[q] = "authenticated"
    /\ Free(keyLock)
    /\ keyLock' = Claim(keyLock, q)
    /\ now' = [now EXCEPT ![q] = clock]
    /\ Go(q, "checked")
    /\ UNCHANGED <<clock, revoked, bucketVars, mine, loaded, revokerVars, admitted, denialVars>>

\* consume_or_raise() reads the key again, for update; take_token() reads the
\* clock before it asks for the bucket.
LockKey(q) ==
    /\ pc[q] = "authenticated"
    /\ Free(keyLock)
    /\ IF revoked
       THEN /\ Go(q, "rejected")
            /\ UNCHANGED <<keyLock, now>>
       ELSE /\ Go(q, "checked")
            /\ keyLock' = Claim(keyLock, q)
            /\ now' = [now EXCEPT ![q] = clock]
    /\ UNCHANGED <<clock, revoked, bucketVars, mine, loaded, revokerVars, admitted, denialVars>>

Smaller(a, b) == IF a < b THEN a ELSE b

\* The bucket as it is at time t; a clock that went back changes nothing.
Refilled(b, t) ==
    IF t > b.at
    THEN [tokens |-> Smaller(Full, b.tokens + Refill * (t - b.at)), at |-> t]
    ELSE b

Enough(b) == b.tokens >= Scale

\* mutant: the header rounds down
RetryAfterFloor(b) ==
    LET second == Refill * TicksPerSecond
        floor == (Scale - b.tokens) \div second
    IN  IF floor > 1 THEN floor ELSE 1

\* Retry-After in seconds: max(1, ceil(deficit / rate)).
RetryAfter(b) ==
    LET second == Refill * TicksPerSecond
        ceil == (Scale - b.tokens + second - 1) \div second
    IN  IF ceil > 1 THEN ceil ELSE 1

\* The code of take_token() once the row b is loaded: a request that is denied
\* raises, and its transaction rolls back, refill included.
Decide(q, b) ==
    LET r == Refilled(b, now[q])
    IN  \/ /\ Enough(r)
           /\ Go(q, "charged")
           /\ mine' = [mine EXCEPT ![q] = [r EXCEPT !.tokens = @ - Scale]]
           /\ loaded' = [loaded EXCEPT ![q] = b]
           /\ UNCHANGED denialVars
        \/ /\ ~Enough(r)
           /\ Go(q, "denied")
           /\ retryAt' = [retryAt EXCEPT ![q] = now[q] + RetryAfter(r) * TicksPerSecond]
           /\ seen' = [seen EXCEPT ![q] = Len(admitted)]
           /\ UNCHANGED <<mine, loaded>>

\* The locks after Decide: held until the commit, released by the rollback.
Keep(q, lock) == bucketLock' = lock /\ UNCHANGED keyLock
Settle(q, lock) ==
    \/ pc'[q] = "charged" /\ Keep(q, lock)
    \/ pc'[q] # "charged" /\ Unlock(q)

\* mutant: the locks end with the reads, as if these were transactions of their own
ReadBucketNoLock(q) ==
    /\ pc[q] = "checked"
    /\ bucket # NoBucket
    /\ Decide(q, bucket)
    /\ keyLock' = Release(keyLock, q)
    /\ UNCHANGED <<clock, revoked, bucketVars, now, revokerVars, admitted>>

ReadBucket(q) ==
    /\ pc[q] = "checked"
    /\ Free(bucketLock)
    /\ bucket # NoBucket
    /\ Decide(q, bucket)
    /\ Settle(q, Claim(bucketLock, q))
    /\ UNCHANGED <<clock, revoked, bucket, now, revokerVars, admitted>>

\* The select finds no row, and locks none.
MissBucket(q) ==
    /\ pc[q] = "checked"
    /\ bucket = NoBucket
    /\ Go(q, "missing")
    /\ UNCHANGED <<clock, keyVars, bucketVars, localVars, revokerVars, admitted, denialVars>>

\* mutant: a new bucket starts empty
NewBucketEmpty(t) == [tokens |-> 0, at |-> t]

NewBucket(t) == [tokens |-> Full, at |-> t]

\* init_rate_bucket(): INSERT ... ON CONFLICT DO NOTHING with a time of its own,
\* then the row is loaded again.
InsertBucket(q) ==
    /\ pc[q] = "missing"
    /\ bucketLock = Nobody
    /\ Decide(q, IF bucket = NoBucket THEN NewBucket(clock) ELSE bucket)
    /\ Settle(q, q)
    /\ UNCHANGED <<clock, revoked, bucket, now, revokerVars, admitted>>

\* What the column keeps of t units.
Stored(t) ==
    IF RoundsTokens
    THEN {k * Scale : k \in {j \in 0 .. Capacity : /\ 2 * (j * Scale - t) <= Scale
                                                   /\ 2 * (t - j * Scale) <= Scale}}
    ELSE {t}

\* The flush and the commit write the attributes that have changed; the instant of
\* a refill goes without its zone, those of init_rate_bucket() and of the revoker
\* go with it.
Commit(q) ==
    /\ pc[q] = "charged"
    /\ bucketLock \in {Nobody, q}
    /\ LET row == IF bucket = NoBucket THEN loaded[q] ELSE bucket
       IN  \E t \in Stored(mine[q].tokens) :
             bucket' = [tokens |-> IF mine[q].tokens = loaded[q].tokens THEN row.tokens ELSE t,
                        at |-> IF mine[q].at = loaded[q].at THEN row.at ELSE Naive(mine[q].at)]
    /\ admitted' = Append(admitted, mine[q].at)
    /\ Go(q, "admitted")
    /\ Unlock(q)
    /\ UNCHANGED <<clock, revoked, localVars, revokerVars, denialVars>>

\* mutant: the transaction is neither committed nor rolled back
FailNoRollback(q) ==
    /\ pc[q] \in InTransaction
    /\ Go(q, "failed")
    /\ UNCHANGED <<clock, keyVars, bucketVars, localVars, revokerVars, admitted, denialVars>>

\* Any exception, a lost connection or a killed process: rollback.
Fail(q) ==
    /\ pc[q] \in InTransaction
    /\ Go(q, "failed")
    /\ Unlock(q)
    /\ UNCHANGED <<clock, revoked, bucket, localVars, revokerVars, admitted, denialVars>>

-----------------------------------------------------------------------------
(* revoke_api_key() and its transaction                                     *)

\* _reset_bucket_for_key(): the upsert comes first, the key is flushed after it.
EmptyBucket ==
    /\ revoker = "new"
    /\ bucketLock = Nobody
    /\ bucketLock' = Revoker
    /\ revoker' = "emptied"
    /\ emptied' = clock
    /\ UNCHANGED <<clock, keyVars, bucket, pc, localVars, admitted, denialVars>>

Revoke ==
    /\ revoker = "emptied"
    /\ Free(keyLock)
    /\ revoked' = TRUE
    /\ bucket' = [tokens |-> 0, at |-> emptied]
    /\ revoker' = "done"
    /\ Unlock(Revoker)
    /\ UNCHANGED <<clock, pc, localVars, emptied, admitted, denialVars>>

\* A request holds the key and waits for the bucket the revoker holds.
Deadlocked ==
    /\ revoker = "emptied"
    /\ \E q \in Requests : keyLock = q /\ pc[q] \in {"checked", "missing"}

\* The database ends the deadlock by aborting the revoker, or (Fail) the request.
AbortRevoker ==
    /\ Deadlocked
    /\ revoker' = "failed"
    /\ Unlock(Revoker)
    /\ UNCHANGED <<clock, revoked, bucket, pc, localVars, emptied, admitted, denialVars>>

-----------------------------------------------------------------------------
RequestStep(q) ==
    \/ Authenticate(q) \/ LockKey(q)
    \/ ReadBucket(q) \/ MissBucket(q) \/ InsertBucket(q)
    \/ Commit(q) \/ Fail(q)

RevokerStep == EmptyBucket \/ Revoke \/ AbortRevoker

Next ==
    \/ Tick
    \/ \E q \in Requests : RequestStep(q)
    \/ RevokerStep

Spec == Init /\ [][Next]_vars

\* The database ends a deadlock, and a statement whose lock is free returns.
\* Nobody has to send a request, to revoke the key or to fail.
Progress(q) == Authenticate(q) \/ LockKey(q) \/ ReadBucket(q) \/ MissBucket(q)
               \/ InsertBucket(q) \/ Commit(q)
DeadlockEnds == AbortRevoker \/ \E q \in Requests : Deadlocked /\ keyLock = q /\ Fail(q)

FairSpec ==
    /\ Spec
    /\ \A q \in Requests : WF_vars(pc[q] \in InTransaction /\ Progress(q))
    /\ WF_vars(Revoke)
    /\ WF_vars(DeadlockEnds)

-----------------------------------------------------------------------------
(* Properties                                                               *)

\* The units n admissions between two times are worth, twice over, and what
\* rounding can change in n rows, where the column rounds: half a token each.
TwiceSpent(n) == 2 * n * Scale
TwiceAllowed(from, to) == 2 * (Full + Refill * (to - from))
TwiceRounded(n) == IF RoundsTokens THEN n * Scale ELSE 0

\* The promise of a token bucket (FR-05), whatever the interleaving of the
\* requests: between two admissions there are never more of them than the
\* burst, what the time between them refills, and what the rounded rows won.
WindowBound ==
    \A i, j \in DOMAIN admitted : i <= j =>
        TwiceSpent(j - i + 1) <= TwiceAllowed(admitted[i], admitted[j]) + TwiceRounded(j - i)

\* The promise as FR-05 states it, by burst and refill alone.
ExactWindowBound ==
    \A i, j \in DOMAIN admitted : i <= j =>
        TwiceSpent(j - i + 1) <= TwiceAllowed(admitted[i], admitted[j])

\* No request is denied that the bucket could afford, but for what rounded rows
\* have lost: with it there would be too many admissions in some window.  Refills
\* lost by rollbacks, by a concurrent admission or by the cold start would show.
DenialJustified ==
    [][\A q \in Requests : pc[q] # "denied" /\ pc'[q] = "denied" =>
         \E i \in DOMAIN admitted :
            LET n == Len(admitted) - i + 1
            IN  TwiceSpent(n + 1) + TwiceRounded(n) > TwiceAllowed(admitted[i], now[q])]_vars

\* "retry_after is the seconds the caller must wait before another request
\* would succeed" (take_token): once they are over, and if nobody was admitted
\* since and the key is still good, the bucket has a token.
RetryAfterSuffices ==
    \A q \in Requests :
        pc[q] = "denied" /\ clock >= retryAt[q] /\ seen[q] = Len(admitted) /\ ~revoked =>
            Enough(Refilled(bucket, clock))

\* "a revoke_api_key that committed in another session is visible here"
\* (consume_or_raise): no admission commits after the revocation, not even one
\* that had authenticated before it.
QuietAfterRevoke == [][revoked => UNCHANGED admitted]_vars

\* The transactions of requests and revoker take the two rows in opposite
\* orders; every request is answered all the same.
RequestAnswered == \A q \in Requests : pc[q] \in InTransaction ~> pc[q] \in Answers

-----------------------------------------------------------------------------
(* RateLimit implements the bucket of TokenBucket.                           *)

answerOf == [q \in Requests |-> IF pc[q] \in Answers THEN pc[q] ELSE "none"]

Limiter == INSTANCE TokenBucket WITH
    Cost <- Scale,
    Rate <- Refill,
    Slack <- IF RoundsTokens THEN Scale ELSE 0,
    Times <- 0 .. MaxClock,
    None <- NoBucket,
    row <- bucket,
    closed <- revoked,
    answer <- answerOf

\* The transactions of concurrent requests are as good as one after the other: a
\* commit charges the bucket as it was left by the commit before, a denial and a
\* rejection are true of the committed rows, and a rollback costs nothing.
ImplementsBucket == Limiter!Spec
=============================================================================
