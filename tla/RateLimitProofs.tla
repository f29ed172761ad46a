-------------------------- MODULE RateLimitProofs ---------------------------
(***************************************************************************)
(* Proofs about RateLimit for any number of requests, every burst, rate,   *)
(* scale and length of the clock, with and without the Integer column.     *)
(* TypeCorrect holds on every database; the promises of the bucket hold    *)
(* where FOR UPDATE locks the row, as on PostgreSQL (RowLocks), and the    *)
(* session is in UTC (Zone = 0): elsewhere take_token() moves the instant  *)
(* it writes, and RateLimit_east and RateLimit_west break them.  What a    *)
(* revocation promises needs the locks alone.                              *)
(***************************************************************************)
EXTENDS RateLimit, TLAPS

-----------------------------------------------------------------------------
(* The inductive invariant                                                  *)

\* What a request has in hand when it has charged a bucket: only a refill moves
\* the instant, and the time of a refill is one of the clock's.
HandInv ==
    \A q \in Requests : pc[q] = "charged" =>
        /\ mine[q] \in Buckets /\ loaded[q] \in Buckets
        /\ mine[q].at = loaded[q].at \/ mine[q].at \in 0 .. MaxClock

\* The requests between the second look at the key and their end.
Holding == {"checked", "missing", "charged"}

\* A row lock is held at these places and nowhere else.
LockInv ==
    /\ \A q \in Requests : keyLock = q <=> pc[q] \in Holding
    /\ \A q \in Requests : bucketLock = q <=> pc[q] = "charged"
    /\ keyLock # Revoker
    /\ bucketLock = Revoker <=> revoker = "emptied"

\* No row has a time that is yet to come.
ClockInv ==
    /\ bucket.at <= clock /\ emptied <= clock
    /\ \A q \in Requests : now[q] <= clock

\* Nobody is under way with a key that has been revoked.
RevokedInv ==
    /\ revoked <=> revoker = "done"
    /\ revoked => \A q \in Requests : pc[q] \notin Holding

\* The first admission makes the row.
RowInv == ~revoked => (bucket = NoBucket <=> admitted = <<>>)

\* The bucket stays as a request has seen it until the request ends.
Charged(q) ==
    LET r == Refilled(loaded[q], now[q])
    IN  /\ bucket = loaded[q] \/ (bucket = NoBucket /\ loaded[q].tokens = Full)
        /\ loaded[q].at <= clock
        /\ Enough(r)
        /\ mine[q] = [r EXCEPT !.tokens = @ - Scale]

Sees(q) ==
    /\ pc[q] = "checked" /\ bucket # NoBucket => bucket.at <= now[q]
    /\ pc[q] = "missing" => bucket = NoBucket
    /\ pc[q] = "charged" => Charged(q)

SeenInv == \A q \in Requests : Sees(q)

\* Units that were admitted from the i-th admission on, twice over.
Since(i) == Len(admitted) - i + 1

\* The bucket holds no more than burst and refill leave of any window ...
AtMost(b) ==
    \A i \in DOMAIN admitted :
        2 * b.tokens + TwiceSpent(Since(i))
            <= TwiceAllowed(admitted[i], b.at) + TwiceRounded(Since(i))

\* ... and no less than they leave of the window since it was full.
AtLeast(b) ==
    \E i \in DOMAIN admitted :
        TwiceAllowed(admitted[i], b.at)
            <= 2 * b.tokens + TwiceSpent(Since(i)) + TwiceRounded(Since(i))

AccountInv == ~revoked /\ bucket # NoBucket => AtMost(bucket) /\ AtLeast(bucket)

\* Until somebody is admitted the bucket keeps the promise made to a denied request.
PromiseInv ==
    \A q \in Requests : pc[q] = "denied" =>
        /\ seen[q] <= Len(admitted)
        /\ seen[q] = Len(admitted) /\ ~revoked =>
             /\ bucket # NoBucket
             /\ \A t \in Nat : t >= retryAt[q] => Enough(Refilled(bucket, t))

IInv ==
    /\ TypeOK /\ HandInv
    /\ LockInv /\ ClockInv /\ RevokedInv /\ RowInv /\ SeenInv
    /\ AccountInv /\ PromiseInv /\ WindowBound

-----------------------------------------------------------------------------
(* The constants and the arithmetic of tokens                               *)

\* The revoker and nobody are no requests.
LEMMA Actors ==
    Revoker \notin Requests /\ Nobody \notin Requests /\ Revoker # Nobody
BY ActorAssumption

\* A bucket holds at least a token.
LEMMA FullFacts ==
    /\ Full \in Nat /\ Scale \in Nat \ {0} /\ Scale <= Full
    /\ Refill \in Nat \ {0} /\ MaxClock \in Nat /\ TicksPerSecond \in Nat \ {0}
<1>1. PICK k \in Nat : Capacity = k + 1
  <2>1. Capacity - 1 \in Nat /\ Capacity = (Capacity - 1) + 1
    BY BucketAssumption
  <2> QED
    BY <2>1
<1>2. Full = k * Scale + Scale /\ k * Scale \in Nat
  BY <1>1, BucketAssumption DEF Full
<1> QED
  BY <1>2, BucketAssumption

\* Instants are numbers, the clock's times among them.
LEMMA InstantFacts ==
    /\ Zone \in Int
    /\ \A t \in Instants : t \in Int
    /\ \A t \in 0 .. MaxClock : t \in Instants /\ Naive(t) \in Instants
BY FullFacts, DatabaseAssumption DEF Instants, Naive

\* Where the session is in UTC, the column keeps the times of the clock.
LEMMA UtcFacts ==
    ASSUME Zone = 0
    PROVE  /\ Instants = 0 .. MaxClock
           /\ \A t \in Int : Naive(t) = t
<1>1. \A t \in Int : Naive(t) = t
  BY DEF Naive
<1>2. Instants = 0 .. MaxClock \cup {t : t \in 0 .. MaxClock}
  BY <1>1, FullFacts DEF Instants
<1> QED
  BY <1>1, <1>2

\* A bucket there has a time of the clock.
LEMMA UtcBucket ==
    ASSUME Zone = 0, NEW b \in Buckets
    PROVE  b.tokens \in 0 .. Full /\ b.at \in 0 .. MaxClock /\ b.tokens \in Nat /\ b.at \in Nat
BY UtcFacts, FullFacts DEF Buckets

\* What refills in some ticks.
LEMMA RefillFacts ==
    ASSUME NEW d \in Nat
    PROVE  Refill * d \in Nat
BY FullFacts

\* Refilling adds what the time since is worth, up to the burst, and moves the time.
LEMMA Refills ==
    ASSUME NEW b \in Buckets, NEW t \in Nat
    PROVE  LET r == Refilled(b, t)
           IN  /\ r = [tokens |-> r.tokens, at |-> r.at]
               /\ r.tokens \in b.tokens .. Full
               /\ r.at = IF t > b.at THEN t ELSE b.at
               /\ r.tokens <= b.tokens + Refill * (r.at - b.at)
               /\ r.tokens = Full \/ r.tokens = b.tokens + Refill * (r.at - b.at)
               /\ t <= b.at => r = b
<1>1. /\ b.tokens \in 0 .. Full /\ b.at \in Int
      /\ b = [tokens |-> b.tokens, at |-> b.at]
  BY FullFacts, InstantFacts DEF Buckets
<1>2. CASE t <= b.at
  <2>1. Refilled(b, t) = b /\ b.at - b.at = 0
    BY <1>1, <1>2 DEF Refilled
  <2>2. Refill * 0 = 0
    BY FullFacts
  <2>3. Refill * (b.at - b.at) = 0
    BY <2>1, <2>2
  <2> QED
    BY <1>1, <1>2, <2>1, <2>3, FullFacts
<1>3. CASE t > b.at
  <2>1. Refill * (t - b.at) \in Nat
    BY <1>1, <1>3, RefillFacts
  <2>2. Refilled(b, t) = [tokens |-> Smaller(Full, b.tokens + Refill * (t - b.at)), at |-> t]
    BY <1>3 DEF Refilled
  <2> DEFINE more == Refill * (t - b.at)
  <2>3. /\ Smaller(Full, b.tokens + more) \in b.tokens .. Full
        /\ Smaller(Full, b.tokens + more) <= b.tokens + more
        /\ \/ Smaller(Full, b.tokens + more) = Full
           \/ Smaller(Full, b.tokens + more) = b.tokens + more
    <3> HIDE DEF more
    <3> QED
      BY <1>1, <2>1, FullFacts DEF Smaller, more
  <2> QED
    BY <1>1, <1>3, <2>2, <2>3
<1> QED
  BY <1>1, <1>2, <1>3

\* A refilled bucket is a bucket.
LEMMA RefilledType ==
    ASSUME NEW b \in Buckets, NEW t \in 0 .. MaxClock
    PROVE  Refilled(b, t) \in Buckets
<1>1. t \in Nat /\ t \in Instants /\ b.tokens \in 0 .. Full /\ b.at \in Instants
  BY FullFacts, InstantFacts DEF Buckets
<1>2. /\ Refilled(b, t).tokens \in 0 .. Full /\ Refilled(b, t).at \in Instants
      /\ Refilled(b, t) = [tokens |-> Refilled(b, t).tokens, at |-> Refilled(b, t).at]
  BY <1>1, Refills, FullFacts
<1> QED
  BY <1>2 DEF Buckets

\* A charged bucket holds a token less.
LEMMA ChargedType ==
    ASSUME NEW r \in Buckets, Enough(r)
    PROVE  /\ [r EXCEPT !.tokens = @ - Scale] \in Buckets
           /\ [r EXCEPT !.tokens = @ - Scale].tokens = r.tokens - Scale
           /\ [r EXCEPT !.tokens = @ - Scale].at = r.at
BY FullFacts DEF Buckets, Enough

\* Half a token, twice over: what the column may win or lose.
Half == IF RoundsTokens THEN Scale ELSE 0

\* What is stored is a number of units, off by half a token at most.
LEMMA StoredFacts ==
    ASSUME NEW t \in 0 .. Full, NEW v \in Stored(t)
    PROVE  /\ v \in 0 .. Full
           /\ 2 * v <= 2 * t + Half /\ 2 * t <= 2 * v + Half
<1>1. CASE ~RoundsTokens
  BY <1>1, FullFacts DEF Stored, Half
<1>2. CASE RoundsTokens
  <2>1. PICK k \in 0 .. Capacity :
          v = k * Scale /\ 2 * (k * Scale - t) <= Scale /\ 2 * (t - k * Scale) <= Scale
    BY <1>2 DEF Stored
  <2>2. k * Scale \in Nat /\ k * Scale <= Full
    <3>1. PICK m \in Nat : Capacity = k + m
      <4>1. Capacity - k \in Nat /\ Capacity = k + (Capacity - k)
        BY BucketAssumption
      <4> QED
        BY <4>1
    <3>2. Capacity * Scale = k * Scale + m * Scale /\ k * Scale \in Nat /\ m * Scale \in Nat
      BY <3>1, BucketAssumption
    <3> QED
      BY <3>2 DEF Full
  <2> QED
    BY <1>2, <2>1, <2>2, FullFacts DEF Half
<1> QED
  BY <1>1, <1>2, DatabaseAssumption

-----------------------------------------------------------------------------
(* What the shared pieces of the actions do                                 *)

Charges(q, b) ==
    /\ Enough(Refilled(b, now[q]))
    /\ pc' = [pc EXCEPT ![q] = "charged"]
    /\ mine' = [mine EXCEPT ![q] = [Refilled(b, now[q]) EXCEPT !.tokens = @ - Scale]]
    /\ loaded' = [loaded EXCEPT ![q] = b]
    /\ retryAt' = retryAt /\ seen' = seen

Denies(q, b) ==
    LET r == Refilled(b, now[q])
    IN  /\ ~Enough(r)
        /\ pc' = [pc EXCEPT ![q] = "denied"]
        /\ retryAt' = [retryAt EXCEPT ![q] = now[q] + RetryAfter(r) * TicksPerSecond]
        /\ seen' = [seen EXCEPT ![q] = Len(admitted)]
        /\ mine' = mine /\ loaded' = loaded

\* A request is charged and keeps its locks, or is denied and loses them.
LEMMA ReadFacts ==
    ASSUME TypeOK, NEW q \in Requests, ReadBucket(q)
    PROVE  /\ pc[q] = "checked" /\ Free(bucketLock) /\ bucket # NoBucket /\ bucket \in Buckets
           /\ \/ /\ Charges(q, bucket)
                 /\ bucketLock' = Claim(bucketLock, q) /\ keyLock' = keyLock
              \/ Denies(q, bucket) /\ Unlock(q)
           /\ UNCHANGED <<clock, revoked, bucket, now, revoker, emptied, admitted>>
<1>1. /\ pc[q] = "checked" /\ Free(bucketLock) /\ bucket # NoBucket /\ bucket \in Buckets
      /\ Decide(q, bucket) /\ Settle(q, Claim(bucketLock, q))
      /\ UNCHANGED <<clock, revoked, bucket, now, revoker, emptied, admitted>>
  BY DEF ReadBucket, TypeOK, revokerVars
<1>2. Charges(q, bucket) \/ Denies(q, bucket)
  BY <1>1 DEF Decide, Charges, Denies, Go, denialVars
<1>3. CASE Charges(q, bucket)
  <2>1. pc'[q] = "charged"
    BY <1>3 DEF Charges, TypeOK
  <2> QED
    BY <1>1, <1>3, <2>1 DEF Settle, Keep
<1>4. CASE Denies(q, bucket)
  <2>1. pc'[q] = "denied"
    BY <1>4 DEF Denies, TypeOK
  <2> QED
    BY <1>1, <1>4, <2>1 DEF Settle
<1> QED
  BY <1>2, <1>3, <1>4

\* The row that an insert finds or makes.
Inserted == IF bucket = NoBucket THEN NewBucket(clock) ELSE bucket

LEMMA InsertFacts ==
    ASSUME TypeOK, NEW q \in Requests, InsertBucket(q)
    PROVE  /\ pc[q] = "missing" /\ bucketLock = Nobody /\ Inserted \in Buckets
           /\ \/ /\ Charges(q, Inserted)
                 /\ bucketLock' = q /\ keyLock' = keyLock
              \/ Denies(q, Inserted) /\ Unlock(q)
           /\ UNCHANGED <<clock, revoked, bucket, now, revoker, emptied, admitted>>
<1>1. /\ pc[q] = "missing" /\ bucketLock = Nobody
      /\ Decide(q, Inserted) /\ Settle(q, q)
      /\ UNCHANGED <<clock, revoked, bucket, now, revoker, emptied, admitted>>
  BY DEF InsertBucket, Inserted, revokerVars
<1>2. Inserted \in Buckets
  BY FullFacts, InstantFacts DEF Inserted, NewBucket, Buckets, TypeOK
<1>3. Charges(q, Inserted) \/ Denies(q, Inserted)
  BY <1>1 DEF Decide, Charges, Denies, Go, denialVars
<1>4. CASE Charges(q, Inserted)
  <2>1. pc'[q] = "charged"
    BY <1>4 DEF Charges, TypeOK
  <2> QED
    BY <1>1, <1>2, <1>4, <2>1 DEF Settle, Keep
<1>5. CASE Denies(q, Inserted)
  <2>1. pc'[q] = "denied"
    BY <1>5 DEF Denies, TypeOK
  <2> QED
    BY <1>1, <1>2, <1>5, <2>1 DEF Settle
<1> QED
  BY <1>3, <1>4, <1>5

\* The seconds in Retry-After are worth the deficit.
LEMMA RetryFacts ==
    ASSUME NEW r \in Buckets, ~Enough(r)
    PROVE  /\ RetryAfter(r) \in Nat \ {0}
           /\ Scale - r.tokens <= Refill * (RetryAfter(r) * TicksPerSecond)
<1> DEFINE second == Refill * TicksPerSecond
<1> DEFINE deficit == Scale - r.tokens
<1> DEFINE ceil == (deficit + second - 1) \div second
<1>1. second \in Nat \ {0}
  <2>1. PICK k \in Nat, m \in Nat : Refill = k + 1 /\ TicksPerSecond = m + 1
    <3>1. Refill - 1 \in Nat /\ TicksPerSecond - 1 \in Nat
      BY FullFacts
    <3> QED
      BY <3>1, FullFacts
  <2>2. second = k * m + k + m + 1 /\ k * m \in Nat
    BY <2>1
  <2> QED
    BY <2>2
<1>2. deficit \in Nat \ {0}
  BY FullFacts DEF Enough, Buckets
<1>3. RetryAfter(r) = IF ceil > 1 THEN ceil ELSE 1
  BY DEF RetryAfter
<1> HIDE DEF second, deficit
<1>4. ceil \in Int /\ second * ceil >= deficit
  <2>1. deficit + second - 1 \in Nat
    BY <1>1, <1>2
  <2> DEFINE a == deficit + second - 1
  <2>2. a \in Int /\ a = second * (a \div second) + (a % second) /\ a % second <= second - 1
    <3> HIDE DEF a
    <3>1. a \in Nat
      BY <2>1 DEF a
    <3> QED
      BY <1>1, <3>1
  <2>3. a \div second \in Int /\ a % second \in Int
    BY <1>1, <2>1
  <2> QED
    BY <1>1, <1>2, <2>2, <2>3
<1>5. RetryAfter(r) \in Nat \ {0}
  BY <1>3, <1>4
<1>6. second * RetryAfter(r) >= deficit
  <2>1. CASE ceil > 1
    BY <1>3, <1>4, <2>1
  <2>2. CASE ~(ceil > 1)
    <3>1. RetryAfter(r) = 1 /\ ceil <= 1
      BY <1>3, <1>4, <2>2
    <3>2. second * ceil <= second * 1
      <4>1. 1 - ceil \in Nat
        BY <1>4, <3>1
      <4>2. second * (1 - ceil) >= 0
        BY <1>1, <4>1
      <4> QED
        BY <1>1, <1>4, <4>2
    <3>3. second * 1 \in Int /\ second * ceil \in Int
      BY <1>1, <1>4
    <3> QED
      BY <1>1, <1>2, <1>4, <3>1, <3>2, <3>3
  <2> QED
    BY <2>1, <2>2
<1>7. Refill * (RetryAfter(r) * TicksPerSecond) = second * RetryAfter(r)
  BY <1>5, FullFacts DEF second
<1> QED
  BY <1>5, <1>6, <1>7 DEF deficit

-----------------------------------------------------------------------------
(* Types                                                                    *)

\* The row that a commit writes.
LEMMA CommitFacts ==
    ASSUME TypeOK, HandInv, NEW q \in Requests, Commit(q)
    PROVE  /\ pc[q] = "charged" /\ bucketLock \in {Nobody, q}
           /\ mine[q] \in Buckets /\ loaded[q] \in Buckets
           /\ \E v \in 0 .. Full :
                /\ 2 * v <= 2 * mine[q].tokens + Half /\ 2 * mine[q].tokens <= 2 * v + Half
                /\ LET row == IF bucket = NoBucket THEN loaded[q] ELSE bucket
                   IN  bucket' = [tokens |-> IF mine[q].tokens = loaded[q].tokens
                                             THEN row.tokens ELSE v,
                                  at |-> IF mine[q].at = loaded[q].at
                                         THEN row.at ELSE Naive(mine[q].at)]
           /\ bucket' \in Buckets
           /\ admitted' = Append(admitted, mine[q].at)
           /\ pc' = [pc EXCEPT ![q] = "admitted"]
           /\ Unlock(q)
           /\ UNCHANGED <<clock, revoked, now, mine, loaded, revoker, emptied, retryAt, seen>>
<1> DEFINE row == IF bucket = NoBucket THEN loaded[q] ELSE bucket
<1>1. /\ pc[q] = "charged" /\ bucketLock \in {Nobody, q}
      /\ mine[q] \in Buckets /\ loaded[q] \in Buckets
      /\ admitted' = Append(admitted, mine[q].at)
      /\ pc' = [pc EXCEPT ![q] = "admitted"]
      /\ Unlock(q)
      /\ UNCHANGED <<clock, revoked, now, mine, loaded, revoker, emptied, retryAt, seen>>
  BY DEF Commit, HandInv, Go, localVars, revokerVars, denialVars
<1>2. PICK v \in Stored(mine[q].tokens) :
        bucket' = [tokens |-> IF mine[q].tokens = loaded[q].tokens THEN row.tokens ELSE v,
                   at |-> IF mine[q].at = loaded[q].at THEN row.at ELSE Naive(mine[q].at)]
  BY DEF Commit
<1>3. /\ mine[q].tokens \in 0 .. Full
      /\ mine[q].at = loaded[q].at \/ Naive(mine[q].at) \in Instants
  BY <1>1, InstantFacts DEF Buckets, HandInv
<1>4. /\ v \in 0 .. Full
      /\ 2 * v <= 2 * mine[q].tokens + Half /\ 2 * mine[q].tokens <= 2 * v + Half
  BY <1>2, <1>3, StoredFacts
<1>5. row \in Buckets
  BY <1>1 DEF TypeOK
<1>6. bucket' \in Buckets
  BY <1>2, <1>3, <1>4, <1>5 DEF Buckets
<1> QED
  BY <1>1, <1>2, <1>4, <1>6

\* In UTC it has the time that the request has in hand.
LEMMA CommitUtc ==
    ASSUME Zone = 0, TypeOK, HandInv, NEW q \in Requests, Commit(q)
    PROVE  /\ mine[q] \in Buckets /\ loaded[q] \in Buckets /\ pc[q] = "charged"
           /\ \E v \in 0 .. Full :
                /\ 2 * v <= 2 * mine[q].tokens + Half /\ 2 * mine[q].tokens <= 2 * v + Half
                /\ LET row == IF bucket = NoBucket THEN loaded[q] ELSE bucket
                   IN  bucket' = [tokens |-> IF mine[q].tokens = loaded[q].tokens
                                             THEN row.tokens ELSE v,
                                  at |-> IF mine[q].at = loaded[q].at
                                         THEN row.at ELSE mine[q].at]
           /\ bucket'.at \in {bucket.at, loaded[q].at, mine[q].at}
           /\ UNCHANGED <<clock, now, emptied>>
<1>1. mine[q] \in Buckets /\ loaded[q] \in Buckets /\ pc[q] = "charged"
  BY CommitFacts
<1>2. Naive(mine[q].at) = mine[q].at
  BY <1>1, UtcFacts, UtcBucket
<1> QED
  BY <1>1, <1>2, CommitFacts

\* The ends of transactions leave locks of a known kind.
LEMMA UnlockType ==
    ASSUME TypeOK, NEW a, Unlock(a)
    PROVE  /\ keyLock' \in Requests \cup {Revoker, Nobody}
           /\ bucketLock' \in Requests \cup {Revoker, Nobody}
BY DEF Unlock, Release, TypeOK

\* A decision leaves calls of a known kind and, if it charges, a bucket in hand.
LEMMA DecisionType ==
    ASSUME TypeOK, HandInv, NEW q \in Requests, NEW b \in Buckets,
           Charges(q, b) \/ Denies(q, b), now' = now, admitted' = admitted
    PROVE  /\ pc' \in [Requests -> {"new"} \cup InTransaction \cup Answers]
           /\ mine' \in [Requests -> Buckets \cup {NoBucket}]
           /\ loaded' \in [Requests -> Buckets \cup {NoBucket}]
           /\ retryAt' \in [Requests -> Nat]
           /\ seen' \in [Requests -> Nat]
           /\ HandInv'
<1> DEFINE r == Refilled(b, now[q])
<1>1. now[q] \in 0 .. MaxClock /\ now[q] \in Nat
  BY FullFacts DEF TypeOK
<1>2. r \in Buckets
  BY <1>1, RefilledType
<1> HIDE DEF r
<1>3. CASE Charges(q, b)
  <2>1. /\ Enough(r) /\ pc' = [pc EXCEPT ![q] = "charged"]
        /\ mine' = [mine EXCEPT ![q] = [r EXCEPT !.tokens = @ - Scale]]
        /\ loaded' = [loaded EXCEPT ![q] = b]
        /\ retryAt' = retryAt /\ seen' = seen
    BY <1>3 DEF Charges, r
  <2>2. /\ [r EXCEPT !.tokens = @ - Scale] \in Buckets
        /\ [r EXCEPT !.tokens = @ - Scale].at = r.at
    BY <1>2, <2>1, ChargedType
  <2>3. r.at = b.at \/ r.at \in 0 .. MaxClock
    BY <1>1, Refills DEF r
  <2> QED
    BY <2>1, <2>2, <2>3 DEF TypeOK, HandInv, InTransaction
<1>4. CASE Denies(q, b)
  <2>1. /\ ~Enough(r) /\ pc' = [pc EXCEPT ![q] = "denied"]
        /\ retryAt' = [retryAt EXCEPT ![q] = now[q] + RetryAfter(r) * TicksPerSecond]
        /\ seen' = [seen EXCEPT ![q] = Len(admitted)]
        /\ mine' = mine /\ loaded' = loaded
    BY <1>4 DEF Denies, r
  <2>2. now[q] + RetryAfter(r) * TicksPerSecond \in Nat
    <3>1. RetryAfter(r) \in Nat
      BY <1>2, <2>1, RetryFacts
    <3>2. RetryAfter(r) * TicksPerSecond \in Nat
      BY <3>1, FullFacts
    <3> QED
      BY <1>1, <3>2
  <2>3. Len(admitted) \in Nat
    BY DEF TypeOK
  <2> QED
    BY <2>1, <2>2, <2>3 DEF TypeOK, HandInv, Answers
<1> QED
  BY <1>3, <1>4

TypeInv == TypeOK /\ HandInv

\* Types survive every step, with row locks and without.
LEMMA TypeInvNext == TypeInv /\ [Next]_vars => TypeInv'
<1> SUFFICES ASSUME TypeInv, [Next]_vars PROVE TypeInv'
  OBVIOUS
<1>0. TypeOK /\ HandInv
  BY DEF TypeInv
<1>1. CASE Tick
  BY <1>0, <1>1, FullFacts
     DEF TypeInv, TypeOK, HandInv, Tick, keyVars, bucketVars, localVars, revokerVars, denialVars
<1>2. ASSUME NEW q \in Requests, Authenticate(q)
      PROVE  TypeInv'
  BY <1>0, <1>2
     DEF TypeInv, TypeOK, HandInv, Authenticate, Go, InTransaction, Answers, keyVars, bucketVars,
         localVars, revokerVars, denialVars
<1>3. ASSUME NEW q \in Requests, LockKey(q)
      PROVE  TypeInv'
  <2>1. /\ pc' = [pc EXCEPT ![q] = "rejected"] \/ pc' = [pc EXCEPT ![q] = "checked"]
        /\ keyLock' = keyLock \/ keyLock' = Claim(keyLock, q)
        /\ now' = now \/ now' = [now EXCEPT ![q] = clock]
        /\ UNCHANGED <<clock, revoked, bucketVars, mine, loaded, revokerVars, admitted, denialVars>>
    BY <1>3 DEF LockKey, Go
  <2> QED
    BY <1>0, <2>1
       DEF TypeInv, TypeOK, HandInv, Claim, InTransaction, Answers, bucketVars, revokerVars,
           denialVars
<1>4. ASSUME NEW q \in Requests, ReadBucket(q)
      PROVE  TypeInv'
  <2>1. /\ bucket \in Buckets
        /\ Charges(q, bucket) \/ Denies(q, bucket)
        /\ UNCHANGED <<clock, revoked, bucket, now, revoker, emptied, admitted>>
        /\ (bucketLock' = Claim(bucketLock, q) /\ keyLock' = keyLock) \/ Unlock(q)
    BY <1>0, <1>4, ReadFacts
  <2>2. /\ keyLock' \in Requests \cup {Revoker, Nobody}
        /\ bucketLock' \in Requests \cup {Revoker, Nobody}
    BY <1>0, <2>1, UnlockType DEF Claim, TypeOK
  <2>3. /\ pc' \in [Requests -> {"new"} \cup InTransaction \cup Answers]
        /\ mine' \in [Requests -> Buckets \cup {NoBucket}]
        /\ loaded' \in [Requests -> Buckets \cup {NoBucket}]
        /\ retryAt' \in [Requests -> Nat]
        /\ seen' \in [Requests -> Nat]
        /\ HandInv'
    BY <1>0, <2>1, DecisionType
  <2> QED
    BY <1>0, <2>1, <2>2, <2>3 DEF TypeInv, TypeOK
<1>5. ASSUME NEW q \in Requests, MissBucket(q)
      PROVE  TypeInv'
  BY <1>0, <1>5
     DEF TypeInv, TypeOK, HandInv, MissBucket, Go, InTransaction, keyVars, bucketVars, localVars,
         revokerVars, denialVars
<1>6. ASSUME NEW q \in Requests, InsertBucket(q)
      PROVE  TypeInv'
  <2>1. /\ Inserted \in Buckets
        /\ Charges(q, Inserted) \/ Denies(q, Inserted)
        /\ UNCHANGED <<clock, revoked, bucket, now, revoker, emptied, admitted>>
        /\ (bucketLock' = q /\ keyLock' = keyLock) \/ Unlock(q)
    BY <1>0, <1>6, InsertFacts
  <2>2. /\ keyLock' \in Requests \cup {Revoker, Nobody}
        /\ bucketLock' \in Requests \cup {Revoker, Nobody}
    BY <1>0, <2>1, UnlockType DEF TypeOK
  <2>3. /\ pc' \in [Requests -> {"new"} \cup InTransaction \cup Answers]
        /\ mine' \in [Requests -> Buckets \cup {NoBucket}]
        /\ loaded' \in [Requests -> Buckets \cup {NoBucket}]
        /\ retryAt' \in [Requests -> Nat]
        /\ seen' \in [Requests -> Nat]
        /\ HandInv'
    BY <1>0, <2>1, DecisionType
  <2> QED
    BY <1>0, <2>1, <2>2, <2>3 DEF TypeInv, TypeOK
<1>7. ASSUME NEW q \in Requests, Commit(q)
      PROVE  TypeInv'
  <2>1. /\ mine[q] \in Buckets /\ bucket' \in Buckets
        /\ admitted' = Append(admitted, mine[q].at)
        /\ pc' = [pc EXCEPT ![q] = "admitted"]
        /\ Unlock(q)
        /\ UNCHANGED <<clock, revoked, now, mine, loaded, revoker, emptied, retryAt, seen>>
    BY <1>0, <1>7, CommitFacts
  <2>2. admitted' \in Seq(Instants)
    BY <1>0, <2>1 DEF TypeOK, Buckets
  <2> QED
    BY <1>0, <2>1, <2>2, UnlockType DEF TypeInv, TypeOK, HandInv, Answers
<1>8. ASSUME NEW q \in Requests, Fail(q)
      PROVE  TypeInv'
  BY <1>0, <1>8, UnlockType
     DEF TypeInv, TypeOK, HandInv, Fail, Go, Answers, localVars, revokerVars, denialVars
<1>9. CASE EmptyBucket
  BY <1>0, <1>9 DEF TypeInv, TypeOK, HandInv, EmptyBucket, keyVars, localVars, denialVars
<1>10. CASE Revoke
  <2>1. bucket' \in Buckets
    BY <1>0, <1>10, FullFacts, InstantFacts DEF Revoke, TypeOK, Buckets
  <2> QED
    BY <1>0, <1>10, <2>1, UnlockType DEF TypeInv, TypeOK, HandInv, Revoke, localVars, denialVars
<1>11. CASE AbortRevoker
  BY <1>0, <1>11, UnlockType DEF TypeInv, TypeOK, HandInv, AbortRevoker, localVars, denialVars
<1>12. CASE UNCHANGED vars
  BY <1>0, <1>12
     DEF TypeInv, TypeOK, HandInv, vars, keyVars, bucketVars, localVars, revokerVars, denialVars
<1> QED
  BY <1>1, <1>2, <1>3, <1>4, <1>5, <1>6, <1>7, <1>8, <1>9, <1>10, <1>11, <1>12
  DEF Next, RequestStep, RevokerStep

LEMMA TypeInvInit == Init => TypeInv
<1> SUFFICES ASSUME Init PROVE TypeInv
  OBVIOUS
<1>1. 0 \in 0 .. MaxClock /\ 0 \in Nat
  BY FullFacts
<1>2. \A q \in Requests : pc[q] = "new"
  BY DEF Init
<1>3. HandInv
  BY <1>2 DEF HandInv
<1>4. TypeOK
  <2>1. /\ clock \in 0 .. MaxClock /\ emptied \in 0 .. MaxClock
        /\ revoked \in BOOLEAN /\ revoker \in {"new", "emptied", "done", "failed"}
        /\ bucket \in Buckets \cup {NoBucket}
        /\ keyLock \in Requests \cup {Revoker, Nobody}
        /\ bucketLock \in Requests \cup {Revoker, Nobody}
    BY <1>1 DEF Init
  <2>2. /\ pc \in [Requests -> {"new"} \cup InTransaction \cup Answers]
        /\ now \in [Requests -> 0 .. MaxClock]
        /\ retryAt \in [Requests -> Nat] /\ seen \in [Requests -> Nat]
    BY <1>1 DEF Init
  <2>3. /\ mine \in [Requests -> Buckets \cup {NoBucket}]
        /\ loaded \in [Requests -> Buckets \cup {NoBucket}]
    BY DEF Init
  <2>4. admitted \in Seq(Instants)
    BY DEF Init
  <2> QED
    BY <2>1, <2>2, <2>3, <2>4 DEF TypeOK
<1> QED
  BY <1>3, <1>4 DEF TypeInv

\* Every reachable state is well typed: no bucket holds more than its capacity or
\* less than nothing, whatever database it is in.
THEOREM TypeCorrect == Spec => []TypeOK
<1>1. TypeInv => TypeOK
  BY DEF TypeInv
<1> QED
  BY TypeInvInit, TypeInvNext, <1>1, PTL DEF Spec


-----------------------------------------------------------------------------
(* Locks, clock and rows, where there are row locks                         *)

\* Times and the clock are numbers.
LEMMA TimeFacts ==
    ASSUME TypeOK
    PROVE  /\ clock \in Nat /\ emptied \in Nat /\ bucket.at \in Int
           /\ \A q \in Requests : now[q] \in Nat
<1>1. \A b \in Buckets \cup {NoBucket} : b.at \in Int
  BY InstantFacts DEF Buckets, NoBucket
<1> QED
  BY <1>1, FullFacts DEF TypeOK

\* A lock is taken on the way into its places and given back on the way out.
LEMMA LockInvNext ==
    ASSUME RowLocks, TypeOK, HandInv, LockInv, [Next]_vars
    PROVE  LockInv'
<1> USE RowLocks, Actors DEF TypeOK, LockInv, Holding, InTransaction
<1>1. CASE Tick
  BY <1>1 DEF Tick, Go, Claim, Release, Unlock, Free, Holding, keyVars, bucketVars, localVars,
     revokerVars, denialVars
<1>2. ASSUME NEW q \in Requests, Authenticate(q)
      PROVE  LockInv'
  BY <1>2 DEF Authenticate, Go, Claim, Release, Unlock, Free, Holding, keyVars, bucketVars, localVars,
     revokerVars, denialVars
<1>3. ASSUME NEW q \in Requests, LockKey(q)
      PROVE  LockInv'
  BY <1>3 DEF LockKey, Go, Claim, Release, Unlock, Free, Holding, keyVars, bucketVars, localVars,
     revokerVars, denialVars
<1>4. ASSUME NEW q \in Requests, ReadBucket(q)
      PROVE  LockInv'
  <2>1. /\ pc[q] = "checked" /\ bucketLock = Nobody
        /\ revoker' = revoker
        /\ \/ /\ pc' = [pc EXCEPT ![q] = "charged"] /\ bucketLock' = q /\ keyLock' = keyLock
           \/ pc' = [pc EXCEPT ![q] = "denied"] /\ Unlock(q)
    BY <1>4, ReadFacts DEF Charges, Denies, Claim, Free
  <2>2. CASE pc' = [pc EXCEPT ![q] = "charged"]
    BY <2>1, <2>2 DEF Unlock, Release
  <2>3. CASE pc' = [pc EXCEPT ![q] = "denied"] /\ Unlock(q)
    BY <2>1, <2>3 DEF Unlock, Release
  <2> QED
    BY <2>1, <2>2, <2>3
<1>5. ASSUME NEW q \in Requests, MissBucket(q)
      PROVE  LockInv'
  BY <1>5 DEF MissBucket, Go, Claim, Release, Unlock, Free, Holding, keyVars, bucketVars, localVars,
     revokerVars, denialVars
<1>6. ASSUME NEW q \in Requests, InsertBucket(q)
      PROVE  LockInv'
  <2>1. /\ pc[q] = "missing" /\ bucketLock = Nobody
        /\ revoker' = revoker
        /\ \/ /\ pc' = [pc EXCEPT ![q] = "charged"] /\ bucketLock' = q /\ keyLock' = keyLock
           \/ pc' = [pc EXCEPT ![q] = "denied"] /\ Unlock(q)
    BY <1>6, InsertFacts DEF Charges, Denies
  <2>2. CASE pc' = [pc EXCEPT ![q] = "charged"]
    BY <2>1, <2>2 DEF Unlock, Release
  <2>3. CASE pc' = [pc EXCEPT ![q] = "denied"] /\ Unlock(q)
    BY <2>1, <2>3 DEF Unlock, Release
  <2> QED
    BY <2>1, <2>2, <2>3
<1>7. ASSUME NEW q \in Requests, Commit(q)
      PROVE  LockInv'
  <2>1. /\ pc[q] = "charged" /\ revoker' = revoker
        /\ pc' = [pc EXCEPT ![q] = "admitted"] /\ Unlock(q)
    BY <1>7, CommitFacts
  <2> QED
    BY <2>1 DEF Unlock, Release
<1>8. ASSUME NEW q \in Requests, Fail(q)
      PROVE  LockInv'
  BY <1>8 DEF Fail, Go, Claim, Release, Unlock, Free, Holding, keyVars, bucketVars, localVars,
     revokerVars, denialVars
<1>9. CASE EmptyBucket
  BY <1>9 DEF EmptyBucket, Go, Claim, Release, Unlock, Free, Holding, keyVars, bucketVars, localVars,
     revokerVars, denialVars
<1>10. CASE Revoke
  BY <1>10 DEF Revoke, Go, Claim, Release, Unlock, Free, Holding, keyVars, bucketVars, localVars,
     revokerVars, denialVars
<1>11. CASE AbortRevoker
  BY <1>11 DEF AbortRevoker, Go, Claim, Release, Unlock, Free, Holding, keyVars, bucketVars, localVars,
     revokerVars, denialVars
<1>12. CASE UNCHANGED vars
  BY <1>12 DEF vars, keyVars, bucketVars, localVars, revokerVars, denialVars
<1> HIDE DEF TypeOK, LockInv, Holding, InTransaction
<1> QED
  BY <1>1, <1>2, <1>3, <1>4, <1>5, <1>6, <1>7, <1>8, <1>9, <1>10, <1>11, <1>12
  DEF Next, RequestStep, RevokerStep

\* Times are read from the clock.
LEMMA ClockInvNext ==
    ASSUME RowLocks, Zone = 0, TypeOK, HandInv, ClockInv, LockInv, SeenInv, [Next]_vars
    PROVE  ClockInv'
<1> USE RowLocks, Actors DEF TypeOK, ClockInv
<1>1. CASE Tick
  <2>1. clock' = clock + 1 /\ UNCHANGED <<bucket, now, emptied>>
    BY <1>1 DEF Tick, bucketVars, localVars, revokerVars
  <2>2. clock <= clock' /\ clock \in Nat /\ clock' \in Nat
    BY <2>1, TimeFacts
  <2>3. bucket.at \in Int /\ emptied \in Nat /\ \A q \in Requests : now[q] \in Nat
    BY TimeFacts
  <2> QED
    BY <2>1, <2>2, <2>3
<1>2. ASSUME NEW q \in Requests, Authenticate(q)
      PROVE  ClockInv'
  BY <1>2 DEF Authenticate, Go, Claim, Release, Unlock, Free, Holding, keyVars, bucketVars, localVars,
     revokerVars, denialVars
<1>3. ASSUME NEW q \in Requests, LockKey(q)
      PROVE  ClockInv'
  <2>1. /\ now' = now \/ now' = [now EXCEPT ![q] = clock]
        /\ UNCHANGED <<bucket, emptied, clock>>
    BY <1>3 DEF LockKey, bucketVars, revokerVars
  <2>2. clock \in Nat /\ clock <= clock
    BY TimeFacts
  <2>3. \A p \in Requests : now'[p] = now[p] \/ now'[p] = clock
    BY <2>1
  <2> QED
    BY <2>1, <2>2, <2>3
<1>4. ASSUME NEW q \in Requests, ReadBucket(q)
      PROVE  ClockInv'
  BY <1>4, ReadFacts DEF Charges, Denies, Claim, Release, Unlock, Free, Holding
<1>5. ASSUME NEW q \in Requests, MissBucket(q)
      PROVE  ClockInv'
  BY <1>5 DEF MissBucket, Go, Claim, Release, Unlock, Free, Holding, keyVars, bucketVars, localVars,
     revokerVars, denialVars
<1>6. ASSUME NEW q \in Requests, InsertBucket(q)
      PROVE  ClockInv'
  BY <1>6, InsertFacts DEF Charges, Denies, Claim, Release, Unlock, Free, Holding
<1>7. ASSUME NEW q \in Requests, Commit(q)
      PROVE  ClockInv'
  <2>1. /\ mine[q] \in Buckets /\ loaded[q] \in Buckets /\ pc[q] = "charged"
        /\ bucket'.at \in {bucket.at, loaded[q].at, mine[q].at}
        /\ UNCHANGED <<clock, now, emptied>>
    BY <1>7, CommitUtc
  <2>2. Charged(q) /\ now[q] \in Nat /\ clock \in Nat
    BY <2>1, TimeFacts DEF SeenInv, Sees
  <2>3. mine[q].at = Refilled(loaded[q], now[q]).at /\ loaded[q].at <= clock
    BY <2>1, <2>2, ChargedType, RefilledType DEF Charged
  <2>4. mine[q].at <= clock
    <3>1. Refilled(loaded[q], now[q]).at =
            IF now[q] > loaded[q].at THEN now[q] ELSE loaded[q].at
      BY <2>1, <2>2, Refills
    <3> QED
      BY <2>2, <2>3, <3>1
  <2> QED
    BY <2>1, <2>3, <2>4
<1>8. ASSUME NEW q \in Requests, Fail(q)
      PROVE  ClockInv'
  BY <1>8 DEF Fail, Go, Claim, Release, Unlock, Free, Holding, keyVars, bucketVars, localVars,
     revokerVars, denialVars
<1>9. CASE EmptyBucket
  BY <1>9 DEF EmptyBucket, Go, Claim, Release, Unlock, Free, Holding, keyVars, bucketVars, localVars,
     revokerVars, denialVars
<1>10. CASE Revoke
  BY <1>10 DEF Revoke, Go, Claim, Release, Unlock, Free, Holding, keyVars, bucketVars, localVars,
     revokerVars, denialVars
<1>11. CASE AbortRevoker
  BY <1>11 DEF AbortRevoker, Go, Claim, Release, Unlock, Free, Holding, keyVars, bucketVars, localVars,
     revokerVars, denialVars
<1>12. CASE UNCHANGED vars
  BY <1>12 DEF vars, keyVars, bucketVars, localVars, revokerVars, denialVars
<1> HIDE DEF TypeOK, ClockInv
<1> QED
  BY <1>1, <1>2, <1>3, <1>4, <1>5, <1>6, <1>7, <1>8, <1>9, <1>10, <1>11, <1>12
  DEF Next, RequestStep, RevokerStep

\* A revocation waits for the key, and who comes later sees it.
LEMMA RevokedInvNext ==
    ASSUME RowLocks, TypeOK, HandInv, LockInv, RevokedInv, [Next]_vars
    PROVE  RevokedInv'
<1> USE RowLocks, Actors DEF TypeOK, LockInv, RevokedInv, Holding, InTransaction
<1>1. CASE Tick
  BY <1>1 DEF Tick, Go, Claim, Release, Unlock, Free, Holding, keyVars, bucketVars, localVars,
     revokerVars, denialVars
<1>2. ASSUME NEW q \in Requests, Authenticate(q)
      PROVE  RevokedInv'
  BY <1>2 DEF Authenticate, Go, Claim, Release, Unlock, Free, Holding, keyVars, bucketVars, localVars,
     revokerVars, denialVars
<1>3. ASSUME NEW q \in Requests, LockKey(q)
      PROVE  RevokedInv'
  BY <1>3 DEF LockKey, Go, Claim, Release, Unlock, Free, Holding, keyVars, bucketVars, localVars,
     revokerVars, denialVars
<1>4. ASSUME NEW q \in Requests, ReadBucket(q)
      PROVE  RevokedInv'
  BY <1>4, ReadFacts DEF Charges, Denies, Claim, Release, Unlock, Free, Holding
<1>5. ASSUME NEW q \in Requests, MissBucket(q)
      PROVE  RevokedInv'
  BY <1>5 DEF MissBucket, Go, Claim, Release, Unlock, Free, Holding, keyVars, bucketVars, localVars,
     revokerVars, denialVars
<1>6. ASSUME NEW q \in Requests, InsertBucket(q)
      PROVE  RevokedInv'
  BY <1>6, InsertFacts DEF Charges, Denies, Claim, Release, Unlock, Free, Holding
<1>7. ASSUME NEW q \in Requests, Commit(q)
      PROVE  RevokedInv'
  BY <1>7, CommitFacts DEF Claim, Release, Unlock, Free, Holding
<1>8. ASSUME NEW q \in Requests, Fail(q)
      PROVE  RevokedInv'
  BY <1>8 DEF Fail, Go, Claim, Release, Unlock, Free, Holding, keyVars, bucketVars, localVars,
     revokerVars, denialVars
<1>9. CASE EmptyBucket
  BY <1>9 DEF EmptyBucket, Go, Claim, Release, Unlock, Free, Holding, keyVars, bucketVars, localVars,
     revokerVars, denialVars
<1>10. CASE Revoke
  BY <1>10 DEF Revoke, Go, Claim, Release, Unlock, Free, Holding, keyVars, bucketVars, localVars,
     revokerVars, denialVars
<1>11. CASE AbortRevoker
  BY <1>11 DEF AbortRevoker, Deadlocked, localVars, denialVars
<1>12. CASE UNCHANGED vars
  BY <1>12 DEF vars, keyVars, bucketVars, localVars, revokerVars, denialVars
<1> HIDE DEF TypeOK, LockInv, RevokedInv, Holding, InTransaction
<1> QED
  BY <1>1, <1>2, <1>3, <1>4, <1>5, <1>6, <1>7, <1>8, <1>9, <1>10, <1>11, <1>12
  DEF Next, RequestStep, RevokerStep

\* A row appears with an admission.
LEMMA RowInvNext ==
    ASSUME RowLocks, TypeOK, HandInv, LockInv, RevokedInv, RowInv, [Next]_vars
    PROVE  RowInv'
<1> USE RowLocks, Actors DEF TypeOK, RevokedInv, RowInv, Holding
<1>1. CASE Tick
  BY <1>1 DEF Tick, Go, Claim, Release, Unlock, Free, Holding, keyVars, bucketVars, localVars,
     revokerVars, denialVars
<1>2. ASSUME NEW q \in Requests, Authenticate(q)
      PROVE  RowInv'
  BY <1>2 DEF Authenticate, Go, Claim, Release, Unlock, Free, Holding, keyVars, bucketVars, localVars,
     revokerVars, denialVars
<1>3. ASSUME NEW q \in Requests, LockKey(q)
      PROVE  RowInv'
  BY <1>3 DEF LockKey, Go, Claim, Release, Unlock, Free, Holding, keyVars, bucketVars, localVars,
     revokerVars, denialVars
<1>4. ASSUME NEW q \in Requests, ReadBucket(q)
      PROVE  RowInv'
  BY <1>4, ReadFacts DEF Charges, Denies, Claim, Release, Unlock, Free, Holding
<1>5. ASSUME NEW q \in Requests, MissBucket(q)
      PROVE  RowInv'
  BY <1>5 DEF MissBucket, Go, Claim, Release, Unlock, Free, Holding, keyVars, bucketVars, localVars,
     revokerVars, denialVars
<1>6. ASSUME NEW q \in Requests, InsertBucket(q)
      PROVE  RowInv'
  BY <1>6, InsertFacts DEF Charges, Denies, Claim, Release, Unlock, Free, Holding
<1>7. ASSUME NEW q \in Requests, Commit(q)
      PROVE  RowInv'
  <2>1. bucket' \in Buckets /\ admitted' = Append(admitted, mine[q].at) /\ mine[q] \in Buckets
    BY <1>7, CommitFacts
  <2>2. bucket' # NoBucket
    BY <2>1, FullFacts DEF Buckets, NoBucket
  <2>3. admitted' # <<>>
    <3>1. mine[q].at \in Instants
      BY <2>1 DEF Buckets
    <3>2. Len(admitted') = Len(admitted) + 1 /\ Len(admitted) \in Nat
      BY <2>1, <3>1
    <3> QED
      BY <3>2
  <2> QED
    BY <2>2, <2>3
<1>8. ASSUME NEW q \in Requests, Fail(q)
      PROVE  RowInv'
  BY <1>8 DEF Fail, Go, Claim, Release, Unlock, Free, Holding, keyVars, bucketVars, localVars,
     revokerVars, denialVars
<1>9. CASE EmptyBucket
  BY <1>9 DEF EmptyBucket, Go, Claim, Release, Unlock, Free, Holding, keyVars, bucketVars, localVars,
     revokerVars, denialVars
<1>10. CASE Revoke
  BY <1>10 DEF Revoke, Go, Claim, Release, Unlock, Free, Holding, keyVars, bucketVars, localVars,
     revokerVars, denialVars
<1>11. CASE AbortRevoker
  BY <1>11 DEF AbortRevoker, Go, Claim, Release, Unlock, Free, Holding, keyVars, bucketVars, localVars,
     revokerVars, denialVars
<1>12. CASE UNCHANGED vars
  BY <1>12 DEF vars, keyVars, bucketVars, localVars, revokerVars, denialVars
<1> HIDE DEF TypeOK, RevokedInv, RowInv, Holding
<1> QED
  BY <1>1, <1>2, <1>3, <1>4, <1>5, <1>6, <1>7, <1>8, <1>9, <1>10, <1>11, <1>12
  DEF Next, RequestStep, RevokerStep

\* A request finds what it has charged as long as nobody touches it.
LEMMA ChargedStays ==
    ASSUME TypeOK, NEW q \in Requests, Charged(q), bucket' = bucket,
           loaded'[q] = loaded[q], now'[q] = now[q], mine'[q] = mine[q],
           clock' \in Nat, clock <= clock', loaded[q] \in Buckets
    PROVE  Charged(q)'
<1>1. loaded[q].at \in Int /\ clock \in Nat
  BY TimeFacts, InstantFacts DEF Buckets
<1> QED
  BY <1>1 DEF Charged

\* So does a request that is elsewhere, or has left.
LEMMA SeesStays ==
    ASSUME TypeOK, HandInv, NEW q \in Requests, Sees(q),
           bucket' = bucket, clock' \in Nat, clock <= clock',
           loaded'[q] = loaded[q], now'[q] = now[q], mine'[q] = mine[q],
           pc'[q] = pc[q] \/ pc'[q] \notin Holding
    PROVE  Sees(q)'
<1>1. CASE pc'[q] = pc[q]
  BY <1>1, ChargedStays DEF Sees, HandInv
<1>2. CASE pc'[q] \notin Holding
  BY <1>2 DEF Sees, Holding
<1> QED
  BY <1>1, <1>2

\* Nobody changes the bucket while another is at it.
LEMMA SeenInvNext ==
    ASSUME RowLocks, Zone = 0, TypeOK, HandInv, LockInv, ClockInv, RevokedInv, SeenInv, [Next]_vars
    PROVE  SeenInv'
<1> USE RowLocks, Actors DEF TypeOK
<1>1. CASE Tick
  <2>1. /\ bucket' = bucket /\ clock' \in Nat /\ clock <= clock'
        /\ UNCHANGED <<mine, loaded>>
        /\ \A p \in Requests : pc'[p] = pc[p] \/ pc'[p] \notin Holding
        /\ now' = now
    BY <1>1, TimeFacts DEF Tick, Go, Holding, keyVars, bucketVars, localVars, revokerVars, denialVars
  <2>2. \A p \in Requests : Sees(p)'
    BY <2>1, SeesStays DEF SeenInv
  <2> QED
    BY <2>2 DEF SeenInv
<1>2. ASSUME NEW q \in Requests, Authenticate(q)
      PROVE  SeenInv'
  <2>1. /\ bucket' = bucket /\ clock' \in Nat /\ clock <= clock'
        /\ UNCHANGED <<mine, loaded>>
        /\ \A p \in Requests : pc'[p] = pc[p] \/ pc'[p] \notin Holding
        /\ now' = now
    BY <1>2, TimeFacts DEF Authenticate, Go, Holding, keyVars, bucketVars, localVars, revokerVars, denialVars
  <2>2. \A p \in Requests : Sees(p)'
    BY <2>1, SeesStays DEF SeenInv
  <2> QED
    BY <2>2 DEF SeenInv
<1>3. ASSUME NEW q \in Requests, LockKey(q)
      PROVE  SeenInv'
  <2>1. /\ bucket' = bucket /\ clock' = clock /\ pc[q] = "authenticated"
        /\ UNCHANGED <<mine, loaded>>
        /\ \/ pc' = [pc EXCEPT ![q] = "rejected"] /\ now' = now
           \/ pc' = [pc EXCEPT ![q] = "checked"] /\ now' = [now EXCEPT ![q] = clock]
    BY <1>3 DEF LockKey, Go, bucketVars
  <2>2. \A p \in Requests \ {q} : Sees(p)'
    <3>1. \A p \in Requests \ {q} : /\ pc'[p] = pc[p] /\ now'[p] = now[p]
                                     /\ mine'[p] = mine[p] /\ loaded'[p] = loaded[p]
      BY <2>1
    <3> QED
      BY <2>1, <3>1, SeesStays, TimeFacts DEF SeenInv
  <2>3. /\ pc'[q] = "checked" /\ bucket' # NoBucket => bucket'.at <= now'[q]
        /\ pc'[q] \notin {"missing", "charged"}
    BY <2>1 DEF ClockInv
  <2> QED
    BY <2>2, <2>3 DEF SeenInv, Sees
<1>4. ASSUME NEW q \in Requests, ReadBucket(q)
      PROVE  SeenInv'
  <2>1. /\ bucket \in Buckets /\ (Charges(q, bucket) \/ Denies(q, bucket))
        /\ UNCHANGED <<clock, bucket, now>>
    BY <1>4, ReadFacts
  <2>2. bucket.at <= clock
    BY DEF ClockInv
  <2>3. \A p \in Requests \ {q} :
          pc'[p] = pc[p] /\ mine'[p] = mine[p] /\ loaded'[p] = loaded[p]
    BY <2>1 DEF Charges, Denies
  <2>4. \A p \in Requests \ {q} : Sees(p)'
    <3>1. clock' \in Nat /\ clock <= clock' /\ \A p \in Requests : Sees(p)
      BY <2>1, TimeFacts DEF SeenInv
    <3>2. UNCHANGED <<bucket, now>>
      BY <2>1
    <3> QED
      BY <2>3, <3>1, <3>2, SeesStays
  <2>5. CASE Charges(q, bucket)
    <3>1. pc'[q] = "charged" /\ loaded'[q] = bucket
      BY <2>5 DEF Charges
    <3>2. Enough(Refilled(bucket, now[q]))
      BY <2>5 DEF Charges
    <3>3. mine'[q] = [Refilled(bucket, now[q]) EXCEPT !.tokens = @ - Scale]
      BY <2>5 DEF Charges
    <3>4. Charged(q)'
      BY <2>1, <2>2, <3>1, <3>2, <3>3 DEF Charged
    <3> QED
      BY <2>4, <3>1, <3>4 DEF SeenInv, Sees
  <2>6. CASE Denies(q, bucket)
    <3>1. pc'[q] = "denied"
      BY <2>6 DEF Denies
    <3> QED
      BY <2>4, <3>1 DEF SeenInv, Sees
  <2> QED
    BY <2>1, <2>5, <2>6
<1>5. ASSUME NEW q \in Requests, MissBucket(q)
      PROVE  SeenInv'
  <2>1. /\ bucket' = bucket /\ clock' = clock /\ bucket = NoBucket
        /\ UNCHANGED <<mine, loaded, now>>
        /\ pc' = [pc EXCEPT ![q] = "missing"]
    BY <1>5 DEF MissBucket, Go, bucketVars, localVars
  <2>2. \A p \in Requests \ {q} : Sees(p)'
    <3>1. \A p \in Requests \ {q} : pc'[p] = pc[p]
      BY <2>1
    <3>2. clock' \in Nat /\ clock <= clock' /\ \A p \in Requests : Sees(p)
      BY <2>1, TimeFacts DEF SeenInv
    <3>3. \A p \in Requests : loaded'[p] = loaded[p] /\ now'[p] = now[p] /\ mine'[p] = mine[p]
      BY <2>1
    <3> QED
      BY <2>1, <3>1, <3>2, <3>3, SeesStays
  <2> QED
    BY <2>1, <2>2 DEF SeenInv, Sees
<1>6. ASSUME NEW q \in Requests, InsertBucket(q)
      PROVE  SeenInv'
  <2>1. /\ Inserted \in Buckets /\ (Charges(q, Inserted) \/ Denies(q, Inserted))
        /\ UNCHANGED <<clock, bucket, now>>
    BY <1>6, InsertFacts
  <2>2. bucket = Inserted \/ (bucket = NoBucket /\ Inserted.tokens = Full)
    BY DEF Inserted, NewBucket
  <2>3. Inserted.at <= clock
    BY <2>2, <1>6, InsertFacts, TimeFacts DEF ClockInv, Inserted, NewBucket
  <2>4. \A p \in Requests \ {q} :
          pc'[p] = pc[p] /\ mine'[p] = mine[p] /\ loaded'[p] = loaded[p]
    BY <2>1 DEF Charges, Denies
  <2>5. \A p \in Requests \ {q} : Sees(p)'
    <3>1. clock' \in Nat /\ clock <= clock' /\ \A p \in Requests : Sees(p)
      BY <2>1, TimeFacts DEF SeenInv
    <3>2. UNCHANGED <<bucket, now>>
      BY <2>1
    <3> QED
      BY <2>4, <3>1, <3>2, SeesStays
  <2>6. CASE Charges(q, Inserted)
    <3>1. pc'[q] = "charged" /\ loaded'[q] = Inserted
      BY <2>6 DEF Charges
    <3>2. Enough(Refilled(Inserted, now[q]))
      BY <2>6 DEF Charges
    <3>3. mine'[q] = [Refilled(Inserted, now[q]) EXCEPT !.tokens = @ - Scale]
      BY <2>6 DEF Charges
    <3>4. Charged(q)'
      BY <2>1, <2>2, <2>3, <3>1, <3>2, <3>3 DEF Charged
    <3> QED
      BY <2>5, <3>1, <3>4 DEF SeenInv, Sees
  <2>7. CASE Denies(q, Inserted)
    <3>1. pc'[q] = "denied"
      BY <2>7 DEF Denies
    <3> QED
      BY <2>5, <3>1 DEF SeenInv, Sees
  <2> QED
    BY <2>1, <2>6, <2>7
<1>7. ASSUME NEW q \in Requests, Commit(q)
      PROVE  SeenInv'
  <2>1. /\ pc[q] = "charged" /\ keyLock = q
        /\ pc' = [pc EXCEPT ![q] = "admitted"]
    BY <1>7, CommitFacts DEF LockInv, Holding
  <2>2. \A p \in Requests : pc'[p] \notin Holding
    BY <2>1 DEF LockInv, Holding
  <2> QED
    BY <2>2 DEF SeenInv, Sees, Holding
<1>8. ASSUME NEW q \in Requests, Fail(q)
      PROVE  SeenInv'
  <2>1. /\ bucket' = bucket /\ clock' \in Nat /\ clock <= clock'
        /\ UNCHANGED <<mine, loaded>>
        /\ \A p \in Requests : pc'[p] = pc[p] \/ pc'[p] \notin Holding
        /\ now' = now
    BY <1>8, TimeFacts DEF Fail, Go, Holding, keyVars, bucketVars, localVars, revokerVars, denialVars
  <2>2. \A p \in Requests : Sees(p)'
    BY <2>1, SeesStays DEF SeenInv
  <2> QED
    BY <2>2 DEF SeenInv
<1>9. CASE EmptyBucket
  <2>1. /\ bucket' = bucket /\ clock' \in Nat /\ clock <= clock'
        /\ UNCHANGED <<mine, loaded>>
        /\ \A p \in Requests : pc'[p] = pc[p] \/ pc'[p] \notin Holding
        /\ now' = now
    BY <1>9, TimeFacts DEF EmptyBucket, Go, Holding, keyVars, bucketVars, localVars, revokerVars, denialVars
  <2>2. \A p \in Requests : Sees(p)'
    BY <2>1, SeesStays DEF SeenInv
  <2> QED
    BY <2>2 DEF SeenInv
<1>10. CASE Revoke
  <2>1. keyLock = Nobody /\ pc' = pc
    BY <1>10 DEF Revoke, Free
  <2>2. \A p \in Requests : pc'[p] \notin Holding
    BY <2>1 DEF LockInv
  <2> QED
    BY <2>2 DEF SeenInv, Sees, Holding
<1>11. CASE AbortRevoker
  <2>1. /\ bucket' = bucket /\ clock' \in Nat /\ clock <= clock'
        /\ UNCHANGED <<mine, loaded>>
        /\ \A p \in Requests : pc'[p] = pc[p] \/ pc'[p] \notin Holding
        /\ now' = now
    BY <1>11, TimeFacts DEF AbortRevoker, Holding, keyVars, bucketVars, localVars, revokerVars, denialVars
  <2>2. \A p \in Requests : Sees(p)'
    BY <2>1, SeesStays DEF SeenInv
  <2> QED
    BY <2>2 DEF SeenInv
<1>12. CASE UNCHANGED vars
  <2>1. /\ bucket' = bucket /\ clock' \in Nat /\ clock <= clock'
        /\ UNCHANGED <<mine, loaded, now, pc>>
    BY <1>12, TimeFacts DEF vars, bucketVars, localVars
  <2>2. \A p \in Requests : Sees(p)'
    BY <2>1, SeesStays DEF SeenInv
  <2> QED
    BY <2>2 DEF SeenInv
<1> HIDE DEF TypeOK
<1> QED
  BY <1>1, <1>2, <1>3, <1>4, <1>5, <1>6, <1>7, <1>8, <1>9, <1>10, <1>11, <1>12
  DEF Next, RequestStep, RevokerStep

-----------------------------------------------------------------------------
(* The account                                                              *)

\* One admission more.
LEMMA SpentFacts ==
    ASSUME NEW n \in Nat
    PROVE  /\ TwiceSpent(n) \in Nat /\ TwiceRounded(n) \in Nat /\ Half \in Nat
           /\ TwiceSpent(n + 1) = TwiceSpent(n) + 2 * Scale
           /\ TwiceRounded(n + 1) = TwiceRounded(n) + Half
           /\ TwiceSpent(1) = 2 * Scale /\ TwiceRounded(1) = Half /\ TwiceRounded(0) = 0
<1>1. /\ n * Scale \in Nat /\ (n + 1) * Scale = n * Scale + Scale
      /\ 2 * n * Scale = 2 * (n * Scale) /\ 2 * (n + 1) * Scale = 2 * ((n + 1) * Scale)
      /\ 0 * Scale = 0 /\ 1 * Scale = Scale
  BY FullFacts
<1> QED
  BY <1>1, FullFacts DEF TwiceSpent, TwiceRounded, Half

\* Some ticks more.
LEMMA AllowedFacts ==
    ASSUME NEW s \in Int, NEW t \in Int
    PROVE  /\ Refill * (t - s) \in Int
           /\ s <= t => Refill * (t - s) \in Nat
           /\ \A a \in Int :
                /\ TwiceAllowed(a, s) \in Int /\ TwiceAllowed(a, a) = 2 * Full
                /\ TwiceAllowed(a, t) = TwiceAllowed(a, s) + 2 * (Refill * (t - s))
<1>1. ASSUME NEW a \in Int
      PROVE  /\ Refill * (t - a) = Refill * (s - a) + Refill * (t - s)
             /\ Refill * (t - a) \in Int /\ Refill * (s - a) \in Int
             /\ Refill * (a - a) = 0
  <2>1. Refill \in Int
    BY FullFacts
  <2> QED
    BY <2>1
<1>2. s <= t => Refill * (t - s) \in Nat
  <2>1. s <= t => t - s \in Nat
    OBVIOUS
  <2> QED
    BY <2>1, RefillFacts
<1>3. Refill * (t - s) \in Int
  BY FullFacts
<1>4. ASSUME NEW a \in Int
      PROVE  /\ TwiceAllowed(a, s) \in Int /\ TwiceAllowed(a, a) = 2 * Full
             /\ TwiceAllowed(a, t) = TwiceAllowed(a, s) + 2 * (Refill * (t - s))
  BY <1>1, <1>3, FullFacts DEF TwiceAllowed
<1> QED
  BY <1>2, <1>3, <1>4

\* The admissions since the i-th.
LEMMA SinceFacts ==
    ASSUME TypeOK
    PROVE  /\ DOMAIN admitted = 1 .. Len(admitted) /\ Len(admitted) \in Nat
           /\ \A i \in DOMAIN admitted : Since(i) \in Nat \ {0} /\ admitted[i] \in Int
<1>1. admitted \in Seq(Instants)
  BY DEF TypeOK
<1>2. DOMAIN admitted = 1 .. Len(admitted) /\ Len(admitted) \in Nat
  BY <1>1
<1>3. \A i \in DOMAIN admitted : admitted[i] \in Instants
  BY <1>1
<1> QED
  BY <1>2, <1>3, InstantFacts DEF Since

\* A refill breaks neither bound, but that a full bucket may have lost some.
LEMMA RefillAccount ==
    ASSUME TypeOK, NEW b \in Buckets, NEW t \in Nat, AtMost(b), AtLeast(b)
    PROVE  /\ AtMost(Refilled(b, t))
           /\ Refilled(b, t).tokens = Full \/ AtLeast(Refilled(b, t))
<1> DEFINE r == Refilled(b, t)
<1> DEFINE more == Refill * (r.at - b.at)
<1>1. b.tokens \in Nat /\ b.at \in Int
  BY FullFacts, InstantFacts DEF Buckets
<1>2. /\ r.tokens \in b.tokens .. Full /\ r.at \in Int
      /\ r.tokens <= b.tokens + more
      /\ r.tokens = Full \/ r.tokens = b.tokens + more
  BY <1>1, Refills
<1> HIDE DEF r
<1>3. more \in Int
  <2>1. r.at - b.at \in Int
    BY <1>1, <1>2
  <2> QED
    BY <2>1, FullFacts
<1>4. \A i \in DOMAIN admitted :
        /\ TwiceAllowed(admitted[i], r.at) = TwiceAllowed(admitted[i], b.at) + 2 * more
        /\ TwiceAllowed(admitted[i], b.at) \in Int
        /\ TwiceSpent(Since(i)) \in Nat /\ TwiceRounded(Since(i)) \in Nat
  <2>1. /\ b.at \in Int /\ r.at \in Int
        /\ \A i \in DOMAIN admitted : Since(i) \in Nat \ {0} /\ admitted[i] \in Int
    BY <1>1, <1>2, SinceFacts
  <2> QED
    BY <2>1, AllowedFacts, SpentFacts
<1>5. r.tokens \in Nat
  BY <1>1, <1>2, FullFacts
<1> HIDE DEF more
<1>6. AtMost(r)
  BY <1>1, <1>2, <1>3, <1>4, <1>5 DEF AtMost
<1>7. r.tokens = Full \/ AtLeast(r)
  <2> SUFFICES ASSUME r.tokens # Full PROVE AtLeast(r)
    OBVIOUS
  <2>1. PICK i \in DOMAIN admitted :
          TwiceAllowed(admitted[i], b.at)
            <= 2 * b.tokens + TwiceSpent(Since(i)) + TwiceRounded(Since(i))
    BY DEF AtLeast
  <2>2. r.tokens = b.tokens + more
    BY <1>2
  <2>3. TwiceAllowed(admitted[i], r.at)
          <= 2 * r.tokens + TwiceSpent(Since(i)) + TwiceRounded(Since(i))
    BY <1>1, <1>3, <1>4, <1>5, <2>1, <2>2
  <2> QED
    BY <2>3 DEF AtLeast
<1> QED
  BY <1>6, <1>7 DEF r

\* What a commit makes of the row: the refilled bucket less a token, give or take
\* what the column rounds.
LEMMA CommitAccount ==
    ASSUME Zone = 0, TypeOK, HandInv, LockInv, RevokedInv, RowInv, SeenInv, AccountInv,
           NEW q \in Requests, Commit(q)
    PROVE  \E r \in Buckets :
             /\ Scale <= r.tokens
             /\ AtMost(r) /\ (r.tokens = Full \/ AtLeast(r))
             /\ admitted' = Append(admitted, r.at)
             /\ bucket'.at = r.at /\ bucket'.tokens \in 0 .. Full
             /\ 2 * bucket'.tokens <= 2 * r.tokens - 2 * Scale + Half
             /\ 2 * r.tokens - 2 * Scale <= 2 * bucket'.tokens + Half
<1> DEFINE r == Refilled(loaded[q], now[q])
<1>1. /\ pc[q] = "charged" /\ mine[q] \in Buckets /\ loaded[q] \in Buckets
      /\ admitted' = Append(admitted, mine[q].at)
      /\ bucket' \in Buckets
  BY CommitFacts
<1>2. Charged(q) /\ now[q] \in 0 .. MaxClock /\ now[q] \in Nat
  BY <1>1, FullFacts DEF SeenInv, Sees, TypeOK
<1>3. r \in Buckets /\ Enough(r)
  BY <1>1, <1>2, RefilledType DEF Charged
<1>4. mine[q].tokens = r.tokens - Scale /\ mine[q].at = r.at
  BY <1>2, <1>3, ChargedType DEF Charged
<1>5. AtMost(r) /\ (r.tokens = Full \/ AtLeast(r))
  <2>1. ~revoked
    BY <1>1 DEF RevokedInv, Holding
  <2>2. CASE bucket # NoBucket
    <3>1. bucket = loaded[q] /\ AtMost(bucket) /\ AtLeast(bucket)
      BY <1>2, <2>1, <2>2 DEF Charged, AccountInv
    <3>2. AtMost(loaded[q]) /\ AtLeast(loaded[q])
      BY <3>1
    <3> QED
      BY <1>1, <1>2, <3>2, RefillAccount
  <2>3. CASE bucket = NoBucket
    <3>1. admitted = <<>>
      BY <2>1, <2>3 DEF RowInv
    <3>2. DOMAIN admitted = {}
      BY <3>1
    <3>3. loaded[q].tokens = Full
      BY <1>1, <1>2, <2>3, FullFacts DEF Charged, NoBucket, Buckets
    <3>4. r.tokens \in loaded[q].tokens .. Full
      BY <1>1, <1>2, Refills
    <3>5. r.tokens = Full
      BY <3>3, <3>4, FullFacts
    <3> QED
      BY <3>2, <3>5 DEF AtMost
  <2> QED
    BY <2>2, <2>3
<1> DEFINE row == IF bucket = NoBucket THEN loaded[q] ELSE bucket
<1>6. PICK v \in 0 .. Full :
        /\ 2 * v <= 2 * mine[q].tokens + Half /\ 2 * mine[q].tokens <= 2 * v + Half
        /\ bucket' = [tokens |-> IF mine[q].tokens = loaded[q].tokens THEN row.tokens ELSE v,
                      at |-> IF mine[q].at = loaded[q].at THEN row.at ELSE mine[q].at]
  BY CommitUtc
<1>7. row = loaded[q]
  BY <1>2 DEF Charged
<1>8. /\ bucket'.at = mine[q].at
      /\ bucket'.tokens = mine[q].tokens \/ bucket'.tokens = v
  BY <1>6, <1>7
<1>9. /\ bucket'.tokens \in 0 .. Full
      /\ 2 * bucket'.tokens <= 2 * mine[q].tokens + Half
      /\ 2 * mine[q].tokens <= 2 * bucket'.tokens + Half
  <2>1. mine[q].tokens \in 0 .. Full /\ bucket'.tokens \in 0 .. Full
    BY <1>1 DEF Buckets
  <2>2. Half \in Nat
    BY FullFacts DEF Half
  <2> QED
    BY <1>6, <1>8, <2>1, <2>2, FullFacts
<1>10. r.tokens \in 0 .. Full /\ Scale <= r.tokens
  BY <1>3, FullFacts DEF Enough, Buckets
<1>11. /\ 2 * bucket'.tokens <= 2 * r.tokens - 2 * Scale + Half
       /\ 2 * r.tokens - 2 * Scale <= 2 * bucket'.tokens + Half
  <2>1. Half \in Nat
    BY FullFacts DEF Half
  <2> QED
    BY <1>4, <1>9, <1>10, <2>1, FullFacts
<1> QED
  BY <1>1, <1>3, <1>4, <1>5, <1>8, <1>9, <1>10, <1>11

\* One admission more in the history.
LEMMA AppendFacts ==
    ASSUME TypeOK, NEW t \in Instants, admitted' = Append(admitted, t)
    PROVE  /\ DOMAIN admitted' = 1 .. Len(admitted) + 1
           /\ Len(admitted') = Len(admitted) + 1
           /\ admitted'[Len(admitted) + 1] = t
           /\ \A i \in DOMAIN admitted : admitted'[i] = admitted[i] /\ Since(i)' = Since(i) + 1
           /\ \A n \in Nat : n = Len(admitted) + 1 => Since(n)' = 1
           /\ DOMAIN admitted' = DOMAIN admitted \cup {Len(admitted) + 1}
<1>1. admitted \in Seq(Instants) /\ Len(admitted) \in Nat
      /\ DOMAIN admitted = 1 .. Len(admitted)
  BY DEF TypeOK
<1>2. /\ Len(admitted') = Len(admitted) + 1
      /\ DOMAIN admitted' = 1 .. Len(admitted) + 1
      /\ admitted'[Len(admitted) + 1] = t
      /\ \A i \in 1 .. Len(admitted) : admitted'[i] = admitted[i]
  BY <1>1
<1>3. \A i \in 1 .. Len(admitted) : Since(i)' = Since(i) + 1
  BY <1>1, <1>2 DEF Since
<1>4. \A n \in Nat : n = Len(admitted) + 1 => Since(n)' = 1
  BY <1>1, <1>2 DEF Since
<1>5. 1 .. Len(admitted) + 1 = 1 .. Len(admitted) \cup {Len(admitted) + 1}
  BY <1>1
<1> QED
  BY <1>1, <1>2, <1>3, <1>4, <1>5

\* The accounts after a commit, and the window that it closes.
LEMMA CommitKeepsAccount ==
    ASSUME Zone = 0, TypeOK, HandInv, LockInv, RevokedInv, RowInv, SeenInv, AccountInv, WindowBound,
           NEW q \in Requests, Commit(q)
    PROVE  AccountInv' /\ WindowBound'
<1>1. PICK r \in Buckets :
        /\ Scale <= r.tokens
        /\ AtMost(r) /\ (r.tokens = Full \/ AtLeast(r))
        /\ admitted' = Append(admitted, r.at)
        /\ bucket'.at = r.at /\ bucket'.tokens \in 0 .. Full
        /\ 2 * bucket'.tokens <= 2 * r.tokens - 2 * Scale + Half
        /\ 2 * r.tokens - 2 * Scale <= 2 * bucket'.tokens + Half
  BY CommitAccount
<1>0. PICK last \in Nat : last = Len(admitted) + 1
  BY SinceFacts
<1> DEFINE left == bucket'.tokens
<1>2. /\ r.tokens \in 0 .. Full /\ r.at \in Instants /\ r.at \in Int
      /\ last \in Nat /\ left \in Nat /\ r.tokens \in Nat
  BY <1>1, FullFacts, InstantFacts, SinceFacts DEF Buckets
<1>3. /\ DOMAIN admitted' = DOMAIN admitted \cup {last}
      /\ admitted'[last] = r.at
      /\ \A i \in DOMAIN admitted : admitted'[i] = admitted[i] /\ Since(i)' = Since(i) + 1
      /\ Since(last)' = 1
  BY <1>0, <1>1, <1>2, AppendFacts
<1>4. \A i \in DOMAIN admitted :
        /\ TwiceSpent(Since(i) + 1) = TwiceSpent(Since(i)) + 2 * Scale
        /\ TwiceRounded(Since(i) + 1) = TwiceRounded(Since(i)) + Half
        /\ TwiceSpent(Since(i)) \in Nat /\ TwiceRounded(Since(i)) \in Nat
        /\ TwiceAllowed(admitted[i], r.at) \in Int
  <2>1. \A i \in DOMAIN admitted : Since(i) \in Nat /\ admitted[i] \in Int
    BY SinceFacts
  <2> QED
    BY <1>2, <2>1, SpentFacts, AllowedFacts
<1>5. /\ TwiceSpent(1) = 2 * Scale /\ TwiceRounded(1) = Half /\ TwiceRounded(0) = 0
      /\ TwiceAllowed(r.at, r.at) = 2 * Full
      /\ Half \in Nat
  BY <1>2, SpentFacts, AllowedFacts
<1>6. AtMost(bucket)'
  <2> SUFFICES ASSUME NEW i \in DOMAIN admitted'
               PROVE  2 * left + TwiceSpent(Since(i)')
                        <= TwiceAllowed(admitted'[i], r.at) + TwiceRounded(Since(i)')
    BY <1>1 DEF AtMost
  <2>1. CASE i \in DOMAIN admitted
    <3>1. 2 * r.tokens + TwiceSpent(Since(i))
            <= TwiceAllowed(admitted[i], r.at) + TwiceRounded(Since(i))
      BY <1>1, <2>1 DEF AtMost
    <3>2. Since(i)' = Since(i) + 1 /\ admitted'[i] = admitted[i]
      BY <1>3, <2>1
    <3>3. 2 * left <= 2 * r.tokens - 2 * Scale + Half
      BY <1>1
    <3> HIDE DEF left
    <3> QED
      BY <1>2, <1>4, <1>5, <2>1, <3>1, <3>2, <3>3, FullFacts
  <2>2. CASE i = last
    <3>1. Since(i)' = 1 /\ admitted'[i] = r.at
      BY <1>3, <2>2
    <3>2. 2 * left <= 2 * r.tokens - 2 * Scale + Half
      BY <1>1
    <3>3. 2 * left + 2 * Scale <= 2 * Full + Half
      <4> HIDE DEF left
      <4> QED
        BY <1>2, <1>5, <3>2, FullFacts
    <3> QED
      BY <1>5, <3>1, <3>3
  <2> QED
    BY <1>3, <2>1, <2>2
<1>7. AtLeast(bucket)'
  <2>1. CASE r.tokens = Full
    <3>1. TwiceAllowed(admitted'[last], r.at)
            <= 2 * left + TwiceSpent(Since(last)') + TwiceRounded(Since(last)')
      BY <1>1, <1>2, <1>3, <1>5, <2>1, FullFacts
    <3>2. last \in DOMAIN admitted'
      BY <1>3
    <3> QED
      BY <1>1, <3>1, <3>2 DEF AtLeast
  <2>2. CASE AtLeast(r)
    <3>1. PICK i \in DOMAIN admitted :
            TwiceAllowed(admitted[i], r.at)
              <= 2 * r.tokens + TwiceSpent(Since(i)) + TwiceRounded(Since(i))
      BY <2>2 DEF AtLeast
    <3>2. Since(i)' = Since(i) + 1 /\ admitted'[i] = admitted[i]
      BY <1>3
    <3>3. 2 * r.tokens - 2 * Scale <= 2 * left + Half
      BY <1>1
    <3>4. TwiceAllowed(admitted'[i], r.at)
            <= 2 * left + TwiceSpent(Since(i)') + TwiceRounded(Since(i)')
      <4> HIDE DEF left
      <4> QED
        BY <1>2, <1>4, <1>5, <3>1, <3>2, <3>3, FullFacts
    <3> QED
      BY <1>1, <1>3, <3>4 DEF AtLeast
  <2> QED
    BY <1>1, <2>1, <2>2
<1>8. WindowBound'
  <2> SUFFICES ASSUME NEW i \in DOMAIN admitted', NEW j \in DOMAIN admitted', i <= j
               PROVE  TwiceSpent(j - i + 1)
                        <= TwiceAllowed(admitted'[i], admitted'[j]) + TwiceRounded(j - i)
    BY DEF WindowBound
  <2>1. i \in Nat /\ j \in Nat /\ \A k \in DOMAIN admitted : k \in Nat /\ k < last
    BY <1>0, <1>2, <1>3, SinceFacts
  <2>2. CASE j \in DOMAIN admitted
    <3>1. i \in DOMAIN admitted
      BY <1>2, <1>3, <2>1, <2>2
    <3> QED
      BY <1>3, <2>2, <3>1 DEF WindowBound
  <2>3. CASE j = last /\ i \in DOMAIN admitted
    <3>1. 2 * r.tokens + TwiceSpent(Since(i))
            <= TwiceAllowed(admitted[i], r.at) + TwiceRounded(Since(i))
      BY <1>1, <2>3 DEF AtMost
    <3>2. j - i = Since(i) /\ j - i + 1 = Since(i) + 1
      BY <1>0, <2>1, <2>3, SinceFacts DEF Since
    <3>3. admitted'[i] = admitted[i] /\ admitted'[j] = r.at
      BY <1>3, <2>3
    <3>4. TwiceSpent(Since(i) + 1)
            <= TwiceAllowed(admitted[i], r.at) + TwiceRounded(Since(i))
      BY <1>1, <1>2, <1>4, <2>3, <3>1, FullFacts
    <3> QED
      BY <3>2, <3>3, <3>4
  <2>4. CASE j = last /\ i = last
    <3>1. j - i = 0 /\ j - i + 1 = 1
      BY <2>1, <2>4
    <3> QED
      BY <1>3, <1>5, <2>4, <3>1, FullFacts
  <2> QED
    BY <1>3, <2>2, <2>3, <2>4
<1> QED
  BY <1>6, <1>7, <1>8 DEF AccountInv

\* A commit is the only step that admits, and but for the revocation the only one
\* that writes the row.
LEMMA OnlyCommits ==
    ASSUME TypeOK, [Next]_vars
    PROVE  \/ \E q \in Requests : Commit(q)
           \/ revoked' /\ admitted' = admitted
           \/ UNCHANGED <<bucket, admitted, revoked>>
<1>1. ASSUME NEW q \in Requests, ReadBucket(q) \/ InsertBucket(q)
      PROVE  UNCHANGED <<bucket, admitted, revoked>>
  BY <1>1 DEF ReadBucket, InsertBucket
<1>2. ASSUME NEW q \in Requests, Authenticate(q) \/ LockKey(q) \/ MissBucket(q) \/ Fail(q)
      PROVE  UNCHANGED <<bucket, admitted, revoked>>
  BY <1>2 DEF Authenticate, LockKey, MissBucket, Fail, keyVars, bucketVars
<1>3. CASE Tick \/ EmptyBucket \/ AbortRevoker
  BY <1>3 DEF Tick, EmptyBucket, AbortRevoker, keyVars, bucketVars
<1>4. CASE Revoke
  BY <1>4 DEF Revoke
<1>5. CASE UNCHANGED vars
  BY <1>5 DEF vars, keyVars, bucketVars
<1> QED
  BY <1>1, <1>2, <1>3, <1>4, <1>5 DEF Next, RequestStep, RevokerStep

\* The account is kept by every step, and every window with it.
LEMMA AccountInvNext ==
    ASSUME Zone = 0, TypeOK, HandInv, LockInv, RevokedInv, RowInv, SeenInv, AccountInv, WindowBound,
           [Next]_vars
    PROVE  AccountInv' /\ WindowBound'
<1>1. CASE \E q \in Requests : Commit(q)
  BY <1>1, CommitKeepsAccount
<1>2. CASE revoked' /\ admitted' = admitted
  BY <1>2 DEF AccountInv, WindowBound
<1>3. CASE UNCHANGED <<bucket, admitted, revoked>>
  BY <1>3 DEF AccountInv, AtMost, AtLeast, Since, WindowBound
<1> QED
  BY <1>1, <1>2, <1>3, OnlyCommits

-----------------------------------------------------------------------------
(* Denials                                                                  *)

\* A new row is full, and who makes it is not denied.
LEMMA NewIsEnough ==
    ASSUME TypeOK, SeenInv, NEW q \in Requests, pc[q] = "missing"
    PROVE  Enough(Refilled(Inserted, now[q]))
<1>1. bucket = NoBucket /\ Inserted = NewBucket(clock)
  BY DEF SeenInv, Sees, Inserted
<1>2. /\ NewBucket(clock) \in Buckets /\ NewBucket(clock).tokens = Full
      /\ now[q] \in Nat
  BY FullFacts, InstantFacts DEF TypeOK, Buckets, NewBucket
<1>3. Refilled(NewBucket(clock), now[q]).tokens \in Full .. Full
  BY <1>2, Refills
<1> QED
  BY <1>1, <1>3, FullFacts DEF Enough

\* A denial comes from the row, as the request has found it.
LEMMA DenialFacts ==
    ASSUME TypeOK, HandInv, LockInv, RevokedInv, SeenInv, [Next]_vars,
           NEW q \in Requests, pc[q] # "denied", pc'[q] = "denied"
    PROVE  /\ bucket \in Buckets /\ Denies(q, bucket) /\ ~revoked
           /\ bucket.at <= now[q]
           /\ UNCHANGED <<bucket, admitted, revoked, now>>
<1>1. ASSUME NEW p \in Requests, ReadBucket(p)
      PROVE  /\ bucket \in Buckets /\ Denies(q, bucket) /\ ~revoked
             /\ bucket.at <= now[q]
             /\ UNCHANGED <<bucket, admitted, revoked, now>>
  <2>1. /\ pc[p] = "checked" /\ bucket # NoBucket /\ bucket \in Buckets
        /\ Charges(p, bucket) \/ Denies(p, bucket)
        /\ UNCHANGED <<bucket, admitted, revoked, now>>
    BY <1>1, ReadFacts
  <2>2. p = q /\ Denies(q, bucket)
    BY <2>1 DEF Charges, Denies, TypeOK
  <2>3. ~revoked /\ bucket.at <= now[q]
    BY <2>1, <2>2 DEF RevokedInv, SeenInv, Sees, Holding
  <2> QED
    BY <2>1, <2>2, <2>3
<1>2. ASSUME NEW p \in Requests, InsertBucket(p)
      PROVE  FALSE
  <2>1. pc[p] = "missing" /\ (Charges(p, Inserted) \/ Denies(p, Inserted))
    BY <1>2, InsertFacts
  <2>2. Denies(p, Inserted)
    BY <2>1 DEF Charges, TypeOK
  <2> QED
    BY <2>1, <2>2, NewIsEnough DEF Denies
<1>3. ASSUME NEW p \in Requests,
             Authenticate(p) \/ LockKey(p) \/ MissBucket(p) \/ Commit(p) \/ Fail(p)
      PROVE  FALSE
  BY <1>3 DEF Authenticate, LockKey, MissBucket, Commit, Fail, Go, TypeOK
<1>4. CASE Tick \/ EmptyBucket \/ Revoke \/ AbortRevoker \/ UNCHANGED vars
  BY <1>4 DEF Tick, EmptyBucket, Revoke, AbortRevoker, vars
<1> QED
  BY <1>1, <1>2, <1>3, <1>4 DEF Next, RequestStep, RevokerStep

\* Retry-After is enough: a bucket that is short of a token when it is refilled at
\* one time has the token at every time that is that much later.
LEMMA PromiseFacts ==
    ASSUME NEW b \in Buckets, NEW n \in Nat, b.at <= n, ~Enough(Refilled(b, n)),
           NEW t \in Nat, t >= n + RetryAfter(Refilled(b, n)) * TicksPerSecond,
           n \in 0 .. MaxClock
    PROVE  Enough(Refilled(b, t))
<1> DEFINE r == Refilled(b, n)
<1> DEFINE wait == RetryAfter(r) * TicksPerSecond
<1>1. b.tokens \in Nat /\ b.at \in Int
  BY FullFacts, InstantFacts DEF Buckets
<1>2. r \in Buckets /\ r.tokens \in Nat
  BY RefilledType, FullFacts DEF Buckets
<1>3. RetryAfter(r) \in Nat \ {0} /\ Scale - r.tokens <= Refill * wait
  BY <1>2, RetryFacts
<1>4. wait \in Nat
  BY <1>3, FullFacts
<1>5. r.tokens = b.tokens + Refill * (n - b.at)
  <2>1. r.tokens # Full
    BY <1>2, FullFacts DEF Enough
  <2>2. r.at = n
    BY <1>1, Refills
  <2> QED
    BY <2>1, <2>2, Refills
<1> HIDE DEF r, wait
<1>6. t >= n + wait
  BY DEF r, wait
<1>7. Refill * (t - b.at) = Refill * (n - b.at) + Refill * wait + Refill * (t - n - wait)
  <2>1. Refill \in Int
    BY FullFacts
  <2> QED
    BY <1>1, <1>4, <2>1
<1>8. /\ Refill * (t - n - wait) \in Nat /\ Refill * (n - b.at) \in Nat /\ Refill * wait \in Nat
  <2>1. t - n - wait \in Nat /\ n - b.at \in Nat
    BY <1>1, <1>4, <1>6
  <2> QED
    BY <1>4, <2>1, RefillFacts
<1>9. b.tokens + Refill * (t - b.at) >= Scale
  BY <1>1, <1>2, <1>3, <1>5, <1>7, <1>8, FullFacts
<1>10. /\ Refilled(b, t).at = t
       /\ Refilled(b, t).tokens = Full \/ Refilled(b, t).tokens = b.tokens + Refill * (t - b.at)
  <2>1. t > b.at \/ t = b.at
    BY <1>1, <1>4, <1>6
  <2>2. Refilled(b, t).at = t
    BY <1>1, <2>1, Refills
  <2> QED
    BY <2>2, Refills
<1> QED
  BY <1>9, <1>10, FullFacts DEF Enough

\* The promise stands until somebody is admitted or the key is revoked.
LEMMA PromiseInvNext ==
    ASSUME TypeOK, HandInv, LockInv, RevokedInv, SeenInv, PromiseInv, [Next]_vars
    PROVE  PromiseInv'
<1> SUFFICES ASSUME NEW q \in Requests, pc'[q] = "denied"
             PROVE  /\ seen'[q] <= Len(admitted')
                    /\ seen'[q] = Len(admitted') /\ ~revoked' =>
                         /\ bucket' # NoBucket
                         /\ \A t \in Nat : t >= retryAt'[q] => Enough(Refilled(bucket', t))
  BY DEF PromiseInv
<1>0. Len(admitted) \in Nat
  BY SinceFacts
<1>1. CASE pc[q] = "denied"
  <2>1. seen'[q] = seen[q] /\ retryAt'[q] = retryAt[q] /\ seen[q] \in Nat
    <3>1. ASSUME NEW p \in Requests, ReadBucket(p)
          PROVE  seen'[q] = seen[q] /\ retryAt'[q] = retryAt[q]
      BY <1>1, <3>1, ReadFacts DEF Charges, Denies, TypeOK
    <3>2. ASSUME NEW p \in Requests, InsertBucket(p)
          PROVE  seen'[q] = seen[q] /\ retryAt'[q] = retryAt[q]
      BY <1>1, <3>2, InsertFacts DEF Charges, Denies, TypeOK
    <3>3. ASSUME NEW p \in Requests,
                 Authenticate(p) \/ LockKey(p) \/ MissBucket(p) \/ Commit(p) \/ Fail(p)
          PROVE  seen'[q] = seen[q] /\ retryAt'[q] = retryAt[q]
      BY <3>3 DEF Authenticate, LockKey, MissBucket, Commit, Fail, denialVars
    <3>4. ASSUME Tick \/ EmptyBucket \/ Revoke \/ AbortRevoker \/ UNCHANGED vars
          PROVE  seen'[q] = seen[q] /\ retryAt'[q] = retryAt[q]
      <4>1. UNCHANGED denialVars
        BY <3>4 DEF Tick, EmptyBucket, Revoke, AbortRevoker, vars
      <4> QED
        BY <4>1 DEF denialVars
    <3>5. seen[q] \in Nat
      BY DEF TypeOK
    <3> QED
      BY <3>1, <3>2, <3>3, <3>4, <3>5 DEF Next, RequestStep, RevokerStep
  <2>2. CASE \E p \in Requests : Commit(p)
    <3>1. PICK p \in Requests : Commit(p)
      BY <2>2
    <3>2. mine[p] \in Buckets /\ admitted' = Append(admitted, mine[p].at)
      BY <3>1, CommitFacts
    <3>3. Len(admitted') = Len(admitted) + 1
      BY <3>2, AppendFacts DEF Buckets
    <3> QED
      BY <1>0, <1>1, <2>1, <3>3 DEF PromiseInv
  <2>3. CASE revoked' /\ admitted' = admitted
    BY <1>1, <2>1, <2>3 DEF PromiseInv
  <2>4. CASE UNCHANGED <<bucket, admitted, revoked>>
    BY <1>1, <2>1, <2>4 DEF PromiseInv
  <2> QED
    BY <2>2, <2>3, <2>4, OnlyCommits
<1>2. CASE pc[q] # "denied"
  <2> DEFINE r == Refilled(bucket, now[q])
  <2>1. /\ bucket \in Buckets /\ Denies(q, bucket) /\ bucket.at <= now[q]
        /\ UNCHANGED <<bucket, admitted, revoked>>
    BY <1>2, DenialFacts
  <2>2. /\ ~Enough(r)
        /\ retryAt'[q] = now[q] + RetryAfter(r) * TicksPerSecond
        /\ seen'[q] = Len(admitted)
    BY <2>1 DEF Denies, TypeOK
  <2>3. now[q] \in 0 .. MaxClock /\ now[q] \in Nat
    BY FullFacts DEF TypeOK
  <2>4. \A t \in Nat : t >= retryAt'[q] => Enough(Refilled(bucket, t))
    BY <2>1, <2>2, <2>3, PromiseFacts
  <2>5. bucket # NoBucket
    BY <2>1, FullFacts DEF Buckets, NoBucket
  <2> QED
    BY <1>0, <2>1, <2>2, <2>4, <2>5
<1> QED
  BY <1>1, <1>2

-----------------------------------------------------------------------------
(* Theorems                                                                 *)

\* In the initial state there is no row and nobody is under way.
LEMMA InitIInv == Init => IInv
<1> SUFFICES ASSUME Init PROVE IInv
  OBVIOUS
<1>1. TypeOK /\ HandInv
  BY TypeInvInit DEF TypeInv
<1>2. /\ \A q \in Requests : pc[q] = "new" /\ now[q] = 0
      /\ keyLock = Nobody /\ bucketLock = Nobody /\ revoker = "new" /\ revoked = FALSE
      /\ bucket = NoBucket /\ admitted = <<>> /\ clock = 0 /\ emptied = 0
  BY DEF Init
<1>3. LockInv /\ RevokedInv
  BY <1>2, Actors DEF LockInv, RevokedInv, Holding
<1>4. ClockInv /\ RowInv /\ SeenInv
  BY <1>2 DEF ClockInv, RowInv, SeenInv, Sees, NoBucket
<1>5. AccountInv /\ PromiseInv /\ WindowBound
  BY <1>2 DEF AccountInv, PromiseInv, WindowBound
<1> QED
  BY <1>1, <1>3, <1>4, <1>5 DEF IInv

\* The inductive invariant of the rate limiter, where rows can be locked.
THEOREM Invariants ==
    ASSUME RowLocks, Zone = 0
    PROVE  Spec => []IInv
<1>1. IInv /\ [Next]_vars => IInv'
  <2> SUFFICES ASSUME IInv, [Next]_vars PROVE IInv'
    OBVIOUS
  <2>1. TypeOK' /\ HandInv'
    BY TypeInvNext DEF IInv, TypeInv
  <2>2. LockInv' /\ ClockInv' /\ RevokedInv' /\ RowInv' /\ SeenInv'
    BY LockInvNext, ClockInvNext, RevokedInvNext, RowInvNext, SeenInvNext DEF IInv
  <2>3. AccountInv' /\ WindowBound' /\ PromiseInv'
    BY AccountInvNext, PromiseInvNext DEF IInv
  <2> QED
    BY <2>1, <2>2, <2>3 DEF IInv
<1> QED
  BY InitIInv, <1>1, PTL DEF Spec

\* The promise of the token bucket, whatever the interleaving of the requests:
\* between two admissions there are never more of them than the burst and what the
\* time between them refills, give or take what the Integer column rounds.
THEOREM WindowIsBounded ==
    ASSUME RowLocks, Zone = 0
    PROVE  Spec => []WindowBound
<1>1. IInv => WindowBound
  BY DEF IInv
<1> QED
  BY Invariants, <1>1, PTL

\* On a column that keeps fractions the promise holds as FR-05 states it.
THEOREM WindowIsExact ==
    ASSUME RowLocks, Zone = 0, ~RoundsTokens
    PROVE  Spec => []ExactWindowBound
<1>1. IInv => ExactWindowBound
  <2> SUFFICES ASSUME IInv, NEW i \in DOMAIN admitted, NEW j \in DOMAIN admitted, i <= j
               PROVE  TwiceSpent(j - i + 1) <= TwiceAllowed(admitted[i], admitted[j])
    BY DEF ExactWindowBound
  <2>1. TwiceSpent(j - i + 1) <= TwiceAllowed(admitted[i], admitted[j]) + TwiceRounded(j - i)
    BY DEF IInv, WindowBound
  <2>2. TwiceAllowed(admitted[i], admitted[j]) \in Int /\ TwiceRounded(j - i) = 0
    BY SinceFacts, AllowedFacts DEF IInv, TwiceRounded
  <2>3. TwiceSpent(j - i + 1) \in Int
    <3>1. j - i + 1 \in Nat
      BY SinceFacts DEF IInv
    <3> QED
      BY <3>1, SpentFacts
  <2> QED
    BY <2>1, <2>2, <2>3
<1> QED
  BY Invariants, <1>1, PTL

\* Who waits as long as Retry-After says finds a token, if nobody else was admitted.
THEOREM RetryIsEnough ==
    ASSUME RowLocks, Zone = 0
    PROVE  Spec => []RetryAfterSuffices
<1>1. IInv => RetryAfterSuffices
  <2> SUFFICES ASSUME IInv PROVE RetryAfterSuffices
    OBVIOUS
  <2>1. clock \in Nat
    BY TimeFacts DEF IInv
  <2> QED
    BY <2>1 DEF IInv, PromiseInv, RetryAfterSuffices
<1> QED
  BY Invariants, <1>1, PTL

\* No request is denied that the bucket could afford.
THEOREM DenialsAreJustified ==
    ASSUME RowLocks, Zone = 0
    PROVE  Spec => DenialJustified
<1> DEFINE Justified ==
      \A q \in Requests : pc[q] # "denied" /\ pc'[q] = "denied" =>
        \E i \in DOMAIN admitted :
          LET n == Len(admitted) - i + 1
          IN  TwiceSpent(n + 1) + TwiceRounded(n) > TwiceAllowed(admitted[i], now[q])
<1>1. ASSUME IInv, [Next]_vars
      PROVE  Justified
  <2> SUFFICES ASSUME NEW q \in Requests, pc[q] # "denied", pc'[q] = "denied"
               PROVE  \E i \in DOMAIN admitted :
                        TwiceSpent(Since(i) + 1) + TwiceRounded(Since(i))
                          > TwiceAllowed(admitted[i], now[q])
    BY DEF Since
  <2> USE <1>1
  <2> DEFINE r == Refilled(bucket, now[q])
  <2>1. /\ bucket \in Buckets /\ ~revoked /\ bucket.at <= now[q]
        /\ ~Enough(r)
    BY DenialFacts DEF IInv, Denies
  <2>2. now[q] \in 0 .. MaxClock /\ now[q] \in Nat
    BY FullFacts DEF IInv, TypeOK
  <2>3. r \in Buckets
    BY <2>1, <2>2, RefilledType
  <2>4. r.tokens \in Nat /\ r.tokens < Scale
    <3>1. \A b \in Buckets : b.tokens \in Nat
      BY FullFacts DEF Buckets
    <3>2. r.tokens \in Nat
      BY <2>3, <3>1
    <3>3. ~(r.tokens >= Scale)
      BY <2>1 DEF Enough
    <3> HIDE DEF r
    <3> QED
      BY <3>2, <3>3, FullFacts
  <2>5. r.at = now[q]
    <3>1. \A b \in Buckets : b.at \in Int
      BY InstantFacts DEF Buckets
    <3>2. r.at = IF now[q] > bucket.at THEN now[q] ELSE bucket.at
      BY <2>1, <2>2, Refills
    <3> QED
      BY <2>1, <2>2, <3>1, <3>2
  <2>6. AtLeast(r)
    <3>1. bucket # NoBucket
      BY <2>1, FullFacts DEF Buckets, NoBucket
    <3>2. AtMost(bucket) /\ AtLeast(bucket) /\ TypeOK
      BY <2>1, <3>1 DEF IInv, AccountInv
    <3> QED
      BY <2>1, <2>2, <2>3, <2>4, <3>2, RefillAccount, FullFacts
  <2> HIDE DEF r
  <2>7. PICK i \in DOMAIN admitted :
          TwiceAllowed(admitted[i], r.at)
            <= 2 * r.tokens + TwiceSpent(Since(i)) + TwiceRounded(Since(i))
    BY <2>6 DEF AtLeast
  <2>8. Since(i) \in Nat /\ admitted[i] \in Int
    BY SinceFacts DEF IInv
  <2>9. /\ TwiceSpent(Since(i)) \in Nat /\ TwiceRounded(Since(i)) \in Nat
        /\ TwiceSpent(Since(i) + 1) = TwiceSpent(Since(i)) + 2 * Scale
        /\ TwiceAllowed(admitted[i], r.at) \in Int
    <3>1. r.at \in Int
      BY <2>2, <2>5
    <3>2. TwiceAllowed(admitted[i], r.at) \in Int
      BY <2>8, <3>1, AllowedFacts
    <3> QED
      BY <2>8, <3>2, SpentFacts
  <2>10. TwiceSpent(Since(i) + 1) + TwiceRounded(Since(i)) > TwiceAllowed(admitted[i], r.at)
    BY <2>4, <2>7, <2>9, FullFacts
  <2> QED
    BY <2>5, <2>10
<1>2. IInv /\ [Next]_vars => [Justified]_vars
  BY <1>1
<1> HIDE DEF Justified
<1>3. Spec => [][Justified]_vars
  BY Invariants, <1>2, PTL DEF Spec
<1> QED
  BY <1>3 DEF DenialJustified, Justified

\* No admission commits after the revocation, not even one that had authenticated,
\* whatever the zone of the session.
THEOREM RevocationIsFinal ==
    ASSUME RowLocks
    PROVE  Spec => QuietAfterRevoke
<1> DEFINE KeyInv == TypeOK /\ HandInv /\ LockInv /\ RevokedInv
<1>1. Init => KeyInv
  BY InitIInv DEF IInv
<1>2. KeyInv /\ [Next]_vars => KeyInv'
  <2> SUFFICES ASSUME KeyInv, [Next]_vars PROVE KeyInv'
    OBVIOUS
  <2>1. TypeOK' /\ HandInv'
    BY TypeInvNext DEF TypeInv
  <2>2. LockInv' /\ RevokedInv'
    BY LockInvNext, RevokedInvNext
  <2> QED
    BY <2>1, <2>2
<1>3. KeyInv /\ [Next]_vars => [revoked => UNCHANGED admitted]_vars
  <2> SUFFICES ASSUME KeyInv, [Next]_vars, revoked PROVE UNCHANGED admitted
    OBVIOUS
  <2>1. ASSUME NEW q \in Requests, Commit(q) PROVE FALSE
    BY <2>1 DEF RevokedInv, Commit, Holding
  <2>2. (revoked' /\ admitted' = admitted) \/ UNCHANGED <<bucket, admitted, revoked>>
    BY <2>1, OnlyCommits
  <2> QED
    BY <2>2
<1> HIDE DEF KeyInv
<1> QED
  BY <1>1, <1>2, <1>3, PTL DEF Spec, QuietAfterRevoke

-----------------------------------------------------------------------------
(* The concurrent requests are as good as one after the other               *)

\* A request is told something once, when its transaction ends.
LEMMA Told ==
    ASSUME TypeOK, NEW q \in Requests, NEW to \in Answers, pc[q] \notin Answers,
           pc' = [pc EXCEPT ![q] = to]
    PROVE  Limiter!Tell(q, to)
<1>1. \A p \in Requests : pc'[p] = IF p = q THEN to ELSE pc[p]
  BY DEF TypeOK
<1>2. answerOf[q] = "none" /\ answerOf' = [answerOf EXCEPT ![q] = to]
  BY <1>1 DEF answerOf
<1> QED
  BY <1>2 DEF Limiter!Tell

\* Within the transaction it is told nothing.
LEMMA NotTold ==
    ASSUME TypeOK, NEW q \in Requests, NEW to \in InTransaction, pc[q] \notin Answers,
           pc' = [pc EXCEPT ![q] = to], UNCHANGED <<bucket, revoked>>
    PROVE  UNCHANGED Limiter!vars
<1>1. \A p \in Requests : pc'[p] = IF p = q THEN to ELSE pc[p]
  BY DEF TypeOK
<1>2. to \notin Answers
  BY DEF InTransaction, Answers
<1>3. answerOf' = answerOf
  BY <1>1, <1>2 DEF answerOf
<1> QED
  BY <1>3 DEF Limiter!vars

\* The refilled row is the level of the bucket at its moment.
LEMMA LevelIs ==
    ASSUME Zone = 0, TypeOK, NEW b \in Buckets, NEW n \in 0 .. MaxClock,
           bucket = b \/ (bucket = NoBucket /\ b.tokens = Full)
    PROVE  LET r == Refilled(b, n)
           IN  /\ Limiter!Level(r.at) = r.tokens
               /\ Limiter!Now(r.at)
               /\ r.at \in 0 .. MaxClock
<1> DEFINE r == Refilled(b, n)
<1>1. /\ b.tokens \in Nat /\ b.at \in 0 .. MaxClock /\ b.at \in Nat /\ n \in Nat
      /\ b # NoBucket
  BY UtcBucket, FullFacts DEF NoBucket
<1>2. /\ r.tokens \in b.tokens .. Full
      /\ r.at = IF n > b.at THEN n ELSE b.at
      /\ r.tokens <= b.tokens + Refill * (r.at - b.at)
      /\ r.tokens = Full \/ r.tokens = b.tokens + Refill * (r.at - b.at)
  BY <1>1, Refills
<1> DEFINE k == r.tokens
           t == r.at
           more == Refill * (t - b.at)
<1>3. t \in 0 .. MaxClock /\ t \in Nat /\ b.at <= t
  BY <1>1, <1>2
<1>4. more \in Nat
  <2>1. t - b.at \in Nat
    BY <1>1, <1>3
  <2> QED
    BY <2>1, RefillFacts
<1>5. k = IF b.tokens + more < Full THEN b.tokens + more ELSE Full
  <2> HIDE DEF k, t, more
  <2>1. k \in b.tokens .. Full /\ k <= b.tokens + more /\ (k = Full \/ k = b.tokens + more)
    BY <1>2 DEF k, t, more
  <2> QED
    BY <1>1, <1>4, <2>1, FullFacts
<1>6. Limiter!Level(t) = k
  <2>1. CASE bucket = b
    BY <1>1, <1>5, <2>1 DEF Limiter!Level
  <2>2. CASE bucket = NoBucket /\ b.tokens = Full
    <3>1. k = Full
      <4> HIDE DEF k, t, more
      <4> QED
        BY <1>4, <1>5, <2>2, FullFacts
    <3> QED
      BY <2>2, <3>1 DEF Limiter!Level
  <2> QED
    BY <2>1, <2>2
<1>7. Limiter!Now(t)
  BY <1>1, <1>3 DEF Limiter!Now
<1> QED
  BY <1>3, <1>6, <1>7

\* A commit admits the request at the moment of the row it writes.
LEMMA CommitAdmits ==
    ASSUME Zone = 0, IInv, NEW q \in Requests, Commit(q)
    PROVE  Limiter!Next
<1> DEFINE r == Refilled(loaded[q], now[q])
<1>1. /\ pc[q] = "charged" /\ mine[q] \in Buckets /\ loaded[q] \in Buckets
      /\ pc' = [pc EXCEPT ![q] = "admitted"]
      /\ bucket' \in Buckets /\ revoked' = revoked
  BY CommitFacts DEF IInv
<1>2. Charged(q) /\ now[q] \in 0 .. MaxClock /\ ~revoked
  BY <1>1 DEF IInv, SeenInv, Sees, TypeOK, RevokedInv, Holding
<1>3. r \in Buckets /\ Enough(r) /\ mine[q].tokens = r.tokens - Scale /\ mine[q].at = r.at
  BY <1>1, <1>2, RefilledType, ChargedType DEF Charged
<1>4. bucket = loaded[q] \/ (bucket = NoBucket /\ loaded[q].tokens = Full)
  BY <1>2 DEF Charged
<1>5. Limiter!Level(r.at) = r.tokens /\ Limiter!Now(r.at) /\ r.at \in 0 .. MaxClock
  BY <1>1, <1>2, <1>4, LevelIs DEF IInv
<1> DEFINE row == IF bucket = NoBucket THEN loaded[q] ELSE bucket
<1>6. PICK v \in 0 .. Full :
        /\ 2 * v <= 2 * mine[q].tokens + Half /\ 2 * mine[q].tokens <= 2 * v + Half
        /\ bucket' = [tokens |-> IF mine[q].tokens = loaded[q].tokens THEN row.tokens ELSE v,
                      at |-> IF mine[q].at = loaded[q].at THEN row.at ELSE mine[q].at]
  BY CommitUtc DEF IInv
<1>7. row = loaded[q]
  BY <1>4
<1>8. PICK w \in 0 .. Full :
        /\ bucket' = [tokens |-> w, at |-> r.at]
        /\ 2 * w <= 2 * mine[q].tokens + Half /\ 2 * mine[q].tokens <= 2 * w + Half
  <2>1. /\ bucket' = [tokens |-> bucket'.tokens, at |-> r.at]
        /\ bucket'.tokens = mine[q].tokens \/ bucket'.tokens = v
    BY <1>3, <1>6, <1>7
  <2>2. mine[q].tokens \in 0 .. Full /\ Half \in Nat
    BY <1>1, FullFacts DEF Buckets, Half
  <2> QED
    BY <1>6, <2>1, <2>2, FullFacts
<1>9. Limiter!Tell(q, "admitted")
  BY <1>1, Told DEF IInv, Answers
<1>10. Scale <= Limiter!Level(r.at)
  BY <1>3, <1>5, FullFacts DEF Enough, Buckets
<1>11. /\ 2 * w <= 2 * (Limiter!Level(r.at) - Scale) + (IF RoundsTokens THEN Scale ELSE 0)
       /\ 2 * (Limiter!Level(r.at) - Scale) <= 2 * w + (IF RoundsTokens THEN Scale ELSE 0)
  BY <1>3, <1>5, <1>8 DEF Half
<1> HIDE DEF r
<1>12. Limiter!Admit(q, r.at)
  BY <1>1, <1>2, <1>5, <1>8, <1>9, <1>10, <1>11 DEF Limiter!Admit
<1> QED
  BY <1>5, <1>12 DEF Limiter!Next

\* A denial is true of the committed row.
LEMMA ReadDenies ==
    ASSUME RowLocks, Zone = 0, IInv, NEW q \in Requests, Denies(q, bucket), bucket \in Buckets,
           pc[q] = "checked", ~revoked, UNCHANGED <<bucket, revoked>>
    PROVE  Limiter!Next
<1> DEFINE r == Refilled(bucket, now[q])
<1>1. now[q] \in 0 .. MaxClock
  BY DEF IInv, TypeOK
<1>2. Limiter!Level(r.at) = r.tokens /\ Limiter!Now(r.at) /\ r.at \in 0 .. MaxClock
  BY <1>1, LevelIs DEF IInv
<1>3. r \in Buckets /\ ~Enough(r)
  BY <1>1, RefilledType DEF Denies
<1>4. Limiter!Level(r.at) < Scale
  <2>1. r.tokens \in Nat /\ ~(r.tokens >= Scale)
    BY <1>3, FullFacts DEF Buckets, Enough
  <2> HIDE DEF r
  <2> QED
    BY <1>2, <2>1, FullFacts
<1>5. Limiter!Tell(q, "denied")
  BY Told DEF IInv, Denies, Answers
<1> HIDE DEF r
<1>6. Limiter!Deny(q, r.at)
  BY <1>2, <1>4, <1>5 DEF Limiter!Deny
<1> QED
  BY <1>2, <1>6 DEF Limiter!Next

\* Every step of a request is a step of the bucket, or none.
LEMMA RequestTells ==
    ASSUME RowLocks, Zone = 0, IInv, NEW q \in Requests, RequestStep(q)
    PROVE  Limiter!Next \/ UNCHANGED Limiter!vars
<1> USE DEF IInv
<1>1. CASE Authenticate(q)
  <2>1. pc[q] = "new" /\ UNCHANGED <<bucket, revoked>>
    BY <1>1 DEF Authenticate, keyVars, bucketVars
  <2>2. CASE revoked
    <3>1. Limiter!Tell(q, "rejected")
      BY <1>1, <2>1, <2>2, Told DEF Authenticate, Go, Answers
    <3> QED
      BY <2>1, <2>2, <3>1 DEF Limiter!Reject, Limiter!Next
  <2>3. CASE ~revoked
    BY <1>1, <2>1, <2>3, NotTold DEF Authenticate, Go, Answers, InTransaction
  <2> QED
    BY <2>2, <2>3
<1>2. CASE LockKey(q)
  <2>1. pc[q] = "authenticated" /\ UNCHANGED <<bucket, revoked>>
    BY <1>2 DEF LockKey, bucketVars
  <2>2. CASE revoked
    <3>1. Limiter!Tell(q, "rejected")
      BY <1>2, <2>1, <2>2, Told DEF LockKey, Go, Answers
    <3> QED
      BY <2>1, <2>2, <3>1 DEF Limiter!Reject, Limiter!Next
  <2>3. CASE ~revoked
    BY <1>2, <2>1, <2>3, NotTold DEF LockKey, Go, Answers, InTransaction
  <2> QED
    BY <2>2, <2>3
<1>3. CASE ReadBucket(q)
  <2>1. /\ pc[q] = "checked" /\ bucket \in Buckets
        /\ Charges(q, bucket) \/ Denies(q, bucket)
        /\ UNCHANGED <<bucket, revoked>>
    BY <1>3, ReadFacts
  <2>2. ~revoked
    BY <2>1 DEF RevokedInv, Holding
  <2>3. CASE Charges(q, bucket)
    BY <2>1, <2>3, NotTold DEF Charges, Answers, InTransaction
  <2> QED
    BY <2>1, <2>2, <2>3, ReadDenies
<1>4. CASE MissBucket(q)
  BY <1>4, NotTold DEF MissBucket, Go, Answers, InTransaction, keyVars, bucketVars
<1>5. CASE InsertBucket(q)
  <2>1. /\ pc[q] = "missing"
        /\ Charges(q, Inserted) \/ Denies(q, Inserted)
        /\ UNCHANGED <<bucket, revoked>>
    BY <1>5, InsertFacts
  <2>2. ~Denies(q, Inserted)
    BY <2>1, NewIsEnough DEF Denies
  <2> QED
    BY <2>1, <2>2, NotTold DEF Charges, Answers, InTransaction
<1>6. CASE Commit(q)
  BY <1>6, CommitAdmits
<1>7. CASE Fail(q)
  <2>1. pc[q] \notin Answers /\ UNCHANGED <<bucket, revoked>>
    BY <1>7 DEF Fail, InTransaction, Answers
  <2>2. Limiter!Tell(q, "failed")
    BY <1>7, <2>1, Told DEF Fail, Go, Answers
  <2> QED
    BY <2>1, <2>2 DEF Limiter!Fail, Limiter!Next
<1> QED
  BY <1>1, <1>2, <1>3, <1>4, <1>5, <1>6, <1>7 DEF RequestStep

\* The revocation empties the bucket and closes the key at once.
LEMMA OthersTell ==
    ASSUME IInv, Tick \/ RevokerStep \/ UNCHANGED vars
    PROVE  Limiter!Next \/ UNCHANGED Limiter!vars
<1>1. CASE Tick \/ EmptyBucket \/ AbortRevoker \/ UNCHANGED vars
  <2>1. UNCHANGED <<bucket, revoked, pc>>
    BY <1>1 DEF Tick, EmptyBucket, AbortRevoker, vars, keyVars, bucketVars
  <2> QED
    BY <2>1 DEF Limiter!vars, answerOf
<1>2. CASE Revoke
  <2>1. /\ revoker = "emptied" /\ revoked' = TRUE /\ UNCHANGED pc
        /\ bucket' = [tokens |-> 0, at |-> emptied]
    BY <1>2 DEF Revoke
  <2>2. ~revoked /\ emptied \in 0 .. MaxClock
    BY <2>1 DEF IInv, RevokedInv, TypeOK
  <2>3. answerOf' = answerOf
    BY <2>1 DEF answerOf
  <2>4. Limiter!Revoke(emptied)
    BY <2>1, <2>2, <2>3 DEF Limiter!Revoke
  <2> QED
    BY <2>2, <2>4 DEF Limiter!Next
<1> QED
  BY <1>1, <1>2 DEF RevokerStep

\* Refinement: with row locks the concurrent transactions of requests and revoker
\* are a bucket that answers one request at a time (get_principal, take_token).
THEOREM LimiterImplementsBucket ==
    ASSUME RowLocks, Zone = 0
    PROVE  Spec => ImplementsBucket
<1>1. Init => Limiter!Init
  <2> SUFFICES ASSUME Init PROVE Limiter!Init
    OBVIOUS
  <2>1. bucket = NoBucket /\ revoked = FALSE /\ pc = [q \in Requests |-> "new"]
    BY DEF Init
  <2>2. answerOf = [q \in Requests |-> "none"]
    BY <2>1 DEF answerOf, Answers
  <2> QED
    BY <2>1, <2>2 DEF Limiter!Init
<1>2. IInv /\ [Next]_vars => [Limiter!Next]_(Limiter!vars)
  <2> SUFFICES ASSUME IInv, [Next]_vars PROVE Limiter!Next \/ UNCHANGED Limiter!vars
    OBVIOUS
  <2> QED
    BY RequestTells, OthersTell DEF Next
<1> QED
  BY <1>1, <1>2, Invariants, PTL DEF Spec, ImplementsBucket, Limiter!Spec
=============================================================================
