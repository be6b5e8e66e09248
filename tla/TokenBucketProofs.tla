------------------------- MODULE TokenBucketProofs --------------------------
(***************************************************************************)
(* Proofs about TokenBucket, for any number of requests and keys, any rate *)
(* and burst.  The core is that the bucket in the map never holds more     *)
(* than an ideal bucket of its key would; a deleted bucket is as good as a *)
(* full one because an idle interval refills it, unless a request met the  *)
(* deletion.                                                               *)
(***************************************************************************)
EXTENDS TokenBucket, TLAPS

\* A full bucket pays for at least one request.
LEMMA FullIsEnough == Full \in Nat /\ Cost \in Nat /\ Cost > 0 /\ Cost <= Full
  BY BucketAssumption, SMT DEF Full

\* What a refill does to a level.
LEMMA RefillBounds ==
  ASSUME NEW level \in Int, level <= Full, NEW e \in Nat
  PROVE  /\ Refill(level, e) \in Int
         /\ level <= Refill(level, e)
         /\ Refill(level, e) <= Full
         /\ Refill(level, e) = Full \/ Refill(level, e) = level + e
  BY FullIsEnough DEF Refill, Least

\* Whole seconds of a natural number of ticks.
LEMMA QuotientIsNat == ASSUME NEW a \in Nat, NEW d \in Nat \ {0} PROVE a \div d \in Nat
  BY SMT

\* Truncation to seconds, as Unix() does it.
LEMMA SecondsBounds ==
  ASSUME NEW t \in Nat
  PROVE  /\ Seconds(t) \in Nat
         /\ Seconds(t) * TicksPerSecond <= t
         /\ t < Seconds(t) * TicksPerSecond + TicksPerSecond
  BY BucketAssumption, SMT DEF Seconds

\* No recorded time is ahead of the clock, and no ideal bucket is overfull.
ClockInv ==
  /\ \A c \in Calls : lastCheck[c] <= time
  /\ \A k \in Keys : idealAt[k] <= time /\ ideal[k] <= Full
  /\ now <= time

TInv == TypeOK /\ ClockInv

\* The types hold at the start.
LEMMA TypeCorrectInit == Init => TInv
  BY FullIsEnough, BucketAssumption DEF Init, TInv, TypeOK, ClockInv

\* What AllowN computes from the bucket and from the ideal bucket.
LEMMA Levels ==
  ASSUME TInv, NEW b \in Calls, NEW k \in Keys
  PROVE  /\ Refill(tokens[b], time - lastCheck[b]) \in 0..Full
         /\ Refill(ideal[k], time - idealAt[k]) \in Int
         /\ Refill(ideal[k], time - idealAt[k]) <= Full
<1>1. /\ tokens[b] \in 0..Full /\ ideal[k] \in Int /\ ideal[k] <= Full
      /\ time - lastCheck[b] \in Nat /\ time - idealAt[k] \in Nat
  BY DEF TInv, TypeOK, ClockInv
<1>2. tokens[b] \in Int /\ tokens[b] <= Full /\ 0 <= tokens[b]
  BY <1>1, FullIsEnough
<1> DEFINE dt == time - lastCheck[b]
           di == time - idealAt[k]
<1> HIDE DEF dt, di
<1>3. Refill(tokens[b], dt) \in 0..Full
  <2>1. dt \in Nat
    BY <1>1, Zenon DEF dt
  <2>2. /\ Refill(tokens[b], dt) \in Int /\ tokens[b] <= Refill(tokens[b], dt)
        /\ Refill(tokens[b], dt) <= Full
    BY <1>2, <2>1, RefillBounds, Zenon
  <2>3. QED
    BY <1>2, <2>2, FullIsEnough
<1>4. Refill(ideal[k], di) \in Int /\ Refill(ideal[k], di) <= Full
  BY <1>1, RefillBounds, FullIsEnough, ZenonT(30) DEF di
<1>5. QED
  BY <1>3, <1>4, Zenon DEF dt, di

\* Each action keeps the types.
LEMMA TypeCorrectStep == TInv /\ [Next]_vars => TInv'
<1> SUFFICES ASSUME TInv, [Next]_vars PROVE TInv'
  BY Zenon
<1> USE FullIsEnough DEF TInv, TypeOK, ClockInv
<1>1. CASE UNCHANGED vars
  BY <1>1, Zenon DEF vars, objVars, callVars, sweepVars, histVars
<1>2. ASSUME NEW c \in Calls, NewBucket(c) PROVE TInv'
  BY <1>2 DEF NewBucket, sweepVars, histVars
<1>3. ASSUME NEW c \in Calls, LoadOrStore(c) PROVE TInv'
  <2>1. buckets' \in [Keys -> Calls \cup {Nil}] /\ buckets'[key[c]] \in Calls
    BY <1>3, BucketAssumption, Zenon DEF LoadOrStore
  <2>2. QED
    BY <1>3, <2>1, Zenon DEF LoadOrStore, objVars, sweepVars, histVars
<1>4. ASSUME NEW c \in Calls, AllowN(c) PROVE TInv'
  <2> DEFINE b == bucket[c]
             k == key[c]
             level == Refill(tokens[b], time - lastCheck[b])
             paid == IF level >= Cost THEN Cost ELSE 0
  <2>1. b \in Calls /\ k \in Keys
    BY <1>4, Zenon DEF AllowN
  <2>2. /\ level \in 0..Full /\ Refill(ideal[k], time - idealAt[k]) \in Int
        /\ Refill(ideal[k], time - idealAt[k]) <= Full
    BY <2>1, Levels, Zenon
  <2> HIDE DEF level
  <2>3. level - paid \in 0..Full /\ paid \in Nat
    BY <2>2
  <2>4. /\ lastCheck' = [lastCheck EXCEPT ![b] = time]
        /\ tokens' = [tokens EXCEPT ![b] = level - paid]
        /\ pc' = [pc EXCEPT ![c] = IF level >= Cost THEN "served" ELSE "denied"]
        /\ ideal' = [ideal EXCEPT ![k] = Refill(ideal[k], time - idealAt[k]) - paid]
        /\ idealAt' = [idealAt EXCEPT ![k] = time]
        /\ UNCHANGED <<time, buckets, key, bucket, resetTime, retryAfter, deniedAt, readyAt,
                       sweepVars, raced>>
    BY <1>4, Zenon DEF AllowN, level
  <2> HIDE DEF b, k, paid
  <2>5. tokens' \in [Calls -> 0..Full] /\ lastCheck' \in [Calls -> Nat]
    BY <2>1, <2>3, <2>4, Zenon
  <2>6. ideal' \in [Keys -> Int] /\ idealAt' \in [Keys -> Nat]
    BY <2>1, <2>2, <2>3, <2>4
  <2>7. /\ \A d \in Calls : lastCheck'[d] <= time'
        /\ \A l \in Keys : idealAt'[l] <= time' /\ ideal'[l] <= Full
    BY <2>1, <2>2, <2>3, <2>4
  <2>8. /\ pc' \in [Calls -> {"idle", "load", "lock", "served", "denied", "reset", "refused"}]
        /\ \A d \in Calls : pc'[d] = "lock" => pc[d] = "lock"
    BY <2>4, Zenon
  <2>9. QED
    BY <2>4, <2>5, <2>6, <2>7, <2>8, Zenon DEF sweepVars
<1>5. ASSUME NEW c \in Calls, GetResetTime(c) PROVE TInv'
  <2> DEFINE b == buckets[key[c]]
             level == IF b = Nil THEN Full ELSE Refill(tokens[b], time - lastCheck[b])
  <2>1. level \in 0..Full
    BY Levels
  <2>2. time + Full - level \in Nat /\ time + (IF level >= Cost THEN 0 ELSE Cost - level) \in Nat
    BY <2>1
  <2>3. Seconds(time + Full - level) \in Nat
    BY <2>2, SecondsBounds, Zenon
  <2>4. /\ pc' = [pc EXCEPT ![c] = "reset"]
        /\ resetTime' = [resetTime EXCEPT ![c] = Seconds(time + Full - level)]
        /\ readyAt' = [readyAt EXCEPT ![c] = time + (IF level >= Cost THEN 0 ELSE Cost - level)]
        /\ UNCHANGED <<time, buckets, objVars, key, bucket, retryAfter, deniedAt,
                       sweepVars, histVars>>
    BY <1>5, Zenon DEF GetResetTime
  <2> HIDE DEF level
  <2>5. QED
    BY <2>2, <2>3, <2>4, Zenon DEF objVars, sweepVars, histVars
<1>6. ASSUME NEW c \in Calls, RetryAfter(c) PROVE TInv'
  <2>1. Seconds(time) \in Nat
    BY SecondsBounds, Zenon
  <2>2. QED
    BY <1>6, <2>1 DEF RetryAfter, objVars, sweepVars, histVars
<1>7. CASE CleanupTick
  <2> DEFINE q == time \div CleanupTTL
  <2>0. q \in Nat
    BY BucketAssumption, QuotientIsNat, ZenonT(30)
  <2> HIDE DEF q
  <2>1. (q + 1) * CleanupTTL \in Nat
    BY <2>0, BucketAssumption
  <2>2. QED
    BY <1>7, <2>1 DEF q, CleanupTick, objVars, callVars, histVars
<1>8. ASSUME NEW k \in Keys, CleanupVisit(k) PROVE TInv'
  BY <1>8, Zenon DEF CleanupVisit, objVars, callVars, histVars
<1>9. CASE CleanupDelete
  BY <1>9, Zenon DEF CleanupDelete, objVars, callVars
<1>10. CASE Tick
  BY <1>10 DEF Tick, objVars, callVars, sweepVars, histVars
<1>11. QED
  BY <1>1, <1>2, <1>3, <1>4, <1>5, <1>6, <1>7, <1>8, <1>9, <1>10, Zenon DEF Next

\* The type invariant of the rate limiter.
THEOREM TypeCorrect == Spec => []TypeOK
<1>1. TInv => TypeOK
  BY Zenon DEF TInv
<1>2. QED
  BY <1>1, TypeCorrectInit, TypeCorrectStep, PTL DEF Spec
-----------------------------------------------------------------------------
\* A bucket in use belongs to one key and was made by a request past LoadOrStore.
InUse(b, k) == key[b] = k /\ pc[b] \notin {"idle", "load"}

PointerInv ==
  /\ \A k \in Keys : buckets[k] # Nil => InUse(buckets[k], k)
  /\ \A c \in Calls : pc[c] = "lock" => InUse(bucket[c], key[c])
  /\ doomed # Nil => now - seen > CleanupTTL

\* getBucket and the cleanup preserve what is known of the pointers in use.
LEMMA PointerStep == TInv /\ PointerInv /\ [Next]_vars => PointerInv'
<1> SUFFICES ASSUME TInv, PointerInv, [Next]_vars PROVE PointerInv'
  BY Zenon
<1> USE BucketAssumption DEF TInv, TypeOK
<1>1. CASE UNCHANGED <<buckets, pc, key, bucket, doomed, now, seen>>
  BY <1>1, Zenon DEF PointerInv, InUse
<1>2. ASSUME NEW c \in Calls, NewBucket(c) PROVE PointerInv'
  BY <1>2 DEF NewBucket, PointerInv, InUse, sweepVars
<1>3. ASSUME NEW c \in Calls, LoadOrStore(c) PROVE PointerInv'
  BY <1>3 DEF LoadOrStore, PointerInv, InUse, sweepVars
<1>4. ASSUME NEW c \in Calls, AllowN(c) PROVE PointerInv'
  <2>1. /\ UNCHANGED <<buckets, key, bucket, doomed, now, seen>>
        /\ \A d \in Calls : pc[d] \notin {"idle", "load"} => pc'[d] \notin {"idle", "load"}
        /\ \A d \in Calls : pc'[d] = "lock" => pc[d] = "lock"
    BY <1>4, Zenon DEF AllowN, sweepVars
  <2>2. QED
    BY <2>1 DEF PointerInv, InUse
<1>5. ASSUME NEW c \in Calls, GetResetTime(c) \/ RetryAfter(c) PROVE PointerInv'
  <2>1. /\ UNCHANGED <<buckets, key, bucket, doomed, now, seen>>
        /\ \A d \in Calls : pc[d] \notin {"idle", "load"} => pc'[d] \notin {"idle", "load"}
        /\ \A d \in Calls : pc'[d] = "lock" => pc[d] = "lock"
    BY <1>5 DEF GetResetTime, RetryAfter, sweepVars
  <2>2. QED
    BY <2>1 DEF PointerInv, InUse
<1>6. CASE CleanupTick
  BY <1>6, Zenon DEF CleanupTick, PointerInv, InUse, callVars
<1>7. ASSUME NEW k \in Keys, CleanupVisit(k) PROVE PointerInv'
  BY <1>7, Zenon DEF CleanupVisit, PointerInv, InUse, callVars
<1>8. CASE CleanupDelete
  BY <1>8, ZenonT(120) DEF CleanupDelete, PointerInv, InUse, callVars
<1>9. CASE Tick
  BY <1>9, <1>1, Zenon DEF Tick, callVars, sweepVars
<1>10. QED
  BY <1>1, <1>2, <1>3, <1>4, <1>5, <1>6, <1>7, <1>8, <1>9, Zenon DEF Next, vars, callVars, sweepVars

\* The ideal bucket of k is full by now, or holds at least what bucket b does.
IdealFull(k) == ideal[k] + time - idealAt[k] >= Full
Covers(k, b) == IdealFull(k) \/ tokens[b] - lastCheck[b] <= ideal[k] - idealAt[k]

Limited(k) ==
  /\ ideal[k] >= 0
  /\ IF buckets[k] = Nil THEN IdealFull(k) ELSE Covers(k, buckets[k])
  /\ \A c \in Calls : pc[c] = "lock" /\ key[c] = k => bucket[c] = buckets[k]

\* The inductive invariant: every key that no deletion raced is limited.
LimitInv == \A k \in Keys \ raced : Limited(k)

\* If the ideal bucket covers b, so it does after both were refilled and charged.
LEMMA ChargeBoth ==
  ASSUME TInv, NEW b \in Calls, NEW k \in Keys, Covers(k, b), NEW paid \in Nat
  PROVE  Refill(tokens[b], time - lastCheck[b]) - paid
           <= Refill(ideal[k], time - idealAt[k]) - paid
<1>1. /\ tokens[b] \in Nat /\ tokens[b] <= Full /\ lastCheck[b] \in Nat /\ time \in Nat
      /\ ideal[k] \in Int /\ idealAt[k] \in Nat
  BY FullIsEnough DEF TInv, TypeOK
<1>2. QED
  BY <1>1, FullIsEnough DEF Covers, IdealFull, Refill, Least

\* A key that a step does not touch stays limited.
LEMMA Untouched ==
  ASSUME TInv, NEW k \in Keys, Limited(k), raced \subseteq raced',
         time' \in Nat, time <= time', ideal'[k] = ideal[k], idealAt'[k] = idealAt[k],
         buckets'[k] = buckets[k], key' = key,
         buckets[k] # Nil => /\ tokens'[buckets[k]] = tokens[buckets[k]]
                             /\ lastCheck'[buckets[k]] = lastCheck[buckets[k]],
         \A c \in Calls : pc'[c] = "lock" /\ key[c] = k => pc[c] = "lock" /\ bucket'[c] = bucket[c]
  PROVE  Limited(k)'
<1>1. IdealFull(k) => IdealFull(k)'
  BY FullIsEnough DEF IdealFull, TInv, TypeOK
<1>2. QED
  BY <1>1, Zenon DEF Limited, Covers, TInv, TypeOK

\* AllowN and the cleanup preserve the bound by the ideal bucket.
LEMMA LimitStep ==
  ASSUME CleanupTTL >= Full
  PROVE  TInv /\ PointerInv /\ LimitInv /\ [Next]_vars => LimitInv'
<1> SUFFICES ASSUME TInv, PointerInv, LimitInv, [Next]_vars, NEW k \in Keys, k \notin raced'
             PROVE  Limited(k)'
  BY Zenon DEF LimitInv, TInv, TypeOK
<1> USE BucketAssumption
<1>0. raced \subseteq raced' /\ Limited(k)
  <2>1. raced \subseteq raced'
    BY Zenon DEF Next, vars, histVars, NewBucket, LoadOrStore, AllowN, GetResetTime, RetryAfter,
           CleanupTick, CleanupVisit, CleanupDelete, Tick
  <2>2. QED
    BY <2>1, Zenon DEF LimitInv
<1>1. CASE UNCHANGED <<time, buckets, tokens, lastCheck, pc, key, bucket, ideal, idealAt>>
  BY <1>0, <1>1, Untouched DEF TInv, TypeOK
<1>2. ASSUME NEW c \in Calls, NewBucket(c) PROVE Limited(k)'
  <2>1. buckets[k] # Nil => buckets[k] # c
    BY <1>2, ZenonT(120) DEF NewBucket, PointerInv, InUse
  <2>2. QED
    BY <1>0, <1>2, <2>1, Untouched DEF NewBucket, histVars, TInv, TypeOK
<1>3. ASSUME NEW c \in Calls, LoadOrStore(c) PROVE Limited(k)'
  <2>1. CASE key[c] # k
    BY <1>0, <1>3, <2>1, Untouched DEF LoadOrStore, objVars, histVars, TInv, TypeOK
  <2>2. CASE key[c] = k
    <3>1. /\ UNCHANGED <<time, tokens, lastCheck, key, ideal, idealAt>>
          /\ bucket'[c] = buckets'[k]
          /\ buckets'[k] = IF buckets[k] = Nil THEN c ELSE buckets[k]
          /\ \A d \in Calls : d # c => pc'[d] = pc[d] /\ bucket'[d] = bucket[d]
      BY <1>3, <2>2, Zenon DEF LoadOrStore, objVars, histVars, TInv, TypeOK
    <3>2. \A d \in Calls : d # c /\ pc[d] = "lock" /\ key[d] = k => buckets[k] # Nil /\ bucket[d] = buckets[k]
      BY <1>0 DEF Limited, TInv, TypeOK
    <3>3. QED
      BY <1>0, <3>1, <3>2, Zenon DEF Limited, Covers, IdealFull
  <2>3. QED
    BY <2>1, <2>2, Zenon
<1>4. ASSUME NEW c \in Calls, AllowN(c) PROVE Limited(k)'
  <2> DEFINE b == bucket[c]
             level == Refill(tokens[b], time - lastCheck[b])
             target == Refill(ideal[key[c]], time - idealAt[key[c]])
             paid == IF level >= Cost THEN Cost ELSE 0
  <2>1. b \in Calls /\ key[b] = key[c] /\ key[c] \in Keys
    BY <1>4, Zenon DEF AllowN, PointerInv, InUse, TInv, TypeOK
  <2>2. /\ lastCheck' = [lastCheck EXCEPT ![b] = time]
        /\ tokens' = [tokens EXCEPT ![b] = level - paid]
        /\ ideal' = [ideal EXCEPT ![key[c]] = target - paid]
        /\ idealAt' = [idealAt EXCEPT ![key[c]] = time]
        /\ UNCHANGED <<time, buckets, key, bucket>>
        /\ \A d \in Calls : pc'[d] = "lock" => pc[d] = "lock"
    BY <1>4, Zenon DEF AllowN, TInv, TypeOK
  <2>3. level \in 0..Full /\ target \in Int /\ target <= Full
    BY <2>1, Levels, Zenon
  <2>4. CASE key[c] # k
    <3>1. buckets[k] # Nil => buckets[k] # b
      BY <2>1, <2>4, Zenon DEF PointerInv, InUse
    <3> HIDE DEF b, level, target, paid
    <3>2. QED
      BY <1>0, <2>1, <2>2, <2>4, <3>1, Untouched, SMTT(60) DEF TInv, TypeOK
  <2>5. CASE key[c] = k
    <3>1. b = buckets[k] /\ b # Nil /\ Covers(k, b)
      BY <1>0, <1>4, <2>1, <2>5, Zenon DEF AllowN, Limited
    <3>2. level - paid <= target - paid /\ level - paid >= 0 /\ paid \in Nat
      <4>1. paid \in Nat /\ level - paid >= 0
        <5> HIDE DEF level
        <5> QED BY <2>3, FullIsEnough
      <4>2. QED
        BY <2>1, <2>5, <3>1, <4>1, ChargeBoth, Zenon
    <3>3. /\ ideal'[k] = target - paid /\ idealAt'[k] = time /\ tokens'[b] = level - paid
          /\ lastCheck'[b] = time /\ buckets'[k] = b
      BY <2>1, <2>2, <2>5, <3>1, Zenon DEF TInv, TypeOK
    <3>4. \A d \in Calls : pc'[d] = "lock" /\ key'[d] = k => bucket'[d] = buckets'[k]
      BY <1>0, <2>2, Zenon DEF Limited
    <3> HIDE DEF b, level, target, paid
    <3>5. ideal'[k] >= 0 /\ tokens'[b] - lastCheck'[b] <= ideal'[k] - idealAt'[k]
      BY <2>3, <3>2, <3>3 DEF TInv, TypeOK
    <3>6. QED
      BY <3>1, <3>3, <3>4, <3>5, Zenon DEF Limited, Covers
  <2>6. QED
    BY <2>4, <2>5, Zenon
<1>5. ASSUME NEW c \in Calls, GetResetTime(c) \/ RetryAfter(c) PROVE Limited(k)'
  <2>1. /\ UNCHANGED <<time, buckets, tokens, lastCheck, key, bucket, ideal, idealAt>>
        /\ \A d \in Calls : pc'[d] = "lock" => pc[d] = "lock"
    BY <1>5, ZenonT(120) DEF GetResetTime, RetryAfter, objVars, histVars, TInv, TypeOK
  <2>2. QED
    BY <1>0, <2>1, Untouched, SMTT(60) DEF TInv, TypeOK
<1>6. CASE CleanupDelete
  <2>1. CASE doomed # k
    BY <1>0, <1>6, <2>1, Untouched DEF CleanupDelete, objVars, callVars, TInv, TypeOK
  <2>2. CASE doomed = k
    <3>1. ~Busy(k) /\ buckets'[k] = Nil
      BY <1>6, <2>2, Zenon DEF CleanupDelete, TInv, TypeOK
    <3>2. UNCHANGED <<time, ideal, idealAt, pc, key, bucket>>
      BY <1>6, Zenon DEF CleanupDelete, callVars
    <3>3. \A d \in Calls : ~(pc[d] = "lock" /\ key[d] = k)
      BY <1>0, <3>1, Zenon DEF Limited, Busy, TInv, TypeOK
    <3>4. IdealFull(k)
      <4>1. CASE buckets[k] = Nil
        BY <1>0, <4>1, Zenon DEF Limited
      <4>2. CASE buckets[k] # Nil
        <5> DEFINE b == buckets[k]
        <5>1. b \in Calls /\ lastCheck[b] = seen /\ Covers(k, b)
          BY <1>0, <3>1, <4>2, Zenon DEF Busy, Limited, TInv, TypeOK
        <5>2. now - seen > CleanupTTL /\ now <= time
          BY <1>6, Zenon DEF CleanupDelete, PointerInv, TInv, ClockInv
        <5>3. /\ tokens[b] \in Nat /\ seen \in Nat /\ now \in Nat /\ time \in Nat
              /\ ideal[k] \in Int /\ idealAt[k] \in Nat
          BY <5>1, FullIsEnough DEF TInv, TypeOK
        <5>4. QED
          BY <5>1, <5>2, <5>3, FullIsEnough DEF Covers, IdealFull
      <4>3. QED
        BY <4>1, <4>2, Zenon
    <3>5. QED
      BY <1>0, <3>1, <3>2, <3>3, <3>4, ZenonT(30) DEF Limited, IdealFull
  <2>3. QED
    BY <2>1, <2>2, Zenon
<1>7. CASE Tick
  BY <1>0, <1>7, Untouched DEF Tick, objVars, callVars, histVars, TInv, TypeOK
<1>8. QED
  BY <1>1, <1>2, <1>3, <1>4, <1>5, <1>6, <1>7, Zenon
     DEF Next, vars, objVars, callVars, histVars, CleanupTick, CleanupVisit

\* Requests of a key are limited exactly by rate and burst, however they are
\* interleaved and however often the cleanup ran, unless it deleted the bucket
\* of the key under a request.
THEOREM LimitHolds ==
  ASSUME CleanupTTL >= Full
  PROVE  Spec => []LimitUnlessRaced
<1>1. Init => PointerInv /\ LimitInv
  BY FullIsEnough, BucketAssumption DEF Init, PointerInv, LimitInv, Limited, IdealFull
<1>2. LimitInv => LimitUnlessRaced
  BY Zenon DEF LimitInv, Limited, LimitUnlessRaced
<1>3. QED
  BY <1>1, <1>2, TypeCorrectInit, TypeCorrectStep, PointerStep, LimitStep, PTL DEF Spec
-----------------------------------------------------------------------------
\* The reset time handed to a denied request is not before a token is there.
RetryInv ==
  /\ RetryAfterSuffices
  /\ \A c \in Calls : pc[c] = "reset"
       => readyAt[c] <= time \/ readyAt[c] <= resetTime[c] * TicksPerSecond

\* Truncation loses less than a second of the reset time.
LEMMA ResetIsLate ==
  ASSUME RetryMargin, NEW t \in Nat, NEW level \in 0..Full, level < Cost
  PROVE  t + (Cost - level) <= Seconds(t + Full - level) * TicksPerSecond
<1> DEFINE full == t + Full - level
           s == Seconds(full) * TicksPerSecond
<1>1. full \in Nat /\ level \in Int
  BY FullIsEnough
<1>2. full < s + TicksPerSecond /\ s \in Nat
  BY <1>1, SecondsBounds, BucketAssumption
<1>3. Full - Cost >= TicksPerSecond - 1
  BY BucketAssumption, SMT DEF RetryMargin, Full
<1> HIDE DEF s
<1>4. t + (Cost - level) <= s
  BY <1>1, <1>2, <1>3, FullIsEnough, BucketAssumption
<1>5. QED
  BY <1>4, Zenon DEF s

\* RateLimitMiddleware never promises a token too early.
LEMMA RetryStep ==
  ASSUME RetryMargin
  PROVE  TInv /\ RetryInv /\ [Next]_vars => RetryInv'
<1> SUFFICES ASSUME TInv, RetryInv, [Next]_vars PROVE RetryInv'
  BY Zenon
<1> USE DEF TInv, TypeOK
<1>1. ASSUME time' \in Nat, time <= time', UNCHANGED <<resetTime, retryAfter, deniedAt, readyAt>>,
             \A c \in Calls : pc'[c] \in {"reset", "refused"} => pc'[c] = pc[c]
      PROVE  RetryInv'
  BY <1>1 DEF RetryInv, RetryAfterSuffices
<1>2. ASSUME NEW c \in Calls, GetResetTime(c) PROVE RetryInv'
  <2> DEFINE b == buckets[key[c]]
             level == IF b = Nil THEN Full ELSE Refill(tokens[b], time - lastCheck[b])
  <2>1. level \in 0..Full
    BY Levels, FullIsEnough
  <2>2. /\ pc' = [pc EXCEPT ![c] = "reset"]
        /\ resetTime' = [resetTime EXCEPT ![c] = Seconds(time + Full - level)]
        /\ readyAt' = [readyAt EXCEPT ![c] = time + (IF level >= Cost THEN 0 ELSE Cost - level)]
        /\ UNCHANGED <<time, retryAfter, deniedAt>>
    BY <1>2, Zenon DEF GetResetTime
  <2> HIDE DEF level
  <2>3. readyAt'[c] <= time \/ readyAt'[c] <= resetTime'[c] * TicksPerSecond
    <3>1. CASE level >= Cost
      BY <2>2, <3>1
    <3>2. CASE ~(level >= Cost)
      <4>1. level < Cost
        BY <2>1, <3>2, FullIsEnough
      <4>2. time + (Cost - level) <= Seconds(time + Full - level) * TicksPerSecond
        BY <2>1, <4>1, ResetIsLate, Zenon
      <4>3. QED
        BY <2>2, <3>2, <4>2, Zenon
    <3>3. QED
      BY <3>1, <3>2, Zenon
  <2>4. QED
    BY <2>2, <2>3, Zenon DEF RetryInv, RetryAfterSuffices
<1>3. ASSUME NEW c \in Calls, RetryAfter(c) PROVE RetryInv'
  <2> DEFINE wait == resetTime[c] - Seconds(time)
             ra == IF wait < 1 THEN 1 ELSE wait
             S == TicksPerSecond
             q == Seconds(time)
  <2>1. /\ pc' = [pc EXCEPT ![c] = "refused"]
        /\ retryAfter' = [retryAfter EXCEPT ![c] = ra]
        /\ deniedAt' = [deniedAt EXCEPT ![c] = time]
        /\ UNCHANGED <<time, resetTime, readyAt>>
    BY <1>3, Zenon DEF RetryAfter
  <2>2. readyAt[c] <= time \/ readyAt[c] <= resetTime[c] * S
    BY <1>3, Zenon DEF RetryAfter, RetryInv
  <2>3. q \in Nat /\ S \in Nat \ {0} /\ q * S <= time /\ resetTime[c] \in Nat /\ time \in Nat
        /\ readyAt[c] \in Nat
    BY SecondsBounds, BucketAssumption, Zenon
  <2> HIDE DEF q, S
  <2>4. ra * S >= (resetTime[c] - q) * S /\ ra * S >= 0
    BY <2>3 DEF q
  <2>5. (resetTime[c] - q) * S = resetTime[c] * S - q * S
    BY <2>3
  <2>6. /\ ra * S \in Int /\ resetTime[c] * S \in Int /\ q * S \in Int
    BY <2>3 DEF q
  <2> HIDE DEF ra
  <2>7. time + ra * S >= readyAt[c]
    BY <2>2, <2>3, <2>4, <2>5, <2>6
  <2>8. deniedAt'[c] + retryAfter'[c] * TicksPerSecond >= readyAt'[c]
    BY <2>1, <2>7, Zenon DEF S
  <2>9. QED
    BY <2>1, <2>8, Zenon DEF RetryInv, RetryAfterSuffices
<1>4. ASSUME NEW c \in Calls, NewBucket(c) \/ LoadOrStore(c) \/ AllowN(c) PROVE RetryInv'
  BY <1>1, <1>4 DEF NewBucket, LoadOrStore, AllowN
<1>5. CASE CleanupTick \/ CleanupDelete \/ Tick \/ UNCHANGED vars
  BY <1>1, <1>5 DEF CleanupTick, CleanupDelete, Tick, vars, callVars
<1>6. ASSUME NEW k \in Keys, CleanupVisit(k) PROVE RetryInv'
  BY <1>1, <1>6 DEF CleanupVisit, callVars
<1>7. QED
  BY <1>2, <1>3, <1>4, <1>5, <1>6, Zenon DEF Next

\* The Retry-After of a 429 is long enough, if refilling all but one token of the
\* burst takes at least a second.
THEOREM RetryHolds ==
  ASSUME RetryMargin
  PROVE  Spec => []RetryAfterSuffices
<1>1. Init => RetryInv
  BY Zenon DEF Init, RetryInv, RetryAfterSuffices
<1>2. RetryInv => RetryAfterSuffices
  BY Zenon DEF RetryInv
<1>3. QED
  BY <1>1, <1>2, TypeCorrectInit, TypeCorrectStep, RetryStep, PTL DEF Spec
=============================================================================
