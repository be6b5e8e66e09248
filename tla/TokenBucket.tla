---------------------------- MODULE TokenBucket -----------------------------
(***************************************************************************)
(* The gateway's rate limiter (gateway/ratelimit.go) as the middleware     *)
(* RateLimitMiddleware uses it (gateway/main.go): concurrent requests take *)
(* tokens from per-key buckets in a sync.Map while a goroutine deletes the *)
(* buckets that have been idle.  A request holds a pointer to its bucket   *)
(* before it locks it, and the cleanup deletes a bucket after it has       *)
(* unlocked it.                                                            *)
(*                                                                         *)
(* Tokens are counted in units of which one accrues per tick, so that the  *)
(* refill rate is 1 and a token costs Cost units; rounding of floats is    *)
(* not modelled.                                                           *)
(***************************************************************************)
EXTENDS Integers

CONSTANTS
  Calls,           \* requests, each passing the middleware once
  Keys,            \* "ip:" plus a client address
  Nil,
  Cost,            \* ticks in which one token accrues: 60 / rpm seconds
  Burst,           \* tokens in a full bucket
  CleanupTTL,      \* RATE_LIMIT_CLEANUP_INTERVAL, in ticks
  TicksPerSecond,
  MaxTime          \* bound of the model: the clock stops here

\* NewTokenBucket raises rpm and burst to at least 1; time.NewTicker accepts
\* positive intervals only.
ASSUME BucketAssumption ==
  /\ Nil \notin Calls \cup Keys
  /\ Cost \in Nat \ {0}
  /\ Burst \in Nat \ {0}
  /\ CleanupTTL \in Nat \ {0}
  /\ TicksPerSecond \in Nat \ {0}
  /\ MaxTime \in Nat

Full == Burst * Cost

VARIABLES
  time,
  buckets,    \* the sync.Map: key -> pointer; a pointer is the call that allocated
  tokens,     \* the buckets themselves, in units
  lastCheck,
  pc,         \* where each request is
  key,        \* its key
  bucket,     \* the pointer it holds
  resetTime,  \* the Unix time GetResetTime gave a denied request
  retryAfter, \* the Retry-After header it got, in seconds
  deniedAt,   \* when it got it
  readyAt,    \* when, at the reading of GetResetTime, a token would be there
  now,        \* the cleanup's clock reading
  nextTick,   \* when its ticker fires next
  scan,       \* keys its Range has yet to visit
  doomed,     \* the key it is about to delete
  seen,       \* the lastCheck it read from that key's bucket
  ideal,      \* history: units an ideal bucket of each key would hold ...
  idealAt,    \* ... and when it was last looked at
  raced       \* history: keys deleted while a request was at their bucket

objVars == <<tokens, lastCheck>>
callVars == <<pc, key, bucket, resetTime, retryAfter, deniedAt, readyAt>>
sweepVars == <<now, nextTick, scan, doomed, seen>>
histVars == <<ideal, idealAt, raced>>
vars == <<time, buckets, objVars, callVars, sweepVars, histVars>>

Least(a, b) == IF a < b THEN a ELSE b

\* A level refilled for the given time, up to the burst.
Refill(level, elapsed) == Least(Full, level + elapsed)

Seconds(t) == t \div TicksPerSecond

Init ==
  /\ time = 0
  /\ buckets = [k \in Keys |-> Nil]
  /\ tokens = [c \in Calls |-> Full]
  /\ lastCheck = [c \in Calls |-> 0]
  /\ pc = [c \in Calls |-> "idle"]
  /\ key \in [Calls -> Keys]
  /\ bucket = [c \in Calls |-> Nil]
  /\ resetTime = [c \in Calls |-> 0]
  /\ retryAfter = [c \in Calls |-> 0]
  /\ deniedAt = [c \in Calls |-> 0]
  /\ readyAt = [c \in Calls |-> 0]
  /\ now = 0
  /\ nextTick = CleanupTTL
  /\ scan = {}
  /\ doomed = Nil
  /\ seen = 0
  /\ ideal = [k \in Keys |-> Full]
  /\ idealAt = [k \in Keys |-> 0]
  /\ raced = {}

\* getBucket, first half: a full bucket is made in case there is none.
NewBucket(c) ==
  /\ pc[c] = "idle"
  /\ pc' = [pc EXCEPT ![c] = "load"]
  /\ tokens' = [tokens EXCEPT ![c] = Full]
  /\ lastCheck' = [lastCheck EXCEPT ![c] = time]
  /\ UNCHANGED <<time, buckets, key, bucket, resetTime, retryAfter, deniedAt, readyAt,
                 sweepVars, histVars>>

\* Mutant: the new bucket replaces the one that is there.
StoreBucket(c) ==
  /\ pc[c] = "load"
  /\ pc' = [pc EXCEPT ![c] = "lock"]
  /\ buckets' = [buckets EXCEPT ![key[c]] = c]
  /\ bucket' = [bucket EXCEPT ![c] = buckets'[key[c]]]
  /\ UNCHANGED <<time, objVars, key, resetTime, retryAfter, deniedAt, readyAt,
                 sweepVars, histVars>>

\* getBucket, second half: LoadOrStore.
LoadOrStore(c) ==
  /\ pc[c] = "load"
  /\ pc' = [pc EXCEPT ![c] = "lock"]
  /\ buckets' = [buckets EXCEPT ![key[c]] = IF @ = Nil THEN c ELSE @]
  /\ bucket' = [bucket EXCEPT ![c] = buckets'[key[c]]]
  /\ UNCHANGED <<time, objVars, key, resetTime, retryAfter, deniedAt, readyAt,
                 sweepVars, histVars>>

\* AllowN(key, 1) under the lock of the bucket the request holds.  The ideal
\* bucket of the key is charged with it.
AllowN(c) ==
  LET b == bucket[c]
      k == key[c]
      level == Refill(tokens[b], time - lastCheck[b])
      allowed == level >= Cost
      paid == IF allowed THEN Cost ELSE 0
  IN /\ pc[c] = "lock"
     /\ lastCheck' = [lastCheck EXCEPT ![b] = time]
     /\ tokens' = [tokens EXCEPT ![b] = level - paid]
     /\ pc' = [pc EXCEPT ![c] = IF allowed THEN "served" ELSE "denied"]
     /\ ideal' = [ideal EXCEPT ![k] = Refill(@, time - idealAt[k]) - paid]
     /\ idealAt' = [idealAt EXCEPT ![k] = time]
     /\ UNCHANGED <<time, buckets, key, bucket, resetTime, retryAfter, deniedAt, readyAt,
                    sweepVars, raced>>

\* calculateRetryAfter, first half: GetResetTime of whatever bucket the key has.
GetResetTime(c) ==
  LET b == buckets[key[c]]
      level == IF b = Nil THEN Full ELSE Refill(tokens[b], time - lastCheck[b])
  IN /\ pc[c] = "denied"
     /\ pc' = [pc EXCEPT ![c] = "reset"]
     /\ resetTime' = [resetTime EXCEPT ![c] = Seconds(time + Full - level)]
     /\ readyAt' = [readyAt EXCEPT ![c] = time + (IF level >= Cost THEN 0 ELSE Cost - level)]
     /\ UNCHANGED <<time, buckets, objVars, key, bucket, retryAfter, deniedAt,
                    sweepVars, histVars>>

\* Mutant: the wait is counted from the end of the current second.
RetryAfterShort(c) ==
  LET wait == resetTime[c] - Seconds(time) - 1
  IN /\ pc[c] = "reset"
     /\ pc' = [pc EXCEPT ![c] = "refused"]
     /\ retryAfter' = [retryAfter EXCEPT ![c] = IF wait < 0 THEN 0 ELSE wait]
     /\ deniedAt' = [deniedAt EXCEPT ![c] = time]
     /\ UNCHANGED <<time, buckets, objVars, key, bucket, resetTime, readyAt,
                    sweepVars, histVars>>

\* calculateRetryAfter, second half: the clock is read again; 429 is sent.
RetryAfter(c) ==
  LET wait == resetTime[c] - Seconds(time)
  IN /\ pc[c] = "reset"
     /\ pc' = [pc EXCEPT ![c] = "refused"]
     /\ retryAfter' = [retryAfter EXCEPT ![c] = IF wait < 1 THEN 1 ELSE wait]
     /\ deniedAt' = [deniedAt EXCEPT ![c] = time]
     /\ UNCHANGED <<time, buckets, objVars, key, bucket, resetTime, readyAt,
                    sweepVars, histVars>>

\* cleanup: the ticker fires and Range begins.
CleanupTick ==
  /\ time >= nextTick
  /\ scan = {} /\ doomed = Nil
  /\ now' = time
  /\ nextTick' = (time \div CleanupTTL + 1) * CleanupTTL
  /\ scan' = Keys
  /\ UNCHANGED <<time, buckets, objVars, callVars, doomed, seen, histVars>>

\* cleanup: lastCheck of one bucket is read under its lock.
CleanupVisit(k) ==
  LET b == buckets[k]
      idle == b # Nil /\ now - lastCheck[b] > CleanupTTL
  IN /\ doomed = Nil
     /\ k \in scan
     /\ scan' = scan \ {k}
     /\ doomed' = IF idle THEN k ELSE Nil
     /\ seen' = IF idle THEN lastCheck[b] ELSE seen
     /\ UNCHANGED <<time, buckets, objVars, callVars, now, nextTick, histVars>>

\* A request holds, or has used since the visit, the bucket of key k.
Busy(k) ==
  LET b == buckets[k]
  IN b # Nil /\ (lastCheck[b] # seen \/ \E c \in Calls : pc[c] = "lock" /\ bucket[c] = b)

\* cleanup: the key is deleted, with no lock held.
CleanupDelete ==
  /\ doomed # Nil
  /\ buckets' = [buckets EXCEPT ![doomed] = Nil]
  /\ doomed' = Nil
  /\ raced' = IF Busy(doomed) THEN raced \cup {doomed} ELSE raced
  /\ UNCHANGED <<time, objVars, callVars, now, nextTick, scan, seen, ideal, idealAt>>

Tick ==
  /\ time < MaxTime
  /\ time' = time + 1
  /\ UNCHANGED <<buckets, objVars, callVars, sweepVars, histVars>>

Next ==
  \/ \E c \in Calls : \/ NewBucket(c) \/ LoadOrStore(c) \/ AllowN(c)
                      \/ GetResetTime(c) \/ RetryAfter(c)
  \/ CleanupTick
  \/ \E k \in Keys : CleanupVisit(k)
  \/ CleanupDelete
  \/ Tick

Spec == Init /\ [][Next]_vars
-----------------------------------------------------------------------------
\* Types of the variables.
TypeOK ==
  /\ time \in Nat
  /\ buckets \in [Keys -> Calls \cup {Nil}]
  /\ tokens \in [Calls -> 0..Full]
  /\ lastCheck \in [Calls -> Nat]
  /\ pc \in [Calls -> {"idle", "load", "lock", "served", "denied", "reset", "refused"}]
  /\ key \in [Calls -> Keys]
  /\ bucket \in [Calls -> Calls \cup {Nil}]
  /\ \A c \in Calls : pc[c] = "lock" => bucket[c] \in Calls
  /\ resetTime \in [Calls -> Nat]
  /\ retryAfter \in [Calls -> Nat]
  /\ deniedAt \in [Calls -> Nat]
  /\ readyAt \in [Calls -> Nat]
  /\ now \in Nat /\ nextTick \in Nat /\ seen \in Nat
  /\ scan \subseteq Keys
  /\ doomed \in Keys \cup {Nil}
  /\ ideal \in [Keys -> Int]
  /\ idealAt \in [Keys -> Nat]
  /\ raced \subseteq Keys

\* In every window of time a key gets at most its burst plus what accrues in the
\* window: an ideal bucket charged with the same requests is never overdrawn.
WithinLimit == \A k \in Keys : ideal[k] >= 0

\* The limit is exact for concurrent requests and across cleanups, except for a
\* key that the cleanup deleted while a request was using its bucket.  Needs a
\* cleanup interval in which an empty bucket fills up.
LimitUnlessRaced == \A k \in Keys \ raced : ideal[k] >= 0

RetryMargin == (Burst - 1) * Cost >= TicksPerSecond - 1

\* A client that waits for the Retry-After it was told finds a token, if nobody
\* else takes it: the rounding of both Unix times costs up to a second, which
\* the time to fill the other tokens of the burst has to cover (RetryMargin).
RetryAfterSuffices ==
  \A c \in Calls : pc[c] = "refused"
    => deniedAt[c] + retryAfter[c] * TicksPerSecond >= readyAt[c]
=============================================================================
