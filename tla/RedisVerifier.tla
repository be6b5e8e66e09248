--------------------------- MODULE RedisVerifier ----------------------------
(***************************************************************************)
(* Verifier replicas with VERIFIER_NONCE_STORE=redis (verifier/src/main.rs)*)
(* A call waits for a connection and then for the reply to one atomic      *)
(* SET NX EX, each under a timeout.  The Redis server, outside the         *)
(* repository, is modelled by what that command does: it may run after the *)
(* caller has stopped waiting, or never.                                   *)
(***************************************************************************)
EXTENDS VerifyCalls

CONSTANT Timeout  \* VERIFIER_REDIS_TIMEOUT_MS, in ticks

ASSUME RedisAssumption == Timeout \in Nat /\ MaxTime \in Nat

VARIABLES
  waitingSince, \* when its current wait began
  command,      \* its SET: not sent, on its way, or what Redis answered
  ranAt,        \* when Redis ran it
  keys          \* Redis: nonce -> last tick at which its key exists

waitVars == <<pc, input, validatedAt, waitingSince, reply>>
redisVars == <<command, ranAt, keys>>
replicaVars == <<time, waitVars, redisVars>>

\* A key that has never existed.
Absent == -1

\* "gone" is a call dropped at one of its awaits: its replica crashed or the
\* gateway closed the connection.
RedisSteps == {"idle", "connecting", "setting", "done", "gone"}
Waiting(r) == pc[r] \in {"connecting", "setting"}

RedisInit ==
  /\ time = 0
  /\ pc = [r \in Requests |-> "idle"]
  /\ input = [r \in Requests |-> AnyInput]
  /\ validatedAt = [r \in Requests |-> 0]
  /\ waitingSince = [r \in Requests |-> 0]
  /\ command = [r \in Requests |-> "unsent"]
  /\ ranAt = [r \in Requests |-> 0]
  /\ reply = [r \in Requests |-> NonceStoreUnavailable]
  /\ keys = [n \in Nonces |-> Absent]

\* A call that fails a test before the claim is answered at once.
RedisReject(r, in) ==
  /\ pc[r] = "idle"
  /\ ~Admissible(in, time)
  /\ pc' = [pc EXCEPT ![r] = "done"]
  /\ input' = [input EXCEPT ![r] = in]
  /\ reply' = [reply EXCEPT ![r] = Rejection(in, time)]
  /\ UNCHANGED <<time, validatedAt, waitingSince, redisVars>>

\* A call that passes them asks for a connection.
RedisAdmit(r, in) ==
  /\ pc[r] = "idle"
  /\ Admissible(in, time)
  /\ pc' = [pc EXCEPT ![r] = "connecting"]
  /\ input' = [input EXCEPT ![r] = in]
  /\ validatedAt' = [validatedAt EXCEPT ![r] = time]
  /\ waitingSince' = [waitingSince EXCEPT ![r] = time]
  /\ UNCHANGED <<time, reply, redisVars>>

\* The connection is there: send the SET and wait for its reply.
SendClaim(r) ==
  /\ pc[r] = "connecting"
  /\ pc' = [pc EXCEPT ![r] = "setting"]
  /\ waitingSince' = [waitingSince EXCEPT ![r] = time]
  /\ command' = [command EXCEPT ![r] = "sent"]
  /\ UNCHANGED <<time, input, validatedAt, reply, ranAt, keys>>

\* Mutant: SET EX without NX.
RunSetUnconditional(r) ==
  /\ command[r] = "sent"
  /\ command' = [command EXCEPT ![r] = "OK"]
  /\ keys' = [keys EXCEPT ![input[r].nonce] = time + nonce_retention_ttl]
  /\ ranAt' = [ranAt EXCEPT ![r] = time]
  /\ UNCHANGED <<time, waitVars>>

\* Redis runs SET key 1 NX EX ttl, whether or not the caller still waits.
RunSet(r) ==
  LET n == input[r].nonce
      exists == keys[n] >= time
  IN /\ command[r] = "sent"
     /\ command' = [command EXCEPT ![r] = IF exists THEN "nil" ELSE "OK"]
     /\ keys' = IF exists THEN keys ELSE [keys EXCEPT ![n] = time + nonce_retention_ttl]
     /\ ranAt' = [ranAt EXCEPT ![r] = time]
     /\ UNCHANGED <<time, waitVars>>

\* The connection breaks before the command reaches Redis.
LoseSet(r) ==
  /\ command[r] = "sent"
  /\ command' = [command EXCEPT ![r] = "lost"]
  /\ UNCHANGED <<time, waitVars, ranAt, keys>>

\* result.is_some() decides between acceptance and conflict.
ReceiveReply(r) ==
  /\ pc[r] = "setting"
  /\ command[r] \in {"OK", "nil"}
  /\ pc' = [pc EXCEPT ![r] = "done"]
  /\ reply' = [reply EXCEPT ![r] = IF command[r] = "OK" THEN Accepted ELSE NonceAlreadyUsed]
  /\ UNCHANGED <<time, input, validatedAt, waitingSince, redisVars>>

\* A failed wait is answered 503, although Redis may have run the SET or may
\* still run it.
Unavailable(r) ==
  /\ pc' = [pc EXCEPT ![r] = "done"]
  /\ reply' = [reply EXCEPT ![r] = NonceStoreUnavailable]
  /\ UNCHANGED <<time, input, validatedAt, waitingSince, redisVars>>

\* Mutant: an unreachable store lets the payment through.
RedisErrorFailsOpen(r) ==
  /\ Waiting(r)
  /\ pc' = [pc EXCEPT ![r] = "done"]
  /\ reply' = [reply EXCEPT ![r] = Accepted]
  /\ UNCHANGED <<time, input, validatedAt, waitingSince, redisVars>>

\* Either wait ends in an error of the Redis client.
RedisError(r) == Waiting(r) /\ Unavailable(r)

\* Mutant: only the connection is waited for under a timeout.
TimeoutConnectionOnly(r) ==
  /\ pc[r] = "connecting"
  /\ time >= waitingSince[r] + Timeout
  /\ Unavailable(r)

\* Either wait has lasted Timeout.
TimeoutClaim(r) ==
  /\ Waiting(r)
  /\ time >= waitingSince[r] + Timeout
  /\ Unavailable(r)

\* The handler is dropped at an await and nobody is answered.
Abandon(r) ==
  /\ Waiting(r)
  /\ pc' = [pc EXCEPT ![r] = "gone"]
  /\ UNCHANGED <<time, input, validatedAt, waitingSince, reply, redisVars>>

\* tokio's timers fire in time: no wait outlasts Timeout.
RedisTick ==
  /\ time < MaxTime
  /\ \A r \in Requests : Waiting(r) => time < waitingSince[r] + Timeout
  /\ time' = time + 1
  /\ UNCHANGED <<waitVars, redisVars>>

RedisStep(r) ==
  \/ SendClaim(r) \/ ReceiveReply(r)
  \/ RedisError(r) \/ TimeoutClaim(r) \/ Abandon(r)

RedisNext ==
  \/ \E r \in Requests, in \in Inputs : RedisReject(r, in) \/ RedisAdmit(r, in)
  \/ \E r \in Requests : RedisStep(r) \/ RunSet(r) \/ LoseSet(r)
  \/ RedisTick

RedisSpec == RedisInit /\ [][RedisNext]_replicaVars

\* Time passes and tokio's timers fire.  Nothing is assumed of Redis.
RedisFairness == WF_replicaVars(RedisTick) /\ \A r \in Requests : WF_replicaVars(TimeoutClaim(r))
RedisFairSpec == RedisSpec /\ RedisFairness
-----------------------------------------------------------------------------
\* Types of the variables.
RedisTypeOK ==
  /\ time \in Nat
  /\ pc \in [Requests -> RedisSteps]
  /\ input \in [Requests -> Inputs]
  /\ validatedAt \in [Requests -> Nat]
  /\ waitingSince \in [Requests -> Nat]
  /\ command \in [Requests -> {"unsent", "sent", "OK", "nil", "lost"}]
  /\ ranAt \in [Requests -> Nat]
  /\ reply \in [Requests -> Responses]
  /\ keys \in [Nonces -> Nat \cup {Absent}]

\* Across replicas, crashes and lost replies, a payment accepted twice had
\* expired when Redis ran one of the two claims: inside the signature window a
\* reused nonce is rejected by every replica.
ReplayRejectedByReplicas ==
  \A r, s \in Requests :
    r # s /\ IsAccepted(r) /\ IsAccepted(s) /\ SamePayment(r, s)
      => \/ Seconds(ranAt[r]) > input[r].ts + Expiry
         \/ Seconds(ranAt[s]) > input[s].ts + Expiry

\* A call is accepted only on the strength of its own successful claim: an
\* unreachable Redis never lets a payment through.
FailsClosed == \A r \in Requests : IsAccepted(r) => command[r] = "OK"

\* A conflict is answered only when another call claimed the nonce within the
\* retention - but that call may have been told 503, or nothing at all.
ConflictIsClaimed ==
  \A r \in Requests : pc[r] = "done" /\ reply[r] = NonceAlreadyUsed =>
    \E s \in Requests \ {r} : /\ command[s] = "OK"
                              /\ input[s].nonce = input[r].nonce
                              /\ ranAt[s] <= ranAt[r]
                              /\ ranAt[r] <= ranAt[s] + nonce_retention_ttl

\* What Redis has run decides, and nothing else: a call's own SET an acceptance,
\* another's a conflict.
SetsDecide == FailsClosed /\ ConflictIsClaimed

\* No call hangs on a silent Redis: it stops waiting, by its timeout if nothing
\* else, before the clock of the model stops.
WaitsEnd == \A r \in Requests : Waiting(r) ~> (~Waiting(r) \/ time = MaxTime)
=============================================================================
