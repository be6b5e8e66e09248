--------------------------- MODULE VerifierProofs ---------------------------
(***************************************************************************)
(* The replay guarantees of the verifier, for any number of calls and      *)
(* nonces, any window, skew and clock resolution: first for replicas that  *)
(* share Redis, whatever is lost, late or crashed, then for one process    *)
(* with the nonces in memory and any sweep interval.                       *)
(***************************************************************************)
EXTENDS MemoryVerifier, RedisVerifier, TLAPS

-----------------------------------------------------------------------------
(* The verifier's arithmetic of time, for every window, skew and clock     *)
(* resolution.  What matters is SecondsAfterRetention: the extra second of *)
(* nonce_retention_ttl pays exactly for the truncation of the wall clock   *)
(* to whole seconds.                                                       *)

\* Integer division by the clock resolution, as as_secs does it.
LEMMA DivisionBounds ==
  ASSUME NEW d \in Nat \ {0}, NEW a \in Nat
  PROVE  /\ a \div d \in Nat
         /\ (a \div d) * d <= a
         /\ a < (a \div d + 1) * d
  BY SMT

\* A positive factor can be cancelled from an inequality.
LEMMA CancelFactor ==
  ASSUME NEW d \in Nat \ {0}, NEW p \in Int, NEW q \in Int, p * d < q * d
  PROVE  p < q
  BY SMT

\* nonce_retention_ttl is a number of ticks.
LEMMA RetentionIsNat == nonce_retention_ttl \in Nat
  BY RulesAssumption, SMT DEF nonce_retention_ttl

\* A truncated clock reading is a number of seconds.
LEMMA SecondsIsNat == ASSUME NEW t \in Nat PROVE Seconds(t) \in Nat
  BY RulesAssumption, DivisionBounds, Zenon DEF Seconds

\* A full retention after a, the clock in whole seconds shows at least the
\* window, the skew and one second more than it did at a.
LEMMA SecondsAfterRetention ==
  ASSUME NEW a \in Nat, NEW b \in Nat, b >= a + nonce_retention_ttl
  PROVE  Seconds(b) >= Seconds(a) + Expiry + Skew + 1
<1> DEFINE d == TicksPerSecond
           k == Expiry + Skew + 1
           qa == a \div d
           qb == b \div d
<1>1. d \in Nat \ {0} /\ k \in Nat
  BY RulesAssumption
<1>2. qa \in Nat /\ qb \in Nat /\ qa * d <= a /\ b < (qb + 1) * d
  BY <1>1, DivisionBounds, Zenon
<1>3. b >= a + k * d
  BY Zenon DEF nonce_retention_ttl
<1>4. k * d \in Nat /\ qa * d \in Nat /\ (qb + 1) * d \in Nat
  BY <1>1, <1>2, SMT
<1>5. qa + k < qb + 1
  <2> HIDE DEF d, k, qa, qb
  <2>1. qa * d + k * d < (qb + 1) * d
    BY <1>1, <1>2, <1>3, <1>4
  <2>2. (qa + k) * d < (qb + 1) * d
    BY <1>1, <1>2, <2>1
  <2>3. qa + k \in Int /\ qb + 1 \in Int
    BY <1>1, <1>2
  <2>4. QED
    BY <1>1, <2>2, <2>3, CancelFactor, Zenon
<1>6. QED
  BY <1>1, <1>2, <1>5, RulesAssumption DEF Seconds

\* A call can carry something: Init's placeholder is an input.
LEMMA AnInputExists == \E in \in Inputs : TRUE
<1>1. PICK n \in Nonces, s \in Stamps, f \in FlawSets : TRUE
  BY RulesAssumption, ZenonT(30)
<1>2. [nonce |-> n, ts |-> s, flaws |-> f] \in Inputs
  BY Zenon DEF Inputs
<1>3. QED
  BY <1>2, Zenon

\* What an admissible call has established: its timestamp is present, not
\* beyond the skew and not older than the window.
LEMMA AdmissibleIsFresh ==
  ASSUME NEW in \in Inputs, NEW t \in Nat, Admissible(in, t)
  PROVE  /\ in.ts \in Nat
         /\ in.ts <= Seconds(t) + Skew
         /\ Seconds(t) <= in.ts + Expiry
<1>1. /\ in.ts \in Nat \cup {NoTimestamp}
      /\ in.ts # NoTimestamp
      /\ ~(in.ts > Seconds(t) + Skew)
      /\ ~(Seconds(t) - in.ts > Expiry)
  BY RulesAssumption, ZenonT(30) DEF Admissible, validate_timestamp, validate_timestamp_internal, Inputs
<1>2. QED
  BY <1>1, SecondsIsNat, RulesAssumption DEF NoTimestamp

\* Every answer given before the claim is well formed, grants nothing and names
\* no address.
LEMMA RejectionIsResponse ==
  ASSUME NEW in \in Inputs, NEW t \in Nat
  PROVE  /\ Rejection(in, t) \in Responses
         /\ ~Rejection(in, t).is_valid
         /\ ~Rejection(in, t).recovered_address
<1>1. validate_timestamp(in.ts, t) \in
        {"ok", "timestamp_missing", "timestamp_future", "timestamp_expired"}
  BY Zenon DEF validate_timestamp, validate_timestamp_internal
<1> DEFINE Fine(x) == x \in Responses /\ ~x.is_valid /\ ~x.recovered_address
<1>2. /\ Fine(Denied(413, "")) /\ Fine(Denied(400, ""))
      /\ Fine(Denied(400, "chain_id_mismatch")) /\ Fine(Denied(400, "invalid_signature"))
      /\ Fine(Denied(200, "invalid_signature"))
  BY DEF Denied, VerifyResponse, Responses, ErrorCodes
<1>3. validate_timestamp(in.ts, t) # "ok" => Fine(Denied(200, validate_timestamp(in.ts, t)))
  BY <1>1, ZenonT(120) DEF Denied, VerifyResponse, Responses, ErrorCodes
<1> HIDE DEF Fine
<1>4. Fine(Rejection(in, t))
  BY <1>2, <1>3, ZenonT(120) DEF Rejection
<1>5. QED
  BY <1>4, Zenon DEF Fine

\* So are the answers given after it, of which only one grants the payment.
LEMMA ClaimAnswers ==
  /\ {Accepted, NonceAlreadyUsed, NonceStoreUnavailable} \subseteq Responses
  /\ Accepted.is_valid /\ ~NonceAlreadyUsed.is_valid /\ ~NonceStoreUnavailable.is_valid
  /\ NonceAlreadyUsed.recovered_address
  BY DEF Accepted, NonceAlreadyUsed, NonceStoreUnavailable, Denied,
         VerifyResponse, Responses, ErrorCodes
-----------------------------------------------------------------------------

\* The initial state is well typed.
LEMMA RedisTypeInit == RedisInit => RedisTypeOK
<1> SUFFICES ASSUME RedisInit PROVE RedisTypeOK
  BY Zenon
<1>1. AnyInput \in Inputs
  BY AnInputExists, Zenon DEF AnyInput
<1>2. QED
  BY <1>1, ClaimAnswers, ZenonT(30) DEF RedisInit, RedisTypeOK, RedisSteps

\* Every step keeps the variables well typed.
LEMMA RedisTypeStep == RedisTypeOK /\ [RedisNext]_replicaVars => RedisTypeOK'
<1> SUFFICES ASSUME RedisTypeOK, [RedisNext]_replicaVars PROVE RedisTypeOK'
  BY Zenon
<1> USE ClaimAnswers DEF RedisTypeOK, RedisSteps, redisVars, waitVars
<1>1. ASSUME NEW r \in Requests, NEW in \in Inputs, RedisReject(r, in) PROVE RedisTypeOK'
  BY <1>1, RejectionIsResponse, Zenon DEF RedisReject
<1>2. ASSUME NEW r \in Requests, NEW in \in Inputs, RedisAdmit(r, in) PROVE RedisTypeOK'
  BY <1>2, Zenon DEF RedisAdmit
<1>3. ASSUME NEW r \in Requests, SendClaim(r) PROVE RedisTypeOK'
  BY <1>3, Zenon DEF SendClaim
<1>4. ASSUME NEW r \in Requests, ReceiveReply(r) PROVE RedisTypeOK'
  BY <1>4, ZenonT(30) DEF ReceiveReply
<1>5. ASSUME NEW r \in Requests, RedisError(r) \/ TimeoutClaim(r) PROVE RedisTypeOK'
  BY <1>5, ZenonT(120) DEF RedisError, TimeoutClaim, Unavailable
<1>6. ASSUME NEW r \in Requests, Abandon(r) PROVE RedisTypeOK'
  BY <1>6, ZenonT(30) DEF Abandon
<1>7. ASSUME NEW r \in Requests, RunSet(r) PROVE RedisTypeOK'
  <2>1. input[r].nonce \in Nonces /\ time + nonce_retention_ttl \in Nat
    BY RetentionIsNat DEF Inputs
  <2>2. QED
    BY <1>7, <2>1, Zenon DEF RunSet
<1>8. ASSUME NEW r \in Requests, LoseSet(r) PROVE RedisTypeOK'
  BY <1>8, Zenon DEF LoseSet
<1>9. CASE RedisTick
  BY <1>9 DEF RedisTick
<1>10. CASE UNCHANGED replicaVars
  BY <1>10, Zenon DEF replicaVars
<1>11. QED
  BY <1>1, <1>2, <1>3, <1>4, <1>5, <1>6, <1>7, <1>8, <1>9, <1>10, Zenon DEF RedisNext, RedisStep

\* The verifier replicas and Redis keep their variables well typed.
THEOREM RedisTypeCorrect == RedisSpec => []RedisTypeOK
  BY RedisTypeInit, RedisTypeStep, PTL DEF RedisSpec
-----------------------------------------------------------------------------
\* The call's timestamp was not beyond the skew when it was tested.
NotFromFuture(r) == input[r].ts \in Nat /\ input[r].ts <= Seconds(validatedAt[r]) + Skew

\* A command belongs to a call that passed its tests before it was sent, and
\* only what Redis answered decides between acceptance and conflict.
WaitInv ==
  \A r \in Requests :
    /\ pc[r] \in {"idle", "connecting"} => command[r] = "unsent"
    /\ Waiting(r) \/ command[r] # "unsent" => NotFromFuture(r) /\ validatedAt[r] <= time
    /\ IsAccepted(r) => command[r] = "OK"
    /\ pc[r] = "done" /\ reply[r] = NonceAlreadyUsed => command[r] = "nil"

\* A claim that succeeded holds its key for the retention; a key goes back to
\* such a claim.
KeyInv ==
  /\ \A r \in Requests : command[r] = "OK" =>
       /\ validatedAt[r] <= ranAt[r] /\ ranAt[r] <= time
       /\ keys[input[r].nonce] >= ranAt[r] + nonce_retention_ttl
  /\ \A n \in Nonces : keys[n] # Absent =>
       \E r \in Requests : /\ command[r] = "OK" /\ input[r].nonce = n
                           /\ keys[n] = ranAt[r] + nonce_retention_ttl

\* Two successful claims of a nonce are more than a retention apart.
ClaimsApart ==
  \A r, s \in Requests :
    r # s /\ command[r] = "OK" /\ command[s] = "OK" /\ input[r].nonce = input[s].nonce
      => \/ ranAt[r] > ranAt[s] + nonce_retention_ttl
         \/ ranAt[s] > ranAt[r] + nonce_retention_ttl

\* A claim that failed found the key of one that had succeeded.
FailedClaims ==
  \A r \in Requests : command[r] = "nil" =>
    \E s \in Requests \ {r} : /\ command[s] = "OK"
                              /\ input[s].nonce = input[r].nonce
                              /\ ranAt[s] <= ranAt[r]
                              /\ ranAt[r] <= ranAt[s] + nonce_retention_ttl

RedisInv == RedisTypeOK /\ WaitInv /\ KeyInv /\ ClaimsApart /\ FailedClaims

\* A step that leaves alone the calls whose commands Redis has run leaves their claims.
LEMMA ClaimsKept ==
  ASSUME KeyInv, ClaimsApart, FailedClaims, time' = time, ranAt' = ranAt, keys' = keys,
         \A s \in Requests : command[s] \in {"OK", "nil"} \/ command'[s] \in {"OK", "nil"}
           => /\ command'[s] = command[s] /\ input'[s] = input[s]
              /\ validatedAt'[s] = validatedAt[s]
  PROVE  KeyInv' /\ ClaimsApart' /\ FailedClaims'
<1>1. KeyInv'
  <2>1. \A s \in Requests : command'[s] = "OK" =>
          /\ validatedAt'[s] <= ranAt'[s] /\ ranAt'[s] <= time'
          /\ keys'[input'[s].nonce] >= ranAt'[s] + nonce_retention_ttl
    BY Zenon DEF KeyInv
  <2>2. \A n \in Nonces : keys'[n] # Absent =>
          \E s \in Requests : /\ command'[s] = "OK" /\ input'[s].nonce = n
                              /\ keys'[n] = ranAt'[s] + nonce_retention_ttl
    <3> TAKE n \in Nonces
    <3> HAVE keys'[n] # Absent
    <3>1. PICK s \in Requests : /\ command[s] = "OK" /\ input[s].nonce = n
                                /\ keys[n] = ranAt[s] + nonce_retention_ttl
      BY Zenon DEF KeyInv
    <3>2. command'[s] = command[s] /\ input'[s] = input[s]  BY <3>1, Zenon
    <3>3. input'[s].nonce = n /\ keys'[n] = ranAt'[s] + nonce_retention_ttl  BY <3>1, <3>2, Zenon
    <3> QED  BY <3>1, <3>2, <3>3, Zenon
  <2> QED  BY <2>1, <2>2, Zenon DEF KeyInv
<1>2. ClaimsApart'  BY ZenonT(120) DEF ClaimsApart
<1>3. FailedClaims'  BY ZenonT(120) DEF FailedClaims
<1> QED  BY <1>1, <1>2, <1>3, Zenon

\* The inductive invariant holds in every reachable state.
THEOREM RedisInvariant == RedisSpec => []RedisInv
<1>1. RedisInit => RedisInv
  <2> SUFFICES ASSUME RedisInit PROVE RedisInv
    BY Zenon
  <2>1. RedisTypeOK
    BY RedisTypeInit, Zenon
  <2>2. QED
    BY <2>1, Zenon DEF RedisInit, RedisInv, WaitInv, KeyInv, ClaimsApart, FailedClaims, Waiting, IsAccepted
<1>2. RedisInv /\ [RedisNext]_replicaVars => RedisInv'
  <2> SUFFICES ASSUME RedisInv, [RedisNext]_replicaVars PROVE RedisInv'
    BY Zenon
  <2> USE RetentionIsNat DEF redisVars, waitVars
  <2>0. RedisTypeOK /\ RedisTypeOK'
    BY RedisTypeStep, Zenon DEF RedisInv
  <2>1. ASSUME NEW r \in Requests, NEW in \in Inputs, RedisReject(r, in) PROVE RedisInv'
    <3>1. ~IsAccepted(r)' /\ reply'[r] # NonceAlreadyUsed
      BY <2>0, <2>1, RejectionIsResponse, ClaimAnswers DEF RedisReject, IsAccepted, RedisTypeOK
    <3>2. WaitInv'
      BY <2>0, <2>1, <3>1, ZenonT(30) DEF RedisReject, RedisTypeOK, RedisInv, WaitInv, NotFromFuture, Waiting, IsAccepted
    <3>3. KeyInv' /\ ClaimsApart' /\ FailedClaims'
      <4>1. command[r] = "unsent"  BY <2>1, Zenon DEF RedisReject, RedisInv, WaitInv
      <4>2. \A s \in Requests : command[s] # "unsent"
              => input'[s] = input[s] /\ validatedAt'[s] = validatedAt[s]
        BY <2>0, <2>1, <4>1, Zenon DEF RedisReject, RedisTypeOK
      <4>3. time' = time /\ command' = command /\ ranAt' = ranAt /\ keys' = keys
        BY <2>1, Zenon DEF RedisReject
      <4> QED  BY <4>2, <4>3, ClaimsKept, Zenon DEF RedisInv
    <3>4. QED
      BY <2>0, <3>2, <3>3, ZenonT(30) DEF RedisInv
  <2>2. ASSUME NEW r \in Requests, NEW in \in Inputs, RedisAdmit(r, in) PROVE RedisInv'
    <3>1. in.ts \in Nat /\ in.ts <= Seconds(time) + Skew
      BY <2>0, <2>2, AdmissibleIsFresh, ZenonT(30) DEF RedisAdmit, RedisTypeOK
    <3>2. WaitInv'
      BY <2>0, <2>2, <3>1 DEF RedisAdmit, RedisTypeOK, RedisInv, WaitInv, NotFromFuture, Waiting, IsAccepted
    <3>3. KeyInv' /\ ClaimsApart' /\ FailedClaims'
      <4>1. command[r] = "unsent"  BY <2>2, Zenon DEF RedisAdmit, RedisInv, WaitInv
      <4>2. \A s \in Requests : command[s] # "unsent"
              => input'[s] = input[s] /\ validatedAt'[s] = validatedAt[s]
        BY <2>0, <2>2, <4>1, Zenon DEF RedisAdmit, RedisTypeOK
      <4>3. time' = time /\ command' = command /\ ranAt' = ranAt /\ keys' = keys
        BY <2>2, Zenon DEF RedisAdmit
      <4> QED  BY <4>2, <4>3, ClaimsKept, Zenon DEF RedisInv
    <3>4. QED
      BY <2>0, <3>2, <3>3, Zenon DEF RedisInv
  <2>3. ASSUME NEW r \in Requests, SendClaim(r) PROVE RedisInv'
    <3>1. WaitInv'
      BY <2>0, <2>3, ZenonT(30) DEF SendClaim, RedisTypeOK, RedisInv, WaitInv, NotFromFuture, Waiting, IsAccepted
    <3>2. KeyInv' /\ ClaimsApart' /\ FailedClaims'
      <4>1. command[r] = "unsent"  BY <2>3, Zenon DEF SendClaim, RedisInv, WaitInv
      <4>2. command'[r] = "sent" /\ \A s \in Requests \ {r} : command'[s] = command[s]
        BY <2>0, <2>3, Zenon DEF SendClaim, RedisTypeOK
      <4>3. /\ time' = time /\ input' = input /\ validatedAt' = validatedAt
            /\ ranAt' = ranAt /\ keys' = keys
        BY <2>3, Zenon DEF SendClaim
      <4> QED  BY <4>1, <4>2, <4>3, ClaimsKept, Zenon DEF RedisInv
    <3>3. QED
      BY <2>0, <3>1, <3>2, Zenon DEF RedisInv
  <2>4. ASSUME NEW r \in Requests, ReceiveReply(r) PROVE RedisInv'
    <3>1. Accepted # NonceAlreadyUsed
      BY ClaimAnswers, ZenonT(30)
    <3>2. WaitInv'
      BY <2>0, <2>4, <3>1, ClaimAnswers, ZenonT(120) DEF ReceiveReply, RedisTypeOK, RedisInv, WaitInv, NotFromFuture,
        Waiting, IsAccepted
    <3>3. KeyInv' /\ ClaimsApart' /\ FailedClaims'
      BY <2>4, ZenonT(120) DEF ReceiveReply, RedisInv, KeyInv, ClaimsApart, FailedClaims
    <3>4. QED
      BY <2>0, <3>2, <3>3, Zenon DEF RedisInv
  <2>5. ASSUME NEW r \in Requests, RedisError(r) \/ TimeoutClaim(r) PROVE RedisInv'
    <3>1. NonceStoreUnavailable # NonceAlreadyUsed
      BY ZenonT(120) DEF NonceStoreUnavailable, Denied, NonceAlreadyUsed, VerifyResponse
    <3>2. WaitInv'
      BY <2>0, <2>5, <3>1, ClaimAnswers DEF RedisError, TimeoutClaim, Unavailable, RedisTypeOK, RedisInv,
        WaitInv, NotFromFuture, Waiting, IsAccepted
    <3>3. KeyInv' /\ ClaimsApart' /\ FailedClaims'
      BY <2>5 DEF RedisError, TimeoutClaim, Unavailable, RedisInv, KeyInv, ClaimsApart, FailedClaims
    <3>4. QED
      BY <2>0, <3>2, <3>3, Zenon DEF RedisInv
  <2>6. ASSUME NEW r \in Requests, Abandon(r) PROVE RedisInv'
    <3>1. WaitInv'
      BY <2>0, <2>6, ZenonT(30) DEF Abandon, RedisTypeOK, RedisInv, WaitInv, NotFromFuture, Waiting, IsAccepted
    <3>2. KeyInv' /\ ClaimsApart' /\ FailedClaims'
      BY <2>6, ZenonT(120) DEF Abandon, RedisInv, KeyInv, ClaimsApart, FailedClaims
    <3>3. QED
      BY <2>0, <3>1, <3>2, Zenon DEF RedisInv
  <2>7. ASSUME NEW r \in Requests, RunSet(r) PROVE RedisInv'
    <3> DEFINE n == input[r].nonce
    <3>1. n \in Nonces /\ command[r] = "sent" /\ validatedAt[r] <= time
      BY <2>0, <2>7, ZenonT(30) DEF RunSet, RedisTypeOK, Inputs, RedisInv, WaitInv
    <3>2. WaitInv'
      BY <2>0, <2>7, ZenonT(120) DEF RunSet, RedisTypeOK, RedisInv, WaitInv, NotFromFuture, Waiting, IsAccepted
    <3>3. CASE keys[n] >= time
      <4>1. keys' = keys /\ command' = [command EXCEPT ![r] = "nil"] /\ ranAt' = [ranAt EXCEPT ![r] = time]
        BY <2>7, <3>3, ZenonT(30) DEF RunSet
      <4>2. KeyInv' /\ ClaimsApart'
        BY <2>0, <2>7, <3>1, <4>1 DEF RunSet, RedisTypeOK, RedisInv, KeyInv, ClaimsApart
      <4>3. FailedClaims'
        <5>1. keys[n] # Absent
          BY <2>0, <3>3 DEF RedisTypeOK, Absent
        <5>2. PICK s \in Requests : /\ command[s] = "OK" /\ input[s].nonce = n
                                    /\ keys[n] = ranAt[s] + nonce_retention_ttl
                                    /\ ranAt[s] <= time
          BY <3>1, <5>1, ZenonT(120) DEF RedisInv, KeyInv
        <5>3. s # r
          BY <3>1, <5>2, ZenonT(30)
        <5>4. QED
          BY <2>0, <2>7, <3>1, <3>3, <4>1, <5>2, <5>3 DEF RunSet, RedisTypeOK, RedisInv, FailedClaims
      <4>4. QED
        BY <2>0, <3>2, <4>2, <4>3, Zenon DEF RedisInv
    <3>4. CASE ~(keys[n] >= time)
      <4>1. /\ keys' = [keys EXCEPT ![n] = time + nonce_retention_ttl]
            /\ command' = [command EXCEPT ![r] = "OK"]
            /\ ranAt' = [ranAt EXCEPT ![r] = time]
            /\ UNCHANGED <<time, input, validatedAt>>
        BY <2>7, <3>4, ZenonT(30) DEF RunSet
      <4>2. \A s \in Requests : command[s] = "OK" /\ input[s].nonce = n
              => s # r /\ time > ranAt[s] + nonce_retention_ttl
        BY <2>0, <3>1, <3>4 DEF RedisInv, KeyInv, RedisTypeOK, Absent
      <4>3. KeyInv'
        BY <2>0, <3>1, <4>1, <4>2 DEF RedisTypeOK, RedisInv, KeyInv, Inputs
      <4>4. ClaimsApart'
        BY <2>0, <3>1, <4>1, <4>2, ZenonT(120) DEF RedisTypeOK, RedisInv, ClaimsApart
      <4>5. FailedClaims'
        BY <2>0, <3>1, <4>1, ZenonT(120) DEF RedisTypeOK, RedisInv, FailedClaims
      <4>6. QED
        BY <2>0, <3>2, <4>3, <4>4, <4>5, Zenon DEF RedisInv
    <3>5. QED
      BY <3>3, <3>4, ZenonT(30)
  <2>8. ASSUME NEW r \in Requests, LoseSet(r) PROVE RedisInv'
    <3>1. WaitInv'
      BY <2>0, <2>8, ZenonT(120) DEF LoseSet, RedisTypeOK, RedisInv, WaitInv, NotFromFuture, Waiting, IsAccepted
    <3>2. KeyInv' /\ ClaimsApart' /\ FailedClaims'
      BY <2>0, <2>8 DEF LoseSet, RedisTypeOK, RedisInv, KeyInv, ClaimsApart, FailedClaims
    <3>3. QED
      BY <2>0, <3>1, <3>2, Zenon DEF RedisInv
  <2>9. CASE RedisTick
    BY <2>0, <2>9 DEF RedisTick, RedisTypeOK, RedisInv, WaitInv, KeyInv, ClaimsApart, FailedClaims,
      NotFromFuture, Waiting, IsAccepted
  <2>10. CASE UNCHANGED replicaVars
    BY <2>0, <2>10 DEF replicaVars, RedisInv, WaitInv, KeyInv, ClaimsApart, FailedClaims,
      NotFromFuture, Waiting, IsAccepted
  <2>11. QED
    BY <2>1, <2>2, <2>3, <2>4, <2>5, <2>6, <2>7, <2>8, <2>9, <2>10, Zenon DEF RedisNext, RedisStep
<1>3. QED
  BY <1>1, <1>2, PTL DEF RedisSpec
-----------------------------------------------------------------------------
\* A reused nonce is rejected by every replica as long as Redis runs the claim
\* inside the signature window.
THEOREM ReplicasHold == RedisSpec => []ReplayRejectedByReplicas
<1>1. RedisInv => ReplayRejectedByReplicas
  <2> SUFFICES ASSUME RedisInv, NEW r \in Requests, NEW s \in Requests,
                      IsAccepted(r), IsAccepted(s), SamePayment(r, s),
                      ranAt[r] > ranAt[s] + nonce_retention_ttl
               PROVE  Seconds(ranAt[r]) > input[r].ts + Expiry
    BY ZenonT(30) DEF ReplayRejectedByReplicas, RedisInv, WaitInv, ClaimsApart, SamePayment
  <2>1. /\ ranAt[r] \in Nat /\ ranAt[s] \in Nat /\ validatedAt[s] \in Nat
        /\ validatedAt[s] <= ranAt[s]
        /\ input[s].ts \in Nat /\ input[s].ts <= Seconds(validatedAt[s]) + Skew
    BY DEF RedisInv, RedisTypeOK, WaitInv, KeyInv, NotFromFuture
  <2>2. ranAt[r] >= validatedAt[s] + nonce_retention_ttl
    BY <2>1, RetentionIsNat
  <2>3. Seconds(ranAt[r]) >= Seconds(validatedAt[s]) + Expiry + Skew + 1
    BY <2>1, <2>2, SecondsAfterRetention, ZenonT(30)
  <2>4. QED
    BY <2>1, <2>3, SecondsIsNat, RulesAssumption DEF SamePayment
<1>2. QED
  BY <1>1, RedisInvariant, PTL

\* Without a successful claim of its own no call is accepted, and a conflict is
\* answered only when another call holds the nonce.
THEOREM ClaimsDecide == RedisSpec => []SetsDecide
<1>1. RedisInv => SetsDecide
  BY Zenon DEF RedisInv, WaitInv, FailedClaims, FailsClosed, ConflictIsClaimed, SetsDecide
<1>2. QED
  BY <1>1, RedisInvariant, PTL
-----------------------------------------------------------------------------

\* The call's timestamp was inside the window when it was tested.
Fresh(r) ==
  /\ input[r].ts \in Nat
  /\ input[r].ts <= Seconds(validatedAt[r]) + Skew
  /\ Seconds(validatedAt[r]) <= input[r].ts + Expiry

\* A call tests its timestamp, then reads the instant of its claim, then
\* reaches the store, all within MaxLag.
CallInv ==
  \A r \in Requests :
    /\ InFlight(r) => /\ Fresh(r)
                      /\ validatedAt[r] <= time
                      /\ time <= validatedAt[r] + MaxLag
    /\ pc[r] \in {"timed", "sweep", "entry"} => validatedAt[r] <= now[r] /\ now[r] <= time
    /\ IsAccepted(r) => /\ Fresh(r)
                        /\ validatedAt[r] <= now[r]
                        /\ now[r] <= claimedAt[r]
                        /\ claimedAt[r] <= time
                        /\ claimedAt[r] <= validatedAt[r] + MaxLag

\* The store remembers an accepted call, or a newer claim of its nonce, until
\* the retention has passed.  (Vacant lies below every instant.)
StoreInv ==
  \A r \in Requests : IsAccepted(r) =>
    \/ used_nonces[input[r].nonce] >= now[r]
    \/ time > now[r] + nonce_retention_ttl

IInv == TypeOK /\ CallInv /\ StoreInv /\ NonceHeldForRetention

-----------------------------------------------------------------------------
\* The initial state is well typed.
LEMMA TypeCorrectInit == Init => TypeOK
<1> SUFFICES ASSUME Init PROVE TypeOK
  BY Zenon
<1>1. AnyInput \in Inputs
  BY AnInputExists, Zenon DEF AnyInput
<1>2. QED
  BY <1>1, ClaimAnswers, ZenonT(30) DEF Init, TypeOK, Steps

\* Every step keeps the variables well typed.
LEMMA TypeCorrectStep == TypeOK /\ [Next]_vars => TypeOK'
<1> SUFFICES ASSUME TypeOK, [Next]_vars PROVE TypeOK'
  BY Zenon
<1> USE DEF TypeOK, Steps, storeVars
<1>1. ASSUME NEW r \in Requests, NEW in \in Inputs, Reject(r, in) PROVE TypeOK'
  BY <1>1, RejectionIsResponse, Zenon DEF Reject
<1>2. ASSUME NEW r \in Requests, NEW in \in Inputs, Admit(r, in) PROVE TypeOK'
  BY <1>2, Zenon DEF Admit
<1>3. ASSUME NEW r \in Requests, claim_nonce(r) PROVE TypeOK'
  BY <1>3, Zenon DEF claim_nonce
<1>4. ASSUME NEW r \in Requests, maybe_evict_expired_nonces(r) PROVE TypeOK'
  BY <1>4 DEF maybe_evict_expired_nonces
<1>5. ASSUME NEW r \in Requests, NEW n \in Nonces, evict_expired_nonces(r, n) PROVE TypeOK'
  BY <1>5, Zenon DEF evict_expired_nonces
<1>6. ASSUME NEW r \in Requests, claim_memory_nonce(r) PROVE TypeOK'
  <2>1. input[r].nonce \in Nonces
    BY Zenon DEF Inputs
  <2>2. QED
    BY <1>6, <2>1, ClaimAnswers, Zenon DEF claim_memory_nonce
<1>7. CASE Restart
  BY <1>7, Zenon DEF Restart
<1>8. CASE Tick
  BY <1>8 DEF Tick, callVars
<1>9. CASE UNCHANGED vars
  BY <1>9, Zenon DEF vars, callVars
<1>10. QED
  BY <1>1, <1>2, <1>3, <1>4, <1>5, <1>6, <1>7, <1>8, <1>9, Zenon DEF Next, Step

\* A delayed, swept or restarted verifier keeps its variables well typed.
THEOREM TypeCorrect == Spec => []TypeOK
  BY TypeCorrectInit, TypeCorrectStep, PTL DEF Spec

\* The heart of the argument: when a call finds its nonce free, every earlier
\* acceptance of that nonce is more than a retention old.
LEMMA FreeMeansForgotten ==
  ASSUME IInv, NEW r \in Requests, NEW s \in Requests, pc[r] = "entry", IsAccepted(s),
         input[s].nonce = input[r].nonce,
         used_nonces[input[r].nonce] = Vacant \/ Stale(r, input[r].nonce)
  PROVE  time > now[s] + nonce_retention_ttl
<1> DEFINE n == input[r].nonce
<1>1. /\ n \in Nonces
      /\ used_nonces[n] \in Nat \cup {Vacant}
      /\ now[r] \in Nat /\ now[s] \in Nat /\ time \in Nat
  BY Zenon DEF IInv, TypeOK, Inputs
<1>2. now[r] <= time
  BY Zenon DEF IInv, CallInv
<1>3. used_nonces[n] >= now[s] \/ time > now[s] + nonce_retention_ttl
  BY Zenon DEF IInv, StoreInv
<1>4. QED
  BY <1>1, <1>2, <1>3, RetentionIsNat DEF Stale, Vacant

\* The inductive invariant holds in every reachable state.
THEOREM Invariant == Spec => []IInv
<1>1. Init => IInv
  <2> SUFFICES ASSUME Init PROVE IInv
    BY Zenon
  <2>1. TypeOK
    BY TypeCorrectInit, Zenon
  <2>2. QED
    BY <2>1, Zenon DEF Init, IInv, CallInv, StoreInv, NonceHeldForRetention, InFlight, IsAccepted
<1>2. IInv /\ [Next]_vars => IInv'
  <2> SUFFICES ASSUME IInv, [Next]_vars PROVE IInv'
    BY Zenon
  <2> USE RetentionIsNat, MemoryAssumption
  <2>0. TypeOK'
    BY TypeCorrectStep, ZenonT(120) DEF IInv
  <2>1. ASSUME NEW r \in Requests, NEW in \in Inputs, Reject(r, in) PROVE IInv'
    <3>1. ~IsAccepted(r)'
      BY <2>1, RejectionIsResponse, ZenonT(120) DEF Reject, IsAccepted, IInv, TypeOK
    <3>2. \A s \in Requests \ {r} : pc'[s] = pc[s] /\ input'[s] = input[s] /\ reply'[s] = reply[s]
      BY <2>1, ZenonT(60) DEF Reject, IInv, TypeOK
    <3>3. pc'[r] = "done"
      BY <2>1, ZenonT(60) DEF Reject, IInv, TypeOK
    <3>4. UNCHANGED <<time, validatedAt, now, claimedAt, used_nonces>>
      BY <2>1, ZenonT(60) DEF Reject, storeVars
    <3>5. \A s \in Requests : IsAccepted(s)' => IsAccepted(s) /\ input'[s] = input[s]
      BY <3>1, <3>2, ZenonT(60) DEF IsAccepted
    <3>6. \A s \in Requests : InFlight(s)' => InFlight(s) /\ input'[s] = input[s]
      BY <3>2, <3>3, ZenonT(60) DEF InFlight
    <3>7. \A s \in Requests : pc'[s] \in {"timed", "sweep", "entry"} => pc'[s] = pc[s]
      BY <3>2, <3>3, ZenonT(60)
    <3>8. CallInv'
      BY <3>4, <3>5, <3>6, <3>7, ZenonT(60) DEF IInv, CallInv, Fresh
    <3>9. StoreInv'
      BY <3>4, <3>5, ZenonT(60) DEF IInv, StoreInv
    <3>10. NonceHeldForRetention'
      BY <3>4, <3>5, ZenonT(60) DEF IInv, NonceHeldForRetention
    <3>11. QED
      BY <2>0, <3>8, <3>9, <3>10, Zenon DEF IInv
  <2>2. ASSUME NEW r \in Requests, NEW in \in Inputs, Admit(r, in) PROVE IInv'
    <3>1. /\ in.ts \in Nat
          /\ in.ts <= Seconds(time) + Skew
          /\ Seconds(time) <= in.ts + Expiry
      BY <2>2, AdmissibleIsFresh, ZenonT(30) DEF Admit, IInv, TypeOK
    <3>2. QED
      BY <2>0, <2>2, <3>1 DEF Admit, IInv, TypeOK, CallInv, StoreInv, NonceHeldForRetention,
        Fresh, InFlight, IsAccepted, storeVars
  <2>3. ASSUME NEW r \in Requests, claim_nonce(r) PROVE IInv'
    <3>1. CallInv'
      BY <2>3 DEF claim_nonce, IInv, TypeOK, CallInv, Fresh, InFlight, IsAccepted
    <3>2. StoreInv'
      BY <2>3, Zenon DEF claim_nonce, IInv, TypeOK, StoreInv, IsAccepted, storeVars
    <3>3. NonceHeldForRetention'
      BY <2>3, ZenonT(120) DEF claim_nonce, IInv, TypeOK, NonceHeldForRetention, IsAccepted
    <3> QED  BY <2>0, <3>1, <3>2, <3>3, Zenon DEF IInv
  <2>4. ASSUME NEW r \in Requests, maybe_evict_expired_nonces(r) PROVE IInv'
    BY <2>0, <2>4 DEF maybe_evict_expired_nonces, IInv, TypeOK, CallInv, StoreInv,
      NonceHeldForRetention, Fresh, InFlight, IsAccepted
  <2>5. ASSUME NEW r \in Requests, NEW n \in Nonces, evict_expired_nonces(r, n) PROVE IInv'
    <3>1. CallInv' /\ NonceHeldForRetention'
      BY <2>5, ZenonT(120) DEF evict_expired_nonces, IInv, TypeOK, CallInv, NonceHeldForRetention,
        Fresh, InFlight, IsAccepted
    <3>2. StoreInv'
      BY <2>5 DEF evict_expired_nonces, IInv, TypeOK, CallInv, StoreInv, InFlight,
        IsAccepted, Stale, Vacant, Inputs
    <3>3. QED
      BY <2>0, <3>1, <3>2, ZenonT(30) DEF IInv
  <2>6. ASSUME NEW r \in Requests, claim_memory_nonce(r) PROVE IInv'
    <3> DEFINE free == used_nonces[input[r].nonce] = Vacant \/ Stale(r, input[r].nonce)
    <3>1. CallInv'
      BY <2>6, ClaimAnswers DEF claim_memory_nonce, IInv, TypeOK, CallInv, Fresh, InFlight, IsAccepted
    <3>2. CASE ~free
      <4>1. ~IsAccepted(r)'
        BY <2>6, <3>2, ClaimAnswers, ZenonT(30) DEF claim_memory_nonce, IsAccepted, IInv, TypeOK
      <4>2. StoreInv' /\ NonceHeldForRetention'
        BY <2>6, <3>2, <4>1, ZenonT(120) DEF claim_memory_nonce, IInv, TypeOK, StoreInv,
          NonceHeldForRetention, IsAccepted
      <4>3. QED
        BY <2>0, <3>1, <4>2, Zenon DEF IInv
    <3>3. CASE free
      <4>1. \A s \in Requests : IsAccepted(s) /\ input[s].nonce = input[r].nonce
              => time > now[s] + nonce_retention_ttl
        BY <2>6, <3>3, FreeMeansForgotten, ZenonT(30) DEF claim_memory_nonce
      <4>2. StoreInv'
        BY <2>6, <3>3, <4>1 DEF claim_memory_nonce, IInv, TypeOK, StoreInv, IsAccepted, Inputs
      <4>3. NonceHeldForRetention'
        BY <2>6, <3>3, <4>1, ZenonT(120) DEF claim_memory_nonce, IInv, TypeOK, NonceHeldForRetention, IsAccepted
      <4>4. QED
        BY <2>0, <3>1, <4>2, <4>3, ZenonT(30) DEF IInv
    <3>4. QED
      BY <3>2, <3>3, ZenonT(30)
  <2>7. CASE Restart
    BY <2>0, <2>7, ZenonT(30) DEF Restart, IInv, TypeOK, CallInv, StoreInv, NonceHeldForRetention,
      Fresh, InFlight, IsAccepted
  <2>8. CASE Tick
    <3>1. CallInv'
      BY <2>8 DEF Tick, IInv, TypeOK, CallInv, Fresh, InFlight, IsAccepted, callVars
    <3>2. StoreInv'
      BY <2>8, RetentionIsNat DEF Tick, IInv, TypeOK, StoreInv, IsAccepted, callVars, storeVars
    <3>3. NonceHeldForRetention'
      BY <2>8, Zenon DEF Tick, IInv, NonceHeldForRetention, IsAccepted, callVars
    <3> QED  BY <2>0, <3>1, <3>2, <3>3, Zenon DEF IInv
  <2>9. CASE UNCHANGED vars
    BY <2>0, <2>9, Zenon DEF vars, callVars, storeVars, IInv, TypeOK, CallInv, StoreInv,
      NonceHeldForRetention, Fresh, InFlight, IsAccepted
  <2>10. QED
    BY <2>1, <2>2, <2>3, <2>4, <2>5, <2>6, <2>7, <2>8, <2>9, Zenon DEF Next, Step
<1>3. QED
  BY <1>1, <1>2, PTL DEF Spec

\* A nonce is never accepted twice within nonce_retention_ttl.
THEOREM RetentionHolds == Spec => []NonceHeldForRetention
  BY Invariant, PTL DEF IInv

\* The retention outlasts the window of every signature it has to guard: when
\* it is over, the clock in seconds is past the signed timestamp plus Expiry.
LEMMA RetentionOutlastsWindow ==
  ASSUME IInv, NEW r \in Requests, IsAccepted(r),
         NEW t \in Nat, t >= now[r] + nonce_retention_ttl
  PROVE  Seconds(t) > input[r].ts + Expiry
<1>1. /\ validatedAt[r] \in Nat /\ now[r] \in Nat
      /\ validatedAt[r] <= now[r]
      /\ input[r].ts \in Nat /\ input[r].ts <= Seconds(validatedAt[r]) + Skew
  BY Zenon DEF IInv, TypeOK, CallInv, Fresh
<1>2. t >= validatedAt[r] + nonce_retention_ttl
  BY <1>1, RetentionIsNat
<1>3. Seconds(t) >= Seconds(validatedAt[r]) + Expiry + Skew + 1
  BY <1>1, <1>2, SecondsAfterRetention, Zenon
<1>4. QED
  BY <1>1, <1>3, SecondsIsNat, RulesAssumption

\* With any delays whatsoever, a reused nonce is rejected as long as the claim
\* is made inside the signature window.
THEOREM WindowHolds == Spec => []ReplayRejectedInWindow
<1>1. IInv => ReplayRejectedInWindow
  <2> SUFFICES ASSUME IInv, NEW r \in Requests, NEW s \in Requests, r # s,
                      IsAccepted(r), IsAccepted(s), SamePayment(r, s)
               PROVE  \/ Seconds(claimedAt[r]) > input[r].ts + Expiry
                      \/ Seconds(claimedAt[s]) > input[s].ts + Expiry
    BY Zenon DEF ReplayRejectedInWindow
  <2>1. /\ claimedAt[r] \in Nat /\ claimedAt[s] \in Nat
        /\ now[r] \in Nat /\ now[s] \in Nat
    BY Zenon DEF IInv, TypeOK
  <2>2. \/ claimedAt[r] > now[s] + nonce_retention_ttl
        \/ claimedAt[s] > now[r] + nonce_retention_ttl
    BY Zenon DEF IInv, NonceHeldForRetention, SamePayment
  <2>3. QED
    BY <2>1, <2>2, RetentionOutlastsWindow, RetentionIsNat DEF SamePayment
<1>2. QED
  BY <1>1, Invariant, PTL

\* When calls are delayed by less than a tick of the store's clock, no payment
\* is accepted twice.  The bound is tight: the retention has no slack beyond
\* the truncation of the wall clock.
LEMMA AcceptedOnceFromInvariant ==
  ASSUME MaxLag <= 1, IInv
  PROVE  PaymentAcceptedOnce
<1> SUFFICES ASSUME NEW r \in Requests, NEW s \in Requests, IsAccepted(r), IsAccepted(s),
                    SamePayment(r, s), claimedAt[r] > now[s] + nonce_retention_ttl
             PROVE  FALSE
  BY Zenon DEF PaymentAcceptedOnce, IInv, NonceHeldForRetention, SamePayment
<1>1. /\ claimedAt[r] \in Nat /\ now[s] \in Nat /\ validatedAt[r] \in Nat
      /\ claimedAt[r] <= validatedAt[r] + MaxLag
      /\ input[r].ts \in Nat /\ Seconds(validatedAt[r]) <= input[r].ts + Expiry
  BY Zenon DEF IInv, TypeOK, CallInv, Fresh
<1>2. validatedAt[r] >= now[s] + nonce_retention_ttl
  BY <1>1, RetentionIsNat, MemoryAssumption
<1>3. Seconds(validatedAt[r]) > input[s].ts + Expiry
  BY <1>1, <1>2, RetentionOutlastsWindow, Zenon
<1>4. QED
  BY <1>1, <1>3, SecondsIsNat, RulesAssumption DEF SamePayment

\* The same, of the reachable states.
THEOREM AcceptedOnce ==
  ASSUME MaxLag <= 1
  PROVE  Spec => []PaymentAcceptedOnce
  BY AcceptedOnceFromInvariant, Invariant, PTL

\* One process never accepts a payment twice, nor a nonce within its retention.
THEOREM NoReplays ==
  ASSUME MaxLag <= 1
  PROVE  Spec => []NoReplay
<1>1. NonceHeldForRetention /\ ReplayRejectedInWindow /\ PaymentAcceptedOnce => NoReplay
  BY ZenonT(30) DEF NoReplay
<1>2. QED
  BY <1>1, RetentionHolds, WindowHolds, AcceptedOnce, PTL

\* The entries of the store and the conflicts it causes all go back to calls
\* that were accepted.
LEMMA BurnStep ==
  ASSUME TypeOK, OnlyAcceptedBurns, ConflictIsJustified, [Next]_vars
  PROVE  OnlyAcceptedBurns' /\ ConflictIsJustified'
<1> USE DEF TypeOK, OnlyAcceptedBurns, ConflictIsJustified, IsAccepted
<1>1. ASSUME NEW r \in Requests, NEW in \in Inputs, Reject(r, in)
      PROVE  OnlyAcceptedBurns' /\ ConflictIsJustified'
  <2>1. Rejection(in, time) # NonceAlreadyUsed
    BY RejectionIsResponse, ClaimAnswers
  <2>2. QED
    BY <1>1, <2>1 DEF Reject, storeVars
<1>2. ASSUME NEW r \in Requests, NEW in \in Inputs, Admit(r, in)
      PROVE  OnlyAcceptedBurns' /\ ConflictIsJustified'
  BY <1>2 DEF Admit, storeVars
<1>3. ASSUME NEW r \in Requests, claim_nonce(r)
      PROVE  OnlyAcceptedBurns' /\ ConflictIsJustified'
  BY <1>3 DEF claim_nonce, storeVars
<1>4. ASSUME NEW r \in Requests, maybe_evict_expired_nonces(r)
      PROVE  OnlyAcceptedBurns' /\ ConflictIsJustified'
  BY <1>4 DEF maybe_evict_expired_nonces
<1>5. ASSUME NEW r \in Requests, NEW n \in Nonces, evict_expired_nonces(r, n)
      PROVE  OnlyAcceptedBurns' /\ ConflictIsJustified'
  <2>1. \A s \in Requests : pc'[s] = "done" <=> pc[s] = "done"
    BY <1>5, ZenonT(120) DEF evict_expired_nonces
  <2>2. \A m \in Nonces : used_nonces'[m] # Vacant => used_nonces'[m] = used_nonces[m]
    BY <1>5, ZenonT(120) DEF evict_expired_nonces
  <2>3. input' = input /\ now' = now /\ reply' = reply
    BY <1>5, Zenon DEF evict_expired_nonces
  <2>4. \A s \in Requests : IsAccepted(s)' <=> IsAccepted(s)
    BY <2>1, <2>3, Zenon
  <2> HIDE DEF TypeOK, IsAccepted
  <2>5. ASSUME NEW m \in Nonces, used_nonces'[m] # Vacant
        PROVE  \E s \in Requests : /\ IsAccepted(s)'
                                   /\ input'[s].nonce = m
                                   /\ now'[s] = used_nonces'[m]
    <3> HIDE DEF OnlyAcceptedBurns, ConflictIsJustified
    <3>1. used_nonces'[m] = used_nonces[m] /\ used_nonces[m] # Vacant
      BY <2>2, <2>5, Zenon
    <3>2. PICK s \in Requests : IsAccepted(s) /\ input[s].nonce = m /\ now[s] = used_nonces[m]
      BY <3>1, Zenon DEF OnlyAcceptedBurns
    <3>3. IsAccepted(s)' /\ input'[s].nonce = m /\ now'[s] = used_nonces'[m]
      BY <2>3, <2>4, <3>1, <3>2, Zenon
    <3> QED  BY <3>3, Zenon
  <2>6. ConflictIsJustified'
    BY <2>1, <2>3, <2>4, ZenonT(30)
  <2> QED  BY <2>5, <2>6, Zenon
<1>6. ASSUME NEW r \in Requests, claim_memory_nonce(r)
      PROVE  OnlyAcceptedBurns' /\ ConflictIsJustified'
  <2>1. input[r].nonce \in Nonces
    BY Zenon DEF Inputs
  <2>2. Accepted # NonceAlreadyUsed
    BY ZenonT(120) DEF Accepted, NonceAlreadyUsed, VerifyResponse
  <2>3. ASSUME NEW m \in Nonces, used_nonces'[m] # Vacant
        PROVE  \E s \in Requests : /\ IsAccepted(s)'
                                   /\ input'[s].nonce = m
                                   /\ now'[s] = used_nonces'[m]
    <3>1. input' = input /\ now' = now
      BY <1>6, Zenon DEF claim_memory_nonce
    <3>2. CASE used_nonces'[m] = used_nonces[m]
      <4>1. PICK s \in Requests : IsAccepted(s) /\ input[s].nonce = m /\ now[s] = used_nonces[m]
        BY <2>3, <3>2, Zenon
      <4>2. s # r
        BY <1>6, <4>1, Zenon DEF claim_memory_nonce
      <4>3. IsAccepted(s)'
        BY <1>6, <4>1, <4>2, ZenonT(120) DEF claim_memory_nonce
      <4> QED  BY <3>1, <3>2, <4>1, <4>3, Zenon
    <3>3. CASE used_nonces'[m] # used_nonces[m]
      <4>1. m = input[r].nonce /\ used_nonces'[m] = now[r] /\ reply'[r] = Accepted
        BY <1>6, <2>1, <3>3, ZenonT(120) DEF claim_memory_nonce
      <4>2. IsAccepted(r)'
        BY <1>6, <4>1, ClaimAnswers, ZenonT(120) DEF claim_memory_nonce
      <4> QED  BY <3>1, <4>1, <4>2, Zenon
    <3> QED  BY <3>2, <3>3, Zenon
  <2>4. ConflictIsJustified'
    BY <1>6, <2>1, <2>2, ClaimAnswers, RetentionIsNat DEF claim_memory_nonce, Stale, Vacant
  <2>5. QED
    BY <2>3, <2>4, ZenonT(120)
<1>7. CASE Restart
  BY <1>7, ZenonT(30) DEF Restart, InFlight
<1>8. CASE Tick
  BY <1>8, ZenonT(120) DEF Tick, callVars, storeVars
<1>9. CASE UNCHANGED vars
  BY <1>9, ZenonT(120) DEF vars, callVars, storeVars
<1>10. QED
  BY <1>1, <1>2, <1>3, <1>4, <1>5, <1>6, <1>7, <1>8, <1>9, ZenonT(30) DEF Next, Step

\* Calls that are not accepted never burn a nonce, and a conflict is answered
\* only after another call was accepted with the nonce.
THEOREM BurnsAndConflicts == Spec => []AcceptancesDecide
<1>1. Init => OnlyAcceptedBurns /\ ConflictIsJustified
  BY ZenonT(30) DEF Init, OnlyAcceptedBurns, ConflictIsJustified
<1>2. QED
  BY <1>1, BurnStep, TypeCorrect, PTL DEF Spec, AcceptancesDecide

\* A step that changes neither the answers nor the payments of answered calls
\* is invisible to PaymentGuard.
LEMMA InvisibleStep ==
  ASSUME TypeOK, TypeOK', NEW r \in Requests, pc[r] \notin {"done", "past"},
         pc'[r] \notin {"done", "past"},
         \A s \in Requests \ {r} : pc'[s] = pc[s] /\ reply'[s] = reply[s] /\ input'[s] = input[s]
  PROVE  Granted' = Granted /\ Answer' = Answer
<1>1. \A s \in Requests : IsAccepted(s)' <=> IsAccepted(s)
  BY Zenon DEF IsAccepted
<1>2. \A s \in Requests : IsAccepted(s) => Payment(s)' = Payment(s)
  BY Zenon DEF IsAccepted, Payment
<1>3. Granted' = Granted
  BY <1>1, <1>2, Zenon DEF Granted
<1>4. Answer' = Answer
  BY Zenon DEF Answer
<1>5. QED
  BY <1>3, <1>4, Zenon

\* Every step of the verifier is a step PaymentGuard allows, or invisible to it.
LEMMA GuardStep ==
  ASSUME IInv, PaymentAcceptedOnce', [Next]_vars
  PROVE  [Guard!Next]_<<Granted, Answer>>
<1>0. TypeOK /\ TypeOK'
  BY TypeCorrectStep, Zenon DEF IInv
<1>1. ASSUME NEW r \in Requests, NEW in \in Inputs, Reject(r, in)
      PROVE  Guard!Refuse(r)
  <2>1. ~reply'[r].is_valid /\ pc'[r] = "done" /\ pc[r] = "idle"
    BY <1>0, <1>1, RejectionIsResponse, ZenonT(30) DEF Reject, TypeOK
  <2>2. \A s \in Requests : IsAccepted(s)' <=> IsAccepted(s)
    BY <1>0, <1>1, <2>1, ZenonT(30) DEF Reject, IsAccepted, TypeOK
  <2>3. \A s \in Requests : IsAccepted(s) => Payment(s)' = Payment(s)
    BY <1>0, <1>1, Zenon DEF Reject, IsAccepted, Payment, TypeOK
  <2>4. Granted' = Granted
    BY <2>2, <2>3, Zenon DEF Granted
  <2>5. Answer[r] = "none"
    BY <2>1, ZenonT(30) DEF Answer
  <2>6. Answer' = [Answer EXCEPT ![r] = "refused"]
    BY <1>0, <1>1, <2>1, ZenonT(30) DEF Reject, Answer, TypeOK
  <2>7. QED
    BY <2>4, <2>5, <2>6, ZenonT(30) DEF Guard!Refuse
<1>2. ASSUME NEW r \in Requests, NEW in \in Inputs, Admit(r, in)
      PROVE  UNCHANGED <<Granted, Answer>>
  BY <1>0, <1>2, InvisibleStep, ZenonT(30) DEF Admit, TypeOK
<1>3. ASSUME NEW r \in Requests, claim_nonce(r)
      PROVE  UNCHANGED <<Granted, Answer>>
  BY <1>0, <1>3, InvisibleStep, ZenonT(30) DEF claim_nonce, TypeOK
<1>4. ASSUME NEW r \in Requests, maybe_evict_expired_nonces(r)
      PROVE  UNCHANGED <<Granted, Answer>>
  BY <1>0, <1>4, InvisibleStep, ZenonT(120) DEF maybe_evict_expired_nonces, TypeOK
<1>5. ASSUME NEW r \in Requests, NEW n \in Nonces, evict_expired_nonces(r, n)
      PROVE  UNCHANGED <<Granted, Answer>>
  BY <1>0, <1>5, InvisibleStep, ZenonT(30) DEF evict_expired_nonces, TypeOK
<1>6. ASSUME NEW r \in Requests, claim_memory_nonce(r)
      PROVE  Guard!Refuse(r) \/ Guard!Grant(r, Payment(r))
  <2>1. pc[r] = "entry" /\ pc'[r] = "done" /\ Answer[r] = "none"
    BY <1>0, <1>6, ZenonT(30) DEF claim_memory_nonce, TypeOK, Answer
  <2>2. \A s \in Requests \ {r} : IsAccepted(s)' <=> IsAccepted(s)
    BY <1>0, <1>6, ZenonT(30) DEF claim_memory_nonce, IsAccepted, TypeOK
  <2>3. \A s \in Requests : Payment(s)' = Payment(s)
    BY <1>6, ZenonT(30) DEF claim_memory_nonce, Payment
  <2>4. ~IsAccepted(r)
    BY <2>1, Zenon DEF IsAccepted
  <2>5. CASE reply'[r] = NonceAlreadyUsed
    <3>1. ~IsAccepted(r)'
      BY <2>5, ClaimAnswers, Zenon DEF IsAccepted
    <3>2. Granted' = Granted
      BY <2>2, <2>3, <2>4, <3>1, ZenonT(30) DEF Granted
    <3>3. Answer' = [Answer EXCEPT ![r] = "refused"]
      BY <1>0, <1>6, <2>1, <2>5, ClaimAnswers, ZenonT(30) DEF claim_memory_nonce, Answer, TypeOK
    <3>4. QED
      BY <2>1, <3>2, <3>3, Zenon DEF Guard!Refuse
  <2>6. CASE reply'[r] = Accepted
    <3>1. IsAccepted(r)'
      BY <2>1, <2>6, ClaimAnswers, Zenon DEF IsAccepted
    <3>2. Granted' = Granted \cup {Payment(r)}
      BY <2>2, <2>3, <2>4, <3>1, Zenon DEF Granted
    <3>3. Payment(r) \notin Granted
      <4> SUFFICES ASSUME NEW s \in Requests, IsAccepted(s), Payment(s) = Payment(r)
                   PROVE  FALSE
        BY Zenon DEF Granted
      <4>1. s # r /\ IsAccepted(s)'
        BY <2>2, <2>4, Zenon
      <4>2. SamePayment(r, s)'
        BY <2>3, ZenonT(30) DEF Payment, SamePayment
      <4>3. QED
        BY <3>1, <4>1, <4>2, Zenon DEF PaymentAcceptedOnce
    <3>4. Answer' = [Answer EXCEPT ![r] = "granted"]
      BY <1>0, <1>6, <2>1, <2>6, ClaimAnswers, ZenonT(30) DEF claim_memory_nonce, Answer, TypeOK
    <3>5. QED
      BY <2>1, <3>2, <3>3, <3>4, Zenon DEF Guard!Grant
  <2>7. QED
    BY <1>0, <1>6, <2>5, <2>6, ZenonT(30) DEF claim_memory_nonce, TypeOK
<1>7. CASE Restart
  <2>1. Granted' = {}
    BY <1>0, <1>7, ZenonT(30) DEF Restart, Granted, IsAccepted, InFlight, TypeOK
  <2>2. Answer' = [r \in Requests |-> IF Answer[r] = "none" THEN "none" ELSE "past"]
    BY <1>0, <1>7, Zenon DEF Restart, Answer, InFlight, TypeOK, Steps
  <2>3. QED
    BY <2>1, <2>2, ZenonT(30) DEF Guard!Next, Guard!Forget
<1>8. CASE Tick \/ UNCHANGED vars
  <2>1. UNCHANGED <<pc, reply, input>>
    BY <1>8, ZenonT(30) DEF Tick, callVars, vars
  <2>2. UNCHANGED <<Granted, Answer>>
    BY <2>1, ZenonT(30) DEF Granted, Answer, IsAccepted, Payment
  <2>3. QED
    BY <2>2, Zenon
<1>9. ASSUME NEW r \in Requests PROVE Payment(r) \in [nonce : Nonces, ts : Stamps]
  BY <1>0, Zenon DEF TypeOK, Inputs, Payment
<1>10. QED
  BY <1>1, <1>2, <1>3, <1>4, <1>5, <1>6, <1>7, <1>8, <1>9, Zenon DEF Next, Step, Guard!Next

\* With calls delayed by less than a tick, the in-memory verifier implements
\* PaymentGuard: no payment is granted twice by one process.
THEOREM ImplementsPaymentGuard ==
  ASSUME MaxLag <= 1
  PROVE  Spec => ImplementsGuard
<1>1. Init => Guard!Init
  <2> SUFFICES ASSUME Init PROVE Guard!Init
    BY Zenon
  <2>1. Granted = {}
    BY Zenon DEF Init, Granted, IsAccepted
  <2>2. Answer = [r \in Requests |-> "none"]
    BY Zenon DEF Init, Answer
  <2>3. QED
    BY <2>1, <2>2, Zenon DEF Guard!Init
<1>2. IInv /\ IInv' /\ [Next]_vars => [Guard!Next]_<<Granted, Answer>>
  <2>1. IInv' => PaymentAcceptedOnce'
    BY AcceptedOnceFromInvariant, PTL
  <2>2. QED
    BY <2>1, GuardStep, Zenon
<1>3. QED
  BY <1>1, <1>2, Invariant, PTL DEF Spec, ImplementsGuard, Guard!Spec
=============================================================================
