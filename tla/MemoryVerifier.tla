--------------------------- MODULE MemoryVerifier ---------------------------
(***************************************************************************)
(* The verifier with VERIFIER_NONCE_STORE=memory: concurrent calls of      *)
(* verify_signature on the tokio thread pool share a DashMap of claimed    *)
(* nonces and the time of the last sweep (verifier/src/main.rs).  A call   *)
(* may be delayed anywhere between two of its steps; MaxLag bounds the     *)
(* whole delay from the timestamp test to the claim.                       *)
(***************************************************************************)
EXTENDS VerifyCalls

CONSTANTS
  SweepInterval,  \* NONCE_SWEEP_INTERVAL_SECONDS, in ticks
  MaxLag          \* ticks a call may spend between timestamp test and claim

ASSUME MemoryAssumption ==
  /\ SweepInterval \in Nat
  /\ MaxLag \in Nat
  /\ MaxTime \in Nat

VARIABLES
  now,               \* the Instant::now() it hands to claim_nonce
  claimedAt,         \* when it reached the entry of used_nonces
  scan,              \* nonces its retain() has yet to visit
  used_nonces,       \* nonce -> Instant of the claim, Vacant if there is none
  last_nonce_sweep

callVars == <<pc, input, validatedAt, now, claimedAt, reply, scan>>
storeVars == <<used_nonces, last_nonce_sweep>>
vars == <<time, callVars, storeVars>>

Vacant == -1

\* The steps of a call.  When its process ends a call is "gone" if it had no
\* answer yet and "past" if it had.
Steps == {"idle", "admitted", "timed", "sweep", "entry", "done", "gone", "past"}
InFlight(r) == pc[r] \in {"admitted", "timed", "sweep", "entry"}

Init ==
  /\ time = 0
  /\ pc = [r \in Requests |-> "idle"]
  /\ input = [r \in Requests |-> AnyInput]
  /\ validatedAt = [r \in Requests |-> 0]
  /\ now = [r \in Requests |-> 0]
  /\ claimedAt = [r \in Requests |-> 0]
  /\ reply = [r \in Requests |-> NonceStoreUnavailable]
  /\ scan = [r \in Requests |-> {}]
  /\ used_nonces = [n \in Nonces |-> Vacant]
  /\ last_nonce_sweep = 0

\* Mutant: the nonce is burned before the signature is checked.
RejectBurningNonce(r, in) ==
  /\ pc[r] = "idle"
  /\ ~Admissible(in, time)
  /\ pc' = [pc EXCEPT ![r] = "done"]
  /\ input' = [input EXCEPT ![r] = in]
  /\ reply' = [reply EXCEPT ![r] = Rejection(in, time)]
  /\ used_nonces' = [used_nonces EXCEPT ![in.nonce] = time]
  /\ UNCHANGED <<time, validatedAt, now, claimedAt, scan, last_nonce_sweep>>

\* A call that fails a test before the claim is answered at once.
Reject(r, in) ==
  /\ pc[r] = "idle"
  /\ ~Admissible(in, time)
  /\ pc' = [pc EXCEPT ![r] = "done"]
  /\ input' = [input EXCEPT ![r] = in]
  /\ reply' = [reply EXCEPT ![r] = Rejection(in, time)]
  /\ UNCHANGED <<time, validatedAt, now, claimedAt, scan, storeVars>>

\* A call that passes them goes on to claim its nonce.
Admit(r, in) ==
  /\ pc[r] = "idle"
  /\ Admissible(in, time)
  /\ pc' = [pc EXCEPT ![r] = "admitted"]
  /\ input' = [input EXCEPT ![r] = in]
  /\ validatedAt' = [validatedAt EXCEPT ![r] = time]
  /\ UNCHANGED <<time, now, claimedAt, reply, scan, storeVars>>

\* claim_nonce(&state, nonce, Instant::now())
claim_nonce(r) ==
  /\ pc[r] = "admitted"
  /\ pc' = [pc EXCEPT ![r] = "timed"]
  /\ now' = [now EXCEPT ![r] = time]
  /\ UNCHANGED <<time, input, validatedAt, claimedAt, reply, scan, storeVars>>

\* Under the sweep lock: sweep if the last sweep is SweepInterval old.  An
\* instant older than the last sweep counts as no time elapsed.
maybe_evict_expired_nonces(r) ==
  /\ pc[r] = "timed"
  /\ IF now[r] - last_nonce_sweep < SweepInterval
       THEN /\ pc' = [pc EXCEPT ![r] = "entry"]
            /\ UNCHANGED <<scan, last_nonce_sweep>>
       ELSE /\ pc' = [pc EXCEPT ![r] = "sweep"]
            /\ scan' = [scan EXCEPT ![r] = Nonces]
            /\ last_nonce_sweep' = now[r]
  /\ UNCHANGED <<time, input, validatedAt, now, claimedAt, reply, used_nonces>>

\* Mutant: a nonce is given up one tick early.
StaleEarly(r, n) == now[r] - used_nonces[n] >= nonce_retention_ttl

\* The age of a stored instant by r's clock reading exceeds the retention.
Stale(r, n) == now[r] - used_nonces[n] > nonce_retention_ttl

\* Mutant: the sweep waits for every shard to hold something.
evict_occupied_only(r, n) ==
  /\ pc[r] = "sweep"
  /\ n \in scan[r]
  /\ used_nonces[n] # Vacant
  /\ scan' = [scan EXCEPT ![r] = @ \ {n}]
  /\ pc' = IF scan[r] = {n} THEN [pc EXCEPT ![r] = "entry"] ELSE pc
  /\ used_nonces' = IF Stale(r, n) THEN [used_nonces EXCEPT ![n] = Vacant] ELSE used_nonces
  /\ UNCHANGED <<time, input, validatedAt, now, claimedAt, reply, last_nonce_sweep>>

\* retain() locks one shard of the map at a time: other calls may claim
\* nonces between two visits.  The sweep lock is no longer held.
evict_expired_nonces(r, n) ==
  /\ pc[r] = "sweep"
  /\ n \in scan[r]
  /\ scan' = [scan EXCEPT ![r] = @ \ {n}]
  /\ pc' = IF scan[r] = {n} THEN [pc EXCEPT ![r] = "entry"] ELSE pc
  /\ used_nonces' = IF used_nonces[n] # Vacant /\ Stale(r, n)
                      THEN [used_nonces EXCEPT ![n] = Vacant] ELSE used_nonces
  /\ UNCHANGED <<time, input, validatedAt, now, claimedAt, reply, last_nonce_sweep>>

\* The atomic entry operation of the map, and the answer that follows from it.
claim_memory_nonce(r) ==
  LET n == input[r].nonce
      free == used_nonces[n] = Vacant \/ Stale(r, n)
  IN /\ pc[r] = "entry"
     /\ pc' = [pc EXCEPT ![r] = "done"]
     /\ claimedAt' = [claimedAt EXCEPT ![r] = time]
     /\ used_nonces' = IF free THEN [used_nonces EXCEPT ![n] = now[r]] ELSE used_nonces
     /\ reply' = [reply EXCEPT ![r] = IF free THEN Accepted ELSE NonceAlreadyUsed]
     /\ UNCHANGED <<time, input, validatedAt, now, scan, last_nonce_sweep>>

\* The process ends and a new one starts with an empty store.
Restart ==
  /\ pc' = [r \in Requests |-> IF InFlight(r) THEN "gone"
                               ELSE IF pc[r] = "done" THEN "past" ELSE pc[r]]
  /\ used_nonces' = [n \in Nonces |-> Vacant]
  /\ last_nonce_sweep' = time
  /\ scan' = [r \in Requests |-> {}]
  /\ UNCHANGED <<time, input, validatedAt, now, claimedAt, reply>>

Tick ==
  /\ time < MaxTime
  /\ \A r \in Requests : InFlight(r) => time < validatedAt[r] + MaxLag
  /\ time' = time + 1
  /\ UNCHANGED <<callVars, storeVars>>

Step(r) ==
  \/ claim_nonce(r)
  \/ maybe_evict_expired_nonces(r)
  \/ \E n \in Nonces : evict_expired_nonces(r, n)
  \/ claim_memory_nonce(r)

Next ==
  \/ \E r \in Requests, in \in Inputs : Reject(r, in) \/ Admit(r, in)
  \/ \E r \in Requests : Step(r)
  \/ Restart
  \/ Tick

Spec == Init /\ [][Next]_vars

\* Tokio runs every task that is ready: an admitted call keeps taking steps.
Fairness == \A r \in Requests : WF_vars(Step(r))
FairSpec == Spec /\ Fairness
-----------------------------------------------------------------------------
\* Types of the variables.
TypeOK ==
  /\ time \in Nat
  /\ pc \in [Requests -> Steps]
  /\ input \in [Requests -> Inputs]
  /\ validatedAt \in [Requests -> Nat]
  /\ now \in [Requests -> Nat]
  /\ claimedAt \in [Requests -> Nat]
  /\ reply \in [Requests -> Responses]
  /\ scan \in [Requests -> SUBSET Nonces]
  /\ used_nonces \in [Nonces -> Nat \cup {Vacant}]
  /\ last_nonce_sweep \in Nat

\* Two calls accepted by one process with the same nonce, whatever their
\* timestamps, are more than the retention apart: one reached the store later
\* than the instant the other recorded plus nonce_retention_ttl.
NonceHeldForRetention ==
  \A r, s \in Requests :
    r # s /\ IsAccepted(r) /\ IsAccepted(s) /\ input[r].nonce = input[s].nonce
      => \/ claimedAt[r] > now[s] + nonce_retention_ttl
         \/ claimedAt[s] > now[r] + nonce_retention_ttl

\* A reused nonce is rejected inside the signature window: if one payment
\* (nonce and timestamp) is accepted twice, one of the two claims was made when
\* the signature had already expired.  No bound on delays is needed.
ReplayRejectedInWindow ==
  \A r, s \in Requests :
    r # s /\ IsAccepted(r) /\ IsAccepted(s) /\ SamePayment(r, s)
      => \/ Seconds(claimedAt[r]) > input[r].ts + Expiry
         \/ Seconds(claimedAt[s]) > input[s].ts + Expiry

\* A payment buys once: the nonce is held for its retention, which outlasts the
\* window, so that within a process no acceptance repeats another.  The last needs
\* MaxLag to be at most one tick.
NoReplay == NonceHeldForRetention /\ ReplayRejectedInWindow /\ PaymentAcceptedOnce

\* Only an accepted call burns a nonce: whatever the store holds was put there
\* by a call that passed every test and was told so.
OnlyAcceptedBurns ==
  \A n \in Nonces : used_nonces[n] # Vacant =>
    \E r \in Requests : IsAccepted(r) /\ input[r].nonce = n /\ now[r] = used_nonces[n]

\* nonce_already_used is answered only when another call was accepted with the
\* nonce less than a retention before: an honest first use is never refused.
ConflictIsJustified ==
  \A r \in Requests : pc[r] = "done" /\ reply[r] = NonceAlreadyUsed =>
    \E s \in Requests \ {r} : /\ IsAccepted(s)
                              /\ input[s].nonce = input[r].nonce
                              /\ now[r] <= now[s] + nonce_retention_ttl

\* Only acceptances count: they alone are remembered, and they alone are the cause
\* of a conflict.
AcceptancesDecide == OnlyAcceptedBurns /\ ConflictIsJustified

\* Every call that is admitted is answered, unless its process ends first: time and
\* again none is under way.
AdmittedIsAnswered == []<>(\A r \in Requests : ~InFlight(r))

Payment(r) == [nonce |-> input[r].nonce, ts |-> input[r].ts]

Granted == {Payment(r) : r \in {s \in Requests : IsAccepted(s)}}

Answer ==
  [r \in Requests |-> IF pc[r] = "past" THEN "past"
                     ELSE IF pc[r] # "done" THEN "none"
                     ELSE IF reply[r].is_valid THEN "granted" ELSE "refused"]

Guard == INSTANCE PaymentGuard WITH
  Payments <- [nonce : Nonces, ts : Stamps],
  Volatile <- TRUE,
  granted <- Granted,
  answer <- Answer

\* The verifier implements PaymentGuard: it grants no payment twice between two
\* restarts and answers each call once.  Needs MaxLag to be at most one tick.
ImplementsGuard == Guard!Spec
=============================================================================
