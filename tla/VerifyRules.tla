---------------------------- MODULE VerifyRules ----------------------------
(***************************************************************************)
(* What POST /verify of the verifier decides before it touches the nonce   *)
(* store (verifier/src/main.rs, verify_signature): the order of its early  *)
(* returns, the freshness test of the signed timestamp, the retention of a *)
(* claimed nonce and the shape of the answers.  The module has no state;   *)
(* MemoryVerifier and RedisVerifier build on it.                           *)
(*                                                                         *)
(* Time is counted in ticks, TicksPerSecond of them to a second: the code  *)
(* reads the wall clock in whole seconds (as_secs) but measures the age of *)
(* a stored nonce with a finer monotonic clock, and the difference matters.*)
(***************************************************************************)
EXTENDS Integers

CONSTANTS
  Requests,        \* identities of the calls of /verify, each used once
  Nonces,          \* keccak256 hashes of the nonces the calls carry
  Stamps,          \* signed timestamps, in seconds, the calls may carry
  FlawSets,        \* the combinations of defects the calls may have
  Expiry,          \* SIGNATURE_EXPIRY_SECONDS
  Skew,            \* SIGNATURE_CLOCK_SKEW_SECONDS
  TicksPerSecond

\* A call without the optional timestamp field.
NoTimestamp == -1

Flaws == {"payload_too_large", "invalid_json", "chain_id_mismatch",
          "typed_data_error", "unparsable_signature", "unrecoverable_signature"}

ASSUME RulesAssumption ==
  /\ Expiry \in Nat
  /\ Skew \in Nat
  /\ TicksPerSecond \in Nat \ {0}
  /\ Nonces # {}
  /\ Stamps # {} /\ Stamps \subseteq Nat \cup {NoTimestamp}
  /\ FlawSets # {} /\ FlawSets \subseteq SUBSET Flaws

Inputs == [nonce : Nonces, ts : Stamps, flaws : FlawSets]

\* as_secs: a point in time truncated to whole seconds.
Seconds(t) == t \div TicksPerSecond

(***************************************************************************)
(* Timestamps.  The code's saturating u64 arithmetic agrees with integer   *)
(* arithmetic here: ts itself is at most 2^64-1, and a timestamp ahead of  *)
(* the clock has age 0.                                                    *)
(***************************************************************************)
validate_timestamp_internal(ts, now) ==
  IF ts = NoTimestamp THEN "timestamp_missing"
  ELSE IF ts > now + Skew THEN "timestamp_future"
  ELSE IF now - ts > Expiry THEN "timestamp_expired"
  ELSE "ok"

validate_timestamp(ts, t) == validate_timestamp_internal(ts, Seconds(t))

\* Mutant: retention without the second lost to rounding.
nonce_retention_unrounded == (Expiry + Skew) * TicksPerSecond

\* How long a claimed nonce is kept, in ticks.
nonce_retention_ttl == (Expiry + Skew + 1) * TicksPerSecond

(***************************************************************************)
(* Answers: HTTP status, is_valid, whether recovered_address is present,   *)
(* and error_code ("" when absent).                                        *)
(***************************************************************************)
VerifyResponse(status, valid, address, code) ==
  [status |-> status, is_valid |-> valid, recovered_address |-> address, error_code |-> code]

Accepted == VerifyResponse(200, TRUE, TRUE, "")
NonceAlreadyUsed == VerifyResponse(409, FALSE, TRUE, "nonce_already_used")
Denied(status, code) == VerifyResponse(status, FALSE, FALSE, code)
NonceStoreUnavailable == Denied(503, "nonce_store_unavailable")

\* The call passes every test that precedes the nonce claim.
Admissible(in, t) == in.flaws = {} /\ validate_timestamp(in.ts, t) = "ok"

\* The answer to a call that does not: the first failing test decides.
Rejection(in, t) ==
  IF "payload_too_large" \in in.flaws THEN Denied(413, "")
  ELSE IF "invalid_json" \in in.flaws THEN Denied(400, "")
  ELSE IF "chain_id_mismatch" \in in.flaws
    THEN Denied(400, "chain_id_mismatch")
  ELSE IF validate_timestamp(in.ts, t) # "ok"
    THEN Denied(200, validate_timestamp(in.ts, t))
  ELSE IF "typed_data_error" \in in.flaws THEN Denied(400, "")
  ELSE IF "unparsable_signature" \in in.flaws
    THEN Denied(400, "invalid_signature")
  ELSE Denied(200, "invalid_signature")

ErrorCodes == {"", "chain_id_mismatch", "timestamp_missing", "timestamp_future",
               "timestamp_expired", "invalid_signature", "nonce_already_used",
               "nonce_store_unavailable"}

Responses == [status : {200, 400, 409, 413, 503}, is_valid : BOOLEAN,
              recovered_address : BOOLEAN, error_code : ErrorCodes]
=============================================================================
