---------------------------- MODULE VerifyCalls -----------------------------
(***************************************************************************)
(* What the verifier's two nonce stores have in common: the calls of       *)
(* verify_signature (verifier/src/main.rs), their clock and their answers. *)
(***************************************************************************)
EXTENDS VerifyRules

CONSTANT MaxTime  \* bound of the model: the clock stops here

VARIABLES
  time,         \* the clock, in ticks; replicas and Redis agree on it
  pc,           \* where each call is
  input,        \* what each call carries
  validatedAt,  \* when its timestamp was tested
  reply         \* its answer

AnyInput == CHOOSE in \in Inputs : TRUE

IsAccepted(r) == pc[r] = "done" /\ reply[r].is_valid

SamePayment(r, s) == input[r].nonce = input[s].nonce /\ input[r].ts = input[s].ts

\* A replayed nonce is rejected: no payment is accepted twice.  The retention leaves
\* no slack for a call that is delayed between its timestamp test and its claim, so
\* one process keeps to this if the delay is at most one tick, and replicas that wait
\* for Redis do not.
PaymentAcceptedOnce ==
  \A r, s \in Requests :
    r # s /\ IsAccepted(r) /\ IsAccepted(s) => ~SamePayment(r, s)
=============================================================================
