-------------------------- MODULE MCRedisVerifier ---------------------------
(***************************************************************************)
(* Instances of RedisVerifier for TLC: a window of one second either way,  *)
(* one tick to the second and waits of up to two, so that a claim can be   *)
(* delayed past the retention of an earlier one.                           *)
(***************************************************************************)
EXTENDS RedisVerifier, TLC

CONSTANTS r1, r2

MCRequests == {r1, r2}
Symmetry == Permutations(Requests)

\* Absent, present at time 0 and within the skew of it.
MCStamps == {NoTimestamp, 0, 1}
MCFreshStamps == {1}
MCFlawSets == {{}, {"unparsable_signature"}, {"unrecoverable_signature"}}
MCNoFlaws == {{}}
=============================================================================
