-------------------------- MODULE MCMemoryVerifier --------------------------
(***************************************************************************)
(* Instances of MemoryVerifier for TLC: a window of one second either way  *)
(* and two ticks to the second, so that a nonce is kept for six ticks.     *)
(***************************************************************************)
EXTENDS MemoryVerifier

\* Timestamps that are ahead of the clock, in the window and expired in turn, and
\* none.
MCStamps == {NoTimestamp, 1, 2}

\* Every defect alone, and pairs that show the order of the tests.
MCFlawSets == {{}} \cup {{f} : f \in Flaws}
                \cup {{"invalid_json", "chain_id_mismatch"},
                      {"typed_data_error", "unparsable_signature"}}
=============================================================================
