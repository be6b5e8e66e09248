--------------------------- MODULE SequenceFilter ---------------------------
(***************************************************************************)
(* JavaScript's filter, by the positions that stay.                        *)
(***************************************************************************)
EXTENDS Naturals, Sequences

\* The elements of s at the positions in K, in their order.
Kept(s, K) ==
  LET F[i \in 0..Len(s)] ==
        IF i = 0 THEN <<>> ELSE IF i \in K THEN Append(F[i - 1], s[i]) ELSE F[i - 1]
  IN F[Len(s)]
=============================================================================
