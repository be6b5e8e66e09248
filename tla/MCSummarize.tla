---------------------------- MODULE MCSummarize -----------------------------
(***************************************************************************)
(* Instances of Summarize for TLC.                                         *)
(***************************************************************************)
EXTENDS Summarize, TLC

CONSTANTS c1, c2, p1, p2, p3

\* Two payments that pass the verifier's checks and one that does not.
MCVerdict == (p1 :> "ok") @@ (p2 :> "ok") @@ (p3 :> "invalid_signature")

\* Two calls of one gateway, with or without the cache.  A bad body, a missing
\* timestamp or a bad payment ends a call before the other could meet it, so that one
\* of the two has the former and the other the latter; the good payments are
\* interchangeable.
MCInit ==
  /\ Init
  /\ req[c1].cached = req[c2].cached
  /\ req[c1].payment \in {p1, Nil}
  /\ req[c2].body \in Texts /\ req[c2].stamp

MCSpec == MCInit /\ [][Next]_vars /\ Fairness
=============================================================================
