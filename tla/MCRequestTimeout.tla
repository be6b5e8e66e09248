-------------------------- MODULE MCRequestTimeout --------------------------
(***************************************************************************)
(* Instances of RequestTimeout for TLC.                                    *)
(***************************************************************************)
EXTENDS RequestTimeout

\* GET /api/receipts/:id has the global timeout only, /api/ai one of its own
\* inside it.
MCOneTimeout == {<<"timeout", "handler">>}
MCBothRoutes == MCOneTimeout \cup {<<"timeout", "timeout", "handler">>}
=============================================================================
