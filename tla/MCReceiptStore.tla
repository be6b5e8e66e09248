--------------------------- MODULE MCReceiptStore ---------------------------
(***************************************************************************)
(* Instances of ReceiptStore for TLC.                                      *)
(***************************************************************************)
EXTENDS ReceiptStore, TLC

CONSTANTS a, b, c, i1, i2

\* The random ids of a and b collide; c has one of its own.
MCIds == (a :> i1) @@ (b :> i1) @@ (c :> i2)
=============================================================================
