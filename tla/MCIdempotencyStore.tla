------------------------- MODULE MCIdempotencyStore -------------------------
(***************************************************************************)
(* A small instance of IdempotencyStore for TLC.                           *)
(***************************************************************************)
EXTENDS IdempotencyStore, TLC

Symmetry == Permutations(Workers) \cup Permutations(Keys)
=============================================================================
