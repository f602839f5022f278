--------------------------- MODULE MCOrderService ---------------------------
(***************************************************************************)
(* Small instances of OrderService for TLC.                                *)
(***************************************************************************)
EXTENDS OrderService, TLC

(* No definition tells the calls in progress apart, and the runs check     *)
(* invariants and properties of single steps only.                         *)
Symmetry == Permutations(Workers)
=============================================================================
