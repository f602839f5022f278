--------------------------- MODULE MCTokenManager ---------------------------
(***************************************************************************)
(* A small instance of TokenManager for TLC.                               *)
(***************************************************************************)
EXTENDS TokenManager, TLC
=============================================================================
