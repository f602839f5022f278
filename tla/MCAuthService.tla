--------------------------- MODULE MCAuthService ---------------------------
(***************************************************************************)
(* A small instance of AuthService for TLC.                                *)
(***************************************************************************)
EXTENDS AuthService, TLC

(* No definition tells the calls in progress, or the emails, apart.        *)
Symmetry == Permutations(Workers) \cup Permutations(Emails)
=============================================================================
