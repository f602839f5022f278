------------------------------ MODULE MCServer ------------------------------
(***************************************************************************)
(* A small instance of Server for TLC: the limits of two roles, and a      *)
(* bucket more, so that a limit can be updated while a request has the     *)
(* bucket that was looked up before.                                       *)
(***************************************************************************)
EXTENDS Server
=============================================================================
