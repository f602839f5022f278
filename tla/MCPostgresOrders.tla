-------------------------- MODULE MCPostgresOrders --------------------------
(***************************************************************************)
(* A small instance of PostgresOrders for TLC: a user who can pay for one  *)
(* order at a time, a user who can pay for none, one without a row, and    *)
(* two prices, one of them negative and with more places than the column   *)
(* keeps, as nothing in the service excludes either.                       *)
(***************************************************************************)
EXTENDS PostgresOrders, TLC

CONSTANTS u1, u2

MCUsers == {u1, u2}
MCPrices == {-1, 2}
MCInitialBalance == (u1 :> 2) @@ (u2 :> 1)
=============================================================================
