--------------------------- MODULE MCSpotService ---------------------------
(***************************************************************************)
(* A small instance of SpotService for TLC: two markets with uuids, one    *)
(* uuid without a market, and a market with an id like the seeded ones.    *)
(***************************************************************************)
EXTENDS SpotService, TLC

MCUuids == {"u1", "u2", "u3"}

MCMarket ==
  [id \in {"u1", "u2", "btc_usd"} |->
     [enabled |-> id # "u2", deleted |-> id = "btc_usd",
      roles |-> IF id = "u1" THEN {"USER"} ELSE {}]]

MCKeys == MCUuids \cup {Ping}

MCValues == DOMAIN MCMarket \cup {Garbled}

Symmetry == Permutations(Workers)
=============================================================================
