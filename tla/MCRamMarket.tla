----------------------------- MODULE MCRamMarket -----------------------------
(***************************************************************************)
(* A small instance of the RAM market: two traders, a reserve small enough *)
(* for rounding to matter in every trade, and supply growth by both roads. *)
(***************************************************************************)
EXTENDS RamMarket, TLC

CONSTANTS a1, a2

MCAccount == {a1, a2}
MCFunds == a1 :> 6 @@ a2 :> 2
==============================================================================
