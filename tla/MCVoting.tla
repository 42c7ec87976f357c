------------------------------- MODULE MCVoting -------------------------------
(***************************************************************************)
(* A small instance of voting: three accounts, enough for a chain of two   *)
(* proxies, and three producers.                                           *)
(***************************************************************************)
EXTENDS Voting, TLC

CONSTANTS a1, a2, a3, p1, p2, p3

MCAccount == {a1, a2, a3}
MCProducer == {p1, p2, p3}

\* The factor grows by more than the 1 that is not passed on, as a year's
\* doubling does for every stake of the main network.
MCFactor == 0 :> 2 @@ 1 :> 4

Symmetric == Permutations(MCAccount) \union Permutations(MCProducer)
==============================================================================
