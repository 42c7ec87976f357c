---------------------------- MODULE MCProducerPay -----------------------------
(***************************************************************************)
(* Small instances of producer pay: two producers.  A behaviour follows    *)
(* one of two scenarios chosen at the start: the tokens, over two days on  *)
(* which all that pays may happen, with a producer registered before       *)
(* producers2 existed; or the shares by which vote pay goes, over the      *)
(* three days after which they are lost and two more, without tokens.      *)
(***************************************************************************)
EXTENDS ProducerPay, TLC

CONSTANTS p1, p2

MCProducer == {p1, p2}
MCLegacy == {p1}

VARIABLE scenario   \* "tokens" or "shares"

Tokens == INSTANCE ProducerPay WITH LastTime <- 2
Shares == INSTANCE ProducerPay WITH
  Legacy <- {}, MaxUnpaid <- 0, MaxInflation <- 0, Factors <- {1}, MaxRevision <- 0

MCInit ==
  \/ scenario = "tokens" /\ Tokens!Init
  \/ scenario = "shares" /\ Shares!Init

MCNext ==
  /\ UNCHANGED scenario
  /\ \/ scenario = "tokens" /\ Tokens!Next
     \/ scenario = "shares" /\ Shares!Next

MCSpec == MCInit /\ [][MCNext]_<<vars, scenario>>

\* One scenario with the constants as they are.
PlainSpec ==
  /\ scenario = "plain" /\ Init
  /\ [][Next /\ UNCHANGED scenario]_<<vars, scenario>>
==============================================================================
