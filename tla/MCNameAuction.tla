---------------------------- MODULE MCNameAuction -----------------------------
(***************************************************************************)
(* Small instances of the name auction.  A behaviour follows one of two    *)
(* scenarios chosen at the start: two names, so that one auction can wait  *)
(* for another, on a chain that runs every transaction; or one free name   *)
(* and bidders rich enough to top each other twice before they take back a *)
(* refund, on a chain that may drop transactions.                          *)
(***************************************************************************)
EXTENDS NameAuction, TLC

CONSTANTS b1, b2, n1, n2

MCBidder == {b1, b2}
MCName == {n1, n2}
MCFunds == b1 :> 3 @@ b2 :> 2

VARIABLE scenario   \* "two names" or "one name"

OneName == INSTANCE NameAuction WITH
  Existing <- {n2},
  InitialFunds <- (b1 :> 4 @@ b2 :> 4),
  BidAmounts <- 1 .. 4,
  Lossy <- TRUE

Reliable == scenario = "two names"

MCInit ==
  /\ scenario \in {"two names", "one name"}
  /\ IF Reliable THEN Init ELSE OneName!Init

MCNext ==
  /\ UNCHANGED scenario
  /\ \/ Reliable /\ Next
     \/ ~Reliable /\ OneName!Next

\* Time passes, blocks are produced, scheduled transactions are run.
MCSpec ==
  /\ MCInit /\ [][MCNext]_<<vars, scenario>>
  /\ WF_vars(Reliable /\ Tick)
  /\ WF_vars(Reliable /\ \E n \in Name : OnBlock(n))
  /\ \A b \in Bidder : \A n \in Name : WF_vars(Reliable /\ RunDeferred(b, n))

\* The system returns an outbid bid by itself, where the chain runs what is
\* scheduled, also when the same bidder is outbid again for the name before or
\* after its refund was taken by hand.
RefundsArrive ==
  \A b \in Bidder : \A n \in Name :
    (Reliable /\ bid_refunds[<<n, b>>] > 0) ~> bid_refunds[<<n, b>>] = 0

\* On an activated chain no auction stays open for ever, once bidding rests:
\* one that has closed but was never claimed does not hold up the others.
AllAuctionsClose ==
  \A n \in Name : (Reliable /\ Open(n) /\ activated_for # NotActivated) ~> ~Open(n)
==============================================================================
