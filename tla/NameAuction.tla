----------------------------- MODULE NameAuction ------------------------------
(***************************************************************************)
(* The auction of premium account names in eosio.system: bidname and       *)
(* bidrefund of name_bidding.cpp with the deferred refunds, the closing of *)
(* auctions in onblock, the claim of a name in newaccount, and the way of  *)
(* the proceeds to REX and the staking pools.                              *)
(*                                                                         *)
(* Time is relative: each auction carries the time since its last bid, and *)
(* the contract the times since it last closed an auction and since voting *)
(* was activated, each up to the bound beyond which it makes no difference.*)
(***************************************************************************)
EXTENDS TokenLedger, LedgerArithmetic

CONSTANTS
  Bidder,           \* accounts that bid
  Name,             \* premium names
  Existing,         \* the names among them that exist as accounts at the start
  None,             \* no bidder
  InitialFunds,     \* liquid tokens of each bidder
  BidAmounts,       \* amounts offered to bidname
  Day,              \* a day, in steps of the clock
  ActivationDelay,  \* the 14 days before the first auction closes
  Lossy             \* whether a deferred refund may be dropped

\* Where proceeds go, and the accounts that receive them.
Recipient == {"eosio.rex", "eosio.srpool"}
Holder == Bidder \union Recipient \union {"eosio.names"}

\* Voting has not been activated.
NotActivated == -1

ASSUME NameAuctionAssumption ==
  /\ Bidder \intersect (Recipient \union {"eosio.names"}) = {}
  /\ None \notin Bidder
  /\ Existing \subseteq Name
  /\ InitialFunds \in [Bidder -> Nat]
  /\ BidAmounts \subseteq Nat
  /\ Day \in Nat \ {0} /\ ActivationDelay \in Nat
  /\ Lossy \in BOOLEAN

VARIABLES
  accounts,      \* names that exist as accounts
  high_bidder,   \* name_bid::high_bidder
  high_bid,      \* name_bid::high_bid, negative once closed, 0 without a row
  quiet,         \* time since name_bid::last_bid_time
  bid_refunds,   \* bid_refund::amount by name and bidder, 0 without a row
  deferred,      \* scheduled bidrefund transactions
  proceeds,      \* namebid_proceeds of rex_pool and of staking_pool_state
  since_close,   \* time since _gstate.last_name_close
  activated_for, \* time since _gstate.thresh_activated_stake_time
  balance        \* the token ledger

bids == <<high_bidder, high_bid>>
refunds == <<bid_refunds, deferred>>
clocks == <<quiet, since_close, activated_for>>
vars == <<accounts, bids, refunds, clocks, proceeds, balance>>

-----------------------------------------------------------------------------

\* Time is counted up to just beyond the bound it is compared with.
Later(time, bound) == IF time \in 0 .. bound THEN time + 1 ELSE time

Open(n) == high_bid[n] > 0

\* Faulty: the bidder's row is overwritten, not added to.
OverwriteRefund(n, bidder, amount) == [bid_refunds EXCEPT ![<<n, bidder>>] = amount]

\* The refund of a bid joins what the bidder has not yet taken back.
AddRefund(n, bidder, amount) == [bid_refunds EXCEPT ![<<n, bidder>>] = @ + amount]

\* Faulty: the transaction is sent for the new bidder.
ScheduleForWinner(n, outbid, bidder) == deferred \union {<<n, bidder>>}

\* The refund transaction of the bidder that was outbid, new or replaced.
ScheduleRefund(n, outbid, bidder) == deferred \union {<<n, outbid>>}

\* Faulty: closed auctions keep their rank until they are claimed.
TopRanked(n) ==
  /\ Open(n)
  /\ \A m \in Name : high_bid[m] <= high_bid[n] /\ -high_bid[m] <= high_bid[n]

\* The open auction the highbid index starts with (of equal bids, any).
Highest(n) == Open(n) /\ \A m \in Name : high_bid[m] <= high_bid[n]

\* Faulty: the proceeds stay on record after they were transferred.
KeepProceeds(r) == UNCHANGED proceeds

ClearProceeds(r) == proceeds' = [proceeds EXCEPT ![r] = 0]

-----------------------------------------------------------------------------

Init ==
  /\ accounts = Existing
  /\ high_bidder = [n \in Name |-> None]
  /\ high_bid = [n \in Name |-> 0]
  /\ quiet = [n \in Name |-> 0]
  /\ bid_refunds = [x \in Name \X Bidder |-> 0]
  /\ deferred = {}
  /\ proceeds = [r \in Recipient |-> 0]
  /\ since_close = Day + 1
  /\ activated_for = NotActivated
  /\ balance = [h \in Holder |-> IF h \in Bidder THEN InitialFunds[h] ELSE 0]

\* The refund of the bid that is topped; the first bid on a name tops none.
OutbidLast(n, bidder, amount) ==
  IF high_bid[n] = 0 THEN UNCHANGED refunds
  ELSE /\ Open(n)
       /\ amount - high_bid[n] > high_bid[n] \div 10
       /\ high_bidder[n] # bidder
       /\ bid_refunds' = AddRefund(n, high_bidder[n], high_bid[n])
       /\ deferred' = ScheduleRefund(n, high_bidder[n], bidder)

BidName(bidder, n, amount) ==
  /\ n \notin accounts
  /\ CanPay(balance, bidder, amount)
  /\ balance' = Paid(balance, bidder, "eosio.names", amount)
  /\ OutbidLast(n, bidder, amount)
  /\ high_bidder' = [high_bidder EXCEPT ![n] = bidder]
  /\ high_bid' = [high_bid EXCEPT ![n] = amount]
  /\ quiet' = [quiet EXCEPT ![n] = 0]
  /\ UNCHANGED <<accounts, proceeds, since_close, activated_for>>

\* bidrefund, which needs no one's authority.
PayBidRefund(bidder, n) ==
  LET amount == bid_refunds[<<n, bidder>>]
  IN  /\ amount > 0
      /\ CanPay(balance, "eosio.names", amount)
      /\ balance' = Paid(balance, "eosio.names", bidder, amount)
      /\ bid_refunds' = [bid_refunds EXCEPT ![<<n, bidder>>] = 0]

\* bidrefund called by hand; a scheduled transaction stays.
BidRefund(bidder, n) ==
  /\ PayBidRefund(bidder, n)
  /\ UNCHANGED <<accounts, bids, deferred, clocks, proceeds>>

\* The scheduled bidrefund runs; it fails when the refund is already gone.
RunDeferred(bidder, n) ==
  /\ <<n, bidder>> \in deferred
  /\ deferred' = deferred \ {<<n, bidder>>}
  /\ \/ PayBidRefund(bidder, n)
     \/ bid_refunds[<<n, bidder>>] = 0 /\ UNCHANGED <<bid_refunds, balance>>
  /\ UNCHANGED <<accounts, bids, clocks, proceeds>>

\* The scheduled bidrefund is dropped without a try.
LoseDeferred(bidder, n) ==
  /\ Lossy
  /\ <<n, bidder>> \in deferred
  /\ deferred' = deferred \ {<<n, bidder>>}
  /\ UNCHANGED <<accounts, bids, bid_refunds, clocks, proceeds, balance>>

\* channel_namebid_to_rex_or_pools: the pools are promised any part, REX all
\* the rest, or nothing when it is not available.
Channelled(amount) ==
  UNION { {[proceeds EXCEPT !["eosio.srpool"] = @ + p],
           [proceeds EXCEPT !["eosio.srpool"] = @ + p, !["eosio.rex"] = @ + (amount - p)]}
            : p \in 0 .. amount }

\* What onblock checks of an auction that it could close.
MayClose(n) ==
  /\ Highest(n)
  /\ since_close > Day
  /\ quiet[n] > Day
  /\ activated_for > ActivationDelay

\* onblock, in a block that updates the schedule and finds an auction to close.
OnBlock(n) ==
  /\ MayClose(n)
  /\ since_close' = 0
  /\ proceeds' \in Channelled(high_bid[n])
  /\ high_bid' = [high_bid EXCEPT ![n] = -@]
  /\ UNCHANGED <<accounts, high_bidder, refunds, quiet, activated_for, balance>>

\* runrex passes on what REX was promised; if REX has become unavailable the
\* tokens stay with eosio.names for good.
RunRex ==
  /\ proceeds["eosio.rex"] > 0
  /\ ClearProceeds("eosio.rex")
  /\ \/ balance' = Paid(balance, "eosio.names", "eosio.rex", proceeds["eosio.rex"])
     \/ UNCHANGED balance
  /\ UNCHANGED <<accounts, bids, refunds, clocks>>

\* distribute_namebid_to_pools, while some pool has shares.
DistributeNamebid ==
  /\ proceeds["eosio.srpool"] > 0
  /\ ClearProceeds("eosio.srpool")
  /\ balance' = Paid(balance, "eosio.names", "eosio.srpool", proceeds["eosio.srpool"])
  /\ UNCHANGED <<accounts, bids, refunds, clocks>>

\* newaccount by the winner: the row of the auction is erased.
NewAccount(creator, n) ==
  /\ n \notin accounts
  /\ high_bid[n] < 0
  /\ high_bidder[n] = creator
  /\ accounts' = accounts \union {n}
  /\ high_bid' = [high_bid EXCEPT ![n] = 0]
  /\ high_bidder' = [high_bidder EXCEPT ![n] = None]
  /\ quiet' = [quiet EXCEPT ![n] = 0]
  /\ UNCHANGED <<refunds, since_close, activated_for, proceeds, balance>>

\* newaccount by eosio itself, which no auction binds.
NewSystemAccount(n) ==
  /\ n \notin accounts
  /\ accounts' = accounts \union {n}
  /\ UNCHANGED <<bids, refunds, clocks, proceeds, balance>>

\* The first vote activates the chain.
Activate ==
  /\ activated_for = NotActivated
  /\ activated_for' = 0
  /\ UNCHANGED <<accounts, bids, refunds, quiet, since_close, proceeds, balance>>

Tick ==
  /\ quiet' = [n \in Name |-> IF high_bid[n] = 0 THEN 0 ELSE Later(quiet[n], Day)]
  /\ since_close' = Later(since_close, Day)
  /\ activated_for' = Later(activated_for, ActivationDelay)
  /\ UNCHANGED <<accounts, bids, refunds, proceeds, balance>>

Next ==
  \/ \E b \in Bidder : \E n \in Name :
       \/ \E q \in BidAmounts : BidName(b, n, q)
       \/ BidRefund(b, n) \/ RunDeferred(b, n) \/ LoseDeferred(b, n)
       \/ NewAccount(b, n)
  \/ \E n \in Name : OnBlock(n) \/ NewSystemAccount(n)
  \/ RunRex \/ DistributeNamebid
  \/ Activate \/ Tick

Spec == Init /\ [][Next]_vars

-----------------------------------------------------------------------------

TypeOK ==
  /\ accounts \subseteq Name
  /\ high_bidder \in [Name -> Bidder \union {None}]
  /\ high_bid \in [Name -> Int]
  /\ quiet \in [Name -> 0 .. Day + 1]
  /\ bid_refunds \in [Name \X Bidder -> Nat]
  /\ deferred \subseteq Name \X Bidder
  /\ proceeds \in [Recipient -> Nat]
  /\ since_close \in 0 .. Day + 1
  /\ activated_for \in NotActivated .. ActivationDelay + 1
  /\ balance \in [Holder -> Nat]
  /\ \A n \in Name : high_bid[n] # 0 <=> high_bidder[n] # None

\* The bids of open auctions.
OpenBids == [n \in Name |-> IF Open(n) THEN high_bid[n] ELSE 0]

\* eosio.names can always return every open bid that may be topped, pay every
\* refund and pass on every proceed it has promised, in any order: of the
\* three parties that draw on the account none can be served at another's cost.
NamesCoverClaims ==
  TypeOK /\
  SumOf(OpenBids) + SumOf(bid_refunds) + SumOf(proceeds) <= balance["eosio.names"]

\* What a bidder has, may have back, or has standing in open auctions.
BidderAssets(b) ==
  balance[b] + SumOf([n \in Name |-> bid_refunds[<<n, b>>]])
    + SumOf([n \in Name |-> IF high_bidder[n] = b THEN OpenBids[n] ELSE 0])

\* The bids a bidder loses in a step: those of the auctions it wins.
BidsWon(b) ==
  SumOf([n \in Name |-> IF high_bidder[n] = b /\ Open(n) /\ high_bid'[n] < 0
                        THEN high_bid[n] ELSE 0])

\* A bid "will be returned to bidder only if bidder is later outbid": a bidder
\* parts with a bid when the auction closes in its favour and at no other
\* time, however often it was outbid and whoever triggered its refunds.
OnlyWinnersPay == [][\A b \in Bidder : BidderAssets(b)' = BidderAssets(b) - BidsWon(b)]_vars
==============================================================================
