-------------------------- MODULE NameAuctionProofs ---------------------------
(***************************************************************************)
(* Proofs about the name auction: eosio.names covers every claim on it,    *)
(* whatever the bids, the lost and repeated refunds and the use REX or the *)
(* pools make of the proceeds, and only the winner of an auction parts     *)
(* with a bid.                                                             *)
(***************************************************************************)
EXTENDS NameAuction

\* The tables whose sums are compared hold finitely many tokens.
SumsAreFinite ==
  /\ IsFiniteSet(Units(OpenBids))
  /\ IsFiniteSet(Units(bid_refunds))
  /\ IsFiniteSet(Units(proceeds))

\* The inductive invariant: the account covers its claims, whose sums exist.
AuctionInv == NamesCoverClaims /\ SumsAreFinite

\* What a bidder may have back, and what it has standing in open auctions.
RefundsOf(b) == [n \in Name |-> bid_refunds[<<n, b>>]]
StandingOf(b) == [n \in Name |-> IF high_bidder[n] = b THEN OpenBids[n] ELSE 0]

-----------------------------------------------------------------------------

\* What a transfer that its sender can afford does to the ledger.
LEMMA TransferEffect ==
  ASSUME NEW H, NEW ledger \in [H -> Nat], NEW from \in H, NEW to \in H, from # to,
         NEW amount \in Nat, amount <= ledger[from]
  PROVE  LET after == Paid(ledger, from, to, amount)
         IN  /\ after \in [H -> Nat]
             /\ after[from] = ledger[from] - amount
             /\ after[to] = ledger[to] + amount
             /\ \A h \in H \ {from, to} : after[h] = ledger[h]
  BY DEF Paid

\* The parties of the auction's transfers are different accounts.
LEMMA PartiesDiffer ==
  /\ "eosio.names" \in Holder
  /\ \A r \in Recipient : r \in Holder /\ r # "eosio.names" /\ r \notin Bidder
  /\ \A b \in Bidder : b \in Holder /\ b # "eosio.names" /\ b # None
  BY NameAuctionAssumption DEF Holder, Recipient

\* The bids of the open auctions are naturals.
LEMMA OpenBidsType == TypeOK => OpenBids \in [Name -> Nat]
  BY DEF TypeOK, OpenBids, Open

\* The refunds and the standing bids of one bidder are tables of naturals with
\* finite sums, like the tables they are taken from.
LEMMA TablesOfBidder ==
  ASSUME TypeOK, SumsAreFinite, NEW b \in Bidder
  PROVE  /\ RefundsOf(b) \in [Name -> Nat] /\ IsFiniteSet(Units(RefundsOf(b)))
         /\ StandingOf(b) \in [Name -> Nat] /\ IsFiniteSet(Units(StandingOf(b)))
  <1>1. OpenBids \in [Name -> Nat]
    BY OpenBidsType
  <1>2. StandingOf(b) \in [Name -> Nat] /\ \A n \in Name : StandingOf(b)[n] <= OpenBids[n]
    BY <1>1 DEF StandingOf
  <1>3. IsFiniteSet(Units(StandingOf(b)))
    BY <1>1, <1>2, SumOfSmaller DEF SumsAreFinite
  <1> DEFINE at == [n \in Name |-> <<n, b>>]
  <1>4. bid_refunds \in [Name \X Bidder -> Nat]
    BY DEF TypeOK
  <1>5. /\ at \in [Name -> Name \X Bidder]
        /\ \A m \in Name : \A n \in Name : at[m] = at[n] => m = n
    OBVIOUS
  <1>6. /\ RefundsOf(b) \in [Name -> Nat]
        /\ \A n \in Name : RefundsOf(b)[n] <= bid_refunds[at[n]]
    BY <1>4 DEF RefundsOf
  <1> HIDE DEF at
  <1>7. IsFiniteSet(Units(RefundsOf(b)))
    <2>1. IsFiniteSet(Units(bid_refunds))
      BY DEF SumsAreFinite
    <2> QED
      BY ONLY <2>1, <1>4, <1>5, <1>6, SumOfSelection
  <1> QED
    BY <1>2, <1>3, <1>6, <1>7

-----------------------------------------------------------------------------

\* A step that leaves all auctions but one alone changes the sum of the open
\* bids by what that auction's bid changes by.
LEMMA OpenBidsChange ==
  ASSUME TypeOK, SumsAreFinite, NEW n \in Name,
         high_bid' \in [Name -> Int], \A m \in Name \ {n} : high_bid'[m] = high_bid[m]
  PROVE  /\ IsFiniteSet(Units(OpenBids'))
         /\ SumOf(OpenBids') = SumOf(OpenBids) - OpenBids[n] + OpenBids'[n]
         /\ OpenBids[n] = IF high_bid[n] > 0 THEN high_bid[n] ELSE 0
         /\ OpenBids'[n] = IF high_bid'[n] > 0 THEN high_bid'[n] ELSE 0
  <1>1. OpenBids \in [Name -> Nat] /\ IsFiniteSet(Units(OpenBids))
    BY OpenBidsType DEF SumsAreFinite
  <1>2. OpenBids' \in [Name -> Nat]
    BY DEF OpenBids, Open
  <1>3. \A m \in Name \ {n} : OpenBids'[m] = OpenBids[m]
    BY DEF OpenBids, Open
  <1>4. /\ OpenBids[n] = IF high_bid[n] > 0 THEN high_bid[n] ELSE 0
        /\ OpenBids'[n] = IF high_bid'[n] > 0 THEN high_bid'[n] ELSE 0
    BY DEF OpenBids, Open
  <1>5. /\ IsFiniteSet(Units(OpenBids'))
        /\ SumOf(OpenBids') = SumOf(OpenBids) - OpenBids[n] + OpenBids'[n]
    BY <1>1, <1>2, <1>3, SumOneEntry
  <1> QED
    BY <1>4, <1>5

\* Of a step that leaves the refunds and bids on all names but one alone, what
\* a bidder gains is what it gains in tokens, in refund and in bid there.
LEMMA AssetsChange ==
  ASSUME TypeOK, SumsAreFinite, NEW b \in Bidder, NEW n \in Name,
         RefundsOf(b)' \in [Name -> Nat], StandingOf(b)' \in [Name -> Nat],
         balance'[b] \in Nat,
         \A m \in Name \ {n} : RefundsOf(b)'[m] = RefundsOf(b)[m],
         \A m \in Name \ {n} : StandingOf(b)'[m] = StandingOf(b)[m]
  PROVE  BidderAssets(b)'
           = BidderAssets(b) + (balance'[b] - balance[b])
               + (RefundsOf(b)'[n] - RefundsOf(b)[n])
               + (StandingOf(b)'[n] - StandingOf(b)[n])
  <1> DEFINE R == RefundsOf(b)
             S == StandingOf(b)
  <1>1. /\ R \in [Name -> Nat] /\ IsFiniteSet(Units(R))
        /\ S \in [Name -> Nat] /\ IsFiniteSet(Units(S))
    BY TablesOfBidder
  <1>2. /\ BidderAssets(b) = balance[b] + SumOf(R) + SumOf(S)
        /\ BidderAssets(b)' = balance'[b] + SumOf(R') + SumOf(S')
    BY DEF BidderAssets, RefundsOf, StandingOf
  <1>3. balance[b] \in Nat
    BY PartiesDiffer DEF TypeOK
  <1>4. /\ R' \in [Name -> Nat] /\ \A m \in Name \ {n} : R'[m] = R[m]
        /\ S' \in [Name -> Nat] /\ \A m \in Name \ {n} : S'[m] = S[m]
    OBVIOUS
  <1> HIDE DEF R, S
  <1>5. SumOf(R') = SumOf(R) - R[n] + R'[n]
    BY ONLY <1>1, <1>4, n \in Name, SumOneEntry
  <1>6. SumOf(S') = SumOf(S) - S[n] + S'[n]
    BY ONLY <1>1, <1>4, n \in Name, SumOneEntry
  <1>7. SumOf(R) \in Nat /\ SumOf(S) \in Nat
    BY <1>1, SumBoundsEntry
  <1>8. R[n] \in Nat /\ R'[n] \in Nat /\ S[n] \in Nat /\ S'[n] \in Nat
    BY <1>1, <1>4
  <1>9. BidderAssets(b)'
          = BidderAssets(b) + (balance'[b] - balance[b]) + (R'[n] - R[n]) + (S'[n] - S[n])
    BY <1>2, <1>3, <1>5, <1>6, <1>7, <1>8
  <1> QED
    BY <1>9 DEF R, S
-----------------------------------------------------------------------------

\* No auction closes: nobody parts with a bid.
LEMMA NothingWon ==
  ASSUME NEW b \in Bidder, \A n \in Name : Open(n) => ~(high_bid'[n] < 0)
  PROVE  BidsWon(b) = 0
  <1>1. [n \in Name |-> IF high_bidder[n] = b /\ Open(n) /\ high_bid'[n] < 0
                        THEN high_bid[n] ELSE 0] = [n \in Name |-> 0]
    OBVIOUS
  <1> QED
    BY <1>1, SumOfZeros DEF BidsWon

\* bidname: the bid comes in, the bid it tops becomes a refund of the bidder
\* that made it.
LEMMA BidNameStep ==
  ASSUME AuctionInv, NEW b \in Bidder, NEW n \in Name, NEW q \in BidAmounts, BidName(b, n, q)
  PROVE  /\ AuctionInv'
         /\ \A c \in Bidder : BidderAssets(c)' = BidderAssets(c) - BidsWon(c)
  <1> USE DEF bids, refunds, clocks
  <1>1. TypeOK /\ SumsAreFinite
    BY DEF AuctionInv, NamesCoverClaims
  <1>2. q \in Nat /\ q > 0 /\ q <= balance[b]
    BY <1>1, PartiesDiffer, NameAuctionAssumption DEF BidName, CanPay, TypeOK
  <1>3. /\ balance' \in [Holder -> Nat]
        /\ balance'["eosio.names"] = balance["eosio.names"] + q
        /\ balance'[b] = balance[b] - q
        /\ \A c \in Bidder \ {b} : balance'[c] = balance[c]
    BY <1>1, <1>2, PartiesDiffer, TransferEffect DEF BidName, TypeOK
  <1>4. /\ high_bid' \in [Name -> Int] /\ high_bid'[n] = q
        /\ \A m \in Name \ {n} : high_bid'[m] = high_bid[m]
        /\ high_bidder' \in [Name -> Bidder \union {None}] /\ high_bidder'[n] = b
        /\ \A m \in Name \ {n} : high_bidder'[m] = high_bidder[m]
    BY <1>1, <1>2 DEF BidName, TypeOK
  <1>5. proceeds' = proceeds
    BY DEF BidName
  <1> DEFINE topped == IF high_bid[n] = 0 THEN 0 ELSE high_bid[n]
             x == <<n, high_bidder[n]>>
  <1>6. /\ topped \in Nat
        /\ high_bid[n] # 0 => high_bid[n] > 0 /\ high_bidder[n] \in Bidder /\ high_bidder[n] # b
        /\ bid_refunds' \in [Name \X Bidder -> Nat]
        /\ IsFiniteSet(Units(bid_refunds'))
        /\ SumOf(bid_refunds') = SumOf(bid_refunds) + topped
        /\ deferred' \subseteq Name \X Bidder
        /\ \A m \in Name \ {n} : \A c \in Bidder : bid_refunds'[<<m, c>>] = bid_refunds[<<m, c>>]
        /\ \A c \in Bidder : bid_refunds'[<<n, c>>] = bid_refunds[<<n, c>>] +
                               (IF high_bidder[n] = c THEN topped ELSE 0)
    <2>1. CASE high_bid[n] = 0
      <3>1. UNCHANGED refunds /\ topped = 0 /\ high_bidder[n] = None
        BY <1>1, <2>1 DEF BidName, OutbidLast, TypeOK
      <3>2. SumOf(bid_refunds) \in Nat
        BY <1>1, SumBoundsEntry, FS_CardinalityType DEF SumsAreFinite, SumOf
      <3> QED
        BY <1>1, <2>1, <3>1, <3>2, PartiesDiffer DEF TypeOK, SumsAreFinite
    <2>2. CASE high_bid[n] # 0
      <3>1. /\ high_bid[n] \in Nat /\ high_bid[n] > 0
            /\ high_bidder[n] \in Bidder /\ high_bidder[n] # b
            /\ bid_refunds' = AddRefund(n, high_bidder[n], high_bid[n])
            /\ deferred' = deferred \union {x}
        BY <1>1, <2>2 DEF BidName, OutbidLast, Open, ScheduleRefund, TypeOK
      <3>2. topped = high_bid[n]
        BY <2>2
      <3>3. bid_refunds \in [Name \X Bidder -> Nat] /\ IsFiniteSet(Units(bid_refunds))
        BY <1>1 DEF TypeOK, SumsAreFinite
      <3>4. x \in Name \X Bidder /\ bid_refunds[x] \in Nat
        BY <3>1, <3>3
      <3> DEFINE v == bid_refunds[x] + high_bid[n]
      <3>5. bid_refunds' = [bid_refunds EXCEPT ![x] = v] /\ v \in Nat
        BY <3>1, <3>4 DEF AddRefund
      <3>6. \A m \in Name : \A c \in Bidder :
              bid_refunds'[<<m, c>>] = IF m = n /\ c = high_bidder[n]
                                       THEN bid_refunds[<<n, c>>] + high_bid[n]
                                       ELSE bid_refunds[<<m, c>>]
        BY <3>1, <3>3 DEF AddRefund
      <3> HIDE DEF v, x
      <3>7. /\ IsFiniteSet(Units(bid_refunds'))
            /\ SumOf(bid_refunds') = SumOf(bid_refunds) - bid_refunds[x] + v
        BY <3>3, <3>4, <3>5, SumUpdate
      <3>8. SumOf(bid_refunds) \in Nat
        BY <3>3, FS_CardinalityType DEF SumOf
      <3>9. SumOf(bid_refunds') = SumOf(bid_refunds) + topped
        BY <3>1, <3>2, <3>4, <3>7, <3>8 DEF v
      <3>10. bid_refunds' \in [Name \X Bidder -> Nat] /\ deferred' \subseteq Name \X Bidder
        BY <1>1, <3>1, <3>3, <3>4, <3>5 DEF TypeOK
      <3>11. \A c \in Bidder : bid_refunds[<<n, c>>] \in Nat
        BY <3>3
      <3> HIDE DEF topped
      <3>12. \A c \in Bidder : bid_refunds'[<<n, c>>] = bid_refunds[<<n, c>>] +
                               (IF high_bidder[n] = c THEN topped ELSE 0)
        BY <3>1, <3>2, <3>6, <3>11
      <3> QED
        BY <3>1, <3>2, <3>6, <3>7, <3>9, <3>10, <3>12
    <2> QED
      BY <2>1, <2>2
  <1> HIDE DEF topped, x
  <1>7. TypeOK'
    <2>1. \A m \in Name : high_bid'[m] # 0 <=> high_bidder'[m] # None
      BY <1>1, <1>2, <1>4, PartiesDiffer DEF TypeOK
    <2>2. quiet' \in [Name -> 0 .. Day + 1]
      <3>1. 0 \in 0 .. Day + 1
        BY NameAuctionAssumption
      <3>2. quiet \in [Name -> 0 .. Day + 1] /\ quiet' = [quiet EXCEPT ![n] = 0]
        BY <1>1 DEF TypeOK, BidName
      <3> HIDE DEF BidName
      <3> QED
        BY <3>1, <3>2
    <2>3. /\ accounts' \subseteq Name /\ since_close' \in 0 .. Day + 1
          /\ activated_for' \in NotActivated .. ActivationDelay + 1
          /\ proceeds' \in [Recipient -> Nat]
      BY <1>1 DEF TypeOK, BidName
    <2> QED
      BY <1>3, <1>4, <1>6, <2>1, <2>2, <2>3 DEF TypeOK
  <1>8. /\ IsFiniteSet(Units(OpenBids'))
        /\ SumOf(OpenBids') = SumOf(OpenBids) - topped + q
        /\ OpenBids[n] = topped /\ OpenBids'[n] = q
    BY <1>1, <1>2, <1>4, <1>6, OpenBidsChange DEF topped
  <1>9. AuctionInv'
    <2>1. SumsAreFinite'
      BY <1>1, <1>5, <1>6, <1>8 DEF SumsAreFinite
    <2>2. SumOf(OpenBids) \in Nat /\ SumOf(bid_refunds) \in Nat /\ SumOf(proceeds) \in Nat
      BY <1>1, FS_CardinalityType DEF SumsAreFinite, SumOf
    <2>3. balance["eosio.names"] \in Nat
      BY <1>1, PartiesDiffer DEF TypeOK
    <2>4. SumOf(OpenBids) + SumOf(bid_refunds) + SumOf(proceeds) <= balance["eosio.names"]
      BY DEF AuctionInv, NamesCoverClaims
    <2>5. SumOf(OpenBids') + SumOf(bid_refunds') + SumOf(proceeds') <= balance'["eosio.names"]
      BY <1>2, <1>3, <1>5, <1>6, <1>8, <2>2, <2>3, <2>4
    <2> QED
      BY <1>7, <2>1, <2>5 DEF AuctionInv, NamesCoverClaims
  <1>10. ASSUME NEW c \in Bidder
         PROVE  BidderAssets(c)' = BidderAssets(c) - BidsWon(c)
    <2>1. BidsWon(c) = 0
      BY <1>2, <1>4, NothingWon DEF Open
    <2>2. SumsAreFinite'
      BY <1>9 DEF AuctionInv
    <2>3. RefundsOf(c) \in [Name -> Nat] /\ StandingOf(c) \in [Name -> Nat]
      BY <1>1, TablesOfBidder
    <2>4. RefundsOf(c)' \in [Name -> Nat] /\ StandingOf(c)' \in [Name -> Nat]
      <3>1. RefundsOf(c)' \in [Name -> Nat]
        BY <1>6 DEF RefundsOf
      <3>2. OpenBids' \in [Name -> Nat]
        BY <1>4 DEF OpenBids, Open
      <3> QED
        BY <3>1, <3>2 DEF StandingOf
    <2>5. /\ \A m \in Name \ {n} : RefundsOf(c)'[m] = RefundsOf(c)[m]
          /\ RefundsOf(c)'[n] = RefundsOf(c)[n] + (IF high_bidder[n] = c THEN topped ELSE 0)
      BY <1>6 DEF RefundsOf
    <2>6. /\ \A m \in Name \ {n} : StandingOf(c)'[m] = StandingOf(c)[m]
          /\ StandingOf(c)[n] = (IF high_bidder[n] = c THEN topped ELSE 0)
          /\ StandingOf(c)'[n] = (IF c = b THEN q ELSE 0)
      BY <1>4, <1>8 DEF StandingOf, OpenBids, Open
    <2>7. balance[c] \in Nat /\ balance'[c] \in Nat
      BY <1>1, <1>3, PartiesDiffer DEF TypeOK
    <2>8. BidderAssets(c)'
            = BidderAssets(c) + (balance'[c] - balance[c])
                + (RefundsOf(c)'[n] - RefundsOf(c)[n])
                + (StandingOf(c)'[n] - StandingOf(c)[n])
      BY ONLY <1>1, <2>4, <2>5, <2>6, <2>7, AssetsChange, c \in Bidder, n \in Name
    <2>9. BidderAssets(c) \in Nat
      <3>1. SumOf(RefundsOf(c)) \in Nat /\ SumOf(StandingOf(c)) \in Nat
        BY <1>1, TablesOfBidder, FS_CardinalityType DEF SumOf
      <3> QED
        BY <2>7, <3>1 DEF BidderAssets, RefundsOf, StandingOf
    <2>10. RefundsOf(c)[n] \in Nat
      BY <2>3
    <2>11. BidderAssets(c)' = BidderAssets(c)
      BY <1>2, <1>3, <1>6, <2>5, <2>6, <2>7, <2>8, <2>9, <2>10, SMTT(60)
    <2> QED
      BY <2>1, <2>9, <2>11
  <1> QED
    BY <1>9, <1>10
\* A refund paid out, by hand or by the scheduled transaction: its row was
\* what the account kept for it.
LEMMA PayBidRefundStep ==
  ASSUME AuctionInv, NEW b \in Bidder, NEW n \in Name, PayBidRefund(b, n),
         UNCHANGED <<accounts, bids, clocks, proceeds>>, deferred' \subseteq deferred
  PROVE  /\ AuctionInv'
         /\ \A c \in Bidder : BidderAssets(c)' = BidderAssets(c) - BidsWon(c)
  <1> DEFINE x == <<n, b>>
             amount == bid_refunds[x]
  <1>1. TypeOK /\ SumsAreFinite
    BY DEF AuctionInv, NamesCoverClaims
  <1>2. bid_refunds \in [Name \X Bidder -> Nat] /\ IsFiniteSet(Units(bid_refunds)) /\ x \in Name \X Bidder
    BY <1>1 DEF TypeOK, SumsAreFinite
  <1>3. amount \in Nat /\ amount > 0 /\ amount <= balance["eosio.names"]
    BY <1>2 DEF PayBidRefund, CanPay
  <1>4. /\ balance' \in [Holder -> Nat]
        /\ balance'["eosio.names"] = balance["eosio.names"] - amount
        /\ balance'[b] = balance[b] + amount
        /\ \A c \in Bidder \ {b} : balance'[c] = balance[c]
    <2>1. balance' = Paid(balance, "eosio.names", b, amount)
      BY DEF PayBidRefund
    <2>2. balance \in [Holder -> Nat] /\ "eosio.names" \in Holder /\ b \in Holder /\ b # "eosio.names"
      BY <1>1, PartiesDiffer DEF TypeOK
    <2>3. \A c \in Bidder \ {b} : c \in Holder \ {"eosio.names", b}
      BY PartiesDiffer
    <2> HIDE DEF amount
    <2> QED
      BY <1>3, <2>1, <2>2, <2>3, TransferEffect
  <1>5. bid_refunds' = [bid_refunds EXCEPT ![x] = 0]
    BY DEF PayBidRefund
  <1>6. bid_refunds' \in [Name \X Bidder -> Nat]
    BY <1>2, <1>5
  <1>7. \A m \in Name : \A c \in Bidder :
          bid_refunds'[<<m, c>>] = IF m = n /\ c = b THEN 0 ELSE bid_refunds[<<m, c>>]
    BY <1>2, <1>5
  <1>8. bids' = bids /\ proceeds' = proceeds /\ high_bid' = high_bid /\ high_bidder' = high_bidder
    BY DEF bids
  <1>9. OpenBids' = OpenBids
    BY <1>8 DEF OpenBids, Open
  <1> HIDE DEF x, amount
  <1>10. /\ IsFiniteSet(Units(bid_refunds'))
         /\ SumOf(bid_refunds') = SumOf(bid_refunds) - amount
    <2>1. /\ IsFiniteSet(Units(bid_refunds'))
          /\ SumOf(bid_refunds') = SumOf(bid_refunds) - bid_refunds[x] + 0
      BY <1>2, <1>5, SumUpdate, 0 \in Nat
    <2>2. SumOf(bid_refunds) \in Nat
      BY <1>2, FS_CardinalityType DEF SumOf
    <2> QED
      BY <1>3, <2>1, <2>2 DEF amount
  <1>11. AuctionInv'
    <2>1. TypeOK'
      BY <1>1, <1>4, <1>6, <1>8 DEF TypeOK, clocks
    <2>2. SumsAreFinite'
      BY <1>1, <1>8, <1>9, <1>10 DEF SumsAreFinite
    <2>3. SumOf(OpenBids) \in Nat /\ SumOf(bid_refunds) \in Nat /\ SumOf(proceeds) \in Nat
      BY <1>1, FS_CardinalityType DEF SumsAreFinite, SumOf
    <2>4. balance["eosio.names"] \in Nat
      BY <1>1, PartiesDiffer DEF TypeOK
    <2>5. SumOf(OpenBids) + SumOf(bid_refunds) + SumOf(proceeds) <= balance["eosio.names"]
      BY DEF AuctionInv, NamesCoverClaims
    <2>6. SumOf(OpenBids') + SumOf(bid_refunds') + SumOf(proceeds') <= balance'["eosio.names"]
      BY <1>3, <1>4, <1>8, <1>9, <1>10, <2>3, <2>4, <2>5
    <2> QED
      BY <2>1, <2>2, <2>6 DEF AuctionInv, NamesCoverClaims
  <1>12. ASSUME NEW c \in Bidder
         PROVE  BidderAssets(c)' = BidderAssets(c) - BidsWon(c)
    <2>1. BidsWon(c) = 0
      BY <1>1, <1>8, NothingWon DEF Open, TypeOK
    <2>2. /\ StandingOf(c)' = StandingOf(c)
          /\ StandingOf(c) \in [Name -> Nat] /\ RefundsOf(c) \in [Name -> Nat]
      BY <1>1, <1>8, <1>9, TablesOfBidder DEF StandingOf
    <2>3. RefundsOf(c)' \in [Name -> Nat]
      BY <1>6 DEF RefundsOf
    <2>4. /\ \A m \in Name \ {n} : RefundsOf(c)'[m] = RefundsOf(c)[m]
          /\ RefundsOf(c)'[n] = RefundsOf(c)[n] - (IF c = b THEN amount ELSE 0)
      <3>1. \A m \in Name \ {n} : RefundsOf(c)'[m] = RefundsOf(c)[m]
        BY <1>7 DEF RefundsOf
      <3>2. RefundsOf(c)'[n] = (IF c = b THEN 0 ELSE bid_refunds[<<n, c>>])
        BY <1>7 DEF RefundsOf
      <3>3. RefundsOf(c)[n] = bid_refunds[<<n, c>>] /\ bid_refunds[<<n, c>>] \in Nat
        BY <1>2 DEF RefundsOf
      <3>4. c = b => amount = bid_refunds[<<n, c>>]
        BY DEF amount, x
      <3> QED
        BY <3>1, <3>2, <3>3, <3>4
    <2>5. balance[c] \in Nat /\ balance'[c] \in Nat
      BY <1>1, <1>4, PartiesDiffer DEF TypeOK
    <2>6. BidderAssets(c)'
            = BidderAssets(c) + (balance'[c] - balance[c])
                + (RefundsOf(c)'[n] - RefundsOf(c)[n])
                + (StandingOf(c)'[n] - StandingOf(c)[n])
      BY ONLY <1>1, <2>2, <2>3, <2>4, <2>5, AssetsChange, c \in Bidder, n \in Name
    <2>7. BidderAssets(c) \in Nat
      <3>1. SumOf(RefundsOf(c)) \in Nat /\ SumOf(StandingOf(c)) \in Nat
        BY <1>1, TablesOfBidder, FS_CardinalityType DEF SumOf
      <3> QED
        BY <2>5, <3>1 DEF BidderAssets, RefundsOf, StandingOf
    <2>8. RefundsOf(c)[n] \in Nat /\ StandingOf(c)[n] \in Nat
      BY <2>2
    <2>9. BidderAssets(c)' = BidderAssets(c)
      BY <1>3, <1>4, <2>2, <2>4, <2>5, <2>6, <2>7, <2>8
    <2> QED
      BY <2>1, <2>7, <2>9
  <1> QED
    BY <1>11, <1>12

\* A step that leaves every bid, every refund and every bidder's tokens alone
\* costs no bidder anything.
LEMMA AssetsKept ==
  ASSUME TypeOK, SumsAreFinite, UNCHANGED <<bids, bid_refunds>>,
         \A c \in Bidder : balance'[c] = balance[c]
  PROVE  \A c \in Bidder : BidderAssets(c)' = BidderAssets(c) - BidsWon(c)
  <1> SUFFICES ASSUME NEW c \in Bidder
               PROVE  BidderAssets(c)' = BidderAssets(c) - BidsWon(c)
    OBVIOUS
  <1>1. high_bid' = high_bid /\ high_bidder' = high_bidder /\ bid_refunds' = bid_refunds
    BY DEF bids
  <1>2. BidsWon(c) = 0
    BY <1>1, NothingWon DEF Open, TypeOK
  <1>3. BidderAssets(c)' = BidderAssets(c)
    BY <1>1 DEF BidderAssets, OpenBids, Open
  <1>4. BidderAssets(c) \in Nat
    <2>1. SumOf(RefundsOf(c)) \in Nat /\ SumOf(StandingOf(c)) \in Nat
      BY TablesOfBidder, FS_CardinalityType DEF SumOf
    <2>2. balance[c] \in Nat
      BY PartiesDiffer DEF TypeOK
    <2> QED
      BY <2>1, <2>2 DEF BidderAssets, RefundsOf, StandingOf
  <1> QED
    BY <1>2, <1>3, <1>4

\* A step that leaves the bids, the refunds, the proceeds and the ledger alone.
LEMMA ClaimsKept ==
  ASSUME AuctionInv, TypeOK', UNCHANGED <<bids, bid_refunds, proceeds, balance>>
  PROVE  /\ AuctionInv'
         /\ \A c \in Bidder : BidderAssets(c)' = BidderAssets(c) - BidsWon(c)
  <1>1. TypeOK /\ SumsAreFinite
    BY DEF AuctionInv, NamesCoverClaims
  <1>2. OpenBids' = OpenBids
    BY DEF OpenBids, Open, bids
  <1>3. AuctionInv'
    BY <1>2 DEF AuctionInv, NamesCoverClaims, SumsAreFinite
  <1> QED
    BY <1>1, <1>3, AssetsKept
\* The two recipients share in the proceeds at most what the auction brought.
LEMMA ChannelledEffect ==
  ASSUME proceeds \in [Recipient -> Nat], IsFiniteSet(Units(proceeds)),
         NEW amount \in Nat, proceeds' \in Channelled(amount)
  PROVE  /\ proceeds' \in [Recipient -> Nat]
         /\ IsFiniteSet(Units(proceeds'))
         /\ SumOf(proceeds') <= SumOf(proceeds) + amount
  <1> DEFINE pools == "eosio.srpool"
             rex == "eosio.rex"
  <1>1. PICK p \in 0 .. amount :
          \/ proceeds' = [proceeds EXCEPT ![pools] = @ + p]
          \/ proceeds' = [proceeds EXCEPT ![pools] = @ + p, ![rex] = @ + (amount - p)]
    BY DEF Channelled
  <1>2. p \in Nat /\ amount - p \in Nat
    OBVIOUS
  <1>3. pools \in Recipient /\ rex \in Recipient /\ pools # rex
    BY DEF Recipient
  <1>4. \A r \in Recipient \ {pools, rex} : proceeds'[r] = proceeds[r]
    BY <1>1
  <1>5. /\ proceeds' \in [Recipient -> Nat]
        /\ proceeds'[pools] = proceeds[pools] + p
        /\ \/ proceeds'[rex] = proceeds[rex]
           \/ proceeds'[rex] = proceeds[rex] + (amount - p)
    <2>1. CASE proceeds' = [proceeds EXCEPT ![pools] = @ + p]
      BY <1>2, <1>3, <2>1
    <2>2. CASE proceeds' = [proceeds EXCEPT ![pools] = @ + p, ![rex] = @ + (amount - p)]
      BY <1>2, <1>3, <2>2
    <2> QED
      BY <1>1, <2>1, <2>2
  <1> HIDE DEF pools, rex
  <1>6. /\ IsFiniteSet(Units(proceeds'))
        /\ SumOf(proceeds') - proceeds'[pools] - proceeds'[rex]
             = SumOf(proceeds) - proceeds[pools] - proceeds[rex]
    BY ONLY <1>3, <1>4, <1>5, proceeds \in [Recipient -> Nat], IsFiniteSet(Units(proceeds)),
            SumTwoEntries
  <1>7. SumOf(proceeds) \in Nat /\ SumOf(proceeds') \in Nat
    BY <1>6, FS_CardinalityType DEF SumOf
  <1>8. proceeds[pools] \in Nat /\ proceeds[rex] \in Nat
    BY <1>3
  <1>9. SumOf(proceeds') <= SumOf(proceeds) + amount
    BY <1>2, <1>5, <1>6, <1>7, <1>8
  <1> QED
    BY <1>5, <1>6, <1>9

\* onblock closes an auction: its bid becomes proceeds, and the winner, who
\* alone had it standing there, parts with it.
LEMMA OnBlockStep ==
  ASSUME AuctionInv, NEW n \in Name, OnBlock(n)
  PROVE  /\ AuctionInv'
         /\ \A c \in Bidder : BidderAssets(c)' = BidderAssets(c) - BidsWon(c)
  <1>1. TypeOK /\ SumsAreFinite
    BY DEF AuctionInv, NamesCoverClaims
  <1> DEFINE bid == high_bid[n]
  <1>2. bid \in Nat /\ bid > 0
    BY <1>1 DEF OnBlock, MayClose, Highest, Open, TypeOK
  <1>3. /\ high_bid' \in [Name -> Int] /\ high_bid'[n] = -bid
        /\ \A m \in Name \ {n} : high_bid'[m] = high_bid[m]
    BY <1>1 DEF OnBlock, TypeOK
  <1>4. UNCHANGED <<accounts, high_bidder, bid_refunds, deferred, quiet, activated_for, balance>>
    BY DEF OnBlock, refunds
  <1>5. /\ proceeds' \in [Recipient -> Nat] /\ IsFiniteSet(Units(proceeds'))
        /\ SumOf(proceeds') <= SumOf(proceeds) + bid
    BY <1>1, <1>2, ChannelledEffect DEF OnBlock, TypeOK, SumsAreFinite
  <1>6. /\ IsFiniteSet(Units(OpenBids'))
        /\ SumOf(OpenBids') = SumOf(OpenBids) - OpenBids[n] + OpenBids'[n]
        /\ OpenBids[n] = bid /\ OpenBids'[n] = 0
    BY <1>1, <1>2, <1>3, OpenBidsChange
  <1>7. TypeOK'
    <2>1. \A m \in Name : high_bid'[m] # 0 <=> high_bidder'[m] # None
      BY <1>1, <1>2, <1>3, <1>4 DEF TypeOK
    <2>2. since_close' \in 0 .. Day + 1
      BY NameAuctionAssumption DEF OnBlock
    <2> QED
      BY <1>1, <1>3, <1>4, <1>5, <2>1, <2>2 DEF TypeOK
  <1> HIDE DEF bid
  <1>8. AuctionInv'
    <2>1. SumsAreFinite'
      BY <1>1, <1>4, <1>5, <1>6 DEF SumsAreFinite
    <2>2. /\ SumOf(OpenBids) \in Nat /\ SumOf(bid_refunds) \in Nat /\ SumOf(proceeds) \in Nat
          /\ SumOf(proceeds') \in Nat
      BY <1>1, <1>5, FS_CardinalityType DEF SumsAreFinite, SumOf
    <2>3. balance["eosio.names"] \in Nat
      BY <1>1, PartiesDiffer DEF TypeOK
    <2>4. SumOf(OpenBids) + SumOf(bid_refunds) + SumOf(proceeds) <= balance["eosio.names"]
      BY DEF AuctionInv, NamesCoverClaims
    <2>5. SumOf(OpenBids') + SumOf(bid_refunds') + SumOf(proceeds') <= balance'["eosio.names"]
      BY <1>2, <1>4, <1>5, <1>6, <2>2, <2>3, <2>4
    <2> QED
      BY <1>7, <2>1, <2>5 DEF AuctionInv, NamesCoverClaims
  <1>9. ASSUME NEW c \in Bidder
        PROVE  BidderAssets(c)' = BidderAssets(c) - BidsWon(c)
    <2> DEFINE part == IF high_bidder[n] = c THEN bid ELSE 0
               won == [m \in Name |-> IF high_bidder[m] = c /\ Open(m) /\ high_bid'[m] < 0
                                      THEN high_bid[m] ELSE 0]
    <2>1. BidsWon(c) = part
      <3>1. won[n] = part /\ part \in Nat
        BY <1>2, <1>3 DEF Open, bid
      <3>2. \A m \in Name \ {n} : won[m] = 0
        BY <1>1, <1>3 DEF Open, TypeOK
      <3>3. won \in [Name -> Nat]
        BY <3>1, <3>2
      <3>4. BidsWon(c) = SumOf(won)
        BY DEF BidsWon
      <3> HIDE DEF won, part
      <3> QED
        BY <3>1, <3>2, <3>3, <3>4, SumOfOneEntry
    <2>2. /\ RefundsOf(c)' = RefundsOf(c)
          /\ StandingOf(c) \in [Name -> Nat] /\ RefundsOf(c) \in [Name -> Nat]
      BY <1>1, <1>4, TablesOfBidder DEF RefundsOf
    <2>3. StandingOf(c)' \in [Name -> Nat]
      <3>1. OpenBids' \in [Name -> Nat]
        BY <1>3 DEF OpenBids, Open
      <3> QED
        BY <3>1 DEF StandingOf
    <2>4. /\ \A m \in Name \ {n} : StandingOf(c)'[m] = StandingOf(c)[m]
          /\ StandingOf(c)'[n] = 0
          /\ StandingOf(c)[n] = part
      BY <1>3, <1>4, <1>6 DEF StandingOf, OpenBids, Open
    <2>5. balance[c] \in Nat /\ balance'[c] = balance[c]
      BY <1>1, <1>4, PartiesDiffer DEF TypeOK
    <2>6. BidderAssets(c)'
            = BidderAssets(c) + (balance'[c] - balance[c])
                + (RefundsOf(c)'[n] - RefundsOf(c)[n])
                + (StandingOf(c)'[n] - StandingOf(c)[n])
      BY ONLY <1>1, <2>2, <2>3, <2>4, <2>5, AssetsChange, c \in Bidder, n \in Name
    <2>7. BidderAssets(c) \in Nat
      <3>1. SumOf(RefundsOf(c)) \in Nat /\ SumOf(StandingOf(c)) \in Nat
        BY <1>1, TablesOfBidder, FS_CardinalityType DEF SumOf
      <3> QED
        BY <2>5, <3>1 DEF BidderAssets, RefundsOf, StandingOf
    <2>8. RefundsOf(c)[n] \in Nat /\ part \in Nat
      BY <1>2, <2>2
    <2> HIDE DEF part
    <2> QED
      BY <2>1, <2>2, <2>4, <2>5, <2>6, <2>7, <2>8
  <1> QED
    BY <1>8, <1>9

\* newaccount by the winner: the erased auction was closed and counted for
\* nothing any more.
LEMMA NewAccountStep ==
  ASSUME AuctionInv, NEW b \in Bidder, NEW n \in Name, NewAccount(b, n)
  PROVE  /\ AuctionInv'
         /\ \A c \in Bidder : BidderAssets(c)' = BidderAssets(c) - BidsWon(c)
  <1>1. TypeOK /\ SumsAreFinite
    BY DEF AuctionInv, NamesCoverClaims
  <1>2. /\ high_bid' = [high_bid EXCEPT ![n] = 0]
        /\ high_bidder' = [high_bidder EXCEPT ![n] = None]
        /\ high_bid[n] < 0
    BY DEF NewAccount
  <1>3. bid_refunds' = bid_refunds /\ deferred' = deferred /\ proceeds' = proceeds /\ balance' = balance
    BY DEF NewAccount, refunds
  <1>4. OpenBids' = OpenBids
    BY <1>1, <1>2 DEF OpenBids, Open, TypeOK
  <1>5. TypeOK'
    <2>1. quiet' \in [Name -> 0 .. Day + 1]
      <3>1. 0 \in 0 .. Day + 1 /\ quiet \in [Name -> 0 .. Day + 1] /\ quiet' = [quiet EXCEPT ![n] = 0]
        BY <1>1, NameAuctionAssumption DEF TypeOK, NewAccount
      <3> QED
        BY <3>1
    <2>2. /\ high_bid' \in [Name -> Int]
          /\ high_bidder' \in [Name -> Bidder \union {None}]
          /\ \A m \in Name : high_bid'[m] # 0 <=> high_bidder'[m] # None
      BY <1>1, <1>2 DEF TypeOK
    <2>3. /\ accounts' \subseteq Name /\ since_close' = since_close /\ activated_for' = activated_for
      BY <1>1 DEF TypeOK, NewAccount
    <2> QED
      BY <1>1, <1>3, <2>1, <2>2, <2>3 DEF TypeOK
  <1>6. AuctionInv'
    BY <1>3, <1>4, <1>5 DEF AuctionInv, NamesCoverClaims, SumsAreFinite
  <1>7. ASSUME NEW c \in Bidder
        PROVE  BidderAssets(c)' = BidderAssets(c) - BidsWon(c)
    <2>1. BidsWon(c) = 0
      <3>1. \A m \in Name : Open(m) => ~(high_bid'[m] < 0)
        BY <1>1, <1>2 DEF Open, TypeOK
      <3> QED
        BY <3>1, NothingWon
    <2>2. StandingOf(c)' = StandingOf(c)
      BY <1>1, <1>2, <1>4 DEF StandingOf, OpenBids, Open, TypeOK
    <2>3. RefundsOf(c)' = RefundsOf(c)
      BY <1>3 DEF RefundsOf
    <2>4. /\ BidderAssets(c) = balance[c] + SumOf(RefundsOf(c)) + SumOf(StandingOf(c))
          /\ BidderAssets(c)' = balance'[c] + SumOf(RefundsOf(c)') + SumOf(StandingOf(c)')
      BY DEF BidderAssets, RefundsOf, StandingOf
    <2>5. balance[c] \in Nat /\ SumOf(RefundsOf(c)) \in Nat /\ SumOf(StandingOf(c)) \in Nat
      BY <1>1, PartiesDiffer, TablesOfBidder, FS_CardinalityType DEF SumOf, TypeOK
    <2> QED
      BY <1>3, <2>1, <2>2, <2>3, <2>4, <2>5
  <1> QED
    BY <1>6, <1>7
\* Proceeds passed on to their recipient, or left with eosio.names for good:
\* the claim ends, and what is paid for it was part of what covers the claims.
LEMMA PassOnStep ==
  ASSUME AuctionInv, NEW r \in Recipient, ClearProceeds(r),
         UNCHANGED <<accounts, bids, refunds, clocks>>,
         \/ balance' = Paid(balance, "eosio.names", r, proceeds[r])
         \/ UNCHANGED balance
  PROVE  /\ AuctionInv'
         /\ \A c \in Bidder : BidderAssets(c)' = BidderAssets(c) - BidsWon(c)
  <1> DEFINE due == proceeds[r]
             names == balance["eosio.names"]
  <1>1. TypeOK /\ SumsAreFinite
    BY DEF AuctionInv, NamesCoverClaims
  <1>2. proceeds \in [Recipient -> Nat] /\ IsFiniteSet(Units(proceeds)) /\ names \in Nat
    BY <1>1, PartiesDiffer DEF TypeOK, SumsAreFinite
  <1>3. SumOf(proceeds) \in Nat /\ due \in Nat /\ due <= SumOf(proceeds)
    BY <1>2, SumBoundsEntry
  <1>4. SumOf(OpenBids) \in Nat /\ SumOf(bid_refunds) \in Nat
    BY <1>1, FS_CardinalityType DEF SumsAreFinite, SumOf
  <1>5. SumOf(OpenBids) + SumOf(bid_refunds) + SumOf(proceeds) <= names
    BY DEF AuctionInv, NamesCoverClaims
  <1>6. proceeds' = [proceeds EXCEPT ![r] = 0] /\ bid_refunds' = bid_refunds
    BY DEF ClearProceeds, refunds
  <1>7. proceeds' \in [Recipient -> Nat]
    BY <1>2, <1>6
  <1> HIDE DEF due, names
  <1>8. IsFiniteSet(Units(proceeds')) /\ SumOf(proceeds') = SumOf(proceeds) - due
    <2>1. /\ IsFiniteSet(Units(proceeds'))
          /\ SumOf(proceeds') = SumOf(proceeds) - proceeds[r] + 0
      BY <1>2, <1>6, SumUpdate, 0 \in Nat
    <2> QED
      BY <1>3, <2>1 DEF due
  <1>9. OpenBids' = OpenBids
    BY DEF OpenBids, Open, bids
  <1>10. /\ balance' \in [Holder -> Nat]
         /\ balance'["eosio.names"] >= names - due
         /\ \A c \in Bidder : balance'[c] = balance[c]
    <2>1. CASE balance' = Paid(balance, "eosio.names", r, proceeds[r])
      <3>1. due <= names
        BY <1>2, <1>3, <1>4, <1>5
      <3>2. balance' = Paid(balance, "eosio.names", r, due)
        BY <2>1 DEF due
      <3>3. balance \in [Holder -> Nat] /\ "eosio.names" \in Holder /\ r \in Holder /\ r # "eosio.names"
        BY <1>1, PartiesDiffer DEF TypeOK
      <3>4. \A c \in Bidder : c \in Holder \ {"eosio.names", r}
        BY PartiesDiffer
      <3>5. due <= balance["eosio.names"]
        BY <3>1 DEF names
      <3>6. /\ balance' \in [Holder -> Nat]
            /\ balance'["eosio.names"] = names - due
            /\ \A h \in Holder \ {"eosio.names", r} : balance'[h] = balance[h]
        BY <1>3, <3>2, <3>3, <3>5, TransferEffect DEF names
      <3> QED
        BY <1>2, <1>3, <3>4, <3>6
    <2>2. CASE UNCHANGED balance
      BY <1>1, <1>2, <1>3, <2>2 DEF TypeOK, names
    <2> QED
      BY <2>1, <2>2
  <1>11. AuctionInv'
    <2>1. TypeOK'
      BY <1>1, <1>7, <1>10 DEF TypeOK, bids, refunds, clocks
    <2>2. SumsAreFinite'
      BY <1>1, <1>6, <1>8, <1>9 DEF SumsAreFinite
    <2>3. balance'["eosio.names"] \in Nat
      BY <1>10, PartiesDiffer
    <2>4. SumOf(OpenBids') + SumOf(bid_refunds') + SumOf(proceeds') <= balance'["eosio.names"]
      BY <1>2, <1>3, <1>4, <1>5, <1>6, <1>8, <1>9, <1>10, <2>3
    <2> QED
      BY <2>1, <2>2, <2>4 DEF AuctionInv, NamesCoverClaims
  <1> QED
    BY <1>1, <1>6, <1>10, <1>11, AssetsKept

\* Time that is counted stays within its bound.
LEMMA LaterInRange ==
  ASSUME NEW low \in Int, NEW bound \in Nat, low <= bound, NEW time \in low .. bound + 1
  PROVE  Later(time, bound) \in low .. bound + 1
  BY DEF Later

\* The clock touches no claim.
LEMMA TickStep ==
  ASSUME AuctionInv, Tick
  PROVE  /\ AuctionInv'
         /\ \A c \in Bidder : BidderAssets(c)' = BidderAssets(c) - BidsWon(c)
  <1>1. TypeOK
    BY DEF AuctionInv, NamesCoverClaims
  <1>2. Day \in Nat /\ ActivationDelay \in Nat
    BY NameAuctionAssumption
  <1>3. quiet' \in [Name -> 0 .. Day + 1]
    <2> SUFFICES ASSUME NEW n \in Name
                 PROVE  (IF high_bid[n] = 0 THEN 0 ELSE Later(quiet[n], Day)) \in 0 .. Day + 1
      BY DEF Tick
    <2>1. quiet[n] \in 0 .. Day + 1 /\ 0 \in 0 .. Day + 1 /\ 0 <= Day
      BY <1>1, <1>2 DEF TypeOK
    <2>2. Later(quiet[n], Day) \in 0 .. Day + 1
      BY <1>2, <2>1, LaterInRange, 0 \in Int
    <2> QED
      BY <2>1, <2>2
  <1>4. since_close' \in 0 .. Day + 1
    <2>1. since_close \in 0 .. Day + 1 /\ 0 <= Day
      BY <1>1, <1>2 DEF TypeOK
    <2> QED
      BY <1>2, <2>1, LaterInRange, 0 \in Int DEF Tick
  <1>5. activated_for' \in NotActivated .. ActivationDelay + 1
    <2>1. activated_for \in NotActivated .. ActivationDelay + 1
      BY <1>1 DEF TypeOK
    <2>2. NotActivated \in Int /\ NotActivated <= ActivationDelay
      BY <1>2 DEF NotActivated
    <2>3. activated_for' = Later(activated_for, ActivationDelay)
      BY DEF Tick
    <2> QED
      BY <1>2, <2>1, <2>2, <2>3, LaterInRange
  <1>6. TypeOK'
    BY <1>1, <1>3, <1>4, <1>5 DEF TypeOK, Tick, bids, refunds
  <1> QED
    BY <1>6, ClaimsKept DEF Tick, refunds

-----------------------------------------------------------------------------

\* Every step keeps the invariant and takes no bid from a bidder but those of
\* the auctions it wins.
LEMMA AuctionStep ==
  ASSUME AuctionInv, [Next]_vars
  PROVE  /\ AuctionInv'
         /\ \A c \in Bidder : BidderAssets(c)' = BidderAssets(c) - BidsWon(c)
  <1> DEFINE Good == /\ AuctionInv'
                     /\ \A c \in Bidder : BidderAssets(c)' = BidderAssets(c) - BidsWon(c)
  <1>1. TypeOK
    BY DEF AuctionInv, NamesCoverClaims
  <1>2. ASSUME NEW b \in Bidder, NEW n \in Name, NEW q \in BidAmounts, BidName(b, n, q)
        PROVE  Good
    BY <1>2, BidNameStep
  <1>3. ASSUME NEW b \in Bidder, NEW n \in Name, BidRefund(b, n)
        PROVE  Good
    BY <1>3, PayBidRefundStep DEF BidRefund
  <1>4. ASSUME NEW b \in Bidder, NEW n \in Name, RunDeferred(b, n)
        PROVE  Good
    <2>1. deferred' \subseteq deferred /\ UNCHANGED <<accounts, bids, clocks, proceeds>>
      BY <1>4 DEF RunDeferred
    <2>2. CASE PayBidRefund(b, n)
      BY <2>1, <2>2, PayBidRefundStep
    <2>3. CASE UNCHANGED <<bid_refunds, balance>>
      <3>1. TypeOK'
        BY <1>1, <2>1, <2>3 DEF TypeOK, bids, clocks
      <3> QED
        BY <2>1, <2>3, <3>1, ClaimsKept
    <2> QED
      BY <1>4, <2>2, <2>3 DEF RunDeferred
  <1>5. ASSUME NEW b \in Bidder, NEW n \in Name, LoseDeferred(b, n)
        PROVE  Good
    <2>1. TypeOK'
      BY <1>1, <1>5 DEF LoseDeferred, TypeOK, bids, clocks
    <2> QED
      BY <1>5, <2>1, ClaimsKept DEF LoseDeferred
  <1>6. ASSUME NEW b \in Bidder, NEW n \in Name, NewAccount(b, n)
        PROVE  Good
    BY <1>6, NewAccountStep
  <1>7. ASSUME NEW n \in Name, OnBlock(n)
        PROVE  Good
    BY <1>7, OnBlockStep
  <1>8. ASSUME NEW n \in Name, NewSystemAccount(n)
        PROVE  Good
    <2>1. TypeOK'
      BY <1>1, <1>8 DEF NewSystemAccount, TypeOK, bids, refunds, clocks
    <2> QED
      BY <1>8, <2>1, ClaimsKept DEF NewSystemAccount, refunds
  <1>9. ASSUME RunRex
        PROVE  Good
    <2>1. "eosio.rex" \in Recipient
      BY DEF Recipient
    <2> QED
      BY <1>9, <2>1, PassOnStep DEF RunRex
  <1>10. ASSUME DistributeNamebid
         PROVE  Good
    <2>1. "eosio.srpool" \in Recipient
      BY DEF Recipient
    <2> QED
      BY <1>10, <2>1, PassOnStep DEF DistributeNamebid
  <1>11. ASSUME Activate
         PROVE  Good
    <2>1. activated_for' \in NotActivated .. ActivationDelay + 1
      BY <1>11, NameAuctionAssumption DEF Activate, NotActivated
    <2>2. TypeOK'
      BY <1>1, <1>11, <2>1 DEF Activate, TypeOK, bids, refunds
    <2> QED
      BY <1>11, <2>2, ClaimsKept DEF Activate, refunds
  <1>12. ASSUME Tick
         PROVE  Good
    BY <1>12, TickStep
  <1>13. ASSUME UNCHANGED vars
         PROVE  Good
    <2>1. TypeOK'
      BY <1>1, <1>13 DEF vars, TypeOK, bids, refunds, clocks
    <2> QED
      BY <1>13, <2>1, ClaimsKept DEF vars, refunds
  <1> HIDE DEF Good
  <1>14. Good
    BY <1>2, <1>3, <1>4, <1>5, <1>6, <1>7, <1>8, <1>9, <1>10, <1>11, <1>12, <1>13 DEF Next
  <1> QED
    BY <1>14 DEF Good

\* No bids, no refunds and no proceeds: all claims are zero.
LEMMA AuctionInit == Init => AuctionInv
  <1> SUFFICES ASSUME Init
               PROVE  AuctionInv
    OBVIOUS
  <1>1. TypeOK
    <2>1. balance \in [Holder -> Nat]
      BY NameAuctionAssumption DEF Init
    <2>2. accounts \subseteq Name
      BY NameAuctionAssumption DEF Init
    <2>3. Day + 1 \in 0 .. Day + 1 /\ 0 \in 0 .. Day + 1
      BY NameAuctionAssumption
    <2>4. NotActivated \in NotActivated .. ActivationDelay + 1
      BY NameAuctionAssumption DEF NotActivated
    <2> QED
      BY <2>1, <2>2, <2>3, <2>4 DEF Init, TypeOK
  <1>2. /\ OpenBids = [n \in Name |-> 0]
        /\ bid_refunds = [x \in Name \X Bidder |-> 0]
        /\ proceeds = [r \in Recipient |-> 0]
    BY DEF Init, OpenBids, Open
  <1>3. /\ SumsAreFinite
        /\ SumOf(OpenBids) = 0 /\ SumOf(bid_refunds) = 0 /\ SumOf(proceeds) = 0
    BY <1>2, SumOfZeros DEF SumsAreFinite
  <1>4. balance["eosio.names"] \in Nat
    BY <1>1, PartiesDiffer DEF TypeOK
  <1> QED
    BY <1>1, <1>3, <1>4 DEF AuctionInv, NamesCoverClaims

\* eosio.names covers the open bids, the refunds and the proceeds at all times.
THEOREM AuctionCoversClaims == Spec => []NamesCoverClaims
  <1>1. Init => AuctionInv
    BY AuctionInit
  <1>2. AuctionInv /\ [Next]_vars => AuctionInv'
    BY AuctionStep
  <1>3. AuctionInv => NamesCoverClaims
    BY DEF AuctionInv
  <1> QED
    BY <1>1, <1>2, <1>3, PTL DEF Spec

\* A bidder parts with the bids of the auctions it wins, and with no others.
THEOREM AuctionOnlyWinnersPay == Spec => OnlyWinnersPay
  <1>1. Init => AuctionInv
    BY AuctionInit
  <1>2. AuctionInv /\ [Next]_vars => AuctionInv'
    BY AuctionStep
  <1>3. AuctionInv /\ [Next]_vars
          => [\A b \in Bidder : BidderAssets(b)' = BidderAssets(b) - BidsWon(b)]_vars
    BY AuctionStep
  <1> QED
    BY <1>1, <1>2, <1>3, PTL DEF Spec, OnlyWinnersPay
==============================================================================
