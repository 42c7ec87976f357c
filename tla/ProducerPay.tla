------------------------------ MODULE ProducerPay -----------------------------
(***************************************************************************)
(* The pay of block producers (producer_pay.cpp): onblock counts blocks,   *)
(* claimrewards fills two buckets from inflation and pays a producer its   *)
(* part of them.  The part of the second bucket goes by votes times the    *)
(* time they were held, kept up to date by every change of votes           *)
(* (voting.cpp): a producer that has not claimed for three days stops      *)
(* earning it.                                                             *)
(*                                                                         *)
(* Times are days, votes and shares whole numbers; the inflation of a day  *)
(* is any amount up to a bound.  Producers in Legacy registered before the *)
(* producers2 table existed and have no row in it yet.                     *)
(***************************************************************************)
EXTENDS LedgerArithmetic, TokenLedger

CONSTANTS
  Producer,      \* accounts that may register
  Legacy,        \* those registered before producers2 existed
  Never,         \* a time_point() that was never set
  LastTime,      \* the last day considered
  MaxVotes,      \* bound on the votes of a producer
  MaxUnpaid,     \* bound on the blocks not yet paid for
  MaxInflation,  \* bound on the tokens issued for one day
  Precision,     \* pay_factor_precision
  Factors,       \* values given to inflation_pay_factor and votepay_factor
  MinVotePay,    \* min_pervote_daily_pay
  MaxRevision    \* greatest revision the chain is moved to

ASSUME ProducerPayAssumption ==
  /\ IsFiniteSet(Producer) /\ Legacy \subseteq Producer
  /\ LastTime \in Nat /\ Never \notin Nat
  /\ MaxVotes \in Nat \ {0} /\ MaxUnpaid \in Nat /\ MaxInflation \in Nat
  /\ Precision \in Nat \ {0} /\ MinVotePay \in Nat /\ MaxRevision \in {0, 1}
  /\ Factors \subseteq Nat /\ Factors # {} /\ \A f \in Factors : f >= Precision

VARIABLES
  now,          \* current_time_point()
  activated,    \* thresh_activated_stake_time is set
  roster,       \* [registered, active, second]: rows of producers, those
                \* that are active, rows of producers2
  total_votes,  \* producer_info::total_votes
  last_claim_time,
  unpaid_blocks,
  votepay_share,              \* producer_info2::votepay_share
  last_votepay_share_update,  \* producer_info2::last_votepay_share_update
  global,       \* what update_total_votepay_share keeps up to date
  revision,
  buckets,      \* perblock_bucket, pervote_bucket, last_pervote_bucket_fill
                \* and total_unpaid_blocks
  factors,      \* inflation_pay_factor and votepay_factor
  balance       \* core tokens of eosio.bpay and eosio.vpay

shares == <<votepay_share, last_votepay_share_update, global>>
vars == <<now, activated, roster, total_votes, last_claim_time, unpaid_blocks,
          shares, revision, buckets, factors, balance>>

Threshold == 3   \* days without a claim after which votes earn nothing

VoteWeight == SumOf(total_votes)   \* total_producer_vote_weight

-----------------------------------------------------------------------------

Init ==
  /\ now = 0 /\ activated \in BOOLEAN
  /\ roster = [registered |-> Legacy, active |-> Legacy, second |-> {}]
  /\ total_votes \in [Producer -> 0 .. 1] /\ \A p \in Producer \ Legacy : total_votes[p] = 0
  /\ last_claim_time \in [Producer -> {0, Never}]
  /\ \A p \in Producer \ Legacy : last_claim_time[p] = Never
  /\ unpaid_blocks = [p \in Producer |-> 0]
  /\ votepay_share = [p \in Producer |-> 0]
  /\ last_votepay_share_update = [p \in Producer |-> 0]
  /\ global = [total_producer_votepay_share |-> 0, total_vpay_share_change_rate |-> 0,
               last_vpay_state_update |-> 0]
  /\ revision = 0
  /\ buckets = [perblock |-> 0, pervote |-> 0, last_fill |-> Never, unpaid |-> 0]
  /\ factors \in [inflation_pay : Factors, votepay : Factors]
  /\ balance = [bpay |-> 0, vpay |-> 0]

\* Days without end since an unset time: the epoch was long ago.
Since(t) == IF t = Never THEN LastTime + Threshold + 1 ELSE now - t

\* update_total_votepay_share: the shares all producers gained since the last
\* update, and what is added to the shares and to their rate.
TotalUpdated(addedShares, addedRate) ==
  LET share == global.total_producer_votepay_share
               + global.total_vpay_share_change_rate * (now - global.last_vpay_state_update)
               + addedShares
      rate == global.total_vpay_share_change_rate + addedRate
  IN  [total_producer_votepay_share |-> IF share < 0 THEN 0 ELSE share,
       total_vpay_share_change_rate |-> IF rate < 0 THEN 0 ELSE rate,
       last_vpay_state_update |-> now]

\* crossed_threshold
Crossed(p) == Since(last_claim_time[p]) >= Threshold

\* updated_after_threshold: the share was already settled when the threshold
\* was crossed.
Settled(p) ==
  \/ last_claim_time[p] = Never
  \/ last_claim_time[p] + Threshold <= last_votepay_share_update[p]

\* update_producer_votepay_share: the share a producer has by now.
ShareNow(p) ==
  votepay_share[p] +
    IF Settled(p) THEN 0 ELSE total_votes[p] * (now - last_votepay_share_update[p])

\* A change of votes finds that a producer has not claimed for too long.
LosesShare(p) == p \in roster.second /\ Crossed(p) /\ ~Settled(p)

\* Faulty: the votes of a producer past the threshold still count.
RateGainUnsettled(p, delta) == IF p \in roster.second THEN delta ELSE 0

\* What a change of votes adds to the rate of all shares.
RateGain(p, delta) ==
  IF p \notin roster.second THEN 0
  ELSE IF ~Crossed(p) THEN delta
  ELSE IF ~Settled(p) THEN -total_votes[p]
  ELSE 0

\* The sum of integers whose positive and negative parts are naturals.
NetOver(S, f) ==
  SumOf([p \in S |-> IF f[p] > 0 THEN f[p] ELSE 0])
    - SumOf([p \in S |-> IF f[p] < 0 THEN -f[p] ELSE 0])

\* The loops of update_votes and propagate_weight_change over the producers
\* whose votes change, each by delta[p]; a ballot, but not a change passed on
\* by a proxy, also activates the chain.
ChangeVotes(S, delta) ==
  /\ S \subseteq roster.registered
  /\ \A p \in S : total_votes[p] + delta[p] \in 0 .. MaxVotes
  /\ LET touched == S \intersect roster.second
         losing == { p \in S : LosesShare(p) }
         lost == SumOf([p \in losing |-> ShareNow(p)])
         gain == NetOver(S, [p \in S |-> RateGain(p, delta[p])])
     IN  /\ votepay_share' = [p \in Producer |->
              IF p \in losing THEN 0
              ELSE IF p \in touched THEN ShareNow(p) ELSE votepay_share[p]]
         /\ last_votepay_share_update' = [p \in Producer |->
              IF p \in touched THEN now ELSE last_votepay_share_update[p]]
         /\ global' = TotalUpdated(-lost, gain)
  /\ total_votes' = [p \in Producer |-> total_votes[p] + IF p \in S THEN delta[p] ELSE 0]
  /\ activated' \in {activated, TRUE}
  /\ UNCHANGED <<now, roster, last_claim_time, unpaid_blocks, revision, buckets, factors, balance>>

\* The first three days without a claim start with the registration.
ClaimTimeOf(p) ==
  IF p \in roster.registered /\ last_claim_time[p] # Never THEN last_claim_time[p] ELSE now

\* regproducer, regproducer2
RegProducer(p) ==
  LET old == p \in roster.registered
  IN  /\ roster' = [registered |-> roster.registered \union {p},
                    active |-> roster.active \union {p},
                    second |-> roster.second \union {p}]
      /\ last_claim_time' = [last_claim_time EXCEPT ![p] = ClaimTimeOf(p)]
      /\ IF p \in roster.second
         THEN UNCHANGED shares
         ELSE /\ last_votepay_share_update' = [last_votepay_share_update EXCEPT ![p] = now]
              /\ global' = IF old THEN TotalUpdated(0, total_votes[p]) ELSE global
              /\ UNCHANGED votepay_share
      /\ UNCHANGED <<now, activated, total_votes, unpaid_blocks, revision, buckets, factors, balance>>

\* unregprod, rmvproducer
Deactivate(p) ==
  /\ p \in roster.registered
  /\ roster' = [roster EXCEPT !.active = @ \ {p}]
  /\ UNCHANGED <<now, activated, total_votes, last_claim_time, unpaid_blocks, shares,
                 revision, buckets, factors, balance>>

\* onblock, for a block of an account that may or may not have registered.
OnBlock(p) ==
  /\ activated
  /\ LET counted == p \in roster.registered
     IN  /\ counted => buckets.unpaid < MaxUnpaid
         /\ unpaid_blocks' = IF counted THEN [unpaid_blocks EXCEPT ![p] = @ + 1] ELSE unpaid_blocks
         /\ buckets' = [buckets EXCEPT
              !.unpaid = @ + IF counted THEN 1 ELSE 0,
              !.last_fill = IF @ = Never THEN now ELSE @]
  /\ UNCHANGED <<now, activated, roster, total_votes, last_claim_time, shares, revision,
                 factors, balance>>

\* What of newly issued tokens goes to each bucket; the rest are savings.
ToProducers(new) == (new * Precision) \div factors.inflation_pay
ToPerBlock(new) == (ToProducers(new) * Precision) \div factors.votepay
ToPerVote(new) == ToProducers(new) - ToPerBlock(new)

\* The bucket is filled by a claim.
Fills == buckets.last_fill # Never /\ now > buckets.last_fill

PerBlockPay(p, bucket) ==
  IF buckets.unpaid > 0 THEN (bucket * unpaid_blocks[p]) \div buckets.unpaid ELSE 0

AtMost(n, limit) == IF n > limit THEN limit ELSE n

\* A producer without a row in producers2 counts as settled.
SettledOrNew(p) == p \notin roster.second \/ Settled(p)

ClaimShare(p) == IF p \in roster.second THEN ShareNow(p) ELSE 0

\* The pay per vote before small amounts are left for later.
PerVotePart(p, bucket) ==
  LET total == TotalUpdated(0, 0).total_producer_votepay_share
  IN  IF revision > 0
      THEN IF total > 0 /\ ~Crossed(p)
           THEN AtMost((ClaimShare(p) * bucket) \div total, bucket)
           ELSE 0
      ELSE IF VoteWeight > 0 THEN (bucket * total_votes[p]) \div VoteWeight ELSE 0

PerVotePay(p, bucket) ==
  LET part == PerVotePart(p, bucket) IN IF part < MinVotePay THEN 0 ELSE part

PerVoteLeft(p, bucket) == bucket - PerVotePay(p, bucket)

\* The votes of a producer settled after the threshold count again.
RateRegained(p) == IF SettledOrNew(p) THEN total_votes[p] ELSE 0

\* Faulty: a claim starts the count anew for everybody.
BlocksLeftNone(p) == 0

BlocksLeft(p) == buckets.unpaid - unpaid_blocks[p]

\* What claimrewards checks.
MayClaim(p) ==
  /\ p \in roster.active
  /\ activated
  /\ Since(last_claim_time[p]) > 1

\* claimrewards, when the given amount of tokens is issued first.
ClaimRewards(p, new) ==
  /\ MayClaim(p)
  /\ new \in 0 .. IF Fills THEN MaxInflation * (now - buckets.last_fill) ELSE 0
  /\ LET perblock == buckets.perblock + ToPerBlock(new)
         pervote == buckets.pervote + ToPerVote(new)
         blockPay == PerBlockPay(p, perblock)
         votePay == PerVotePay(p, pervote)
         funded == [bpay |-> balance.bpay + ToPerBlock(new), vpay |-> balance.vpay + ToPerVote(new)]
     IN  /\ blockPay > 0 => CanPay(funded, "bpay", blockPay)
         /\ votePay > 0 => CanPay(funded, "vpay", votePay)
         /\ buckets' = [perblock |-> perblock - blockPay, pervote |-> PerVoteLeft(p, pervote),
                        last_fill |-> IF Fills THEN now ELSE buckets.last_fill,
                        unpaid |-> BlocksLeft(p)]
         /\ balance' = [bpay |-> funded.bpay - blockPay, vpay |-> funded.vpay - votePay]
  /\ global' = TotalUpdated(-ClaimShare(p), RateRegained(p))
  /\ votepay_share' = [votepay_share EXCEPT ![p] = 0]
  /\ last_votepay_share_update' = [last_votepay_share_update EXCEPT ![p] = now]
  /\ last_claim_time' = [last_claim_time EXCEPT ![p] = now]
  /\ unpaid_blocks' = [unpaid_blocks EXCEPT ![p] = 0]
  /\ roster' = [roster EXCEPT !.second = @ \union {p}]
  /\ UNCHANGED <<now, activated, total_votes, revision, factors>>

UpdtRevision ==
  /\ revision < MaxRevision
  /\ revision' = revision + 1
  /\ UNCHANGED <<now, activated, roster, total_votes, last_claim_time, unpaid_blocks,
                 shares, buckets, factors, balance>>

SetInflation(inflationPay, votepay) ==
  /\ factors' = [inflation_pay |-> inflationPay, votepay |-> votepay]
  /\ UNCHANGED <<now, activated, roster, total_votes, last_claim_time, unpaid_blocks,
                 shares, revision, buckets, balance>>

NextDay ==
  /\ now < LastTime
  /\ now' = now + 1
  /\ UNCHANGED <<activated, roster, total_votes, last_claim_time, unpaid_blocks, shares,
                 revision, buckets, factors, balance>>

Next ==
  \/ \E S \in SUBSET Producer \ {{}} :
       \E delta \in [S -> -MaxVotes .. MaxVotes] : ChangeVotes(S, delta)
  \/ \E p \in Producer :
       \/ RegProducer(p)
       \/ Deactivate(p)
       \/ OnBlock(p)
       \/ \E new \in 0 .. MaxInflation * LastTime : ClaimRewards(p, new)
  \/ UpdtRevision
  \/ \E f, g \in Factors : SetInflation(f, g)
  \/ NextDay

Spec == Init /\ [][Next]_vars

-----------------------------------------------------------------------------

TypeOK ==
  /\ now \in 0 .. LastTime /\ activated \in BOOLEAN /\ revision \in 0 .. MaxRevision
  /\ roster.active \subseteq roster.registered /\ roster.registered \subseteq Producer
  /\ roster.second \subseteq roster.registered
  /\ total_votes \in [Producer -> 0 .. MaxVotes]
  /\ last_claim_time \in [Producer -> 0 .. now \union {Never}]
  /\ \A p \in roster.second : last_claim_time[p] # Never
  /\ unpaid_blocks \in [Producer -> Nat]
  /\ votepay_share \in [Producer -> Nat]
  /\ last_votepay_share_update \in [Producer -> 0 .. now]
  /\ global \in [total_producer_votepay_share : Nat, total_vpay_share_change_rate : Nat,
                 last_vpay_state_update : 0 .. now]
  /\ buckets \in [perblock : Nat, pervote : Nat, last_fill : 0 .. now \union {Never}, unpaid : Nat]
  /\ factors \in [inflation_pay : Factors, votepay : Factors]
  /\ balance \in [bpay : Nat, vpay : Nat]

\* total_unpaid_blocks, by which pay per block is shared, is the number of
\* blocks some producer is still to be paid for, also of those that have
\* unregistered since.
BlocksAddUp == buckets.unpaid = SumOf(unpaid_blocks)

\* The buckets are exactly what eosio.bpay and eosio.vpay hold.
BucketsBacked == buckets.perblock = balance.bpay /\ buckets.pervote = balance.vpay

\* A producer earns vote pay until it is found past the threshold.
Counted == { p \in roster.second : ~Settled(p) }

\* The rate at which the shares of all producers grow is the votes of those
\* that earn: each once, however late it claims, registers or is voted for.
RateAddsUp ==
  global.total_vpay_share_change_rate = SumOf([p \in Counted |-> total_votes[p]])

\* "the producers votes need to be counted in the global
\* total_producer_votepay_share for the first time": they are counted once.
VotesCountOnce == global.total_vpay_share_change_rate <= VoteWeight

\* The total extrapolated from that one rate is what the producers' shares,
\* brought up to date one by one at other times, add up to.
SharesAddUp ==
  /\ RateAddsUp
  /\ TotalUpdated(0, 0).total_producer_votepay_share = SumOf([p \in Counted |-> ShareNow(p)])
  /\ \A p \in Producer \ Counted : votepay_share[p] = 0

\* No producer is owed more than the buckets hold: no claim is refused by the
\* token contract, and the cap on the pay per vote never bites.
ClaimsArePayable ==
  \A p \in roster.active : MayClaim(p) =>
    /\ PerBlockPay(p, buckets.perblock) <= balance.bpay
    /\ PerVotePay(p, buckets.pervote) <= balance.vpay
    /\ ClaimShare(p) <= TotalUpdated(0, 0).total_producer_votepay_share

\* The books of the two buckets agree with the producers and the tokens, and
\* every claim can be paid from them, in whatever order producers claim,
\* unregister and return.
PayIsBacked == TypeOK /\ BlocksAddUp /\ BucketsBacked /\ ClaimsArePayable
==============================================================================
