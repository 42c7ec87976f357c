----------------------------- MODULE StakingPool -----------------------------
(***************************************************************************)
(* The staking pools of eosio.system (staking_pool.cpp, staking_pool.hpp): *)
(* stake2pool, claimstake, transferstake and upgradestake, and the fees    *)
(* that raise the value of all shares.  Tokens in pools are held by        *)
(* eosio.srpool; each pool sells shares of itself, at the price its        *)
(* balance gives them.  Whatever changes an account's shares recounts its  *)
(* votes.                                                                  *)
(*                                                                         *)
(* Shares are doubles in the code; here they are whole numbers of a        *)
(* fraction 1/Unit of the first token's share, rounded down.               *)
(***************************************************************************)
EXTENDS PoolVotes

CONSTANTS
  Unit,               \* shares of the first token in an empty pool
  Period,             \* each pool's claim_period, in slots
  Duration,           \* each pool's duration, in slots
  MinTransferCreate,  \* staking_pool_state::min_transfer_create
  Wealth,             \* tokens an account has at first
  Amounts,            \* amounts requested in one action
  Fees,               \* amounts of fees and winning bids
  MaxPooled,          \* bound on the tokens of the pools, for fees
  LastSlot            \* the last slot considered

StakingPoolConstants ==
  /\ PoolVotesConstants
  /\ Unit \in Nat \ {0}
  /\ Period \in [Pool -> Nat \ {0}] /\ Duration \in [Pool -> Nat]
  /\ \A i \in Pool : Period[i] < Duration[i]
  /\ MinTransferCreate \in Nat /\ Wealth \in Nat
  /\ Amounts \subseteq Nat \ {0} /\ Fees \subseteq Nat \ {0}
  /\ MaxPooled \in Nat /\ LastSlot \in Nat

VARIABLES
  pools,             \* each pool's balance and total_shares
  next_claim,        \* pool_voter::next_claim
  tokens,            \* what accounts hold
  srpool,            \* what eosio.srpool holds
  namebid_proceeds,  \* staking_pool_state::namebid_proceeds
  now                \* the current slot

money == <<pools, next_claim, tokens, srpool, namebid_proceeds>>
vars == <<votingVars, money, now>>

Smaller(m, n) == IF m <= n THEN m ELSE n
Larger(m, n) == IF m <= n THEN n ELSE m

-----------------------------------------------------------------------------
(* The class pool.                                                         *)

\* Faulty: shares are sold as if tokens and shares were worth the same.
SharesAtPar(pool, amount) == amount * Unit

\* simulate_buy: the shares that an amount buys.
SharesFor(pool, amount) ==
  IF pool.shares = 0 THEN amount * Unit ELSE (amount * pool.shares) \div pool.balance

\* simulate_sell: the amount that shares are worth.
Value(pool, shares) ==
  IF shares = 0 THEN 0
  ELSE IF shares >= pool.shares THEN pool.balance
  ELSE (shares * pool.balance) \div pool.shares

\* simulate_sell: the shares that have to be sold for an amount.
SharesWorth(pool, amount) ==
  IF amount = pool.balance THEN pool.shares ELSE (amount * pool.shares) \div pool.balance

Bought(pool, amount, shares) ==
  [balance |-> pool.balance + amount, shares |-> pool.shares + shares]

Sold(pool, shares) ==
  [balance |-> pool.balance - Value(pool, shares), shares |-> pool.shares - shares]

-----------------------------------------------------------------------------
(* deposit_pool and withdraw_pool.                                         *)

\* Faulty: an owner who could claim long ago has that much less to wait.
ClaimAfterDepositEarly(i, pool, shares, next, amount) ==
  LET current == Value(pool, shares)
  IN  (next * current + (now + Period[i]) * amount) \div (current + amount)

\* When an owner may claim who deposits: new stake has a whole period to wait,
\* which is averaged with what the stake it had still has to wait.
ClaimAfterDeposit(i, pool, shares, next, amount) ==
  LET current == Value(pool, shares)
  IN  (Larger(next, now) * current + (now + Period[i]) * amount) \div (current + amount)

\* What may be withdrawn at once.
Available(i, balance, claiming) ==
  IF claiming THEN (balance * Period[i]) \div Duration[i] ELSE balance

\* The shares to sell for a requested amount.
SharesToSell(i, pool, shares, requested, claiming) ==
  LET balance == Value(pool, shares)
      amount == Smaller(Available(i, balance, claiming), requested)
  IN  IF ~claiming /\ requested >= balance THEN shares
      ELSE Smaller(SharesWorth(pool, amount), shares)

-----------------------------------------------------------------------------
(* Fees.                                                                   *)

ActivePools == {i \in Pool : pools[i].shares > 0}

\* Faulty: what cannot be divided evenly reaches no pool.
ShareOfPool(i, amount) == amount \div Cardinality(ActivePools)

\* A pool's part of an amount that is divided between the pools with shares.
PartOfPool(i, amount) ==
  LET n == Cardinality(ActivePools)
      k == Cardinality({j \in ActivePools : j <= i})
  IN  (amount * k) \div n - (amount * (k - 1)) \div n

\* The pools after an amount was divided between those with shares.
Adjusted(amount) ==
  [i \in Pool |->
     IF i \in ActivePools THEN [pools[i] EXCEPT !.balance = @ + PartOfPool(i, amount)]
     ELSE pools[i]]

\* distribute_namebid_to_pools: what it hands to pools with shares.
Proceeds == IF ActivePools = {} THEN 0 ELSE namebid_proceeds

-----------------------------------------------------------------------------

Init ==
  /\ VotingInit
  /\ pools = [i \in Pool |-> [balance |-> 0, shares |-> 0]]
  /\ next_claim = [a \in Account |-> [i \in Pool |-> 0]]
  /\ tokens = [a \in Account |-> Wealth]
  /\ srpool = 0
  /\ namebid_proceeds = 0
  /\ now = 0

\* What ends every action that changes an account's shares.
Recount(a) ==
  /\ MayBeRecounted(a)
  /\ books' = Recounted(books, a, owned_shares')

Stake2Pool(a, i, amount) ==
  LET new == SharesFor(pools[i], amount)
  IN  /\ new > 0
      /\ tokens[a] >= amount
      /\ tokens' = [tokens EXCEPT ![a] = @ - amount]
      /\ srpool' = srpool + amount
      /\ pools' = [pools EXCEPT ![i] = Bought(@, amount, new)]
      /\ owned_shares' = [owned_shares EXCEPT ![a][i] = @ + new]
      /\ next_claim' = [next_claim EXCEPT
           ![a][i] = ClaimAfterDeposit(i, pools[i], owned_shares[a][i], @, amount)]
      /\ pool_voters' = pool_voters \union {a}
      /\ Recount(a)
      /\ UNCHANGED <<is_proxy, ballots, roster, namebid_proceeds, now>>

\* setpoolnotif; the flags only matter to transferstake's notifications.
SetPoolNotif(a) ==
  /\ pool_voters' = pool_voters \union {a}
  /\ UNCHANGED <<owned_shares, is_proxy, ballots, books, roster, money, now>>

\* claimstake distributes the proceeds of auctions first, so that the claim
\* shares in them.
ClaimStake(a, i, requested) ==
  LET adjusted == Adjusted(Proceeds)
      pool == adjusted[i]
      shares == SharesToSell(i, pool, owned_shares[a][i], requested, TRUE)
      claimed == Value(pool, shares)
  IN  /\ check_pool_requirements(proxy[a], producers[a])
      /\ now >= next_claim[a][i]
      /\ owned_shares[a][i] > 0
      /\ shares > 0 /\ claimed > 0
      /\ pools' = [adjusted EXCEPT ![i] = Sold(@, shares)]
      /\ namebid_proceeds' = namebid_proceeds - Proceeds
      /\ srpool' = srpool + Proceeds - claimed
      /\ tokens' = [tokens EXCEPT ![a] = @ + claimed]
      /\ owned_shares' = [owned_shares EXCEPT ![a][i] = @ - shares]
      /\ next_claim' = [next_claim EXCEPT ![a][i] = now + Period[i]]
      /\ Recount(a)
      /\ UNCHANGED <<pool_voters, is_proxy, ballots, roster, now>>

\* transferstake: the amount is withdrawn, and bought back by the receiver at
\* the price this leaves; the votes of both are recounted, the sender's first.
TransferStake(from, to, i, requested) ==
  LET shares == SharesToSell(i, pools[i], owned_shares[from][i], requested, FALSE)
      amount == Value(pools[i], shares)
      left == Sold(pools[i], shares)
      new == SharesFor(left, amount)
  IN  /\ from # to
      /\ from \in pool_voters
      /\ to \in pool_voters \/ requested >= MinTransferCreate
      /\ amount > 0
      /\ new > 0
      /\ pools' = [pools EXCEPT ![i] = Bought(left, amount, new)]
      /\ owned_shares' = [owned_shares EXCEPT ![from][i] = @ - shares, ![to][i] = @ + new]
      /\ next_claim' = [next_claim EXCEPT
           ![to][i] = ClaimAfterDeposit(i, left, owned_shares[to][i], @, amount)]
      /\ pool_voters' = pool_voters \union {to}
      /\ MayBeRecounted(from) /\ MayBeRecounted(to)
      /\ books' = Recounted(Recounted(books, from, owned_shares'), to, owned_shares')
      /\ UNCHANGED <<is_proxy, ballots, roster, tokens, srpool, namebid_proceeds, now>>

UpgradeStake(a, i, j, requested) ==
  LET shares == SharesToSell(i, pools[i], owned_shares[a][i], requested, FALSE)
      amount == Value(pools[i], shares)
      new == SharesFor(pools[j], amount)
  IN  /\ i < j
      /\ amount > 0
      /\ new > 0
      /\ pools' = [pools EXCEPT ![i] = Sold(@, shares), ![j] = Bought(@, amount, new)]
      /\ owned_shares' = [owned_shares EXCEPT ![a][i] = @ - shares, ![a][j] = @ + new]
      /\ next_claim' = [next_claim EXCEPT
           ![a][j] = ClaimAfterDeposit(j, pools[j], owned_shares[a][j], @, amount)]
      /\ Recount(a)
      /\ UNCHANGED <<pool_voters, is_proxy, ballots, roster, tokens, srpool,
                     namebid_proceeds, now>>

\* transition_channel_to_pools for RAM and power-up fees and the voters' part
\* of inflation: during the transition only a part reaches the pools, the rest
\* goes to REX.
TransitionChannelToPools(amount, toPools) ==
  /\ ActivePools # {}
  /\ toPools \in 1 .. amount
  /\ srpool + namebid_proceeds + toPools <= MaxPooled
  /\ pools' = Adjusted(toPools)
  /\ srpool' = srpool + toPools
  /\ UNCHANGED <<votingVars, next_claim, tokens, namebid_proceeds, now>>

\* channel_namebid_to_rex_or_pools, when an auction closes: the part for the
\* pools stays with eosio.names until the next claim.
ChannelNamebid(bid, toPools) ==
  /\ ActivePools # {}
  /\ toPools \in 1 .. bid
  /\ srpool + namebid_proceeds + toPools <= MaxPooled
  /\ namebid_proceeds' = namebid_proceeds + toPools
  /\ UNCHANGED <<votingVars, pools, next_claim, tokens, srpool, now>>

NextSlot ==
  /\ now < LastSlot
  /\ now' = now + 1
  /\ UNCHANGED <<votingVars, money>>

\* What changes stakes, fees and time.
StakeNext ==
  \/ \E a \in Account : SetPoolNotif(a)
  \/ \E a \in Account, i \in Pool, n \in Amounts :
       \/ Stake2Pool(a, i, n)
       \/ ClaimStake(a, i, n)
       \/ \E b \in Account : TransferStake(a, b, i, n)
       \/ \E j \in Pool : UpgradeStake(a, i, j, n)
  \/ \E n \in Fees, k \in 1 .. MaxPooled :
       TransitionChannelToPools(n, k) \/ ChannelNamebid(n, k)
  \/ NextSlot

Next ==
  \/ VotingNext /\ UNCHANGED <<money, now>>
  \/ StakeNext

Spec == Init /\ [][Next]_vars

-----------------------------------------------------------------------------

MoneyTypeOK ==
  /\ pools \in [Pool -> [balance : Nat, shares : Nat]]
  /\ next_claim \in [Account -> [Pool -> Nat]]
  /\ tokens \in [Account -> Nat]
  /\ srpool \in Nat /\ namebid_proceeds \in Nat
  /\ now \in 0 .. LastSlot

TypeOK == VotingTypeOK /\ MoneyTypeOK

\* A pool has given out exactly the shares that accounts own.
SharesAddUp ==
  \A i \in Pool : pools[i].shares = SumOf([a \in Account |-> owned_shares[a][i]])

\* eosio.srpool holds exactly what the pools account for, through fees that
\* cannot be divided evenly, claims, and transfers that round twice.
BalancesAreBacked == srpool = SumOf([i \in Pool |-> pools[i].balance])

\* A pool has a balance if and only if somebody owns a share of it: no tokens
\* are left to nobody, and no purchase is divided by an empty balance.
NoPoolIsStranded == \A i \in Pool : pools[i].shares = 0 <=> pools[i].balance = 0

\* The pools' books: tokens and shares of each pool, of all accounts and of
\* eosio.srpool agree however every amount was rounded.
PoolsAreSound == SharesAddUp /\ BalancesAreBacked /\ NoPoolIsStranded

StakesAreSound == MoneyTypeOK /\ PoolsAreSound

\* Whatever others stake, claim, transfer or upgrade, and whichever way their
\* amounts are rounded, an owner's stake never loses value.
KeepsValue ==
  \A a \in Account, i \in Pool :
    owned_shares'[a][i] = owned_shares[a][i] =>
      Value(pools'[i], owned_shares'[a][i]) >= Value(pools[i], owned_shares[a][i])

\* Nobody comes to claim sooner than it could have: not by staking more, by
\* being sent stake, nor by moving stake to another pool.
NoSooner == \A a \in Account, i \in Pool : next_claim'[a][i] >= next_claim[a][i]

\* Who doubles its stake in a pool, not counting up to a token by which rounding
\* may raise it before, waits half the period, however long ago it could have
\* claimed.
NewStakeWaits ==
  \A a \in Account, i \in Pool :
    LET before == Value(pools[i], owned_shares[a][i])
        after == Value(pools'[i], owned_shares'[a][i])
    IN  owned_shares'[a][i] > owned_shares[a][i] /\ after >= 2 * (before + 1) =>
          next_claim'[a][i] >= now + Period[i] \div 2
==============================================================================
