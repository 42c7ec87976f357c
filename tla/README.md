# A TLA+ model of eosio.system

`eosio.system` is the system contract of an EOSIO chain: it sells RAM, stakes
tokens for NET and CPU, elects and pays block producers, runs the REX resource
exchange, staking pools and the power-up market, and auctions account names.
Every operation is an *action* executed atomically inside a transaction, but
every property that matters is about *sequences* of actions by accounts that
know nothing of one another: counters kept in one table mirror rows of
others, rounding is repeated millions of times, and deferred transactions and
the passing of time interleave with everything.

Paths below are relative to `src/contracts/eosio.system/src/` unless they
start with `src/`; `hpp` is
`src/contracts/eosio.system/include/eosio.system/eosio.system.hpp`.

1. [The system](#1-the-system): parts, state, operations, interactions
2. [The modules](#2-the-modules): how state and actions correspond to the code
3. [The runs](#3-the-runs): what TLC checks, bounds, fairness
4. [The proofs](#4-the-proofs): theorems, assumptions, inductive invariants
5. [What is left out](#5-what-is-left-out)
6. [Plan](#6-plan)

---

## 1. The system

A transaction either applies completely or not at all: a failed `check` (or a
failed inline `eosio.token` transfer) aborts everything. Inside the contract
there is therefore no interleaving below the action; concurrency is the
arbitrary order of actions of different accounts, of `onblock` (run by the
node at every block), of deferred transactions (sent by the contract to
itself, run later by a block producer, possibly never) and of time, on whose
granularity much of the arithmetic depends.

### 1.1 RAM market (`delegate_bandwidth.cpp` 25-159, `exchange_state.cpp`, `eosio.system.cpp` 67-110)

*State.* The Bancor pair `_rammarket` (bytes on offer, tokens), the counters
`max_ram_size`, `total_ram_bytes_reserved`, `total_ram_stake`, the growth
`new_ram_per_block` and `last_ram_increase`, each account's
`user_resources::ram_bytes`, and the kernel's RAM limit of each account.
*Operations.* `buyram`, `buyrambytes`, `sellram`, `setram`, `setramrate`;
`update_ram_supply` runs before each of the first three and in `setramrate`.
*Interactions.* Tokens go to `eosio.ram`, the fee through `eosio.ramfee` to
staking pools or REX. `setacctram` takes an account's kernel limit away from
the market; `changebw` may raise it again.
*Hard.* Two representations of the same quantities updated by different code;
a price formula rounded at each step; 32-bit arithmetic in the supply; two
roundings in `buyrambytes` before `buyram` rounds again.
*Correct when* the pair mirrors the counters and the owned bytes; the tokens
of `eosio.ram` are exactly the stake accounted for; rounding never favours the
trader; everything sold could be bought back.

### 1.2 Delegation and refunds (`delegate_bandwidth.cpp` 161-411)

*State.* `del_bandwidth_table` (who staked what for whom), `user_resources`
(what each receiver got), `refunds_table` (one row per owner), the deferred
refund transaction of each owner (identified by the owner: sending replaces),
`voter_info::staked`, the kernel's NET and CPU weights, tokens in
`eosio.stake`.
*Operations.* `delegatebw` (also with the transfer flag), `undelegatebw`,
`refund`, and the deferred transaction that calls `refund` three days after
the last change.
*Interactions.* Every change ends in `update_voting_power`, which weighs the
owner's vote anew and for `b1` checks the vesting schedule; `setacctnet` and
`setacctcpu` detach the kernel's weights.
*Hard.* A refund under way may be extended (its clock restarts), partly staked
again, claimed by hand while the transaction is pending, or left without a
transaction.
*Correct when* `eosio.stake` backs exactly the delegations and refunds; totals,
votes and limits follow the delegations; nothing returns before the whole
delay; a refund left alone returns.

### 1.3 Voting and proxies (`voting.cpp` 224-439)

*State.* `voter_info` (`staked`, `producers`, `proxy`, `is_proxy`,
`last_vote_weight`, `proxied_vote_weight`), `producer_info::total_votes`,
`is_active`, `_gstate.total_producer_vote_weight`.
*Operations.* `regproducer`, `unregprod`, `voteproducer`, `regproxy`, and
`update_voting_power` from every change of stake.
*Interactions.* Weights are the base of elections (1.4) and of vote pay (1.5).
*Hard.* A vote is weighed with a factor that grows each week and only when its
owner acts; taking it back must use the *old* weight while passing changes
along chains of proxies uses the *new* one; the recursion ends only if proxies
never form a circle.
*Correct when* every proxy, every producer and the total has exactly the votes
last cast for it; no stale vote survives; no circle; and no ballot blocks a
later change of stake.

### 1.4 Producer schedule (`voting.cpp` 104-165)

*State.* `_gstate.last_producer_schedule_update`, `last_producer_schedule_size`.
*Operation.* `update_elected_producers`, at most once a minute from `onblock`,
takes the 21 most voted active producers (or, as pools take over, the top of
the pool votes). *Hard.* Whether a producer is active is kept in two tables,
`producers` and `total_pool_votes`, by registration before and after pools
exist and by two ways to leave. *Correct when* the tables agree, nobody gets two
seats, no active producer with more of both kinds of votes is passed over, and
producers that left or were outranked lose their seats, unless too few stand for
election.

### 1.5 Producer pay (`producer_pay.cpp`, `voting.cpp` 173-222)

*State.* Buckets `perblock_bucket`, `pervote_bucket`, `total_unpaid_blocks`,
per producer `unpaid_blocks`, `last_claim_time`, `votepay_share`,
`last_votepay_share_update`, and the global `total_producer_votepay_share`,
`total_vpay_share_change_rate`, `last_vpay_state_update`.
*Operations.* `onblock` counts blocks; `claimrewards` issues inflation, fills
the buckets and pays; each vote updates shares.
*Hard.* The global share is integrated lazily: it must equal the sum of the
producers' shares, each extrapolated from its own last update, while producers
that have not claimed for three days drop out in whichever action notices.
*Correct when* the buckets are backed by `eosio.bpay` and `eosio.vpay`, unpaid
blocks add up, and the rate and share are those of the counted producers.

### 1.6 Name auction (`name_bidding.cpp`, `producer_pay.cpp` 50-66, `eosio.system.cpp` 326-352)

*State.* `namebids` (a closed auction has a negative bid), `bidrefunds`,
deferred refund per name and bidder, tokens in `eosio.names`, proceeds owed to
REX or pools.
*Operations.* `bidname`, `bidrefund`, closing one auction a day in `onblock`,
claiming by `newaccount`.
*Correct when* `eosio.names` covers open bids, refunds and proceeds; a bidder
never loses a bid without winning or a refund; one close a day, to the highest.

### 1.7 REX (`rex.cpp`)

*State.* `rexpool` (`total_lent`, `total_unlent`, `total_rent`,
`total_lendable`, `total_rex`, `namebid_proceeds`), the return pool and its
buckets, `rexfund`, `rexbal` (`vote_stake`, `matured_rex`, maturity buckets,
savings), CPU and NET loans, the queue of sell orders.
*Operations.* `deposit`, `withdraw`, `buyrex`, `unstaketorex`, `sellrex`,
`cnclrexorder`, `rentcpu`, `rentnet`, `fundcpuloan`, `fundnetloan`,
`defcpuloan`, `defnetloan`, `updaterex`, `setrex`, `rexexec`, `consolidate`,
`mvtosavings`, `mvfrsavings`, `closerex`; almost each first runs `runrex(2)`,
which distributes returns, expires or renews loans and fills queued orders.
*Hard.* A queue of orders filled by other accounts' actions with proceeds
collected later; maturity buckets, savings and open orders overlapping on one
balance; returns distributed in arrears; integer prices.
*Correct when* lendable = lent + unlent, REX supply is the sum of balances,
balances are the sum of their buckets, an open order is covered by matured
REX, loans sum to `total_lent`, and `eosio.rex` backs all of it.

### 1.8 Staking pools (`staking_pool.cpp`)

*State.* Pools (shares and balance), `pool_voter` (shares, votes, proxy, next
claim), per producer pool votes and `vote_pay`, interval counters.
*Operations.* `cfgsrpool`, `stake2pool`, `claimstake`, `transferstake`,
`upgradestake`, `votewithpool`, `regpoolproxy`, `updatevotes`, `updatepay`,
`claimvotepay`, `onblock_update_pool`, fee distribution.
*Correct when* `eosio.srpool` holds the sum of the pools and `eosio.bpspay` the
unclaimed pay, shares add up, pool votes of producers add up to the totals,
pay is given once per interval, and a holder cannot withdraw faster than the
claim schedule.

### 1.9 Power-up (`powerup.cpp`)

*State.* Per resource: weight, utilization, adjusted utilization, their times;
the queue of orders; the resources of `eosio.reserv`.
*Operations.* `cfgpowerup`, `powerup`, `powerupexec`.
*Correct when* utilization is the sum of the orders, the reserve has what is
not lent, and fees have their documented preconditions.

### 1.10 Resource limits and accounts (`eosio.system.cpp` 132-363)

`setalimits`, `setacctram`, `setacctnet`, `setacctcpu`, `newaccount`. *Hard.*
Delegations, REX loans, power-ups and the RAM market share one row of
`user_resources`; each creates it, three erase it, and each tells the kernel
on its own. *Correct when* the row is the sum of what the four have granted and
the limits that are not managed follow it.

### 1.11 The rest

`setpriv`, `setparams`, `setkvparams`, `activate`, `setinflation`,
`updtrevision`, `setabi`, the native stubs and the no-op result actions assign a
value or call the kernel. `rmvproducer` is `unregprod` on another authority. `eosio.token` is a contract of
another repository; `TokenLedger` states what this one relies on.

---

## 2. The modules

| module | models | kind |
|---|---|---|
| `TokenLedger` | transfers of `eosio.token` as this contract uses them | operators |
| `LedgerArithmetic` | sums over the rows of a table, truncated division, the Bancor formula, recursion along chains | operators, lemmas |
| `RamReserve` | what the RAM market promises | abstract specification |
| `RamMarket` | 1.1 and `setacctram` | component |
| `StakeLock` | what staking promises a token holder | abstract specification |
| `Staking` | 1.2, `setacctnet`, `setacctcpu` | component |
| `Voting` | 1.3 | component |
| `PoolTable` | the producers' rows in `producers` and `total_pool_votes` | shared by the next and by `PoolPay` |
| `Election` | 1.4 | component |
| `ProducerPay` | 1.5, and the vote pay shares in 1.3; `setinflation`, `updtrevision` | component |
| `NameAuction` | 1.6 | component |
| `RexPool` | 1.7: pool, funds, loans, orders, vote stakes | component |
| `RexBalance` | 1.7: one owner's maturities, savings and order | component |
| `RexReturns` | 1.7: the return pool and its buckets | component |
| `PoolVotes` | 1.8: votes and proxies of pools | extended by the next |
| `StakingPool` | 1.8: stakes, claims, transfers, fees, votes | component |
| `PoolPay` | 1.8: rounds, `updatepay`, `claimvotepay` | component |
| `Powerup` | 1.9 | component |
| `ResourceLimits` | 1.10: one account's row and kernel limits | component |
| `MC...` | small instances, composed into scenarios | for TLC |
| `MarketProofs` | theorems about `RamMarket`, `RamReserve` and `Powerup` | for TLAPS |
| `StakingProofs` | theorems about `Staking`, `StakeLock` and `ResourceLimits` | for TLAPS |
| `VotingProofs` | theorems about `Voting` (ballots and weights) and `Election` | for TLAPS |
| `NameAuctionProofs` | theorems about `NameAuction` | for TLAPS |
| `PayProofs` | theorems about `ProducerPay` and `PoolPay` | for TLAPS |
| `RexProofs` | theorems about `RexPool`, `RexBalance` and `RexReturns` | for TLAPS |
| `PoolProofs` | theorems about `StakingPool` and `PoolVotes` | for TLAPS |

A module of proofs extends one component and takes others of the same
part of the system as named instances (`Limits!`, `Elections!`, `Rounds!`,
`Balance!`, `Returns!`, `Reserve!`, `Power!`).

**Conventions.** Variables and actions keep the names of the tables, fields and
contract actions they stand for. A table is a function over all keys; a row
that does not exist is a row of zeros, which is what the code's reads and its
erasing of empty rows amount to. Conjuncts before the first primed variable are
the `check`s, primed variables the assignments, and a transfer that cannot be
paid disables the action, as it aborts the transaction. Where a handler passes
a table through several functions (`runrex`, `update_rex_pool`,
`update_pool_votes`, `propagate_weight_change`), the table is a record and the
functions are operators from record to record, applied in the code's order.
Definitions marked `Faulty` are variants of another operator with a plausible
bug; no specification uses them, they are there to show that each property can
fail (`PROJECT.json` pairs them).

**Time** is relative where it can be: a row with a time stamp carries the time
*since* it, counted up to the bound it is compared with, and a scheduled
transaction the time until it is due. The code only compares differences of
times with constants, so this loses nothing and needs no horizon. Where times
are divided (rounds, intervals, buckets, the power-up weight) or multiplied
(vote pay) they are absolute and end at a named bound.

**Numbers.** Token amounts and bytes are integers, as in the code. The Bancor
formula, vote weights and pool shares are doubles there and exact integers (or
floors of exact quotients) here: the models say what the formulas are, not how
much a 53-bit mantissa loses. `NewRam` keeps its width: it is reduced modulo
`WordSize` (2^32) as the `uint32_t` product is.

### RamMarket

`base`, `quote` are the two balances of `_rammarket`; `total_ram_stake` and its
neighbours are `_gstate`; `ram_limit` is the kernel's. `BuyRam`, `BuyRamBytes`
and `SellRam` are whole handlers: the supply is first brought up to date
(`NewRam`), the fee is rounded up, the trade converted, the totals and the row
changed, the limit set unless managed, and the fee passed on. Where
`channel_to_rex_or_pools` leaves the fee depends on components not modelled
here, so `FeeChannelled` allows every split between pools, REX and
`eosio.ramfee`. `buyrambytes` computes its cost *before* the supply is brought
up to date, as the code does.

### Staking

`ChangeBw` is `changebw` from top to bottom: the delegation row, the totals, the
kernel's weights, the refund (`UpdateRefund`), the payment, the owner's
`staked`, the vesting check. Of the branches of lines 250-341: `RefundAfter` is
the refund row after the change, `Unrefunded` what the payer still owes,
`AgeAfter` whether the wait restarts, `Schedule`/`Cancel` what happens to the
deferred transaction. `Refund` and `RunDeferred` share `PayRefund`;
`RunDeferred` also covers a transaction that fails because the refund is gone,
`LoseDeferred` one that is dropped. Accounts hold no REX and `eosio.stake` is
not among them.

### Voting

`UpdateVotes` is `update_votes`: it computes the new weight, takes the old vote
back (`Undone`), casts the new one (`Cast`) and records it, and both of the
former go through `Propagated`, which is `propagate_weight_change` as a
function defined by recursion on the voters table as changed so far. All weights are one record so that
they can be threaded through these calls. `UpdateVotingPower` changes `staked`
to any amount, as delegations and REX do, also to what it was: `unstaketorex` has the
vote weighed again in any case. `Factor` gives the weight of a unit
of stake in each week, 2^(week/52) in the code. The two-sided threshold `> 1` of line 390 is
kept.

### PoolTable, Election and PoolPay

`registered`, `active` are rows and flags of `producers`; `listed` are the rows
of `total_pool_votes` with their own flag and votes, which lag behind
`pool_votes`, what the producer's votes would weigh now, until `UpdateVotes`
(`updatevotes`, or `updatepay`) looks at them. `Enabled` is what `regproducer`
does to both tables, `CfgSrPool` what the first `cfgsrpool` adds.

`UpdateElected` is `update_elected_producers`. `Outcomes` are all the schedules
the two indices allow, since producers with equal votes may come in any order.
How many seats go to pools depends on dates of the transition; the model lets
it be any number. `total_votes` change freely (`ChangeVotes`).

`PoolPay.OnBlock` is `onblock_update_pool`: a block may find that one or several
rounds are over, of which only the last can be paid. `UpdatePay` refreshes the first
`max_num_pay` producers, looks up the first ones again (`PaidSets`), divides the target
among them by their votes and pays the pools; a round is marked paid whatever
was paid out.

### ProducerPay

`buckets` are the fields of `_gstate`, `balance` the tokens of `eosio.bpay` and
`eosio.vpay`, `shares` the fields of `producers2`, `_gstate2` and `_gstate3` by
which vote pay goes. The share of each producer and the global one are brought
up to date at different moments: `ShareNow` is `update_producer_votepay_share`,
`TotalUpdated` is `update_total_votepay_share`, `LosesShare` notices that a
producer has not claimed for three days (`Threshold`). `ChangeVotes` is what
`propagate_weight_change` does to several producers at once; `RegProducer`,
`Deactivate`, `ClaimRewards` are the three other places that touch the shares.
`ClaimRewards` has the code's order: fill buckets, settle the share, pay per
block, pay per vote by revision, clear, adjust the rate. Producers in `Legacy`
registered before `producers2` existed.

### NameAuction

`high_bid` has the code's sign convention. `BidName` includes the refund of the
bid it tops and the replacement of its deferred transaction; `OnBlock` is the
part of `onblock` that closes an auction, in a block that updates the schedule;
`RunRex` and `DistributeNamebid` are the only lines of `runrex` and of the pools
that touch `eosio.names`. `NewSystemAccount` is the branch of `newaccount` for
`eosio` itself, which may create a name whose auction is open.

### REX

`RexPool` has one record, `rex`, with the pool, REX owned, funds, vote stakes, loans
by table (CPU is table 1, NET table 2) and the queue with its filled orders.
`RunRex` is `runrex`: name bids, expired loans of each table (`Renewed` or `Closed`), then
orders (`OrderTried`), at most `max` of each; nearly every
action starts with it as in the code, `RexExec` with the caller's `max`. The three loops
are functions of the number of rounds so far (`After[i]`), the tables after each a record again.
`LoanAdded` and `LoanRemoved` move `total_rent` and the lent tokens,
`unlent_lower_bound` keeps back a part of what is lent (a tenth in the code,
a half here, so that every loan is large enough to matter) both from sellers and from borrowers. `Settled`
collects the proceeds of a filled order, and `UpdateStaked` is
`update_rex_account` with its effect on the vote. How late an expired loan is
noticed is capped at a loan's own time; more makes no difference.
`UnstakeToRex` discards the change of vote stake as line 89 does.
`VoteStakeIsCounted` says *at least*, because a purchase too small for any REX,
followed by `closerex`, leaves the vote counting a token too much. It is claimed of `TradeSpec`,
in which nobody uses `unstaketorex`; with it, `staked` plus an order's change may be
negative, and then `update_voting_power` refuses to let the owner collect the order, withdraw or sell.

`RexBalance` is the part of a `rex_balance` row that time changes: `maturing` is
the deque of maturities, `Consolidate`, `MvToSavings` and `MvFrSavings` move REX
between the parts, `OthersRun` is somebody else's `runrex` filling the order
between any two of the owner's actions. `RexPool` leaves maturities out, and
`RexBalance` prices.

`RexReturns` is `update_rex_pool` and `add_to_rex_return_pool` with
the distribution interval as the unit of time: `Distributed` what is overdue at the
present rate, `Expired` and `Overtime` how buckets that ended in between are taken
back out of it, `Completes` the pending bucket becoming a rate plus a remainder that is
paid at once.

### Staking pools

`PoolVotes` mirrors `Voting` with vectors of shares in place of weights and
`Books` in place of its record: `UpdatePoolVotes` takes the last votes back
(`TakenBack`) and counts the new ones, and both go through `UpdatePoolProxy`, which follows
a chain of proxies to its end as `update_pool_proxy` does: a proxy may not vote through
another, but one that is no longer a proxy may, while others still vote through it. `StakingPool` adds the money: `SharesFor`, `Value`
and `SharesWorth` are the three conversions with their rounding,
`ClaimAfterDeposit` the averaged time of the next claim, `Available` the part a claim may
take by now, `Adjusted` the division of fees among pools that have shares.
`ClaimStake`, `TransferStake` and `UpgradeStake` end with the recount of votes
(`Recount`) and refuse it like the code where the account has no valid ballot; `StakeNext`
is the specification with no such requirement, for owners who do not vote. Shares
are doubles in the code and here whole numbers of a fraction `1/Unit` rounded
down; notification of other contracts is left out.

### Powerup

A market is a record with the fields of `powerup_state_resource`. `Processed` is
`process_powerup_queue` in the code's order: adjusted utilization, queue,
weight; `Taken` are the orders taken out by expiration; `Available` is what
`eosio.reserv` receives. `Fee` is `calc_powerup_fee` for the default exponent
2, computed exactly. `Decay` says how many times smaller the gap between adjusted and
actual utilization is after some seconds: any whole numbers for the proofs, doubled every second in the run. `CfgPowerup`
configures both markets and treats an empty optional as the value it already has. The fee
is paid to REX or pools, the receiver is not `eosio.reserv` itself.

### ResourceLimits

`granted` and `bought` record what delegations, loans, power-ups and the RAM market
have on their own tables; `row` is the shared row, `limits` and `ram_limit` the
kernel. `ChangeBw`, `AdjustResources`, `UpdateResourceLimits` and `TradeRam`
are the four writers, each with its own rule for when the kernel is told and
when the row is erased. `UpdateResourceLimits` serves loans (`ChangeLoans`) and
`unstaketorex` (`UnstakeToRex`), which takes back delegations without raising RAM.

### How they compose

Each component is closed under its own actions and takes what others do to its
state as nondeterministic input: `Voting.UpdateVotingPower` stands for every
caller in staking and REX, `NameAuction.Channelled` for REX and pools,
`RamMarket.FeeChannelled` likewise, `PoolTable.ChangePoolVotes` for
`StakingPool`, `ResourceLimits.granted` for the tables of four components.
`StakingPool` extends `PoolVotes`; `Election` and `PoolPay` both extend
`PoolTable`. The components share `TokenLedger` but use disjoint system
accounts, so their ledgers add up.

An `MC` module that holds several instances chooses one of them at the start,
in its variable `scenario`: the parts share no state there, so each behaviour is one of
one instance, and its properties say for which scenario they speak.

---

## 3. The runs

| run | scenarios and instance | shows |
|---|---|---|
| `ram_market` | 2 traders with 6 and 2 tokens, 7 bytes, two slots, word size 3 so that the supply wraps | `MarketIsBalanced`, `WholeSupplySellable`, `ProductNeverFalls`, refinement of `RamReserve` |
| `ram_rate` | same | **violated**: supply growth wraps |
| `staking` | *refunds*: 2 accounts with 2 and 1 tokens, amounts 0-2, delay of 2 steps, transactions may be dropped; *vesting*: one account vests 2 tokens over 2 steps, limits lifted by hand (-1) | tables, votes, limits, backing, scheduling, refinement of `StakeLock`, refunds return, by a claim only if the transaction was withdrawn or dropped |
| `voting` | 3 accounts, 3 producers, 2 votes each, 2 weeks | all weights, circles, ballots |
| `name_auction` | *two names*: 2 bidders with 3 and 2 tokens, fair; *one name*: 4 tokens each, transactions may be dropped | backing, only winners pay, refunds arrive, auctions close |
| `producer_pay` | 2 producers; *tokens*: two days, one legacy producer, both revisions; *shares*: five days, votes 0-1 | buckets, payable claims; global share = sum of shares |
| `vote_pay_legacy` | as *tokens* over five days | **violated**: votes of a legacy producer are counted twice |
| `schedule` | *election*: 3 producers, 2 seats, fair; *pay*: 2 producers, 2 pools, rounds of 2 blocks | seats, pay per round, fairness of both, seats lost by those who left |
| `rex` | *trading*: 2 owners, no loans; *lending*: one owner lends to the other, both tables; *orders*: CPU only, loans with funds to be renewed from, fair; *balance*: one owner, 5 days; *returns*: 4 intervals, buckets of 2, fair | pool, votes, prices, queue, balance, returns |
| `rex_unstaked` | *trading* without the allowance for `unstaketorex` | **violated**: the vote loses what REX gained |
| `staking_pools` | *votes*: 3 accounts; *ballots*: 2 accounts, 2 producers; *stake*: 1 pool, 2 owners with 3 tokens, two claim periods; *pools*: 2 pools of different speed | votes, shares, value, claims |
| `powerup` | *orders*: 2 accounts, NET and CPU; *prices*: 1 account, three configurations, 4 seconds; *queue*: orders of two lengths, fair; *limits*: one account's row, grants 0-2 | sales, fees, prices, limits, expiry |

**Why the bounds are enough to be interesting.** RAM: with a reserve of 7 bytes
against 3.5 times 1000/1000 tokens every conversion rounds, a sale can be worth
one token or none, and a purchase of all but one byte is possible. Staking: two
tokens are the least that can be split between NET and CPU, partly unstaked,
extended and partly staked again; two accounts give self-delegation, delegation
to another and transfer in both directions; a delay of 2 distinguishes waiting,
restarting and being due. Voting: three accounts are the least for a chain of
two proxies under construction (the code forbids its completion) and for two
voters sharing a proxy; with three producers and two votes ballots overlap without
being equal; two weeks give stale weights. Auction: four tokens are the
least with which one bidder is outbid twice on one name before taking any
refund; two names let one auction wait for the other. Pay: five days are the
threshold of three and two more, in which a producer may lose, regain and lose
its share; two days are enough for two fillings of the buckets. Schedule: three
producers for two seats leave one out, and with one vote at most they tie or are outranked by one (any number of votes is left to the proof); rounds of two blocks
within five slots have full, partial, missed and skipped rounds. REX: one loan
that takes all tokens forces orders to queue; owners of 4 and 2 tokens fill orders
partly; prices that do not divide evenly come with fees of one token. The return pool sees three
overlapping buckets and their ends at once. Pools: one token more than two shares makes every conversion
round; a claim of half of a stake meets deposits in between. Power-up: fractions of
one and eight eighths sell a sliver and everything, three orders outnumber the
batches that take them out. Limits: two units of each of NET and CPU let two
parts hold one each and one part take all back.

**Bounds that are not in the code**: `MaxSlot` (RAM), `LastWeek`, `MaxStake`
(voting), `LastTime`, `MaxUnpaid`, `MaxInflation`, `MaxVotes` (pay), `LastSlot`,
`MaxTarget`, `MaxPoolPay`, `MaxPoolVotes` (rounds), `MaxLoans`, `MaxTokens` (REX), `MaxRex`
(balance), `LastFee`, `LastTime`, `MaxFees` (returns), `MaxPooled`, `LastSlot` (pools), `MaxOrders`,
`LastTime` (power-up), `MaxWeight`, `MaxRam` (limits); token supplies bound the
rest. Sets such as `Quantities`, `ByteCounts`, `Rates`, `BidAmounts`, `Purchases`,
`Payments`, `Fractions`, `HandWeights` are the inputs offered. `MinBallot` and
`MaxBallot` stand for 21 and 30 producers. Symmetry is declared in `voting` and
`staking_pools`, which have no liveness properties.

**Deadlock** is checked in every run: some action is always enabled (time
passes, an account can be released or registered, `rexexec` run).

**Fairness.** Time, running a scheduled transaction, and what `onblock` does are
weakly fair: block producers produce blocks, and execute transactions that stay
due, independently of any user. `rexexec` and `powerupexec` may be called by
anyone and are weakly fair only in *orders*, *returns* and *queue*, and `rexexec` in *orders* only while
somebody's order is open: whoever waits has a reason to call it. A scheduled
transaction that the chain drops is not executed later, nor is one that a
delegation cancelled: in *refunds* the owner of such a refund, and of no other
(`withdrawn`), is weakly fair in claiming it by hand, so that `RefundReturns` needs no exception
and still tells a refund that fails to come by itself. Other user
actions are never fair. The liveness of auctions is checked on a chain that drops
no transactions.

`ScheduleIsRenewed` assumes only that elections keep being held. It allows a
producer that left (or that is outranked by both kinds of votes) its seat while
`TooFewStand`, for the code then keeps the whole schedule. Once as many stand as
there are seats, whatever number of seats pools decide, the seat is lost.

### Where the code and what is said of it differ

Three differences are runs that end in a violation:

* `ram_rate`: `setramrate` "sets the rate of increase of RAM in bytes per block"
  (`hpp:1154`): the product of elapsed slots and rate is 32 bits wide
  (`eosio.system.cpp:93`). At the highest rate of 65535 it wraps after 65537 slots, a
  little over 9 hours without a RAM trade.
* `vote_pay_legacy`: `claimrewards` adds the votes of a producer without a
  `producers2` row to the rate "for the first time" (`producer_pay.cpp:143`);
  a producer that registered again has been counted by `register_producer`
  (`voting.cpp:58`) already when its last claim is more than three days old.
* `rex_unstaked`: `vote_stake` is "the amount of CORE_SYMBOL currently included in
  owner's vote" (`hpp:443`); `unstaketorex` drops what it should add when the owner's
  REX has gained value (`rex.cpp:89`).

The following were met while modelling; the models follow the code, and no run is spent on them.

* `buyrambytes` "will buy an exact amount of ram" (`delegate_bandwidth.cpp:23`):
  the price is truncated twice and computed for the supply before it grows;
  the receiver may get one byte less, or more.
* `undelegatebw`: "the system will attempt to automatically return the funds"
  (ricardian contract, line 611): a later `delegatebw` to someone else cancels the scheduled
  refund and does not schedule it again (`delegate_bandwidth.cpp:333`). The
  tokens are safe; the owner must call `refund`. `RefundReturns` shows that one
  such call is enough, and that besides a dropped transaction nothing else asks for it.
* `bidname`: a quiet day and the highest bid are "sufficient" to close an auction
  (ricardian contract, lines 33-38): another auction closed within the day holds it up
  (`producer_pay.cpp:50`).
* After the transition, "producers are selected using votewithpool" (`hpp:1430`):
  seats for which nobody has pool votes go by `total_votes` (`voting.cpp:134`).
* `updatepay` looks the first producers up twice (`staking_pool.cpp:700`); one that
  moves up in between is paid by votes it may no longer have, so that together
  they may get more than the target. `FreshPayWithinTarget` is what holds.
* A loan with the balance for its renewal "is renewed" (`hpp:887`), but not while
  an order waits or when the price is unfavourable (`rex.cpp:529`).
* Returns reach a pool whose REX was all sold, and the next purchase overwrites
  them (`rex.cpp:1038`, "rare corner case"); these tokens stay in `eosio.rex`.
* The weight of a pool vote is to be "evenly divided" between producers
  (`hpp:1426`, `src/docs/04_guides/06_staking-pools.md:13`); each gets all of it
  (`staking_pool.cpp:236`).
* `update_utilization` promises `utilization <= adjusted_utilization`
  (`powerup.cpp:13`); a second purchase in one second finds it not so
  (`powerup.cpp:106`). `FeesAreFair` holds nevertheless.
* A delegation by a third party to an unlimited account without a row sets both
  of its weights; `src/tests/eosio.system_tests.cpp:5615` shows this as intended.

---

## 4. The proofs

Each theorem holds for every value of the constants that meets the named
condition of its module: an `ASSUME` of the component for those a module of
proofs extends, and a definition `...Constants` assumed by the theorem for
those it takes as an instance or that have several sets of constants. `TLC` evaluates all of
them on the instances it checks. The conditions say: amounts are naturals,
system accounts are not users, delays and periods are positive. Beyond that,

* the RAM market has at least 1000 tokens of supply (the opening price is then positive);
* accounts, pools and producers are finite sets where sums over all of them are
  compared (votes, producer pay, pools, election, REX); staking, the auction and the RAM market need no such bound;
* for `VotingAddsUp`, the factors of all weeks are multiples of one number above 1
  (`FactorsAreMultiples`; they are 2 and 4 in the run `voting`). A change of weight is then zero or more than the threshold of
  `voting.cpp:390`; a change of exactly 1 would be recorded for the voter and not for the producers, and the
  sums part by 1. In the code the factor is 2 to the number of years since 2000 (`voting.cpp:167`), over a million by now,
  so that a unit of stake, or a week more for one, changes a weight by thousands: what the threshold
  holds back are rounding errors of doubles, which no model here has;
* producers have a positive bound on votes (pay);
* the kernel's RAM is not one of the two weighed resources (limits);
* the horizon of the return pool is no less than a bucket's life, after which its
  time starts;
* `SharesStayExact` has no legacy producers: with one, the equality is false, as
  the run `vote_pay_legacy` shows. What holds with them is `SharesCovered`, below.

| theorem | states |
|---|---|
| `RamTypeCorrect`, `RamMarketBalanced` | `TypeOK`; the pair mirrors the totals, stake is backed, reserved bytes are owned |
| `RamProductNeverFalls` | no step lowers base x quote |
| `RamMarketIsReserve`, `ReserveStaysSolvent`, `RamMarketSolvent` | the market implements the reserve, the reserve is solvent, so the market is |
| `PowerupSalesAreCovered` | utilization is what the orders bought, `eosio.reserv` owns the rest, accounts are granted what they bought |
| `PowerupFeesAreFair`, `PowerupPriceOutlivesUse` | splitting a purchase is never cheaper, fees stay within the prices; use that ends does not lower the price at once |
| `StakingTypeCorrect`, `StakingBacked`, `StakingDeferredNotEarly` | `TypeOK`; `eosio.stake` backs delegations and refunds; no scheduled refund is early |
| `StakingAddsUp` | per account: totals, `staked`, kernel weights and vesting agree with the delegations |
| `StakingIsLock` | staking implements `StakeLock` |
| `LimitsFollowWhatIsGranted` | an account's shared row and kernel limits are what four components granted |
| `VotingHasNoProxyCycle`, `VotingBallotsStayValid` | no circle of proxies; cast ballots stay valid |
| `VotingFollowsStake`, `VotingAddsUp` | whoever votes has the weight of its present stake; each proxy, each producer and the total have exactly the votes last cast for them |
| `ElectionSeatsAreSound`, `ElectionPassesNobodyOver` | one seat each, only to active producers; nobody with more votes of both kinds is left out |
| `AuctionCoversClaims`, `AuctionOnlyWinnersPay` | `eosio.names` covers bids, refunds and proceeds; a bidder loses exactly the bids it wins with |
| `PayStaysBacked`, `SharesStayExact` | buckets, claims and shares can be paid; the extrapolated total is the sum of the producers' shares |
| `RoundsStayPaidOnce`, `RoundPayWithinTarget` | a round is paid once and from tokens issued for it; producers together get no more than the target while the list is fresh |
| `RexBalanceIsSound` | a balance is the sum of its parts, covers its order, and sold nothing that had not matured |
| `RexReturnsAddUp` | what came in was returned or is in the pool, which holds what its buckets have yet to return |
| `RexPoolStaysSound` | the pool agrees with loans, owners and rented weights; `eosio.rex` holds all it owes; open orders are covered; bids have owners |
| `RexVotesAreCounted` | votes count all stake and REX where nobody uses `unstaketorex` |
| `RexPricesAreKept`, `RexSellersComeFirst` | neither REX nor loans lose their price; no loan is made or renewed while an order waits |
| `PoolStakesAreSound` | shares given out are shares owned, balances are backed, no pool is stranded |
| `PoolStakeKeepsValue`, `PoolClaimsComeNoSooner` | others never lower the value of a stake; no step brings a claim nearer |
| `PoolBallotsAreSound` | no circle of pool proxies; pool ballots stay valid |
| `PoolVotesStaySound` | all are counted with their shares; proxies, producers and totals have exactly the votes cast for them |

**Sums.** The conservation properties are sums over tables. `SumOf` is defined
as the number of units in a table, a cardinality, and not by recursion, so that
what a change does to a sum follows from facts about finite sets:
`SumUpdate` and `SumTwoEntries` for one or two entries, `SumOfBoth` and `SumOfParts` for tables
added or taken apart, `SumOfSelection`, `SumOfSupport` and `SumOfSmaller` for part of one,
`SumOfRenamed` for one with other keys, `SumOfScaled` and `SumOfConstant` for multiples, `SumsBalance` for
two tables that change by each other's amounts. These lemmas
(`LedgerArithmetic`) need tables with
finitely many non-zero rows; that is part of the inductive invariants where the
keys may be infinite (`RowsAreFinite`, `SumsAreFinite`), and true because every action touches a few rows.
Where the code adds up in a loop, the argument is about these sums instead of the loop.

**RAM.** The inductive invariant is `TypeOK`, `MarketMirrorsTotals`,
`StakeIsBacked`, `ReservedIsOwned` together: that `base` stays positive needs
that a trade never buys all (`BancorKeepsProduct`), that `balance` stays natural needs
the stake to be backed, and that `sellram`'s bytes were reserved needs that
reserved bytes are owned (`SumBoundsEntry`). Solvency is not inductive over
`RamMarket` and is proved where the argument is visible, about `RamReserve`: the
product of the sides is at least what the supply was worth at the opening price
(`DepthCoversSupply`), which survives growth of the supply, and from which the
payout bound follows by division. `RamMarketIsReserve` transfers it.

**Power-up.** Sales stay covered when the market is configured or the queue is processed only if the
weight does not shrink below what is in use. `PowerInv` therefore says that a market in use has the weight
of its ratio (`InUse`) and that the ratio can only have come down since (`RatioComesDown`,
`WeightGrows`); a configuration is checked by the code instead. Orders are taken from the middle of the queue, and
`SumOfRest` relates what the renumbered rest has bought to the whole. The price only rises with
utilization, so a fee is an area under it (`FeeIsArea`): two adjacent purchases cover the area of
one, and rounding each up does not make them cheaper (`RoundedUp`, `FeesOfMarket`).

**Staking.** `StakingInv` adds to `TypeOK`, `StakeIsBacked` and
`DeferredNotEarly` that an owner without a refund has age zero (`IdleIsNew`): a
new refund must start its wait from zero, or its transaction would be due after
an age that another refund had collected. `UpdateRefundEffect` is the lemma on
the branches of `changebw`: what is paid into `eosio.stake` is the change of
delegation minus what the refund gives up. `StakesAddUp` is proved on top of it:
a delegation changes one entry in each column of the receiver's totals and two among
the owner's rows (`ChangeBwAddsUp`), and what must stay staked only shrinks with time (`ClaimableGrows`), from
whatever moment of the vesting the behaviour starts. For
the refinement, `staked` is what the lock holds and the refund what is on its way back;
a delegation is the lock's `Stake` with some of what was on its way reused,
an undelegation its `Unstake`, and a refund, automatic or not, its `Withdraw`.

**Resource limits.** The property is inductive once a missing row is known to be an
empty one (`LimitsInv`): a row that was erased held nothing, so that the limits which
`setalimits` sets on an account without a row contradict no grant. Each writer of the row has its
lemma; what the row becomes when a part grants or takes back, and that it may be erased only when nothing
is granted by any part, is `RowFollowsGrants`.

**Voting.** `BallotsStayValid` is inductive together with the types of
ballots; weights are not mentioned. `NoProxyCycle` is stated without recursion
(every set of accounts has a member that votes outside of it); a new link
cannot close a circle because the account that makes it is not a proxy, and
every account voted through was one (`NewLinkMakesNoCycle`). Termination of
`propagate_weight_change`, and so the meaning of the function `Propagated`,
rests on it. `PoolBallotsAreSound` is the same argument for pools.

**Recursion along proxies.** `Propagated` and `UpdatePoolProxy` are recursive functions of the tables so far
and the account reached, and nothing says at once that there is such a
function: it is the absence of circles that makes one. `ChainRecursion` (`LedgerArithmetic`) shows for any such recursion
that a function satisfies its equation: the accounts for which a solution exists on a set closed under
links are all of them, or those left over would form a circle. `ChainInduction` is the induction that goes with it: what
holds where chains end and passes back along a link holds for all. `Reached` are the accounts ahead of one
on its chain, and who makes a new link is not among those it leads to (`ReachedAvoids`). All are stated of any
sets, links and tables, without operators as parameters, and used for voters and for pools.

**Weights.** `VotesAreStake` needs that passing a change on leaves nobody ahead or behind uncounted.
`StakeInv` adds the types of weights; `Counts` is the property for one account, and the induction says that
`Propagated` repairs it for all accounts on the chain and touches no other (`BallotsLeadAhead`
says that the voter itself is not among them). For `VotesAddUp`, `Recorded(w, c, ...)` says that the
tables hold the sums of any contributions `c`, not only of the weights last cast: in the middle of a change
the two differ for one account, whose own weight is written last. Each call of the recursion
keeps `Recorded` for contributions that differ in one entry, and at its end the
contributions are the weights again. `AddUpInv` carries besides that all weights are
multiples of the grain, and that a voter through a proxy names no producers (`OneKindOfVote`).
`PoolVotesInv` is the same for vectors of shares (`Tallies`), with no threshold and with the
shares of `StakesInv`: a claim or a transfer changes stake and count in one step.

**Election.** `ElectionInv` adds to the property that before `cfgsrpool` the table of pool votes
is empty, so that its flags cannot lag behind those of `producers`. That nobody is passed over is a
fact about `Outcomes`: seats are taken from the front of one index and then of the other.

**Auction.** `AuctionInv` is the property with finiteness of the three tables. A new
bid moves the bid it tops from the open bids to the refunds of another bidder, so the lemmas say what
each of the three sums becomes, and the ledger follows. `OnlyWinnersPay` counts for
one bidder what it holds, may have back and has standing.

**Producer pay.** The total of shares grows at one rate, and the shares of producers at
their own: `SharesCovered` says that the rate is at least the votes of those that count, and the
total at least their shares, both with equality when nobody is from before
`producers2`. The inequality is what every claim needs (`claimrewards` subtracts from the
total), the equality is `SharesAddUp`. It needs `RosterInv` (a producer without votes until it
registers, a row in `producers2` from then on) and `SettledHaveNothing` (who does not earn has no share to
lose). `PartAtMost` and `DivisionMonotonic` bound the payment by the bucket.

**Pay by rounds.** `RoundsInv` adds that nothing is counted before pools exist. What one `updatepay` hands out
is bounded by the lemma `SharesOfTarget`: parts of a target, each rounded down, are together
no more than it.

**REX balance.** Whether what was sold was old enough still holds after a midnight depends on the
REX that matures next, and that on the next. `BalanceInv` therefore bounds, for every number of days, what
matures within them by what was acquired early enough (`AgesAreKept`, sums over days up to one); a midnight shifts
all of these sums by a day (`DaysShifted`). `SavedAddsUp` shows that `mvtosavings`, which
collects from the days in the code's order, collects all it needs.

**Returns.** `ReturnsInv` says that the pool holds, bucket by bucket, what each has
still to return at its rate (`FlowsAddUp`), whenever it started and however many ended between two runs.
A bucket that ended in the meantime flowed too long at the one rate of all; `DroppedKeeps` shows that
what is taken back for it (`Overtime`) is exactly that.

**REX pool.** `Sound` strengthens the properties by what the steps of `runrex` need from one another: every loan
lends and pays something (`LoansStand`, or a renewal might rent nothing), an owner has one order at
most, open or closed, and the open one is covered (`OrdersStand`, or a filled order would
overwrite uncollected proceeds), and a pool without REX has lent nothing (`PoolStands`: the last REX is worth all of the pool, which
`unlent_lower_bound` keeps from being sold while anything is lent; `add_to_rex_pool` resets `total_lent` to 0
on the strength of it). `Leads(s, t)` is what every step of `runrex` keeps between the tables before and
after: soundness, what is owed, what votes are due, the price of REX, the place of those who wait.
It is transitive, so each of the three loops keeps it by induction on its rounds, and
`runrex` as a whole, for any `max`. Returns and loans also keep a price of loans that is there (`LoansLead`), since what they put
back makes room before a renewal rents again; only filled orders may use up the last token (`OrdersLead`). Each action then adds its own part: `FairStep` is what all of them keep,
and `PricesAreKept` and `SellersAreFirst` are its conjuncts. A filled order leaves `Owed` as it was, because its value only
moves from the pool to the proceeds, and a closed loan because its balance moves to a fund.

Two properties that had held on every instance turned out to be false in general when their proofs were tried,
and were replaced by what is true:

* *The pool is never sold out while something is lent.* `unlent_lower_bound` is rounded down
  (`rex.cpp:784`), so with less than ten units lent nothing is kept back. A loan that closes while nothing is left
  unlent takes all of `total_rent` with it (`rex.cpp:475`, the formula with an empty
  reserve), and at a rent of zero the next payment, however small, rents all there is to lend. `LoansKeepAPrice` states
  what holds: while there is something to lend at a price, no step takes the price away, and none that leaves
  `KeptPart` units or more lent takes the last token.
* *Proceeds of a filled order can be collected.* Not after `unstaketorex`, see `VoteStakeIsCounted` above; without
  it they can, which `RexVotesAreCounted` implies.

**Pools.** `StakesInv` is the property with a bound on waiting (`ClaimsAreNear`: no claim is further off than a
period), without which the averaged claim time of a deposit could be moved nearer. The price of a share is
balance over shares; lemmas show that buying and selling at it, each rounded
for the pool, never lowers it (`BuyingPrice`, `SellingPrice`), and that a sale raises what all other shares are
worth together by less than a token, which is the token `NewStakeWaits` allows. Fees are cut
where multiples of the amount divide by the number of pools, and each pool takes the part
between two cuts; that the parts are the whole amount is proved by finding for each unit the
pool whose part it lies in (`UnitsLieInParts`, `PartsAddUp`).

**Only model-checked.** Liveness (`RefundReturns`, `RefundsArrive`, `AllAuctionsClose`, `ScheduleIsRenewed`,
`NothingStaysBehind`, `ExpiredOrdersReturn`): the provers have no support for fairness. All invariants
and action properties of the passing runs are proved. Where a run composes scenarios, the theorem is about the
scenario's specification (`Balance!Spec`, `Rounds!Spec`, ...), with any constants; that an `MC` module chooses one of several
instances is left to TLC.

The violations of the other three runs are single counterexamples, found by TLC.

---

## 5. What is left out

* *Rounding of doubles.* Vote weights, Bancor results and fees are exact, pool
  shares rounded down. Clamping of votes below zero (`voting.cpp` 316-318),
  there for rounding errors, never applies in exact arithmetic. Drift by the
  threshold of `voting.cpp:390` needs weights that change by 1 and is not
  exercised (see `FactorsAreMultiples` in section 4).
* *RAM as a resource of the tables themselves*, and the kernel's refusal to
  lower a RAM limit below use: both abort transactions only.
* *Authorities.* Each action is taken by the account it names, so
  `require_auth` has no counterpart.
* *The obligation of REX holders to vote* for 21 producers or a proxy: it
  refuses actions only. `StakingPool` has its counterpart (`MayBeRecounted`).
* *The activation threshold*: the code bypasses it (`voting.cpp` 251-252), the
  first vote activates the chain; only the auction and pay depend on when.
* *`setacctnet`/`setacctcpu` bookkeeping in `voters`* is folded into a set of
  managed accounts.
* *The dates of the transition to pools* and of the growth of inflation: seats
  and pay are any number up to a bound.
* *Native actions, chain parameters, result actions*: they have no state that
  relates to any other (1.11).

---

## 6. Plan

What a next step would add, in order of weight:

1. A bound on how far sums of votes may drift by changes below the threshold of
   `voting.cpp:390`, one unit for each change that is not passed on.
2. An abstract share pool that REX and the staking pools implement: a deposit
   never lowers the value of others' shares. `PriceDoesNotFall` and `KeepsValue` are its
   action properties today, and proved.
3. `Staking` composed with `Voting`, so that a delegation re-weighs the vote in
   the same step, and with `RexPool` through `staked`.
4. Liveness of vote pay: a producer that claims every day keeps its share.
