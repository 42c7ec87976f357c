------------------------------- MODULE Staking -------------------------------
(***************************************************************************)
(* Staking for NET and CPU in eosio.system: delegatebw, undelegatebw and   *)
(* refund of delegate_bandwidth.cpp, the deferred refund transaction, and  *)
(* the kernel limits setacctnet and setacctcpu may take over.              *)
(*                                                                         *)
(* Time is relative: a refund row carries the time since its request_time, *)
(* a scheduled transaction the time until it is due.  Accounts here hold   *)
(* no REX and have cast no vote, for which vote_stake_updater and          *)
(* update_votes do nothing.                                                *)
(***************************************************************************)
EXTENDS TokenLedger, LedgerArithmetic

CONSTANTS
  Account,        \* the accounts that stake
  B1,             \* the account under vesting, or a value outside Account
  MaxClaimable,   \* tokens b1 must have vested before it may unstake them all
  VestingTime,    \* the time over which they vest
  RefundDelay,    \* refund_delay_sec
  InitialFunds,   \* liquid tokens of each account
  Quantities,     \* amounts offered to delegatebw and undelegatebw
  LimitValues,    \* limits offered to setacctnet and setacctcpu; -1 is unlimited
  Lossy           \* whether the chain may drop a transaction that is due

Kind == {"net", "cpu"}
Holder == Account \union {"eosio.stake"}

\* No transaction is scheduled.
NoTrx == -1

ASSUME StakingAssumption ==
  /\ "eosio.stake" \notin Account
  /\ MaxClaimable \in Nat /\ VestingTime \in Nat \ {0}
  /\ RefundDelay \in Nat \ {0}
  /\ InitialFunds \in [Account -> Nat]
  /\ Quantities \subseteq Nat /\ LimitValues \subseteq Nat \union {-1}
  /\ Lossy \in BOOLEAN

VARIABLES
  delegated,      \* del_bandwidth_table: 0 for <<from, to, kind>> without a row
  resources,      \* user_resources_table: net_weight and cpu_weight
  refund_amount,  \* refunds_table: net_amount and cpu_amount, 0 without a row
  refund_age,     \* time since request_time, up to RefundDelay
  deferred,       \* time until the refund transaction of an owner is due
  staked,         \* voter_info::staked
  managed,        \* accounts and kinds with flags1 net_managed, cpu_managed
  limits,         \* the kernel's NET and CPU weight of each account
  balance,        \* the token ledger
  vested          \* time since b1's vesting began, up to VestingTime

refunds == <<refund_amount, refund_age, deferred>>
weights == <<delegated, resources, staked>>
kernel == <<managed, limits>>
vars == <<weights, refunds, kernel, balance, vested>>

-----------------------------------------------------------------------------

Positive(n) == IF n > 0 THEN n ELSE 0

Pending(owner) == \E k \in Kind : refund_amount[<<owner, k>>] > 0

\* Tokens b1 may have unstaked by now.
Claimable == (MaxClaimable * vested) \div VestingTime

\* validate_b1_vesting
KeepsVesting(owner, stake) == owner = B1 => stake >= MaxClaimable - Claimable

\* Faulty: like the RAM limit, the weights are only ever raised.
RaiseLimits(account) ==
  limits' = [x \in Account \X Kind |->
               IF x[1] = account /\ x \notin managed /\ resources'[x] > limits[x]
               THEN resources'[x] ELSE limits[x]]

\* The receiver's limits follow its totals, except the managed ones.
SetLimits(account) ==
  limits' = [x \in Account \X Kind |->
               IF x[1] = account /\ x \notin managed THEN resources'[x] ELSE limits[x]]

\* The refund row of an owner after a change of its stake by delta: what is
\* unstaked joins it, what is staked for oneself is taken out of it.
RefundAfter(owner, delta) ==
  [x \in Account \X Kind |->
     IF x[1] = owner THEN Positive(refund_amount[x] - delta[x[2]])
     ELSE refund_amount[x]]

\* Faulty: the payer is charged in full although a refund is used up.
ChargedInFull(owner, delta) == Positive(delta["net"]) + Positive(delta["cpu"])

\* The tokens staking by delta still takes from the payer.
Unrefunded(owner, delta) ==
  Positive(delta["net"] - refund_amount[<<owner, "net">>])
    + Positive(delta["cpu"] - refund_amount[<<owner, "cpu">>])

\* Faulty: a transaction that is already scheduled is left as it is.
ScheduleOnce(owner) ==
  deferred' = [deferred EXCEPT ![owner] = IF @ = NoTrx THEN RefundDelay ELSE @]

\* Faulty: the transaction comes due before the refund.
ScheduleEarly(owner) == deferred' = [deferred EXCEPT ![owner] = RefundDelay - 1]

\* The refund transaction is replaced, with the full delay again.
Schedule(owner) == deferred' = [deferred EXCEPT ![owner] = RefundDelay]

\* The refund transaction is cancelled.
Cancel(owner) == deferred' = [deferred EXCEPT ![owner] = NoTrx]

\* Faulty: unstaking more does not restart the wait of an existing row.
AgeKept(owner, undelegating) ==
  refund_age' = [refund_age EXCEPT ![owner] =
    IF \A k \in Kind : refund_amount'[<<owner, k>>] = 0 THEN 0 ELSE @]

\* The request time is reset by unstaking only; a row that empties is erased.
AgeAfter(owner, undelegating) ==
  refund_age' = [refund_age EXCEPT ![owner] =
    IF undelegating \/ \A k \in Kind : refund_amount'[<<owner, k>>] = 0 THEN 0 ELSE @]

\* The part of changebw that creates, updates or deletes the refund.
UpdateRefund(payer, receiver, delta, transfer) ==
  LET owner == IF transfer THEN receiver ELSE payer
      undelegating == delta["net"] + delta["cpu"] < 0
      toSelf == ~transfer /\ payer = receiver
      due == IF toSelf \/ undelegating THEN Unrefunded(owner, delta)
             ELSE delta["net"] + delta["cpu"]
  IN  /\ IF toSelf \/ undelegating
         THEN /\ refund_amount' = RefundAfter(owner, delta)
              /\ AgeAfter(owner, undelegating)
              /\ IF \E k \in Kind : refund_amount'[<<owner, k>>] > 0
                 THEN Schedule(owner) ELSE Cancel(owner)
         ELSE /\ Cancel(owner)
              /\ UNCHANGED <<refund_amount, refund_age>>
      /\ IF due > 0
         THEN /\ CanPay(balance, payer, due)
              /\ balance' = Paid(balance, payer, "eosio.stake", due)
         ELSE UNCHANGED balance

\* A table after delta was added to a row, which has a cell for each kind.
AddDelta(table, row, delta) ==
  [table EXCEPT ![row["net"]] = @ + delta["net"], ![row["cpu"]] = @ + delta["cpu"]]

ChangeBw(payer, receiver, delta, transfer) ==
  LET owner == IF transfer THEN receiver ELSE payer
      row == [k \in Kind |-> <<owner, receiver, k>>]
      totals == [k \in Kind |-> <<receiver, k>>]
  IN  /\ delegated' = AddDelta(delegated, row, delta)
      /\ \A k \in Kind : delegated'[row[k]] >= 0
      /\ resources' = AddDelta(resources, totals, delta)
      /\ \A k \in Kind : resources'[totals[k]] >= 0
      /\ SetLimits(receiver)
      /\ UpdateRefund(payer, receiver, delta, transfer)
      /\ staked' = [staked EXCEPT ![owner] = @ + delta["net"] + delta["cpu"]]
      /\ staked'[owner] >= 0
      /\ KeepsVesting(owner, staked'[owner])
      /\ UNCHANGED <<managed, vested>>

\* The token pairs an action may be called with.
Offers == {q \in [Kind -> Quantities] : q["net"] + q["cpu"] > 0}

-----------------------------------------------------------------------------

Init ==
  /\ delegated = [x \in Account \X Account \X Kind |-> 0]
  /\ resources = [x \in Account \X Kind |-> 0]
  /\ refund_amount = [x \in Account \X Kind |-> 0]
  /\ refund_age = [a \in Account |-> 0]
  /\ deferred = [a \in Account |-> NoTrx]
  /\ staked = [a \in Account |-> 0]
  /\ managed = {}
  /\ limits = [x \in Account \X Kind |-> 0]
  /\ balance = [h \in Holder |-> IF h \in Account THEN InitialFunds[h] ELSE 0]
  /\ vested \in 0 .. VestingTime

DelegateBw(payer, receiver, quantity, transfer) ==
  /\ transfer => payer # receiver
  /\ ChangeBw(payer, receiver, quantity, transfer)

UndelegateBw(owner, receiver, quantity) ==
  ChangeBw(owner, receiver, [k \in Kind |-> -quantity[k]], FALSE)

\* refund: the row is paid out and erased.
PayRefund(owner) ==
  LET amount == refund_amount[<<owner, "net">>] + refund_amount[<<owner, "cpu">>]
  IN  /\ Pending(owner)
      /\ refund_age[owner] >= RefundDelay
      /\ CanPay(balance, "eosio.stake", amount)
      /\ balance' = Paid(balance, "eosio.stake", owner, amount)
      /\ refund_amount' = [x \in Account \X Kind |->
                             IF x[1] = owner THEN 0 ELSE refund_amount[x]]
      /\ refund_age' = [refund_age EXCEPT ![owner] = 0]
      /\ UNCHANGED <<weights, kernel, vested>>

\* The owner claims the refund by hand; the scheduled transaction stays.
Refund(owner) == PayRefund(owner) /\ UNCHANGED deferred

\* The scheduled refund transaction runs, and is gone whether or not the
\* refund could be paid.
RunDeferred(owner) ==
  /\ deferred[owner] = 0
  /\ Cancel(owner)
  /\ \/ PayRefund(owner)
     \/ /\ ~(Pending(owner) /\ refund_age[owner] >= RefundDelay)
        /\ UNCHANGED <<weights, refund_amount, refund_age, kernel, balance, vested>>

\* The scheduled transaction fails or expires without an attempt to pay.
LoseDeferred(owner) ==
  /\ Lossy
  /\ deferred[owner] = 0
  /\ Cancel(owner)
  /\ UNCHANGED <<weights, refund_amount, refund_age, kernel, balance, vested>>

\* setacctnet and setacctcpu with a limit.
ManageLimit(account, k, limit) ==
  /\ managed' = managed \union {<<account, k>>}
  /\ limits' = [limits EXCEPT ![<<account, k>>] = limit]
  /\ UNCHANGED <<weights, refunds, balance, vested>>

\* setacctnet and setacctcpu without a limit: the staked weight counts again.
UnmanageLimit(account, k) ==
  /\ <<account, k>> \in managed
  /\ managed' = managed \ {<<account, k>>}
  /\ limits' = [limits EXCEPT ![<<account, k>>] = resources[<<account, k>>]]
  /\ UNCHANGED <<weights, refunds, balance, vested>>

\* Time passes: refunds age, scheduled transactions come due, b1 vests.
Tick ==
  /\ refund_age' = [a \in Account |-> IF Pending(a) /\ refund_age[a] < RefundDelay
                                      THEN refund_age[a] + 1 ELSE refund_age[a]]
  /\ deferred' = [a \in Account |-> IF deferred[a] > 0 THEN deferred[a] - 1 ELSE deferred[a]]
  /\ vested' = IF vested < VestingTime THEN vested + 1 ELSE vested
  /\ UNCHANGED <<weights, refund_amount, kernel, balance>>

Next ==
  \/ \E p \in Account, r \in Account, q \in Offers, t \in BOOLEAN : DelegateBw(p, r, q, t)
  \/ \E p \in Account, r \in Account, q \in Offers : UndelegateBw(p, r, q)
  \/ \E a \in Account : Refund(a) \/ RunDeferred(a) \/ LoseDeferred(a)
  \/ \E a \in Account, k \in Kind : UnmanageLimit(a, k)
  \/ \E a \in Account, k \in Kind, l \in LimitValues : ManageLimit(a, k, l)
  \/ Tick

Spec == Init /\ [][Next]_vars

-----------------------------------------------------------------------------

TypeOK ==
  /\ delegated \in [Account \X Account \X Kind -> Nat]
  /\ resources \in [Account \X Kind -> Nat]
  /\ refund_amount \in [Account \X Kind -> Nat]
  /\ refund_age \in [Account -> 0 .. RefundDelay]
  /\ deferred \in [Account -> NoTrx .. RefundDelay]
  /\ staked \in [Account -> Nat]
  /\ managed \subseteq Account \X Kind
  /\ limits \in [Account \X Kind -> Nat \union {-1}]
  /\ balance \in [Holder -> Nat]
  /\ vested \in 0 .. VestingTime

\* eosio.stake holds exactly the tokens delegated and the refunds under way,
\* however often a refund was extended, partly restaked or taken over by a
\* delegation with the transfer flag.
StakeIsBacked ==
  balance["eosio.stake"] = SumOf(delegated) + SumOf(refund_amount)

\* The totals of a receiver are what its delegators gave it.
TotalsAreDelegated ==
  \A x \in Account \X Kind :
    resources[x] = SumOf([f \in Account |-> delegated[<<f, x[1], x[2]>>]])

\* An account votes with what it has delegated, to whomever.
VotesAreDelegated ==
  \A a \in Account :
    staked[a] = SumOf([x \in Account \X Kind |-> delegated[<<a, x[1], x[2]>>]])

\* The kernel schedules an account by its totals unless it is managed.
LimitsFollowTotals ==
  \A x \in (Account \X Kind) \ managed : limits[x] = resources[x]

\* What changebw and its helpers write in four places for every change of
\* stake stays in step: rows between two accounts, the receiver's totals and
\* limits, the owner's votes.
StakeAddsUp == TotalsAreDelegated /\ VotesAreDelegated /\ LimitsFollowTotals

\* A scheduled refund is never due before the refund may be paid: the
\* automatic transaction does not fail for coming early.
DeferredNotEarly ==
  \A a \in Account :
    Pending(a) /\ deferred[a] # NoTrx => deferred[a] + refund_age[a] >= RefundDelay

\* The vesting account, once it has staked, always keeps staked what has not
\* vested, although what it must keep is only checked when its stake changes.
VestingHolds ==
  \A a \in Account : a = B1 =>
    staked[a] = 0 \/ staked[a] >= MaxClaimable - Claimable

\* The tables are well-formed and in step, and what has not vested stays staked.
StakesAddUp == TypeOK /\ StakeAddsUp /\ VestingHolds

\* Staking implements the abstract lock: undelegated tokens come back only
\* after the whole delay without further unstaking, and only to their owner.
Lock == INSTANCE StakeLock WITH
  Owner <- Account,
  Delay <- RefundDelay,
  Funds <- InitialFunds,
  liquid <- [a \in Account |-> balance[a]],
  locked <- staked,
  returning <- [a \in Account |-> refund_amount[<<a, "net">>] + refund_amount[<<a, "cpu">>]],
  waited <- refund_age

LockSpec == Lock!Spec
==============================================================================
