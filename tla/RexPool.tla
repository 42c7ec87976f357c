------------------------------- MODULE RexPool --------------------------------
(***************************************************************************)
(* The REX pool (rex.cpp): tokens lent for their owners, REX as shares of  *)
(* them, loans that renew themselves from their own balance, and a queue   *)
(* of sell orders that other accounts' actions fill.                       *)
(*                                                                         *)
(* The tables are one record, `rex', because runrex threads them through   *)
(* returns, expired loans and orders, and almost every action begins or    *)
(* ends with it.  When returns flow is RexReturns' matter: here any part   *)
(* of what is held back may.  When REX matures is RexBalance's: here all   *)
(* REX owned may be sold.                                                  *)
(***************************************************************************)
EXTENDS LedgerArithmetic, SequencesExt

CONSTANTS
  Owners,      \* accounts; all vote as check_voting_requirement demands
  NumTables,   \* loan tables: 1 is CPU, 2 is NET
  InitTokens,  \* [Owners -> Nat], liquid at the start
  InitStake,   \* [Owners -> Nat], staked at the start
  RexRatio,    \* rex_ratio
  InitRent,    \* init_total_rent
  KeptPart,    \* 10: this part of the lent tokens is not sold out
  LoanTime,    \* 30 days, in steps of the clock
  Transfers,   \* amounts offered to deposit and withdraw
  Purchases,   \* amounts offered for REX
  RexAmounts,  \* amounts of REX offered for sale
  Payments,    \* amounts offered for loans
  LoanFunds,   \* amounts offered to fund and defund loans
  Rents,       \* balances setrex may set
  Fees,        \* fees and bids channelled to REX
  MaxRuns,     \* arguments of rexexec
  MaxLoans,    \* bound on open loans of a resource
  MaxTokens    \* bound on all tokens, with the fees that come in

RexPoolConstants ==
  /\ IsFiniteSet(Owners)
  /\ NumTables \in Nat \ {0}
  /\ InitTokens \in [Owners -> Nat] /\ InitStake \in [Owners -> Nat]
  /\ RexRatio \in Nat \ {0} /\ InitRent \in Nat \ {0} /\ KeptPart \in Nat \ {0}
  /\ LoanTime \in Nat \ {0} /\ MaxLoans \in Nat /\ MaxTokens \in Nat
  /\ Transfers \subseteq Nat \ {0} /\ Purchases \subseteq Nat \ {0}
  /\ Payments \subseteq Nat \ {0} /\ LoanFunds \subseteq Nat \ {0} /\ RexAmounts \subseteq Nat \ {0}
  /\ Rents \subseteq Nat \ {0} /\ Fees \subseteq Nat \ {0} /\ MaxRuns \subseteq Nat

ASSUME RexPoolAssumption == RexPoolConstants

VARIABLES
  rex,        \* the tables
  tokens,     \* liquid tokens of each owner
  vault,      \* tokens of eosio.rex
  delegated,  \* what each owner has in eosio.stake
  staked      \* voter_info::staked of each owner

vars == <<rex, tokens, vault, delegated, staked>>

(***************************************************************************)
(* rex.pool       rexpool, and proceeds of the return pool as `held'       *)
(* rex.fund       rexfund                                                  *)
(* rex.owned      rexbal: rex_balance                                      *)
(* rex.has_row    the owners with a row in rexbal                          *)
(* rex.vote_stake rexbal: vote_stake                                       *)
(* rex.queue      rexqueue: open orders by time, one of an owner at most   *)
(* rex.proceeds   rexqueue: proceeds of each owner's closed order, and its *)
(* rex.stake_change         stake_change; both 0 without one               *)
(* rex.loans      cpuloan and netloan, in the order of loan_num            *)
(* rex.rented     the part of each account's weights that is rented        *)
(***************************************************************************)

Resources == 1 .. NumTables

-----------------------------------------------------------------------------
(* The pool *)

rex_system_initialized(s) == s.pool.exists
rex_available(s) == s.pool.exists /\ s.pool.total_rex > 0

\* Faulty: loans do not wait for sellers.
OpenToLoans(s) == rex_available(s)

\* Loans wait for all open orders.
rex_loans_available(s) == rex_available(s) /\ s.queue = << >>

\* The open order of an owner, if there is one.
HasOrder(s, o) == \E i \in DOMAIN s.queue : s.queue[i].owner = o

PlaceOf(s, o) == CHOOSE i \in DOMAIN s.queue : s.queue[i].owner = o

InOrder(s, o) == IF HasOrder(s, o) THEN s.queue[PlaceOf(s, o)].rex ELSE 0

\* get_bancor_output
BancorOutput(in_reserve, out_reserve, in) == (in * out_reserve) \div (in_reserve + in)

\* The value of an amount of REX.
ValueOf(s, amount) == (amount * s.pool.total_lendable) \div s.pool.total_rex

\* add_to_rex_pool's branch for a pool without REX: it begins anew.
NewPool(s, payment) ==
  [s.pool EXCEPT !.exists = TRUE, !.total_lendable = payment, !.total_lent = 0,
                 !.total_unlent = payment, !.total_rent = InitRent,
                 !.total_rex = payment * RexRatio]

\* Faulty: the price counts the tokens that are being paid for.
GrownRexLate(p, payment) ==
  (p.total_rex * (p.total_lendable + payment) + p.total_lendable - 1) \div p.total_lendable

\* The supply of REX after a purchase at the price of the pool, rounded down.
GrownRex(p, payment) ==
  (p.total_rex * (p.total_lendable + payment)) \div p.total_lendable

\* add_to_rex_pool, and the purchased REX
AddedToPool(s, payment) ==
  IF rex_available(s)
  THEN [s.pool EXCEPT !.total_lendable = @ + payment,
                      !.total_unlent = @ + payment,
                      !.total_rex = GrownRex(s.pool, payment)]
  ELSE NewPool(s, payment)

Received(s, payment) ==
  IF rex_available(s) THEN GrownRex(s.pool, payment) - s.pool.total_rex ELSE payment * RexRatio

\* add_to_rex_balance: the first purchase counts as what was paid.
Bought(s, o, payment) ==
  LET p == AddedToPool(s, payment)
      s1 == [s EXCEPT !.pool = p, !.owned[o] = @ + Received(s, payment), !.has_row = @ \union {o}]
  IN  [s1 EXCEPT !.vote_stake[o] =
         IF o \in s.has_row THEN ValueOf(s1, s1.owned[o]) ELSE payment]

\* add_loan_to_rex_pool
LoanAdded(s, payment, rented_tokens) ==
  [s EXCEPT !.pool.held = @ + payment,
            !.pool.total_rent = @ + payment,
            !.pool.total_unlent = @ - rented_tokens,
            !.pool.total_lent = @ + rented_tokens]

\* remove_loan_from_rex_pool
LoanRemoved(s, loan) ==
  [s EXCEPT !.pool.total_rent = @ - BancorOutput(s.pool.total_unlent, s.pool.total_rent, loan.total_staked),
            !.pool.total_unlent = @ + loan.total_staked,
            !.pool.total_lent = @ - loan.total_staked]

\* The tokens a payment rents.
RentedFor(s, payment) == BancorOutput(s.pool.total_rent, s.pool.total_unlent, payment)

-----------------------------------------------------------------------------
(* runrex *)

\* update_rex_pool: a part of what was held back flows into the pool.
Returned(s, amount) ==
  [s EXCEPT !.pool.held = @ - amount,
            !.pool.total_unlent = @ + amount,
            !.pool.total_lendable = @ + amount]

\* The proceeds of name auctions join the returns; eosio.names pays them.
NamebidTransfer(s) == IF rex_available(s) THEN s.pool.namebid_proceeds ELSE 0

NamebidsChannelled(s) ==
  [s EXCEPT !.pool.held = @ + NamebidTransfer(s), !.pool.namebid_proceeds = 0]

\* The loan that expires first, the oldest of those.
First(loans) ==
  CHOOSE i \in DOMAIN loans : \A j \in DOMAIN loans :
    loans[i].left < loans[j].left \/ (loans[i].left = loans[j].left /\ i <= j)

Renews(s, loan) ==
  /\ loan.payment <= loan.balance
  /\ loan.payment < RentedFor(s, loan.payment)
  /\ rex_loans_available(s)

\* A loan for the next period, paid from its balance.
Renewal(loan, rented_tokens) ==
  [loan EXCEPT !.total_staked = rented_tokens, !.left = @ + LoanTime, !.balance = @ - loan.payment]

\* update_renewed_loan
Renewed(s, r, i) ==
  LET loan == s.loans[r][i]
      rented_tokens == RentedFor(s, loan.payment)
  IN  [LoanAdded(s, loan.payment, rented_tokens) EXCEPT
         !.loans[r][i] = Renewal(loan, rented_tokens),
         !.rented[r][loan.receiver] = @ + rented_tokens - loan.total_staked]

\* A loan that is not renewed is closed, and its balance given back.
Closed(s, r, i) ==
  LET loan == s.loans[r][i]
  IN  [s EXCEPT !.loans[r] = RemoveAt(@, i),
                !.fund[loan.from] = @ + loan.balance,
                !.rented[r][loan.receiver] = @ - loan.total_staked]

\* process_expired_loan
Processed(s, r, i) ==
  LET s1 == LoanRemoved(s, s.loans[r][i])
  IN  IF Renews(s1, s.loans[r][i]) THEN Renewed(s1, r, i) ELSE Closed(s1, r, i)

\* The first `max' loans of a table that have expired.
LoansProcessed(s, r, max) ==
  LET After[i \in 0 .. max] ==
        IF i = 0 THEN s
        ELSE LET prev == After[i-1]
             IN  IF prev.loans[r] = << >> \/ prev.loans[r][First(prev.loans[r])].left > 0
                 THEN prev
                 ELSE Processed(prev, r, First(prev.loans[r]))
  IN  After[max]

\* Faulty: a part of the whole pool is kept back.
KeepOfAll(s) == s.pool.total_lendable \div KeptPart

\* A part of what is lent is kept back.
unlent_lower_bound(s) == s.pool.total_lent \div KeptPart

CanFill(s, amount) == ValueOf(s, amount) <= s.pool.total_unlent - unlent_lower_bound(s)

\* Faulty: the proceeds stay lendable.
FilledFree(s, o, amount) ==
  [s EXCEPT !.pool.total_rex = @ - amount, !.owned[o] = @ - amount,
            !.vote_stake[o] = ValueOf(s, s.owned[o]) - ValueOf(s, amount)]

\* fill_rex_order, where it can
Filled(s, o, amount) ==
  [s EXCEPT !.pool.total_rex = @ - amount,
            !.pool.total_lendable = @ - ValueOf(s, amount),
            !.pool.total_unlent = @ - ValueOf(s, amount),
            !.vote_stake[o] = ValueOf(s, s.owned[o]) - ValueOf(s, amount),
            !.owned[o] = @ - amount]

\* Faulty: the vote falls by what was sold, whatever it counted.
StakeSold(s, o, amount) == 0 - ValueOf(s, amount)

\* The change of vote stake by filling an order.
StakeChange(s, o, amount) == Filled(s, o, amount).vote_stake[o] - s.vote_stake[o]

\* One of the queued orders, with its proceeds left for the owner to collect.
OrderTried(s, order) ==
  IF ~CanFill(s, order.rex) THEN s
  ELSE [Filled(s, order.owner, order.rex) EXCEPT
          !.queue = RemoveAt(@, PlaceOf(s, order.owner)),
          !.proceeds[order.owner] = ValueOf(s, order.rex),
          !.stake_change[order.owner] = StakeChange(s, order.owner, order.rex)]

\* The first `max' of the orders in the queue.
OrdersTried(s, max) ==
  LET After[i \in 0 .. max] ==
        IF i = 0 THEN s
        ELSE IF i <= Len(s.queue) THEN OrderTried(After[i-1], s.queue[i]) ELSE After[i-1]
  IN  After[max]

\* The loan tables one after the other, CPU first.
AllProcessed(s, max) ==
  LET After[r \in 0 .. NumTables] ==
        IF r = 0 THEN s ELSE LoansProcessed(After[r-1], r, max)
  IN  After[NumTables]

\* runrex: what it may make of the tables, with any amount that returns
RunRex(s, max) ==
  { OrdersTried(s2, max) : s2 \in
     { AllProcessed(s1, max) : s1 \in
        { NamebidsChannelled(Returned(s, due)) : due \in 0 .. s.pool.held } } }

\* The tokens it moves into eosio.rex.
VaultAfterRun == vault + NamebidTransfer(rex)

-----------------------------------------------------------------------------
(* update_rex_account *)

Settled(s, o, proceeds) ==
  [s EXCEPT !.fund[o] = @ + proceeds + s.proceeds[o],
            !.proceeds[o] = 0,
            !.stake_change[o] = 0]

\* update_voting_power is called for a change or when forced, and refuses a
\* negative stake.
UpdateStakedIf(forced, s, o, delta) ==
  LET change == delta + s.stake_change[o]
  IN  /\ forced \/ change # 0 => staked[o] + change >= 0
      /\ staked' = [staked EXCEPT ![o] = @ + change]

UpdateStaked(s, o, delta) == UpdateStakedIf(FALSE, s, o, delta)

-----------------------------------------------------------------------------

Init ==
  /\ rex = [pool |-> [exists |-> FALSE, total_lent |-> 0, total_unlent |-> 0, total_rent |-> 0,
                      total_lendable |-> 0, total_rex |-> 0, namebid_proceeds |-> 0, held |-> 0],
            fund |-> [o \in Owners |-> 0],
            owned |-> [o \in Owners |-> 0],
            has_row |-> {},
            vote_stake |-> [o \in Owners |-> 0],
            queue |-> << >>,
            proceeds |-> [o \in Owners |-> 0],
            stake_change |-> [o \in Owners |-> 0],
            loans |-> [r \in Resources |-> << >>],
            rented |-> [r \in Resources |-> [o \in Owners |-> 0]]]
  /\ tokens = InitTokens
  /\ vault = 0
  /\ delegated = InitStake
  /\ staked = InitStake

\* deposit
Deposit(o, amount) ==
  /\ amount <= tokens[o]
  /\ tokens' = [tokens EXCEPT ![o] = @ - amount]
  /\ vault' = vault + amount
  /\ rex' = [rex EXCEPT !.fund[o] = @ + amount]
  /\ UNCHANGED <<delegated, staked>>

\* withdraw: filled orders are collected first.
Withdraw(o, amount) ==
  LET s == Settled(rex, o, 0)
  IN  /\ amount <= s.fund[o] /\ amount <= vault
      /\ UpdateStaked(rex, o, 0)
      /\ rex' = [s EXCEPT !.fund[o] = @ - amount]
      /\ tokens' = [tokens EXCEPT ![o] = @ + amount]
      /\ vault' = vault - amount
      /\ UNCHANGED delegated

\* buyrex: the purchase comes before the returns that are due.
BuyRex(o, amount) ==
  LET s == Bought([rex EXCEPT !.fund[o] = @ - amount], o, amount)
  IN  /\ amount <= rex.fund[o]
      /\ rex_available(rex) => rex.pool.total_lendable > 0
      /\ \E s1 \in RunRex(s, 2) :
           /\ rex' = Settled(s1, o, 0)
           /\ UpdateStaked(s1, o, s.vote_stake[o] - rex.vote_stake[o])
      /\ vault' = vault + NamebidTransfer(s)
      /\ UNCHANGED <<tokens, delegated>>

\* unstaketorex: the change of vote stake is not passed on.
UnstakeToRex(o, amount) ==
  LET s == Bought(rex, o, amount)
  IN  /\ amount <= delegated[o]
      /\ rex_available(rex) => rex.pool.total_lendable > 0
      /\ \E s1 \in RunRex(s, 2) :
           rex' = Settled(s1, o, 0) /\ UpdateStakedIf(TRUE, s1, o, 0)
      /\ delegated' = [delegated EXCEPT ![o] = @ - amount]
      /\ vault' = vault + amount + NamebidTransfer(s)
      /\ UNCHANGED tokens

\* What an owner has beyond an open order.
Uncommitted(s, o) == s.owned[o] - InOrder(s, o)

\* A new order goes to the end of the queue, more REX into the old order.
Queued(s, o, amount) ==
  IF HasOrder(s, o) THEN [s.queue EXCEPT ![PlaceOf(s, o)].rex = @ + amount]
  ELSE Append(s.queue, [owner |-> o, rex |-> amount])

\* sellrex, filled at once whatever the queue
SellNow(s, o, amount) ==
  LET s1 == Filled(s, o, amount)
  IN  /\ CanFill(s, amount)
      /\ ValueOf(s, amount) > 0
      /\ Uncommitted(s1, o) >= 0
      /\ UpdateStaked(s1, o, StakeChange(s, o, amount))
      /\ rex' = Settled(s1, o, ValueOf(s, amount))

\* sellrex, queued
SellLater(s, o, amount) ==
  LET s1 == Settled(s, o, 0)
  IN  /\ ~CanFill(s, amount)
      /\ amount <= Uncommitted(s1, o)
      /\ UpdateStaked(s, o, 0)
      /\ rex' = [s1 EXCEPT !.queue = Queued(s1, o, amount)]

SellRex(o, amount) ==
  /\ rex_system_initialized(rex)
  /\ \E s \in RunRex(rex, 2) :
       /\ amount <= s.owned[o]
       /\ SellNow(s, o, amount) \/ SellLater(s, o, amount)
  /\ vault' = VaultAfterRun
  /\ UNCHANGED <<tokens, delegated>>

\* cnclrexorder
CancelRexOrder(o) ==
  /\ HasOrder(rex, o)
  /\ rex' = [rex EXCEPT !.queue = RemoveAt(@, PlaceOf(rex, o))]
  /\ UNCHANGED <<tokens, vault, delegated, staked>>

\* rentcpu, rentnet
Rent(r, o, receiver, payment, fund) ==
  /\ rex_system_initialized(rex)
  /\ Len(rex.loans[r]) < MaxLoans
  /\ \E s \in RunRex(rex, 2) :
       LET rented_tokens == RentedFor(s, payment)
       IN  /\ rex_loans_available(s)
           /\ payment + fund <= s.fund[o]
           /\ payment < rented_tokens
           /\ rex' = [LoanAdded(s, payment, rented_tokens) EXCEPT
                        !.fund[o] = @ - (payment + fund),
                        !.loans[r] = Append(@, [from |-> o, receiver |-> receiver, payment |-> payment,
                                                balance |-> fund, total_staked |-> rented_tokens,
                                                left |-> LoanTime]),
                        !.rented[r][receiver] = @ + rented_tokens]
  /\ vault' = VaultAfterRun
  /\ UNCHANGED <<tokens, delegated, staked>>

\* fundcpuloan, fundnetloan
FundLoan(r, i, amount) ==
  LET loan == rex.loans[r][i]
  IN  /\ amount <= rex.fund[loan.from]
      /\ loan.left > 0
      /\ rex' = [rex EXCEPT !.fund[loan.from] = @ - amount, !.loans[r][i].balance = @ + amount]
      /\ UNCHANGED <<tokens, vault, delegated, staked>>

\* defcpuloan, defnetloan
DefundLoan(r, i, amount) ==
  LET loan == rex.loans[r][i]
  IN  /\ loan.left > 0
      /\ amount <= loan.balance
      /\ rex' = [rex EXCEPT !.fund[loan.from] = @ + amount, !.loans[r][i].balance = @ - amount]
      /\ UNCHANGED <<tokens, vault, delegated, staked>>

\* The value of all REX of an owner.
CurrentStake(s, o) == IF s.pool.total_rex > 0 THEN ValueOf(s, s.owned[o]) ELSE 0

\* updaterex
UpdateRex(o) ==
  /\ o \in rex.has_row
  /\ \E s \in RunRex(rex, 2) :
       LET s1 == [s EXCEPT !.vote_stake[o] = CurrentStake(s, o)]
       IN  /\ UpdateStakedIf(TRUE, s1, o, s1.vote_stake[o] - s.vote_stake[o])
           /\ rex' = Settled(s1, o, 0)
  /\ vault' = VaultAfterRun
  /\ UNCHANGED <<tokens, delegated>>

\* update_rex_stake, in voteproducer and in changes of stake
UpdateRexStake(o) ==
  /\ o \in rex.has_row /\ rex_available(rex)
  /\ rex' = [rex EXCEPT !.vote_stake[o] = ValueOf(rex, rex.owned[o])]
  /\ staked' = [staked EXCEPT ![o] = @ + ValueOf(rex, rex.owned[o]) - rex.vote_stake[o]]
  /\ UNCHANGED <<tokens, vault, delegated>>

\* setrex
SetRex(amount) ==
  /\ rex_system_initialized(rex)
  /\ rex' = [rex EXCEPT !.pool.total_rent = amount]
  /\ UNCHANGED <<tokens, vault, delegated, staked>>

\* rexexec
RexExec(max) ==
  /\ rex_system_initialized(rex)
  /\ rex' \in RunRex(rex, max)
  /\ vault' = VaultAfterRun
  /\ UNCHANGED <<tokens, delegated, staked>>

\* consolidate, mvtosavings, mvfrsavings: their effect on the pool
Maintain(o) ==
  /\ o \in rex.has_row
  /\ \E s \in RunRex(rex, 2) : UpdateStaked(s, o, 0) /\ rex' = Settled(s, o, 0)
  /\ vault' = VaultAfterRun
  /\ UNCHANGED <<tokens, delegated>>

\* closerex, once there is a pool
CloseRex(o) ==
  /\ rex_system_initialized(rex)
  /\ \E s \in RunRex(rex, 2) :
       /\ s.owned[o] = 0
       /\ UpdateStaked(s, o, 0)
       /\ rex' = [Settled(s, o, 0) EXCEPT !.has_row = @ \ {o}, !.vote_stake[o] = 0]
  /\ vault' = VaultAfterRun
  /\ UNCHANGED <<tokens, delegated>>

AllTokens == SumOf(tokens) + SumOf(delegated) + vault + rex.pool.namebid_proceeds

\* channel_to_rex: system fees of other components
ChannelToRex(fee) ==
  /\ rex_available(rex)
  /\ AllTokens + fee <= MaxTokens
  /\ \E due \in 0 .. rex.pool.held :
       rex' = [Returned(rex, due) EXCEPT !.pool.held = @ + fee]
  /\ vault' = vault + fee
  /\ UNCHANGED <<tokens, delegated, staked>>

\* channel_namebid_to_rex: the bid stays in eosio.names until runrex.
ChannelNamebidToRex(bid) ==
  /\ rex_available(rex)
  /\ AllTokens + bid <= MaxTokens
  /\ rex' = [rex EXCEPT !.pool.namebid_proceeds = @ + bid]
  /\ UNCHANGED <<tokens, vault, delegated, staked>>

\* Time passes; how late a loan is is counted up to one more LoanTime.
Aged(loan) == [loan EXCEPT !.left = IF @ > -LoanTime THEN @ - 1 ELSE @]

Tick ==
  /\ rex' = [rex EXCEPT !.loans = [r \in Resources |-> [i \in DOMAIN rex.loans[r] |-> Aged(rex.loans[r][i])]]]
  /\ UNCHANGED <<tokens, vault, delegated, staked>>

Trade ==
  \/ \E o \in Owners :
       \/ \E amount \in Transfers : Deposit(o, amount) \/ Withdraw(o, amount)
       \/ \E amount \in Purchases : BuyRex(o, amount)
       \/ \E amount \in RexAmounts : SellRex(o, amount)
       \/ \E r \in Resources, receiver \in Owners, payment \in Payments, fund \in {0} \union LoanFunds :
            Rent(r, o, receiver, payment, fund)
       \/ CancelRexOrder(o) \/ UpdateRex(o) \/ UpdateRexStake(o) \/ Maintain(o) \/ CloseRex(o)
  \/ \E r \in Resources : \E i \in DOMAIN rex.loans[r], amount \in LoanFunds :
       FundLoan(r, i, amount) \/ DefundLoan(r, i, amount)
  \/ \E amount \in Rents : SetRex(amount)
  \/ \E max \in MaxRuns : RexExec(max)
  \/ \E fee \in Fees : ChannelToRex(fee) \/ ChannelNamebidToRex(fee)
  \/ Tick

Next == Trade \/ \E o \in Owners, amount \in Purchases : UnstakeToRex(o, amount)

Spec == Init /\ [][Next]_vars

\* As long as nobody uses unstaketorex.
TradeSpec == Init /\ [][Trade]_vars

-----------------------------------------------------------------------------

PoolRow ==
  [exists : BOOLEAN, total_lent : Nat, total_unlent : Nat, total_rent : Nat,
   total_lendable : Nat, total_rex : Nat, namebid_proceeds : Nat, held : Nat]

Loan ==
  [from : Owners, receiver : Owners, payment : Nat, balance : Nat, total_staked : Nat,
   left : -LoanTime .. LoanTime]

Tables ==
  [pool : PoolRow,
   fund : [Owners -> Nat], owned : [Owners -> Nat],
   has_row : SUBSET Owners, vote_stake : [Owners -> Nat],
   queue : Seq([owner : Owners, rex : Nat]),
   proceeds : [Owners -> Nat], stake_change : [Owners -> Int],
   loans : [Resources -> Seq(Loan)],
   rented : [Resources -> [Owners -> Nat]]]

TypeOK ==
  /\ rex \in Tables
  /\ tokens \in [Owners -> Nat] /\ vault \in Nat
  /\ delegated \in [Owners -> Nat] /\ staked \in [Owners -> Int]

\* What the loans of a table were lent, one receiver's part of it, and what is
\* left to renew them.
LentBy(s, r) == SumOf([i \in DOMAIN s.loans[r] |-> s.loans[r][i].total_staked])

LentTo(s, r, o) ==
  SumOf([i \in DOMAIN s.loans[r] |->
           IF s.loans[r][i].receiver = o THEN s.loans[r][i].total_staked ELSE 0])

BalancesOf(s, r) == SumOf([i \in DOMAIN s.loans[r] |-> s.loans[r][i].balance])

\* The pool is consistent with all it counts: lendable tokens are lent or
\* not, all REX is owned, the lent tokens are those of the loans, and each
\* account's weights are those of the loans it received.
PoolAddsUp(s) ==
  /\ s.pool.total_lendable = s.pool.total_lent + s.pool.total_unlent
  /\ s.pool.total_rex = SumOf(s.owned)
  /\ s.pool.total_lent = SumOf([r \in DOMAIN s.loans |-> LentBy(s, r)])
  /\ \A r \in DOMAIN s.loans, o \in Owners : s.rented[r][o] = LentTo(s, r, o)

\* What eosio.rex owes to somebody: the funds, the pool, the returns to come,
\* the balances of loans and the uncollected proceeds.
Owed(s) ==
  SumOf(s.fund) + s.pool.total_lendable + s.pool.held
    + SumOf([r \in DOMAIN s.loans |-> BalancesOf(s, r)]) + SumOf(s.proceeds)

\* An open order is covered by its owner's REX, so that whoever fills it can.
OrdersAreCovered(s) == \A o \in Owners : InOrder(s, o) <= s.owned[o]

\* Bids are only promised to a pool that has owners, so runrex never has to
\* forget proceeds it cannot channel.
NamebidsHaveOwners(s) == s.pool.namebid_proceeds > 0 => rex_available(s)

\* The state runrex threads through returns, expired loans and orders is
\* sound wherever it stops: it adds up, eosio.rex holds all it owes, and every
\* open order can be filled.
PoolIsSound ==
  /\ PoolAddsUp(rex)
  /\ vault >= Owed(rex)
  /\ OrdersAreCovered(rex)
  /\ NamebidsHaveOwners(rex)

\* The vote of an owner counts all that is staked and the value of the REX when
\* last looked at, once filled orders are collected; so they can be, and no
\* stake becomes negative.  (It may count more: a payment too small for any REX
\* is counted until the row is closed, and then for ever.)
VoteStakeIsCounted ==
  \A o \in Owners : staked[o] + rex.stake_change[o] >= delegated[o] + rex.vote_stake[o]

\* While there is REX its price never falls: nobody buys or sells at the cost
\* of the others, whatever is rounded.
PriceDoesNotFall ==
  rex_available(rex) /\ rex_available(rex)' =>
    rex'.pool.total_lendable * rex.pool.total_rex >= rex.pool.total_lendable * rex'.pool.total_rex

\* As long as there are tokens to lend, and a price for them, no step takes them
\* all, unless next to nothing is lent; and none takes the price away.
LoansKeepAPrice ==
  rex.pool.total_unlent > 0 /\ rex.pool.total_rent > 0 =>
    /\ rex'.pool.total_rent > 0
    /\ rex'.pool.total_lent >= KeptPart => rex'.pool.total_unlent > 0

\* Neither REX nor loans lose their price.
PricesAreKept == [][PriceDoesNotFall /\ LoansKeepAPrice]_vars

\* While somebody waits to sell, loans are neither made nor renewed: each that
\* is there afterwards was there before, with as much time left.
SellersComeFirst ==
  rex.queue # << >> /\ rex'.queue # << >> =>
    \A r \in DOMAIN rex.loans : \A i \in DOMAIN rex'.loans[r] : \E j \in DOMAIN rex.loans[r] :
      /\ j >= i
      /\ rex'.loans[r][i].left <= rex.loans[r][j].left
      /\ rex'.loans[r][i].total_staked = rex.loans[r][j].total_staked

SellersAreFirst == [][SellersComeFirst]_vars
==============================================================================
