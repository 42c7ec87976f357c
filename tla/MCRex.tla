-------------------------------- MODULE MCRex ---------------------------------
(***************************************************************************)
(* Small instances of REX.  The parts of it that RexPool, RexBalance and   *)
(* RexReturns model share no state here, so a behaviour follows one        *)
(* scenario, chosen at the start:                                          *)
(*   "trading"  REX is bought and sold, staked tokens too, and fees come   *)
(*              in; there are no loans                                     *)
(*   "lending"  all tokens of one owner may be lent to the other, CPU and  *)
(*              NET, and wanted back                                       *)
(*   "orders"   the same with CPU only, and rexexec is run while an owner  *)
(*              waits to sell                                              *)
(*   "balance"  the parts of one owner's balance, day by day               *)
(*   "returns"  the buckets of the return pool                             *)
(***************************************************************************)
EXTENDS RexPool

CONSTANTS o1, o2, None

MCOwners == {o1, o2}
LendingTokens == (o1 :> 4) @@ (o2 :> 2)
NoStake == (o1 :> 0) @@ (o2 :> 0)
TradingTokens == (o1 :> 1) @@ (o2 :> 2)
SomeStake == (o1 :> 2) @@ (o2 :> 0)

VARIABLES
  scenario,
  rb, acquired, sold,                    \* of RexBalance
  now, pool, buckets, returned, fees     \* of RexReturns

Trading == INSTANCE RexPool WITH
  InitTokens <- TradingTokens, InitStake <- SomeStake,
  Purchases <- {1, 2}, RexAmounts <- {1, 2}, Rents <- {2}, Fees <- {1}, MaxLoans <- 0

Orders == INSTANCE RexPool WITH NumTables <- 1

Balance == INSTANCE RexBalance WITH
  MaturityDays <- 5, Amounts <- {1, 2}, MaxRex <- 4

\* Buckets of two intervals, each returned over four.
Returns == INSTANCE RexReturns WITH
  TotalIntervals <- 4, IntervalsPerBucket <- 2, LastFee <- 9, LastTime <- 16, MaxFees <- 9

ASSUME MCRexAssumption == Balance!RexBalanceConstants /\ Returns!RexReturnsConstants

poolVars == vars
balanceVars == <<rb, acquired, sold>>
returnVars == <<now, pool, buckets, returned, fees>>

Pooled == scenario \in {"trading", "lending"}

NoBalance == rb = 0 /\ acquired = 0 /\ sold = 0
NoReturns == now = 0 /\ pool = 0 /\ buckets = 0 /\ returned = 0 /\ fees = 0

MCInit ==
  \/ scenario = "trading" /\ Trading!Init /\ NoBalance /\ NoReturns
  \/ scenario = "lending" /\ Init /\ NoBalance /\ NoReturns
  \/ scenario = "orders" /\ Orders!Init /\ NoBalance /\ NoReturns
  \/ scenario = "balance" /\ Balance!Init /\ Init /\ NoReturns
  \/ scenario = "returns" /\ Returns!Init /\ Init /\ NoBalance

MCNext ==
  /\ UNCHANGED scenario
  /\ \/ scenario = "trading" /\ Trading!Next /\ UNCHANGED <<balanceVars, returnVars>>
     \/ scenario = "lending" /\ Next /\ UNCHANGED <<balanceVars, returnVars>>
     \/ scenario = "orders" /\ Orders!Next /\ UNCHANGED <<balanceVars, returnVars>>
     \/ scenario = "balance" /\ Balance!Next /\ UNCHANGED <<poolVars, returnVars>>
     \/ scenario = "returns" /\ Returns!Next /\ UNCHANGED <<poolVars, balanceVars>>

\* Time passes, and anyone may run rexexec: those who wait for something do.
Fairness ==
  /\ WF_poolVars(scenario = "orders" /\ Orders!Tick)
  /\ \A max \in MaxRuns : WF_poolVars(scenario = "orders" /\ rex.queue # << >> /\ Orders!RexExec(max))
  /\ WF_returnVars(scenario = "returns" /\ (Returns!UpdateRexPool \/ Returns!NextInterval))

MCSpec == MCInit /\ [][MCNext]_<<poolVars, balanceVars, returnVars, scenario>> /\ Fairness

\* RexPool alone, with the constants as they are.
PlainSpec ==
  /\ scenario = "plain" /\ Init /\ NoBalance /\ NoReturns
  /\ [][Next /\ UNCHANGED <<scenario, balanceVars, returnVars>>]_<<poolVars, scenario>>

\* Of RexPool: the tables are well-formed, and the vote of an owner counts its
\* stake and its REX, as long as nobody uses unstaketorex.
VotesCountStake ==
  /\ Pooled => TypeOK
  /\ scenario = "lending" => VoteStakeIsCounted

\* Of RexBalance: the balance stays whole and covers its order.
BalanceIsSound == scenario = "balance" => Balance!TypeOK /\ Balance!BalanceIsSound

\* Of RexReturns: the return pool accounts for all fees.
ReturnsAddUp == scenario = "returns" => Returns!TypeOK /\ Returns!ReturnsAddUp

\* Every order to sell is filled, or cancelled, in the end: the loans that tie
\* up the tokens expire and are not renewed while an order is open.  Every fee
\* is returned in the end, remainders included.
NothingStaysBehind ==
  /\ \A o \in Owners :
       (scenario = "orders" /\ InOrder(rex, o) > 0) ~> (scenario = "orders" /\ InOrder(rex, o) = 0)
  /\ (scenario = "returns" /\ pool.proceeds > 0) ~> (scenario = "returns" /\ pool.proceeds = 0)
==============================================================================
