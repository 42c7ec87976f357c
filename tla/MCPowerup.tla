------------------------------ MODULE MCPowerup ------------------------------
(***************************************************************************)
(* Small instances of the power-up market and of the resource limits of an *)
(* account.  They share no state here, so a behaviour follows one          *)
(* scenario, chosen at the start:                                          *)
(*   "orders"  two accounts buy NET and CPU                                *)
(*   "prices"  one account buys much or little of one resource, while the  *)
(*             market is configured again and its weight grows             *)
(*   "queue"   orders that last for one or two seconds pile up             *)
(*   "limits"  delegations, loans, power-ups and RAM of one account, and   *)
(*             limits set by hand                                          *)
(***************************************************************************)
EXTENDS Integers, Sequences

CONSTANTS a1, a2, net, cpu

\* The market opens at once, or its weight grows over two seconds; it may be
\* configured again, also to a weight that is too small for what is sold.
Growing == [current_weight_ratio |-> 8, target_weight_ratio |-> 2, assumed_stake_weight |-> 2,
            target_timestamp |-> 2, max_price |-> 6, min_price |-> 1]
Steady  == [current_weight_ratio |-> 4, target_weight_ratio |-> 4, assumed_stake_weight |-> 4,
            target_timestamp |-> 0, max_price |-> 8, min_price |-> 0]
Changed == [current_weight_ratio |-> 0, target_weight_ratio |-> 2, assumed_stake_weight |-> 1,
            target_timestamp |-> 3, max_price |-> 6, min_price |-> 6]

\* Every second half of the gap to the adjusted utilization is left.
Halving == [seconds \in 0 .. 4 |-> 2 ^ seconds]

Frac == 8
MinFee == 1

VARIABLES
  scenario,
  configured, state, powerup_days, orders,    \* of Powerup
  powered, reserv, managed, limits, now,
  granted, bought, row, flags, weights, ram_limit  \* of ResourceLimits

Orders == INSTANCE Powerup WITH
  Account <- {a1, a2}, Resource <- {net, cpu}, Configs <- {Growing, Steady},
  Days <- {1}, Fractions <- {0, 4}, Batches <- {1},
  Decay <- Halving, MaxOrders <- 2, LastTime <- 2

Prices == INSTANCE Powerup WITH
  Account <- {a1}, Resource <- {net}, Configs <- {Growing, Steady, Changed},
  Days <- {1, 2}, Fractions <- {1, 4, 8}, Batches <- {1, 2},
  Decay <- Halving, MaxOrders <- 3, LastTime <- 4

Queue == INSTANCE Powerup WITH
  Account <- {a1, a2}, Resource <- {net}, Configs <- {Growing, Steady},
  Days <- {1, 2}, Fractions <- {2}, Batches <- {1},
  Decay <- Halving, MaxOrders <- 3, LastTime <- 3

\* By hand, a limit is lifted or set to less than is granted at once.
Limits == INSTANCE ResourceLimits WITH
  Resource <- {net, cpu}, MaxWeight <- 2, MaxRam <- 2, ram_gift_bytes <- 1,
  HandWeights <- {-1, 1}, HandBytes <- {-1, 1}, managed <- flags, limits <- weights

ASSUME MCPowerupAssumption ==
  /\ Orders!PowerupConstants
  /\ Prices!PowerupConstants
  /\ Queue!PowerupConstants
  /\ Limits!ResourceLimitsConstants

marketVars == <<configured, state, powerup_days, orders, powered, reserv, managed, limits, now>>
limitVars == <<granted, bought, row, flags, weights, ram_limit>>

NoMarket ==
  /\ configured = 0 /\ state = 0 /\ powerup_days = 0 /\ orders = 0 /\ powered = 0
  /\ reserv = 0 /\ managed = 0 /\ limits = 0 /\ now = 0
NoLimits ==
  granted = 0 /\ bought = 0 /\ row = 0 /\ flags = 0 /\ weights = 0 /\ ram_limit = 0

MCInit ==
  \/ scenario = "orders" /\ Orders!Init /\ NoLimits
  \/ scenario = "prices" /\ Prices!Init /\ NoLimits
  \/ scenario = "queue" /\ Queue!Init /\ NoLimits
  \/ scenario = "limits" /\ Limits!Init /\ NoMarket

MCNext ==
  /\ UNCHANGED scenario
  /\ \/ scenario = "orders" /\ Orders!Next /\ UNCHANGED limitVars
     \/ scenario = "prices" /\ Prices!Next /\ UNCHANGED limitVars
     \/ scenario = "queue" /\ Queue!Next /\ UNCHANGED limitVars
     \/ scenario = "limits" /\ Limits!Next /\ UNCHANGED marketVars

\* Time passes, and again and again somebody runs powerupexec.
Fairness ==
  /\ WF_marketVars(scenario = "queue" /\ Queue!NextSecond)
  /\ WF_marketVars(scenario = "queue" /\ Queue!PowerupExec(1))

MCSpec == MCInit /\ [][MCNext]_<<marketVars, limitVars, scenario>> /\ Fairness

\* Of Powerup: what is sold is granted, and belongs to the weight.
SalesAreSound ==
  /\ scenario = "orders" => Orders!TypeOK /\ Orders!SalesAreCovered
  /\ scenario = "prices" => Prices!TypeOK /\ Prices!SalesAreCovered

\* Of Powerup: fees cannot be lowered by splitting a purchase.
FeesAreFair == scenario = "prices" => Prices!FeesAreFair

\* Of Powerup: prices do not fall with the use that ends.
PriceOutlivesUse == [][scenario = "prices" => Prices!PriceOutlivesUse]_marketVars

\* Of Powerup: orders that have expired do not stay in the queue for good,
\* though only a batch is taken out at a time and others are bought meanwhile.
ExpiredOrdersReturn == <>[](scenario = "queue" => Queue!Due = {})

\* Of ResourceLimits: what an account gets is what was granted to it.
LimitsAreSound == scenario = "limits" => Limits!LimitsAreSound
==============================================================================
