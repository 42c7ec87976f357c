------------------------------- MODULE Powerup -------------------------------
(***************************************************************************)
(* The power-up market of eosio.system (powerup.cpp): cfgpowerup, powerup  *)
(* and powerupexec.  The chain sells NET and CPU for some days.  Each is a *)
(* market of its own, whose weight grows as the chain takes over from      *)
(* staking; what is not sold belongs to eosio.reserv.  The price follows   *)
(* an adjusted utilization, which rises at once and falls slowly.          *)
(*                                                                         *)
(* The price curve has the default exponent, 2, and fees are computed      *)
(* exactly.                                                                *)
(***************************************************************************)
EXTENDS LedgerArithmetic, Sequences

CONSTANTS
  Account,      \* accounts that receive resources
  Resource,     \* the resources sold: NET and CPU
  Frac,         \* powerup_frac: 100%
  Configs,      \* configurations of one market given to cfgpowerup; a
                \* current_weight_ratio of 0 keeps the present one
  Days,         \* values of powerup_days, in seconds
  MinFee,       \* min_powerup_fee
  Fractions,    \* fractions of the weight that are asked for
  Batches,      \* values of max given to powerupexec
  Decay,        \* how many times smaller the gap between adjusted and actual
                \* utilization is after some seconds: exp(seconds / decay_secs)
  MaxOrders,    \* bound on the orders that stand at once
  LastTime      \* the last second considered

PowerupConstants ==
  /\ IsFiniteSet(Account) /\ IsFiniteSet(Resource)
  /\ Frac \in Nat \ {0} /\ MinFee \in Nat \ {0}
  /\ Fractions \subseteq 0 .. Frac
  /\ Days \subseteq Nat \ {0} /\ Batches \subseteq Nat
  /\ MaxOrders \in Nat /\ LastTime \in Nat
  /\ \A seconds \in 0 .. LastTime : Decay[seconds] \in Nat \ {0}
  /\ \A c \in Configs :
       /\ c.current_weight_ratio \in 0 .. Frac
       /\ c.target_weight_ratio \in 1 .. Frac
       /\ c.assumed_stake_weight \in Nat \ {0}
       /\ c.target_timestamp \in Nat
       /\ c.max_price \in Nat \ {0} /\ c.min_price \in 0 .. c.max_price

VARIABLES
  configured,    \* the singleton powup.state exists
  state,         \* powerup_state::net and ::cpu
  powerup_days,  \* powerup_state::powerup_days
  orders,        \* the table powup.order, in the order of its ids
  powered,       \* the part of each account's user_resources from powerup
  reserv,        \* user_resources of eosio.reserv
  managed,       \* accounts and resources whose limits are set by setacct*
  limits,        \* what the kernel grants of powered
  now            \* the current second

vars == <<configured, state, powerup_days, orders, powered, reserv, managed, limits, now>>

Smaller(m, n) == IF m <= n THEN m ELSE n

-----------------------------------------------------------------------------
(* update_weight and update_utilization.                                   *)

\* The weight ratio moves in a straight line from its initial to its target
\* value.
WeightRatio(res) ==
  IF now >= res.target_timestamp THEN res.target_weight_ratio
  ELSE res.initial_weight_ratio
         - ((res.initial_weight_ratio - res.target_weight_ratio) * (now - res.initial_timestamp))
             \div (res.target_timestamp - res.initial_timestamp)

\* update_weight; what the weight gains goes to eosio.reserv.
UpdateWeight(res) ==
  LET ratio == WeightRatio(res)
  IN  [res EXCEPT
         !.weight_ratio = ratio,
         !.weight = (res.assumed_stake_weight * Frac) \div ratio - res.assumed_stake_weight]

\* update_utilization
UpdateUtilization(res) ==
  IF now <= res.utilization_timestamp THEN res
  ELSE LET gap == res.adjusted_utilization - res.utilization
           left == gap \div Decay[now - res.utilization_timestamp]
       IN  [res EXCEPT
              !.adjusted_utilization = res.utilization + IF gap <= 0 THEN 0 ELSE left,
              !.utilization_timestamp = now]

-----------------------------------------------------------------------------
(* calc_powerup_fee.                                                       *)

\* Faulty: what was bought below the adjusted utilization is charged again.
FeeNumeratorTwice(res, increase) ==
  LET start == res.utilization
      end == start + increase
      flat == IF start < res.adjusted_utilization
              THEN Smaller(increase, res.adjusted_utilization - start)
              ELSE 0
      slope == res.max_price - res.min_price
  IN  2 * (res.min_price * res.weight + slope * res.adjusted_utilization) * flat
        + 2 * res.min_price * res.weight * increase + slope * (end * end - start * start)

\* The fee times twice the square of the weight: up to the adjusted
\* utilization the price there holds, from there on the price rises with
\* utilization.
FeeNumerator(res, increase) ==
  LET start == res.utilization
      end == start + increase
      flat == IF start < res.adjusted_utilization
              THEN Smaller(increase, res.adjusted_utilization - start)
              ELSE 0
      rise == IF flat > 0 THEN res.adjusted_utilization ELSE start
      slope == res.max_price - res.min_price
  IN  2 * (res.min_price * res.weight + slope * res.adjusted_utilization) * flat
        + IF rise < end
          THEN 2 * res.min_price * res.weight * (end - rise) + slope * (end * end - rise * rise)
          ELSE 0

\* calc_powerup_fee: the fee, rounded up.
Fee(res, increase) ==
  LET whole == 2 * res.weight * res.weight
  IN  IF increase <= 0 THEN 0 ELSE (FeeNumerator(res, increase) + whole - 1) \div whole

-----------------------------------------------------------------------------
(* The queue.                                                              *)

Due == {i \in DOMAIN orders : orders[i].expires <= now}

\* Faulty: orders wait for those that were bought before them.
TakenByAge(max) ==
  {i \in Due : i <= max /\ \A j \in 1 .. i : j \in Due}

\* The orders that process_powerup_queue takes out, by their expiration.
Taken(max) ==
  {i \in Due :
     Cardinality({j \in Due : \/ orders[j].expires < orders[i].expires
                              \/ orders[j].expires = orders[i].expires /\ j < i}) < max}

\* The orders that are left, in the order of their ids.
Kept(taken) ==
  LET left == DOMAIN orders \ taken
  IN  [k \in 1 .. Cardinality(left) |-> orders[CHOOSE i \in left : Rank(left, i) = k]]

\* What the orders taken out give back, for all accounts and for one.
Released(taken, r) == SumOf([i \in taken |-> orders[i].weight[r]])
ReleasedBy(a, taken, r) == Released({i \in taken : orders[i].owner = a}, r)

\* Faulty: utilization is reduced by what has become available in all.
ProcessedWithGain(taken, r) ==
  LET updated == UpdateWeight(UpdateUtilization(state[r]))
  IN  [updated EXCEPT !.utilization = @ - Released(taken, r) - (updated.weight - state[r].weight)]

\* Faulty: the adjusted utilization is brought up to date too late.
ProcessedLate(taken, r) ==
  UpdateWeight(UpdateUtilization([state[r] EXCEPT !.utilization = @ - Released(taken, r)]))

\* What process_powerup_queue does to a market.
Processed(taken, r) ==
  UpdateWeight([UpdateUtilization(state[r]) EXCEPT !.utilization = @ - Released(taken, r)])

\* net_delta_available and cpu_delta_available
Available(taken, after, r) == Released(taken, r) + after[r].weight - state[r].weight

\* adjust_resources: the kernel is told unless the limit is managed.
AdjustResources(amounts) ==
  [a \in Account |-> [r \in Resource |->
     IF <<a, r>> \in managed THEN limits[a][r] ELSE amounts[a][r]]]

-----------------------------------------------------------------------------

NoMarket == [weight |-> 0, weight_ratio |-> 0, assumed_stake_weight |-> 0,
             initial_weight_ratio |-> Frac, target_weight_ratio |-> 1,
             initial_timestamp |-> 0, target_timestamp |-> 0,
             min_price |-> 0, max_price |-> 0,
             utilization |-> 0, adjusted_utilization |-> 0, utilization_timestamp |-> 0]

Nothing == [r \in Resource |-> 0]

Init ==
  /\ configured = FALSE
  /\ state = [r \in Resource |-> NoMarket]
  /\ powerup_days \in Days
  /\ orders = << >>
  /\ powered = [a \in Account |-> Nothing]
  /\ reserv = Nothing
  /\ managed = {}
  /\ limits = [a \in Account |-> Nothing]
  /\ now = 0

\* What cfgpowerup starts from: a market that exists is brought up to date.
BroughtUpToDate(r) ==
  IF configured THEN UpdateWeight(UpdateUtilization(state[r]))
  ELSE [state[r] EXCEPT !.utilization_timestamp = now]

CurrentRatio(c, res) ==
  IF c.current_weight_ratio # 0 THEN c.current_weight_ratio
  ELSE IF res.weight_ratio # 0 THEN res.weight_ratio ELSE res.initial_weight_ratio

\* The checks of cfgpowerup that a configuration does not pass by itself.
MayConfigure(c, res) ==
  LET ratio == CurrentRatio(c, res)
  IN  /\ c.target_weight_ratio <= ratio
      /\ c.target_weight_ratio # ratio => c.target_timestamp > now

Reconfigured(c, res) ==
  LET ratio == CurrentRatio(c, res)
  IN  UpdateWeight([res EXCEPT
        !.assumed_stake_weight = c.assumed_stake_weight,
        !.initial_weight_ratio = ratio,
        !.target_weight_ratio = c.target_weight_ratio,
        !.initial_timestamp = now,
        !.target_timestamp = IF ratio = c.target_weight_ratio THEN now ELSE c.target_timestamp,
        !.min_price = c.min_price,
        !.max_price = c.max_price])

\* Adjusted utilization never exceeds the weight.
Capped(res) ==
  [res EXCEPT !.adjusted_utilization = Smaller(@, res.weight)]

\* cfgpowerup: both markets at once.
CfgPowerup(c, days) ==
  LET new == [r \in Resource |-> Capped(Reconfigured(c[r], BroughtUpToDate(r)))]
  IN  /\ \A r \in Resource :
           /\ MayConfigure(c[r], BroughtUpToDate(r))
           /\ new[r].weight >= new[r].utilization
      /\ state' = new
      /\ configured' = TRUE
      /\ powerup_days' = days
      /\ reserv' = [r \in Resource |-> reserv[r] + Available({}, new, r)]
      /\ UNCHANGED <<orders, powered, managed, limits, now>>

PowerupExec(max) ==
  LET taken == Taken(max)
      new == [r \in Resource |-> Processed(taken, r)]
  IN  /\ configured
      /\ state' = new
      /\ orders' = Kept(taken)
      /\ powered' = [a \in Account |-> [r \in Resource |->
                       powered[a][r] - ReleasedBy(a, taken, r)]]
      /\ limits' = AdjustResources(powered')
      /\ reserv' = [r \in Resource |-> reserv[r] + Available(taken, new, r)]
      /\ UNCHANGED <<configured, powerup_days, managed, now>>

\* What process checks for the amount of one resource.
CanBuy(res, amount) ==
  /\ res.weight > 0
  /\ res.utilization + amount <= res.weight
  /\ Fee(res, amount) > 0

\* powerup: the receiver buys fractions of the weights, after two orders at
\* most have been taken out of the queue.  The fee is channelled to REX or the
\* staking pools.
PowerUp(receiver, fractions) ==
  LET taken == Taken(2)
      due == [r \in Resource |-> Processed(taken, r)]
      amounts == [r \in Resource |-> (fractions[r] * due[r].weight) \div Frac]
      new == [r \in Resource |-> [due[r] EXCEPT !.utilization = @ + amounts[r]]]
      order == [owner |-> receiver, weight |-> amounts, expires |-> now + powerup_days]
  IN  /\ configured
      /\ \A r \in Resource : fractions[r] # 0 => CanBuy(due[r], amounts[r])
      /\ SumOf([r \in Resource |-> Fee(due[r], amounts[r])]) >= MinFee
      /\ \A r \in Resource : <<receiver, r>> \notin managed
      /\ Cardinality(DOMAIN orders \ taken) < MaxOrders
      /\ state' = new
      /\ orders' = Append(Kept(taken), order)
      /\ powered' = [a \in Account |-> [r \in Resource |->
                       powered[a][r] - ReleasedBy(a, taken, r)
                         + IF a = receiver THEN amounts[r] ELSE 0]]
      /\ limits' = AdjustResources(powered')
      /\ reserv' = [r \in Resource |-> reserv[r] + Available(taken, due, r) - amounts[r]]
      /\ UNCHANGED <<configured, powerup_days, managed, now>>

\* setacctnet and setacctcpu with a limit, for which 0 stands, and without one.
Manage(a, r) ==
  /\ managed' = managed \union {<<a, r>>}
  /\ limits' = [limits EXCEPT ![a][r] = 0]
  /\ UNCHANGED <<configured, state, powerup_days, orders, powered, reserv, now>>

Release(a, r) ==
  /\ <<a, r>> \in managed
  /\ managed' = managed \ {<<a, r>>}
  /\ limits' = [limits EXCEPT ![a][r] = powered[a][r]]
  /\ UNCHANGED <<configured, state, powerup_days, orders, powered, reserv, now>>

NextSecond ==
  /\ now < LastTime
  /\ now' = now + 1
  /\ UNCHANGED <<configured, state, powerup_days, orders, powered, reserv, managed, limits>>

Next ==
  \/ \E c \in [Resource -> Configs], d \in Days : CfgPowerup(c, d)
  \/ \E n \in Batches : PowerupExec(n)
  \/ \E a \in Account, f \in [Resource -> Fractions] : PowerUp(a, f)
  \/ \E a \in Account, r \in Resource : Manage(a, r) \/ Release(a, r)
  \/ NextSecond

Spec == Init /\ [][Next]_vars

-----------------------------------------------------------------------------

Market == [weight : Nat, weight_ratio : 0 .. Frac, assumed_stake_weight : Nat,
           initial_weight_ratio : 1 .. Frac, target_weight_ratio : 1 .. Frac,
           initial_timestamp : Nat, target_timestamp : Nat, min_price : Nat, max_price : Nat,
           utilization : Nat, adjusted_utilization : Nat, utilization_timestamp : Nat]

TypeOK ==
  /\ configured \in BOOLEAN
  /\ state \in [Resource -> Market]
  /\ powerup_days \in Days
  /\ orders \in Seq([owner : Account, weight : [Resource -> Nat], expires : Nat])
  /\ powered \in [Account -> [Resource -> Nat]]
  /\ reserv \in [Resource -> Nat]
  /\ managed \subseteq Account \X Resource
  /\ limits \in [Account -> [Resource -> Nat]]
  /\ now \in 0 .. LastTime

\* Utilization is exactly what the orders in the queue have bought, while
\* they are taken out late, in batches, and the weight moves.
UtilizationIsSold ==
  \A r \in Resource :
    state[r].utilization = SumOf([i \in DOMAIN orders |-> orders[i].weight[r]])

\* eosio.reserv owns exactly the weight that is not sold: no resources are
\* granted twice, and none are lost, however often the market is configured.
ReservIsUnsold ==
  \A r \in Resource : reserv[r] = state[r].weight - state[r].utilization

\* Every account is granted what its orders bought, and gets it from the
\* kernel unless its limit was set by hand in the meantime; such a limit stays
\* as it was set while orders end.
OrdersAreGranted ==
  \A a \in Account, r \in Resource :
    LET bought == SumOf([i \in DOMAIN orders |->
                           IF orders[i].owner = a THEN orders[i].weight[r] ELSE 0])
    IN  /\ powered[a][r] = bought
        /\ limits[a][r] = IF <<a, r>> \in managed THEN 0 ELSE bought

\* Utilization, also the adjusted one, is a part of the weight, as the price
\* curve assumes.
UtilizationIsWithinWeight ==
  \A r \in Resource :
    /\ state[r].utilization <= state[r].weight
    /\ state[r].adjusted_utilization <= state[r].weight

\* Nothing that is sold is granted twice or lost.
SalesAreCovered ==
  /\ UtilizationIsSold
  /\ ReservIsUnsold
  /\ OrdersAreGranted
  /\ UtilizationIsWithinWeight

\* Buying in two steps is never cheaper than buying at once, nor does the fee
\* leave the range between the minimum and the maximum price.
FeesAreFair ==
  \A r \in Resource :
    LET res == state[r]
        free == res.weight - res.utilization
    IN  res.weight > 0 =>
          /\ \A m \in 1 .. free, n \in 1 .. free :
               m + n <= free =>
                 Fee(res, m) + Fee([res EXCEPT !.utilization = @ + m], n) >= Fee(res, m + n)
          /\ \A m \in 1 .. free :
               /\ Fee(res, m) * res.weight >= res.min_price * m
               /\ (Fee(res, m) - 1) * res.weight < res.max_price * m

\* Use that ends does not lower the price at the moment it ends, nor does a
\* purchase: within a second, the adjusted utilization that a purchase finds
\* never falls, whatever was bought or has expired.
PriceOutlivesUse ==
  configured /\ now' = now
    => \A r \in Resource :
         /\ state'[r].initial_timestamp = state[r].initial_timestamp
         /\ state'[r].weight = state[r].weight
         => UpdateUtilization(state[r]).adjusted_utilization
              <= UpdateUtilization(state'[r]).adjusted_utilization

==============================================================================
