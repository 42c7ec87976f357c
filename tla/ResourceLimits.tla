--------------------------- MODULE ResourceLimits ---------------------------
(***************************************************************************)
(* The row of one account in user_resources and its limits in the kernel.  *)
(* Four parts of eosio.system change the row: delegations                  *)
(* (delegate_bandwidth.cpp), REX loans (rex.cpp), power-ups (powerup.cpp)  *)
(* and the RAM market.  Each creates the row when it is missing, and all   *)
(* but the RAM market erase it when nothing is left in it.  Privileged     *)
(* actions set limits by hand (eosio.system.cpp).                          *)
(*                                                                         *)
(* What the parts have granted is recorded on their side: by the tables of *)
(* delegations, loans and orders, which other modules describe.            *)
(***************************************************************************)
EXTENDS LedgerArithmetic

CONSTANTS
  Resource,      \* NET and CPU
  MaxWeight,     \* bound on what one part grants of a resource
  MaxRam,        \* bound on the bytes bought
  ram_gift_bytes,
  HandWeights,   \* weights set by hand; -1 is unlimited
  HandBytes      \* bytes of RAM set by hand; -1 is unlimited

RAM == "ram"

ResourceLimitsConstants ==
  /\ IsFiniteSet(Resource) /\ RAM \notin Resource
  /\ MaxWeight \in Nat /\ MaxRam \in Nat
  /\ ram_gift_bytes \in Nat
  /\ HandWeights \subseteq Nat \union {-1} /\ HandBytes \subseteq Nat \union {-1}

VARIABLES
  granted,   \* what delegations, loans and power-ups have given of a resource
  bought,    \* the bytes of RAM that were bought and not sold
  row,       \* the row: whether it exists, its weights and bytes
  managed,   \* voter_info::flags1: limits that are set by hand
  limits,    \* the weights that the kernel knows; -1 is unlimited
  ram_limit  \* the bytes that the kernel knows; -1 is unlimited

vars == <<granted, bought, row, managed, limits, ram_limit>>

Part == {"delegated", "lent", "powered"}

Nothing == [r \in Resource |-> 0]
NoRow == [exists |-> FALSE, weight |-> Nothing, ram_bytes |-> 0]

Larger(m, n) == IF m >= n THEN m ELSE n

\* An account that existed before the contract is unlimited and has no row;
\* newaccount gives every other account an empty row and no resources.
Init ==
  /\ granted = [p \in Part |-> Nothing]
  /\ bought = 0
  /\ managed = {}
  /\ \/ row = NoRow /\ limits = [r \in Resource |-> -1] /\ ram_limit = -1
     \/ row = [NoRow EXCEPT !.exists = TRUE] /\ limits = Nothing /\ ram_limit = 0

-----------------------------------------------------------------------------

Deltas == [Resource -> (-MaxWeight) .. MaxWeight] \ {Nothing}

\* A part grants or takes back what its tables record.
Grant(part, delta) ==
  /\ \A r \in Resource : granted[part][r] + delta[r] \in 0 .. MaxWeight
  /\ granted' = [granted EXCEPT ![part] = [r \in Resource |-> @[r] + delta[r]]]

Changed(delta) ==
  [row EXCEPT !.exists = TRUE, !.weight = [r \in Resource |-> @[r] + delta[r]]]

\* Faulty: bytes of RAM do not keep a row.
ErasedWithBytes(new) == IF new.weight = Nothing THEN NoRow ELSE new

\* user_resources::is_empty: such a row is erased.
Erased(new) ==
  IF new.weight = Nothing /\ new.ram_bytes = 0 THEN NoRow ELSE new

\* set_resource_limits for NET and CPU after the row has changed.
SetWeights(new) ==
  limits' = [r \in Resource |-> IF r \in managed THEN limits[r] ELSE new.weight[r]]

\* changebw and adjust_resources also raise RAM to what the account owns,
\* except when both weights are managed.
RaiseRam(new) ==
  ram_limit' = IF Resource \subseteq managed \/ RAM \in managed THEN ram_limit
               ELSE Larger(new.ram_bytes + ram_gift_bytes, ram_limit)

\* changebw
ChangeBw(delta) ==
  LET new == Changed(delta)
  IN  /\ Grant("delegated", delta)
      /\ SetWeights(new)
      /\ RaiseRam(new)
      /\ row' = Erased(new)
      /\ UNCHANGED <<bought, managed>>

\* adjust_resources: an account with managed limits receives no power-up, but
\* its orders do expire.
AdjustResources(delta) ==
  LET new == Changed(delta)
  IN  /\ \/ managed \intersect Resource = {} /\ \A r \in Resource : delta[r] >= 0
         \/ \A r \in Resource : delta[r] <= 0
      /\ Grant("powered", delta)
      /\ SetWeights(new)
      /\ RaiseRam(new)
      /\ row' = Erased(new)
      /\ UNCHANGED <<bought, managed>>

\* update_resource_limits, which leaves RAM alone
UpdateResourceLimits(part, delta) ==
  LET new == Changed(delta)
  IN  /\ Grant(part, delta)
      /\ SetWeights(new)
      /\ row' = Erased(new)
      /\ UNCHANGED <<bought, managed, ram_limit>>

\* REX loans are rented, renewed at another price, and expire.
ChangeLoans(delta) == UpdateResourceLimits("lent", delta)

\* unstaketorex buys REX with tokens that are delegated.
UnstakeToRex(delta) ==
  /\ \A r \in Resource : delta[r] <= 0
  /\ UpdateResourceLimits("delegated", delta)

\* buyram and sellram for some bytes
TradeRam(bytes) ==
  LET new == [row EXCEPT !.exists = TRUE, !.ram_bytes = @ + bytes]
  IN  /\ bytes < 0 => row.exists /\ row.ram_bytes >= -bytes
      /\ bought + bytes <= MaxRam
      /\ bought' = bought + bytes
      /\ row' = new
      /\ ram_limit' = IF RAM \in managed THEN ram_limit ELSE new.ram_bytes + ram_gift_bytes
      /\ UNCHANGED <<granted, managed, limits>>

-----------------------------------------------------------------------------
(* Limits set by hand.                                                     *)

\* What setalimits asks of the account.
IsUnlimited == ~row.exists /\ managed = {}

SetALimits(weights, bytes) ==
  /\ IsUnlimited
  /\ limits' = weights
  /\ ram_limit' = bytes
  /\ UNCHANGED <<granted, bought, row, managed>>

\* setacctnet and setacctcpu with a weight
SetAcctWeight(r, weight) ==
  /\ managed' = managed \union {r}
  /\ limits' = [limits EXCEPT ![r] = weight]
  /\ UNCHANGED <<granted, bought, row, ram_limit>>

\* setacctnet and setacctcpu without a weight
ReleaseWeight(r) ==
  /\ r \in managed
  /\ managed' = managed \ {r}
  /\ limits' = [limits EXCEPT ![r] = row.weight[r]]
  /\ UNCHANGED <<granted, bought, row, ram_limit>>

\* setacctram with a number of bytes
SetAcctRam(bytes) ==
  /\ bytes >= 0
  /\ managed' = managed \union {RAM}
  /\ ram_limit' = bytes
  /\ UNCHANGED <<granted, bought, row, limits>>

\* The limit that setacctram restores.
OwnedRam == ram_gift_bytes + row.ram_bytes

\* setacctram without a number of bytes
ReleaseRam ==
  /\ RAM \in managed
  /\ managed' = managed \ {RAM}
  /\ ram_limit' = OwnedRam
  /\ UNCHANGED <<granted, bought, row, limits>>

Next ==
  \/ \E d \in Deltas : ChangeBw(d) \/ AdjustResources(d)
  \/ \E d \in Deltas : ChangeLoans(d) \/ UnstakeToRex(d)
  \/ \E b \in ((-MaxRam) .. MaxRam) \ {0} : TradeRam(b)
  \/ \E w \in [Resource -> HandWeights], b \in HandBytes : SetALimits(w, b)
  \/ \E r \in Resource, w \in HandWeights : SetAcctWeight(r, w)
  \/ \E r \in Resource : ReleaseWeight(r)
  \/ \E b \in HandBytes : SetAcctRam(b)
  \/ ReleaseRam

Spec == Init /\ [][Next]_vars

-----------------------------------------------------------------------------

TypeOK ==
  /\ granted \in [Part -> [Resource -> 0 .. MaxWeight]]
  /\ bought \in 0 .. MaxRam
  /\ row \in [exists : BOOLEAN, weight : [Resource -> Nat], ram_bytes : Nat]
  /\ managed \subseteq Resource \union {RAM}
  /\ limits \in [Resource -> Nat \union {-1}]
  /\ ram_limit \in Nat \union {-1}

GrantedOf(r) == SumOf([p \in Part |-> granted[p][r]])

\* The row holds exactly what delegations, loans, power-ups and the RAM market
\* have given, whoever of them created it and whoever erased it in between.
RowHoldsGrants ==
  /\ row.ram_bytes = bought
  /\ \A r \in Resource : row.weight[r] = GrantedOf(r)

\* An account that was given NET or CPU gets exactly the sum of it, whichever
\* of its limits were managed or set by setalimits before.
LimitsFollowGrants ==
  \A r \in Resource : r \notin managed /\ GrantedOf(r) > 0 => limits[r] = GrantedOf(r)

\* An account can always use the RAM it bought.
BoughtRamIsUsable ==
  RAM \notin managed /\ bought > 0 => ram_limit >= bought + ram_gift_bytes

\* What an account gets is what was granted to it.
GrantsAreHonoured == RowHoldsGrants /\ LimitsFollowGrants /\ BoughtRamIsUsable

LimitsAreSound == TypeOK /\ GrantsAreHonoured
==============================================================================
