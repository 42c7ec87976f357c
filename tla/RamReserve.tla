----------------------------- MODULE RamReserve ------------------------------
(***************************************************************************)
(* What the RAM market promises, without bytes changing hands one account  *)
(* at a time, fees, or a pricing formula: a reserve that has sold `sold`   *)
(* of its `supply` bytes for `stake` tokens lets trades happen only at     *)
(* prices that do not lower the product of its two sides, and never        *)
(* shrinks its supply.  That is enough for the tokens it keeps to cover    *)
(* the return of everything it has sold (Solvent).                         *)
(***************************************************************************)
EXTENDS LedgerArithmetic

CONSTANTS
  FirstSupply,   \* bytes on offer when the market opens
  Cushion        \* tokens the price starts from, owned by nobody

VARIABLES supply, sold, stake

vars == <<supply, sold, stake>>

Init ==
  /\ supply = FirstSupply
  /\ sold = 0
  /\ stake = 0

\* The product of the two sides of the reserve.
Depth == (supply - sold) * (Cushion + stake)

\* Bytes are issued, bought or sold, in any combination.
Step ==
  /\ supply' \in Nat
  /\ supply' >= supply
  /\ sold' \in Nat
  /\ sold' < supply'
  /\ stake' \in Nat
  /\ Depth' >= Depth + (supply' - supply) * (Cushion + stake)

Next == Step

Spec == Init /\ [][Next]_vars

TypeOK ==
  /\ supply \in Nat \ {0}
  /\ sold \in Nat
  /\ sold < supply
  /\ stake \in Nat

\* What the reserve would pay for `bytes` at once, at its own price.
PayoutFor(bytes) == (bytes * (Cushion + stake)) \div (supply - sold + bytes)

\* The reserve can buy back every byte it has ever sold out of the tokens
\* staked with it (total_ram_stake never has to go negative).
Solvent == PayoutFor(sold) <= stake

-----------------------------------------------------------------------------

ReserveConstants ==
  /\ FirstSupply \in Nat \ {0}
  /\ Cushion \in Nat \ {0}

\* The product of the sides stays at least what the present supply was worth
\* at the opening price.
DepthCoversSupply == supply * Cushion <= Depth

ReserveInv == TypeOK /\ DepthCoversSupply
==============================================================================
