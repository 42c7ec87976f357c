----------------------------- MODULE TokenLedger -----------------------------
(***************************************************************************)
(* The eosio.token ledger as the system contract uses it: inline transfers *)
(* of the core token.  The token contract lives in its own repository, so  *)
(* only what the system contract relies on is stated: a transfer moves a   *)
(* positive amount that the sender owns, and otherwise aborts the whole    *)
(* transaction, the calling action included.                               *)
(***************************************************************************)
EXTENDS Integers

\* An inline transfer of amount from the holder is accepted.
CanPay(balance, from, amount) ==
  /\ amount > 0
  /\ balance[from] >= amount

\* The balances after the transfer.
Paid(balance, from, to, amount) ==
  [balance EXCEPT ![from] = @ - amount, ![to] = @ + amount]
==============================================================================
