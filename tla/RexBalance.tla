------------------------------ MODULE RexBalance ------------------------------
(***************************************************************************)
(* The REX of one owner (rex.cpp): matured REX, REX that matures on one of *)
(* the next five days, and savings, which never mature, are parts of one   *)
(* balance; an open sell order is a claim on the matured part that other   *)
(* accounts' actions redeem at any time.                                   *)
(*                                                                         *)
(* The deque rex_maturities is a function here: from 1 to 5 the REX that   *)
(* matures in so many days, and at 0 what has matured and was not noticed. *)
(***************************************************************************)
EXTENDS LedgerArithmetic, FiniteSetsExt

CONSTANTS
  MaturityDays,  \* num_of_maturity_buckets
  Amounts,       \* amounts of REX bought, sold and moved
  MaxRex         \* bound on the REX ever bought

RexBalanceConstants ==
  MaturityDays \in Nat \ {0} /\ Amounts \subseteq Nat \ {0} /\ MaxRex \in Nat

VARIABLES
  rb,        \* the owner's row of rexbal, and the open order in rexqueue
  acquired,  \* what was bought so many midnights ago; the last is the rest
  sold       \* what was sold

vars == <<rb, acquired, sold>>

Days == 0 .. MaturityDays

NoRex == [day \in Days |-> 0]

Init ==
  /\ rb = [rex_balance |-> 0, matured_rex |-> 0, maturing |-> NoRex, savings |-> 0, order |-> 0]
  /\ acquired = NoRex
  /\ sold = 0

\* get_rex_maturity: four days from the end of the day
get_rex_maturity == MaturityDays

\* Faulty: what has matured stays in its bucket.
MaturedAgain(b) == [b EXCEPT !.matured_rex = @ + b.maturing[0]]

\* process_rex_maturities
Matured(b) == [b EXCEPT !.matured_rex = @ + b.maturing[0], !.maturing[0] = 0]

\* The order is filled: by runrex in anybody's action.
Filled(b) == [b EXCEPT !.rex_balance = @ - b.order, !.matured_rex = @ - b.order, !.order = 0]

\* What runrex may make of the balance
RunRex(b) == IF b.order > 0 THEN {b, Filled(b)} ELSE {b}

\* Every change is by one of the actions, which says how much was sold.
Becomes(b) == rb' = b /\ sold' = sold + (rb.rex_balance - b.rex_balance)

\* add_to_rex_balance in buyrex and unstaketorex, then runrex
BuyRex(amount) ==
  /\ SumOf(acquired) + amount <= MaxRex
  /\ \E b \in RunRex([Matured(rb) EXCEPT !.rex_balance = @ + amount,
                                         !.maturing[get_rex_maturity] = @ + amount]) :
       rb' = b /\ sold' = sold + (rb.rex_balance + amount - b.rex_balance)
  /\ acquired' = [acquired EXCEPT ![0] = @ + amount]

\* sellrex: sold at once or added to the order, which stays covered.
SellRex(amount) ==
  /\ \E run \in RunRex(rb) :
       LET b == Matured(run)
       IN  /\ amount <= b.matured_rex
           /\ b.order + amount <= b.matured_rex
           /\ \/ Becomes([b EXCEPT !.rex_balance = @ - amount, !.matured_rex = @ - amount])
              \/ Becomes([b EXCEPT !.order = @ + amount])
  /\ UNCHANGED acquired

\* cnclrexorder
CancelRexOrder ==
  /\ rb.order > 0
  /\ Becomes([rb EXCEPT !.order = 0])
  /\ UNCHANGED acquired

\* runrex in an action of another account
OthersRun ==
  /\ \E b \in RunRex(rb) : Becomes(b)
  /\ UNCHANGED acquired

\* updaterex
UpdateRex ==
  /\ \E b \in RunRex(rb) : Becomes(Matured(b))
  /\ UNCHANGED acquired

\* The REX of the open order stays matured.
HeldForOrder(b) == b.order

\* consolidate: all but the savings and the order matures anew.
Consolidate ==
  /\ \E b \in RunRex(rb) :
       Becomes([b EXCEPT !.matured_rex = HeldForOrder(b),
                         !.maturing = [NoRex EXCEPT ![get_rex_maturity] =
                           b.matured_rex - HeldForOrder(b) + SumOf(b.maturing)]])
  /\ UNCHANGED acquired

\* What a move to savings takes from a day, the last day first.
Saved(b, amount, day) ==
  Min({b.maturing[day], Max({0, amount - SumOf([d \in day + 1 .. MaturityDays |-> b.maturing[d]])})})

\* What it takes from the matured REX, when all that matures does not suffice.
SavedMatured(b, amount) == amount - SumOf([day \in Days |-> Saved(b, amount, day)])

\* What is neither in savings nor in an order.
Unsaved(b) == b.rex_balance - b.savings - b.order

\* mvtosavings; its "logic error" is that the order is no longer covered.
MvToSavings(amount) ==
  /\ \E run \in RunRex(rb) :
       LET b == Matured(run)
       IN  /\ amount <= Unsaved(b)
           /\ SavedMatured(b, amount) > 0 => b.order <= b.matured_rex - SavedMatured(b, amount)
           /\ Becomes([b EXCEPT !.maturing = [day \in Days |-> b.maturing[day] - Saved(b, amount, day)],
                                !.matured_rex = @ - SavedMatured(b, amount),
                                !.savings = @ + amount])
  /\ UNCHANGED acquired

\* mvfrsavings
MvFrSavings(amount) ==
  /\ \E run \in RunRex(rb) :
       LET b == Matured(run)
       IN  /\ amount <= b.savings
           /\ Becomes([b EXCEPT !.maturing[get_rex_maturity] = @ + amount, !.savings = @ - amount])
  /\ UNCHANGED acquired

\* The next day: all REX is a day nearer to its maturity.
Midnight ==
  /\ rb' = [rb EXCEPT !.maturing = [day \in Days |->
              IF day = 0 THEN rb.maturing[0] + rb.maturing[1]
              ELSE IF day = MaturityDays THEN 0 ELSE rb.maturing[day + 1]]]
  /\ acquired' = [day \in Days |->
              IF day = 0 THEN 0
              ELSE IF day = MaturityDays THEN acquired[day] + acquired[day - 1] ELSE acquired[day - 1]]
  /\ UNCHANGED sold

Next ==
  \/ \E amount \in Amounts :
       BuyRex(amount) \/ SellRex(amount) \/ MvToSavings(amount) \/ MvFrSavings(amount)
  \/ CancelRexOrder \/ OthersRun \/ UpdateRex \/ Consolidate \/ Midnight

Spec == Init /\ [][Next]_vars

-----------------------------------------------------------------------------

TypeOK ==
  /\ rb \in [rex_balance : Nat, matured_rex : Nat, maturing : [Days -> Nat],
             savings : Nat, order : Nat]
  /\ acquired \in [Days -> Nat] /\ sold \in Nat

\* The parts make up the balance, whatever was moved between them: no REX is
\* lost or counted twice.
PartsAddUp == rb.rex_balance = rb.matured_rex + SumOf(rb.maturing) + rb.savings

\* Whoever fills the open order finds it covered by matured REX.
OrderIsCovered == rb.order <= rb.matured_rex

\* What is sold was bought at least four days and the rest of a day before.
SoldIsOld == sold <= acquired[MaturityDays]

\* The code's own assertion: a move to savings that the balance allows never
\* fails with "logic error in mvtosavings".
SavingsNeverFail ==
  \A amount \in Amounts :
    amount <= Unsaved(rb) /\ SavedMatured(Matured(rb), amount) > 0 =>
        rb.order <= Matured(rb).matured_rex - SavedMatured(Matured(rb), amount)

\* Through any moves between parts, midnights and orders filled by others the
\* balance stays whole, covers its order and sells nothing before its time.
BalanceIsSound == PartsAddUp /\ OrderIsCovered /\ SoldIsOld /\ SavingsNeverFail
==============================================================================
