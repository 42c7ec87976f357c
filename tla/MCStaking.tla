------------------------------ MODULE MCStaking ------------------------------
(***************************************************************************)
(* Small instances of staking: two accounts with a few tokens.  A          *)
(* behaviour follows one of two scenarios chosen at the start: refunds,    *)
(* when all has vested and no limit is set by hand, and the vesting of one *)
(* account with limits set by hand.                                        *)
(*                                                                         *)
(* A history variable tells whether the transaction of an owner's refund   *)
(* was given up, in which case the owner claims it by hand.                *)
(***************************************************************************)
EXTENDS Staking, TLC

CONSTANTS a1, a2

MCAccount == {a1, a2}
MCFunds == a1 :> 2 @@ a2 :> 1
\* By hand a limit is lifted.
MCLimits == {-1}

VARIABLES
  scenario,    \* "refunds" or "vesting"
  withdrawn    \* owners of a refund that was left without a transaction

StakeChanges(a) == staked'[a] # staked[a]
\* The chain drops a transaction that would have paid.
Dropped(a) == refund_age[a] >= RefundDelay /\ LoseDeferred(a)
Refunding == scenario = "refunds"

MCInit ==
  /\ scenario \in {"refunds", "vesting"}
  /\ Init
  /\ vested = IF Refunding THEN VestingTime ELSE 0
  /\ withdrawn = {}

MCNext ==
  /\ Next
  /\ Refunding => UNCHANGED managed
  /\ withdrawn' = {a \in Account : /\ Refunding
                                   /\ Pending(a)' /\ deferred'[a] = NoTrx
                                   /\ StakeChanges(a) \/ Dropped(a) \/ a \in withdrawn}
  /\ UNCHANGED scenario

MCSpec ==
  /\ MCInit /\ [][MCNext]_<<vars, scenario, withdrawn>>
  /\ WF_vars(Refunding /\ Tick)
  /\ \A a \in Account : WF_vars(Refunding /\ RunDeferred(a))
  /\ \A a \in Account : WF_vars(Refunding /\ a \in withdrawn /\ Refund(a))

\* A refund whose owner leaves its stake alone always returns: by its
\* transaction, without a claim, or, when a delegation cancelled that for good
\* or the chain dropped it, by one claim by hand.
RefundReturns ==
  \A a \in Account :
    \/ ~Refunding
    \/ []<>~Pending(a)
    \/ []<><<StakeChanges(a)>>_vars
==============================================================================
