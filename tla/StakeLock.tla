------------------------------ MODULE StakeLock ------------------------------
(***************************************************************************)
(* What staking promises a token holder, without resources, receivers or   *)
(* deferred transactions: tokens are liquid, staked or on their way back;  *)
(* they come back only after the owner has let the whole delay pass        *)
(* without unstaking more; and they never change owner except when a       *)
(* payer gives stake away.                                                 *)
(***************************************************************************)
EXTENDS Integers

CONSTANTS Owner, Delay, Funds

VARIABLES
  liquid,      \* tokens an owner can spend
  locked,      \* tokens an owner has staked
  returning,   \* tokens an owner has unstaked and not received
  waited       \* time since the owner's last unstaking, up to Delay

vars == <<liquid, locked, returning, waited>>

Init ==
  /\ liquid = Funds
  /\ locked = [o \in Owner |-> 0]
  /\ returning = [o \in Owner |-> 0]
  /\ waited = [o \in Owner |-> 0]

\* The payer stakes n tokens for the owner; the owner's own stake may reuse
\* tokens that are on their way back.
Stake(payer, owner, n) ==
  \E reused \in 0 .. IF payer = owner THEN returning[owner] ELSE 0 :
    /\ reused <= n
    /\ liquid[payer] >= n - reused
    /\ liquid' = [liquid EXCEPT ![payer] = @ - (n - reused)]
    /\ locked' = [locked EXCEPT ![owner] = @ + n]
    /\ returning' = [returning EXCEPT ![owner] = @ - reused]
    /\ waited' = [waited EXCEPT ![owner] = IF returning'[owner] = 0 THEN 0 ELSE @]

Unstake(owner, n) ==
  /\ n <= locked[owner]
  /\ locked' = [locked EXCEPT ![owner] = @ - n]
  /\ returning' = [returning EXCEPT ![owner] = @ + n]
  /\ waited' = [waited EXCEPT ![owner] = 0]
  /\ UNCHANGED liquid

Withdraw(owner) ==
  /\ returning[owner] > 0
  /\ waited[owner] = Delay
  /\ liquid' = [liquid EXCEPT ![owner] = @ + returning[owner]]
  /\ returning' = [returning EXCEPT ![owner] = 0]
  /\ waited' = [waited EXCEPT ![owner] = 0]
  /\ UNCHANGED locked

Wait ==
  /\ waited' = [o \in Owner |-> IF returning[o] > 0 /\ waited[o] < Delay
                                THEN waited[o] + 1 ELSE waited[o]]
  /\ UNCHANGED <<liquid, locked, returning>>

Next ==
  \/ \E p, o \in Owner : \E n \in 1 .. liquid[p] + returning[p] : Stake(p, o, n)
  \/ \E o \in Owner : \E n \in 1 .. locked[o] : Unstake(o, n)
  \/ \E o \in Owner : Withdraw(o)
  \/ Wait

Spec == Init /\ [][Next]_vars
==============================================================================
