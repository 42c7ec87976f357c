-------------------------------- MODULE PoolPay -------------------------------
(***************************************************************************)
(* Pay from inflation once staking pools exist (staking_pool.cpp): onblock *)
(* counts the blocks of a round, updatepay pays for the last finished      *)
(* round into the pools and to the first producers by pool votes, and      *)
(* claimvotepay pays a producer out.                                       *)
(*                                                                         *)
(* What a round is worth depends on the supply, the rates and how many of  *)
(* its blocks were produced; here it is any amount up to a bound.          *)
(***************************************************************************)
EXTENDS PoolTable

CONSTANTS
  Pool,           \* the staking pools
  BlocksPerRound,
  LastSlot,       \* the last block slot considered
  MaxNumPay,      \* max_num_pay
  RatioParts, RatioOf,  \* max_vote_ratio is RatioParts / RatioOf
  MaxTarget,      \* bound on the producers' pay for a round
  MaxPoolPay      \* bound on the pay of one pool for a round

PoolPayConstants ==
  /\ PoolTableConstants
  /\ IsFiniteSet(Pool)
  /\ BlocksPerRound \in Nat \ {0} /\ LastSlot \in Nat /\ MaxNumPay \in Nat
  /\ RatioOf \in Nat \ {0} /\ RatioParts \in 0 .. RatioOf
  /\ MaxTarget \in Nat /\ MaxPoolPay \in Nat

VARIABLES
  slot,      \* the slot of the next block
  round,     \* [interval_start, blocks, unpaid_blocks]
  vote_pay,  \* total_pool_votes::vote_pay
  pools,     \* the inflation each pool's balance has received
  tokens     \* core tokens paid to eosio.bpspay and eosio.srpool

payVars == <<slot, round, vote_pay, pools, tokens>>
vars == <<tables, payVars>>

\* The round a slot belongs to begins with a multiple of its length.
RoundOf(s) == (s \div BlocksPerRound) * BlocksPerRound

-----------------------------------------------------------------------------

Init ==
  /\ TablesInit
  /\ slot = 0
  /\ round = [interval_start |-> 0, blocks |-> 0, unpaid_blocks |-> 0]
  /\ vote_pay = [p \in Producer |-> 0]
  /\ pools = [i \in Pool |-> 0]
  /\ tokens = [bpspay |-> 0, srpool |-> 0]

\* get_staking_pool_state_mutable, when cfgsrpool is used first.
Configure ==
  /\ CfgSrPool
  /\ round' = [round EXCEPT !.interval_start = RoundOf(slot)]
  /\ UNCHANGED <<slot, vote_pay, pools, tokens>>

RoundIsOver(s) == s >= round.interval_start + BlocksPerRound

\* What the new round leaves to be paid: what nobody asked pay for is lost.
UnpaidAfterRound == round.blocks

\* onblock_update_pool, for a block in the given slot.
OnBlock(s) ==
  /\ s \in slot .. LastSlot
  /\ slot' = s + 1
  /\ round' =
       IF ~configured THEN round
       ELSE IF RoundIsOver(s)
            THEN [interval_start |-> RoundOf(s), blocks |-> 1, unpaid_blocks |-> UnpaidAfterRound]
            ELSE [round EXCEPT !.blocks = @ + 1]
  /\ UNCHANGED <<tables, vote_pay, pools, tokens>>

\* update_total_pool_votes, for the producers then found first.
Refreshed(tops) ==
  [listed EXCEPT !.votes = [p \in Producer |->
     IF p \in tops THEN pool_votes[p] ELSE listed.votes[p]]]

VotesOf(S, list) == SumOf([p \in S |-> list.votes[p]])

\* calc_votes of the total_votes of all pools.
AllVotes == SumOf(pool_votes)

\* The votes are those of enough producers to stop paying more.
Enough(votes) == votes * RatioOf >= AllVotes * RatioParts

\* The producers paid before enough votes were paid for, out of the first:
\* the last of them was reached with too few.
PaidSets(tops, list) ==
  { S \in SUBSET tops :
      /\ S \in Firsts(Cardinality(S), tops, list.votes)
      /\ S = tops \/ Enough(VotesOf(S, list))
      /\ S # {} => \E p \in S :
           /\ \A q \in S : list.votes[p] <= list.votes[q]
           /\ ~Enough(VotesOf(S \ {p}, list)) }

\* What the producers are paid of the target, each by its votes.
Pay(target, S, list) ==
  [p \in Producer |-> IF p \in S THEN (target * list.votes[p]) \div AllVotes ELSE 0]

\* What each pool gets that somebody has shares in.
PoolPay(staked, amount) == [i \in Pool |-> IF i \in staked THEN amount ELSE 0]

\* Faulty: the round can be paid for again.
LeftUnpaid == round.unpaid_blocks

\* What is unpaid after updatepay.
NoneUnpaid == 0

\* updatepay, with the producers' target and the pay of each pool, for pools
\* of which those in staked have shares.
UpdatePay(target, amount, staked) ==
  /\ configured
  /\ round.unpaid_blocks > 0
  /\ \E first \in TopActive(MaxNumPay, listed) :
       LET list == Refreshed(first)
       IN  /\ listed' = list
           /\ \E tops \in TopActive(MaxNumPay, list) :
              \E S \in IF target > 0 /\ AllVotes > 0 THEN PaidSets(tops, list) ELSE {{}} :
                LET pay == Pay(target, S, list)
                IN  /\ vote_pay' = [p \in Producer |-> vote_pay[p] + pay[p]]
                    /\ tokens' = [bpspay |-> tokens.bpspay + SumOf(pay),
                                  srpool |-> tokens.srpool + amount * Cardinality(staked)]
  /\ pools' = [i \in Pool |-> pools[i] + PoolPay(staked, amount)[i]]
  /\ round' = [round EXCEPT !.unpaid_blocks = NoneUnpaid]
  /\ UNCHANGED <<configured, registered, active, pool_votes, slot>>

\* claimvotepay, which inactive producers may use, too.
ClaimVotePay(p) ==
  /\ p \in listed.row
  /\ vote_pay[p] > 0
  /\ tokens.bpspay >= vote_pay[p]
  /\ vote_pay' = [vote_pay EXCEPT ![p] = 0]
  /\ tokens' = [tokens EXCEPT !.bpspay = @ - vote_pay[p]]
  /\ UNCHANGED <<tables, slot, round, pools>>

Next ==
  \/ Configure
  \/ TablesNext /\ UNCHANGED payVars
  \/ \E s \in 0 .. LastSlot : OnBlock(s)
  \/ \E target \in 0 .. MaxTarget, amount \in 0 .. MaxPoolPay, staked \in SUBSET Pool :
       UpdatePay(target, amount, staked)
  \/ \E p \in Producer : ClaimVotePay(p)

Spec == Init /\ [][Next]_vars

-----------------------------------------------------------------------------

TypeOK ==
  /\ TablesTypeOK
  /\ slot \in 0 .. LastSlot + 1
  /\ round \in [interval_start : 0 .. LastSlot + 1, blocks : Nat, unpaid_blocks : Nat]
  /\ vote_pay \in [Producer -> Nat]
  /\ pools \in [Pool -> Nat]
  /\ tokens \in [bpspay : Nat, srpool : Nat]

\* No round counts more blocks than it has slots, whenever pools were
\* configured and whichever blocks were missed, so that the reward, which is
\* scaled by the tenth power of the share of blocks produced, is never more
\* than that of a full round.
RoundsAreFull ==
  /\ round.blocks <= slot - round.interval_start
  /\ round.blocks <= BlocksPerRound
  /\ round.unpaid_blocks <= BlocksPerRound

\* Inflation is paid at most once for each finished round: what the pools
\* received is bounded by the rounds that have passed.
OncePerRound ==
  LET over == round.interval_start \div BlocksPerRound
      paidFor == IF round.unpaid_blocks > 0 THEN over - 1 ELSE over
  IN  tokens.srpool <= MaxPoolPay * Cardinality(Pool) * paidFor

\* What producers and pools were promised is what their tokens were issued for.
PayIsBacked ==
  /\ tokens.bpspay = SumOf(vote_pay)
  /\ tokens.srpool = SumOf(pools)

\* Rounds are counted and paid once, whatever blocks are missed and however
\* late pay is asked for.
RoundsArePaidOnce == RoundsAreFull /\ OncePerRound /\ PayIsBacked

\* The producers' pay in a step.
Paid == SumOf([p \in Producer |-> IF vote_pay'[p] > vote_pay[p] THEN vote_pay'[p] - vote_pay[p] ELSE 0])

\* While the listed votes are those the pools give, all producers together are
\* not paid more than the target for the round.
FreshPayWithinTarget == listed.votes = pool_votes => Paid <= MaxTarget
==============================================================================
