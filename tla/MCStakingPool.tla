---------------------------- MODULE MCStakingPool ----------------------------
(***************************************************************************)
(* Small instances of the staking pools.  A behaviour follows one of four  *)
(* scenarios chosen at the start:                                          *)
(*   "votes"  three accounts stake two tokens each and vote with them,     *)
(*            also through proxies                                         *)
(*   "ballots" the same with two accounts and ballots that overlap         *)
(*   "stake"  two accounts move stake in and out of one pool, with fees,   *)
(*            through two claim periods                                    *)
(*   "pools"  the same with two pools that pay out at different speeds     *)
(***************************************************************************)
EXTENDS Naturals, TLC

CONSTANTS a1, a2, a3, b1, b2, p1, p2, None

Voters == {a1, a2, a3}
Owners == {b1, b2}

\* One claim pays half a stake, in the longer pool a third.
TwoPeriods == 0 :> 1 @@ 1 :> 2
TwoDurations == 0 :> 2 @@ 1 :> 6
OnePeriod == 0 :> 2
OneDuration == 0 :> 4
ShortPeriod == 0 :> 1
ShortDuration == 0 :> 2

VARIABLES
  scenario,
  pool_voters, owned_shares, is_proxy, proxy, producers, books, upgraded, active,
  pools, next_claim, tokens, srpool, namebid_proceeds, now

vars == <<pool_voters, owned_shares, is_proxy, proxy, producers, books, upgraded, active,
          pools, next_claim, tokens, srpool, namebid_proceeds, now>>

Votes == INSTANCE StakingPool WITH
  Account <- Voters, Producer <- {p1}, MinBallot <- 1, MaxBallot <- 1, Pool <- {0},
  Unit <- 1, Period <- ShortPeriod, Duration <- ShortDuration, MinTransferCreate <- 1,
  Wealth <- 2, Amounts <- {2}, Fees <- {}, MaxPooled <- 0, LastSlot <- 1

Ballots == INSTANCE StakingPool WITH
  Account <- {a1, a2}, Producer <- {p1, p2}, MinBallot <- 1, MaxBallot <- 2, Pool <- {0},
  Unit <- 1, Period <- ShortPeriod, Duration <- ShortDuration, MinTransferCreate <- 1,
  Wealth <- 2, Amounts <- {2}, Fees <- {}, MaxPooled <- 0, LastSlot <- 1

Stake == INSTANCE StakingPool WITH
  Account <- Owners, Producer <- {}, MinBallot <- 0, MaxBallot <- 1, Pool <- {0},
  Unit <- 2, Period <- OnePeriod, Duration <- OneDuration, MinTransferCreate <- 2,
  Wealth <- 3, Amounts <- {1, 2}, Fees <- {1}, MaxPooled <- 4, LastSlot <- 3

Pools == INSTANCE StakingPool WITH
  Account <- Owners, Producer <- {}, MinBallot <- 0, MaxBallot <- 1, Pool <- {0, 1},
  Unit <- 2, Period <- TwoPeriods, Duration <- TwoDurations, MinTransferCreate <- 2,
  Wealth <- 2, Amounts <- {1, 2}, Fees <- {1}, MaxPooled <- 2, LastSlot <- 1

ASSUME MCStakingPoolAssumption ==
  /\ Votes!StakingPoolConstants /\ Ballots!StakingPoolConstants
  /\ Stake!StakingPoolConstants /\ Pools!StakingPoolConstants

MCInit ==
  \/ scenario = "votes" /\ Votes!Init
  \/ scenario = "ballots" /\ Ballots!Init
  \/ scenario = "stake" /\ Stake!Init
  \/ scenario = "pools" /\ Pools!Init

\* Ballots do not move stake: where none is required to claim, nobody votes.
MCNext ==
  /\ UNCHANGED scenario
  /\ \/ scenario = "votes" /\ Votes!Next
     \/ scenario = "ballots" /\ Ballots!Next
     \/ scenario = "stake" /\ Stake!StakeNext
     \/ scenario = "pools" /\ Pools!StakeNext

MCSpec == MCInit /\ [][MCNext]_<<vars, scenario>>

\* Of PoolVotes: the votes are well-formed and sound.
VotesAreSound ==
  /\ scenario = "votes" => Votes!TypeOK /\ Votes!PoolVotesAreSound
  /\ scenario = "ballots" => Ballots!TypeOK /\ Ballots!PoolVotesAreSound

\* Of StakingPool: the pools are well-formed and sound.
StakesAreSound ==
  /\ scenario = "stake" => Stake!TypeOK /\ Stake!StakesAreSound
  /\ scenario = "pools" => Pools!TypeOK /\ Pools!StakesAreSound

\* Of StakingPool: what others do costs no owner anything.
StakeKeepsItsValue ==
  [][/\ scenario = "stake" => Stake!KeepsValue
     /\ scenario = "pools" => Pools!KeepsValue]_<<vars, scenario>>

\* Of StakingPool: neither own nor foreign actions bring a claim nearer, and
\* new stake waits.
ClaimsComeNoSooner ==
  [][/\ scenario = "stake" => Stake!NoSooner /\ Stake!NewStakeWaits
     /\ scenario = "pools" => Pools!NoSooner /\ Pools!NewStakeWaits]_<<vars, scenario>>

\* Accounts that do the same are interchangeable, and so are producers.
Symmetric == Permutations(Voters) \union Permutations(Owners) \union Permutations({p1, p2})
==============================================================================
