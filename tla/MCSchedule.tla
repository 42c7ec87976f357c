------------------------------ MODULE MCSchedule ------------------------------
(***************************************************************************)
(* Small instances of the two users of the producers' tables.  A behaviour *)
(* follows one of two scenarios chosen at the start: the election of three *)
(* producers for two seats, or pay through two staking pools for two       *)
(* producers of which one or both are paid, over rounds of two blocks.     *)
(***************************************************************************)
EXTENDS Naturals, TLC

CONSTANTS p1, p2, p3, i1, i2

VARIABLES
  scenario,
  configured, registered, active, pool_votes, listed,
  total_votes, schedule, last_producer_schedule_size, seats,
  slot, round, vote_pay, pools, tokens

Seats == INSTANCE Election WITH
  Producer <- {p1, p2, p3}, MaxPoolVotes <- 1,
  Size <- 2, MaxVotes <- 1

Pay == INSTANCE PoolPay WITH
  Producer <- {p1, p2}, MaxPoolVotes <- 2,
  Pool <- {i1, i2},
  BlocksPerRound <- 2, LastSlot <- 4,
  MaxNumPay <- 2, RatioParts <- 2, RatioOf <- 3,
  MaxTarget <- 3, MaxPoolPay <- 1

ASSUME SeatsAssumption == Seats!ElectionConstants
ASSUME PayAssumption == Pay!PoolPayConstants

electionVars == <<total_votes, schedule, last_producer_schedule_size, seats>>
payVars == <<slot, round, vote_pay, pools, tokens>>
Electing == scenario = "election"

MCInit ==
  \/ /\ Electing
     /\ Seats!Init
     /\ slot = 0 /\ round = 0 /\ vote_pay = 0 /\ pools = 0 /\ tokens = 0
  \/ /\ scenario = "pay"
     /\ Pay!Init
     /\ total_votes = 0 /\ schedule = {} /\ last_producer_schedule_size = 0 /\ seats = 0

MCNext ==
  /\ UNCHANGED scenario
  /\ \/ Electing /\ Seats!Next /\ UNCHANGED payVars
     \/ ~Electing /\ Pay!Next /\ UNCHANGED electionVars

\* Blocks keep being produced, and with them schedules elected.
MCSpec ==
  /\ MCInit /\ [][MCNext]_<<Seats!vars, payVars, scenario>>
  /\ WF_(Seats!vars)(Electing /\ Seats!Elects)

\* Of Election: seats and flags are well-formed and sound.
SeatsAreSound == Electing => Seats!SeatsAreSound

\* Of PoolPay: every finished round is paid for once, with tokens behind it.
RoundsArePaidOnce == ~Electing => Pay!TypeOK /\ Pay!RoundsArePaidOnce

\* Of Election: no producer is passed over; of PoolPay: while the listed votes
\* are fresh the producers together get no more than the target.
SeatsAndPayAreFair ==
  [][/\ Electing => Seats!NobodyIsPassedOver
     /\ ~Electing => Pay!FreshPayWithinTarget]_<<Seats!vars, payVars>>

\* Of Election: a producer that left, or that others have come to outrank by
\* both kinds of votes, gives up its seat in the end, unless it returns or the
\* order of votes changes again; it keeps the seat only while fewer producers
\* stand than there are seats, however many left and returned meanwhile.
ScheduleIsRenewed ==
  []<>(Electing => Seats!TooFewStand \/ \A p \in schedule : ~Seats!Superseded(p))
==============================================================================
