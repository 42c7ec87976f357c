------------------------------- MODULE Election -------------------------------
(***************************************************************************)
(* The election of the producer schedule (update_elected_producers in      *)
(* voting.cpp), which onblock runs once a minute.  While staking pools     *)
(* take over, a growing number of seats goes to the first producers by     *)
(* pool votes; the others go by total_votes.                               *)
(***************************************************************************)
EXTENDS PoolTable

CONSTANTS
  Size,      \* seats in the schedule
  MaxVotes   \* bound on the votes of a producer

ElectionConstants ==
  PoolTableConstants /\ Size \in Nat \ {0} /\ MaxVotes \in Nat

VARIABLES
  total_votes,  \* producer_info::total_votes
  schedule,     \* the schedule last proposed
  last_producer_schedule_size,
  seats         \* how many seats pool votes decided in the last election

vars == <<tables, total_votes, schedule, last_producer_schedule_size, seats>>
elected == <<schedule, last_producer_schedule_size, seats>>

-----------------------------------------------------------------------------

Init ==
  /\ TablesInit
  /\ total_votes = [p \in Producer |-> 0]
  /\ schedule = {}
  /\ last_producer_schedule_size = 0
  /\ seats = 0

\* Any ballot, change of stake or proxy.
ChangeVotes(p, votes) ==
  /\ p \in registered
  /\ total_votes' = [total_votes EXCEPT ![p] = votes]
  /\ UNCHANGED <<tables, elected>>

\* Faulty: the end of the active producers in the index is not noticed.
AnyCandidates(chosen) == { p \in registered : total_votes[p] > 0 } \ chosen

\* Who may take a seat by votes.
Candidates(chosen) == { p \in active : total_votes[p] > 0 } \ chosen

\* Faulty: a schedule is only replaced by a larger one.
Outgrows(size) == size > 0 /\ size > last_producer_schedule_size

\* The number of elected producers is enough for a new schedule.
LongEnough(size) == size > 0 /\ size >= last_producer_schedule_size

\* The two groups that may be elected when pools decide n seats.
Outcomes(n) ==
  UNION { {byPool} \X Firsts(Size - Cardinality(byPool), Candidates(byPool), total_votes)
            : byPool \in TopActive(n, listed) }

\* update_elected_producers, when pools decide n seats; the node accepts a
\* schedule that differs from the last.
UpdateElected(n) ==
  /\ ~configured => n = 0
  /\ seats' = n
  /\ \E o \in Outcomes(n) :
       LET size == Cardinality(o[1]) + Cardinality(o[2])
           top == o[1] \union o[2]
       IN  IF LongEnough(size) /\ top # schedule
           THEN schedule' = top /\ last_producer_schedule_size' = size
           ELSE UNCHANGED <<schedule, last_producer_schedule_size>>
  /\ UNCHANGED <<tables, total_votes>>

Elects == \E n \in 0 .. Size : UpdateElected(n)

Next ==
  \/ (CfgSrPool \/ TablesNext) /\ UNCHANGED <<total_votes, elected>>
  \/ \E p \in Producer : \E n \in 0 .. MaxVotes : ChangeVotes(p, n)
  \/ Elects

Spec == Init /\ [][Next]_vars

-----------------------------------------------------------------------------

TypeOK ==
  /\ TablesTypeOK
  /\ total_votes \in [Producer -> 0 .. MaxVotes]
  /\ schedule \subseteq registered
  /\ last_producer_schedule_size \in 0 .. Size
  /\ seats \in 0 .. Size

\* The two tables agree on who is active, however producers leave and return
\* before and after pools exist: an inactive producer takes no seat.
FlagsAgree == listed.active = active \intersect listed.row

\* Nobody is given two seats, so that the schedule is as long as it is taken
\* to be when the next one is compared with it.
OneSeatEach == last_producer_schedule_size = Cardinality(schedule)

\* Seats go to active producers, one to each, in both tables alike.
SeatsAreSound == TypeOK /\ FlagsAgree /\ OneSeatEach

\* One producer has more of both kinds of votes than another.
Outranks(out, in) ==
  /\ total_votes[out] > total_votes[in]
  /\ out \in listed.row /\ listed.votes[out] > listed.votes[in]

\* A new schedule has only active producers, and no active one that was left
\* out has more of both kinds of votes than one that was elected.
NobodyIsPassedOver ==
  schedule' # schedule =>
    /\ schedule' \subseteq active
    /\ \A out \in active \ schedule', in \in schedule' : ~Outranks(out, in)

\* A producer has a seat that others have a better claim to: it left, or one
\* that stands without a seat has more of both kinds of votes.
Superseded(p) ==
  /\ p \in schedule
  /\ p \in active => \E out \in active \ schedule : Outranks(out, p)

\* Fewer producers could be elected by votes than there are seats.
TooFewStand == Cardinality(Candidates({})) < Cardinality(schedule)
==============================================================================
