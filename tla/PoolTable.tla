------------------------------- MODULE PoolTable ------------------------------
(***************************************************************************)
(* The producers table and the total_pool_votes table that staking pools   *)
(* add to it (staking_pool.cpp, voting.cpp).  The second repeats of each   *)
(* producer whether it is active and what its pool votes weighed when they *)
(* were last looked at, ordered by those votes.                            *)
(***************************************************************************)
EXTENDS LedgerArithmetic

CONSTANTS
  Producer,      \* accounts that may register as producers
  MaxPoolVotes   \* bound on the weighed pool votes of a producer

PoolTableConstants ==
  /\ IsFiniteSet(Producer)
  /\ MaxPoolVotes \in Nat

VARIABLES
  configured,  \* the staking pools exist
  registered,  \* accounts with a row in producers
  active,      \* producer_info::is_active
  pool_votes,  \* calc_votes of producer_info::pool_votes
  listed       \* total_pool_votes: [row, active, votes]

tables == <<configured, registered, active, pool_votes, listed>>

TablesInit ==
  /\ configured = FALSE
  /\ registered = {}
  /\ active = {}
  /\ pool_votes = [p \in Producer |-> 0]
  /\ listed = [row |-> {}, active |-> {}, votes |-> [p \in Producer |-> 0]]

\* cfgsrpool, the first time.
CfgSrPool ==
  /\ ~configured
  /\ configured' = TRUE
  /\ UNCHANGED <<registered, active, pool_votes, listed>>

\* Faulty: a producer that returns stays inactive in the second table.
EnabledOnce(p) ==
  IF configured /\ p \notin listed.row
  THEN [listed EXCEPT !.row = @ \union {p}, !.active = @ \union {p}]
  ELSE listed

\* enable_prod_pool_votes
Enabled(p) ==
  IF configured
  THEN [listed EXCEPT !.row = @ \union {p}, !.active = @ \union {p}]
  ELSE listed

\* regproducer, regproducer2
RegProducer(p) ==
  /\ registered' = registered \union {p}
  /\ active' = active \union {p}
  /\ listed' = Enabled(p)
  /\ UNCHANGED <<configured, pool_votes>>

\* deactivate_producer, by unregprod or rmvproducer
Deactivate(p) ==
  /\ p \in registered
  /\ active' = active \ {p}
  /\ listed' = [listed EXCEPT !.active = @ \ {p}]
  /\ UNCHANGED <<configured, registered, pool_votes>>

\* What stake2pool, votewithpool and their like do to a producer's pool votes.
ChangePoolVotes(p, votes) ==
  /\ p \in listed.row
  /\ pool_votes' = [pool_votes EXCEPT ![p] = votes]
  /\ UNCHANGED <<configured, registered, active, listed>>

\* updatevotes
UpdateVotes(p) ==
  /\ p \in active
  /\ p \in listed.row
  /\ listed' = [listed EXCEPT !.votes[p] = pool_votes[p]]
  /\ UNCHANGED <<configured, registered, active, pool_votes>>

TablesNext ==
  \E p \in Producer :
    \/ RegProducer(p)
    \/ Deactivate(p)
    \/ \E n \in 0 .. MaxPoolVotes : ChangePoolVotes(p, n)
    \/ UpdateVotes(p)

\* The sets of the n first of the candidates by votes, of all if there are
\* fewer; ties may be broken in any way.
Firsts(n, candidates, votes) ==
  { T \in SUBSET candidates :
      /\ Cardinality(T) = IF n < Cardinality(candidates) THEN n ELSE Cardinality(candidates)
      /\ \A t \in T : \A c \in candidates \ T : votes[c] <= votes[t] }

\* top_active_producers
TopActive(n, list) ==
  Firsts(n, { p \in list.active : list.votes[p] > 0 }, list.votes)

TablesTypeOK ==
  /\ configured \in BOOLEAN
  /\ active \subseteq registered /\ registered \subseteq Producer
  /\ pool_votes \in [Producer -> 0 .. MaxPoolVotes]
  /\ listed \in [row : SUBSET registered, active : SUBSET listed.row,
                 votes : [Producer -> 0 .. MaxPoolVotes]]
==============================================================================
