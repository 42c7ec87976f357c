-------------------------------- MODULE Voting --------------------------------
(***************************************************************************)
(* Voting for block producers in eosio.system: voteproducer, regproxy, and *)
(* update_voting_power, through which every change of an account's stake   *)
(* reaches the producers and proxies it votes for (voting.cpp,             *)
(* delegate_bandwidth.cpp).                                                *)
(*                                                                         *)
(* A vote weighs its stake times a factor that grows with the weeks, and   *)
(* is weighed anew only when its owner votes or its stake changes.  Here   *)
(* the factor of each week is a constant and weights are whole numbers.    *)
(***************************************************************************)
EXTENDS LedgerArithmetic

CONSTANTS
  Account,     \* accounts that may stake and vote
  Producer,    \* accounts that may register as producers
  None,        \* no proxy
  MaxVotes,    \* producers one account may vote for
  LastWeek,    \* the last week considered
  Factor,      \* the weight of one staked unit in each week
  MaxStake     \* bound on the stake of an account

ASSUME VotingAssumption ==
  /\ None \notin Account
  /\ MaxVotes \in Nat /\ LastWeek \in Nat /\ MaxStake \in Nat
  /\ Factor \in [0 .. LastWeek -> Nat \ {0}]

VARIABLES
  voters,      \* accounts with a row in the voters table
  staked,      \* voter_info::staked
  is_proxy,    \* voter_info::is_proxy
  proxy,       \* voter_info::proxy
  producers,   \* voter_info::producers
  weights,     \* the voters' last_vote_weight and proxied_vote_weight, the
               \* producers' total_votes and the total_producer_vote_weight
  registered,  \* accounts with a row in the producers table
  active,      \* producer_info::is_active
  week         \* weeks since the epoch

ballots == <<is_proxy, proxy, producers>>
roster == <<registered, active>>
vars == <<voters, staked, ballots, weights, roster, week>>

Weights == [last_vote_weight : [Account -> Int],
            proxied_vote_weight : [Account -> Int],
            total_votes : [Producer -> Int],
            total_producer_vote_weight : Int]

-----------------------------------------------------------------------------

\* stake2vote
Stake2Vote(stake) == stake * Factor[week]

\* What an account's vote weighs: its stake, and what others gave it as a proxy.
VoteWeight(w, a, stake, proxies) ==
  Stake2Vote(stake[a]) + IF proxies[a] THEN w.proxied_vote_weight[a] ELSE 0

AddProxied(w, a, delta) == [w EXCEPT !.proxied_vote_weight[a] = @ + delta]

\* Faulty: the sum of all votes grows as if one producer were voted for.
AddVotesOnce(w, voted, delta) ==
  [w EXCEPT
     !.total_votes = [p \in Producer |-> IF p \in voted THEN @[p] + delta ELSE @[p]],
     !.total_producer_vote_weight = @ + delta]

\* Every producer voted for gains the whole weight.
AddVotes(w, voted, delta) ==
  [w EXCEPT
     !.total_votes = [p \in Producer |-> IF p \in voted THEN @[p] + delta ELSE @[p]],
     !.total_producer_vote_weight = @ + Cardinality(voted) * delta]

\* propagate_weight_change: the weights after an account's vote is weighed
\* anew and the change is passed on, along the proxies it votes through, to
\* the producers at the end; changes of at most 1 are not passed on.
Propagated(weighed, account, stake, proxies) ==
  LET pass[x \in Weights \X Account] ==
        LET w == x[1]
            a == x[2]
            weight == VoteWeight(w, a, stake, proxies)
            delta == weight - w.last_vote_weight[a]
            passed == IF delta \in -1 .. 1 THEN w
                      ELSE IF proxy[a] # None
                           THEN pass[<<AddProxied(w, proxy[a], delta), proxy[a]>>]
                           ELSE AddVotes(w, producers[a], delta)
        IN  [passed EXCEPT !.last_vote_weight[a] = weight]
  IN  pass[<<weighed, account>>]

\* Faulty: what the proxy loses is not taken from its producers.
UndoneAtProxyOnly(w, a, stake) ==
  LET old == w.last_vote_weight[a]
  IN  IF proxy[a] # None THEN AddProxied(w, proxy[a], -old)
      ELSE AddVotes(w, producers[a], -old)

\* The weights after an account's vote was taken back as it was last weighed.
Undone(w, a, stake) ==
  LET old == w.last_vote_weight[a]
  IN  IF old <= 0 THEN w
      ELSE IF proxy[a] # None
           THEN Propagated(AddProxied(w, proxy[a], -old), proxy[a], stake, is_proxy)
           ELSE AddVotes(w, producers[a], -old)

\* The weights after a vote of the given weight was cast.
Cast(w, newProxy, newProducers, weight, stake) ==
  IF newProxy # None
  THEN Propagated(AddProxied(w, newProxy, weight), newProxy, stake, is_proxy)
  ELSE AddVotes(w, newProducers, weight)

\* What update_votes checks before it changes anything.
ValidBallot(a, newProxy, newProducers, voting) ==
  IF newProxy # None
  THEN /\ newProducers = {}
       /\ newProxy # a
       /\ ~is_proxy[a]
       /\ newProxy \in voters
       /\ voting => is_proxy[newProxy]
  ELSE /\ Cardinality(newProducers) <= MaxVotes
       /\ newProducers \subseteq IF voting THEN active ELSE registered

\* update_votes, for an account whose stake is stake[a].
UpdateVotes(a, newProxy, newProducers, voting, stake) ==
  LET weight == VoteWeight(weights, a, stake, is_proxy)
      cast == Cast(Undone(weights, a, stake), newProxy, newProducers, weight, stake)
  IN  /\ ValidBallot(a, newProxy, newProducers, voting)
      /\ weights' = [cast EXCEPT !.last_vote_weight[a] = weight]
      /\ proxy' = [proxy EXCEPT ![a] = newProxy]
      /\ producers' = [producers EXCEPT ![a] = newProducers]
      /\ UNCHANGED is_proxy

-----------------------------------------------------------------------------

Init ==
  /\ voters = {}
  /\ staked = [a \in Account |-> 0]
  /\ is_proxy = [a \in Account |-> FALSE]
  /\ proxy = [a \in Account |-> None]
  /\ producers = [a \in Account |-> {}]
  /\ weights = [last_vote_weight |-> [a \in Account |-> 0],
                proxied_vote_weight |-> [a \in Account |-> 0],
                total_votes |-> [p \in Producer |-> 0],
                total_producer_vote_weight |-> 0]
  /\ registered = {}
  /\ active = {}
  /\ week = 0

VoteProducer(a, newProxy, newProducers) ==
  /\ a \in voters
  /\ UpdateVotes(a, newProxy, newProducers, TRUE, staked)
  /\ UNCHANGED <<voters, staked, roster, week>>

\* What a change of stake does to the account's vote.
Reweigh(a) ==
  IF producers[a] # {} \/ proxy[a] # None
  THEN UpdateVotes(a, proxy[a], producers[a], FALSE, staked')
  ELSE UNCHANGED <<ballots, weights>>

\* update_voting_power, after any delegation, undelegation or REX operation
\* that brings the account's stake to the given amount.  Unstaking to REX weighs
\* the vote again although the stake need not change; the account has a row.
UpdateVotingPower(a, stake) ==
  /\ a \notin voters => stake # staked[a]
  /\ voters' = voters \union {a}
  /\ staked' = [staked EXCEPT ![a] = stake]
  /\ Reweigh(a)
  /\ UNCHANGED <<roster, week>>

\* Faulty: an account that votes through a proxy may become one.
MayChangeAnyProxy(a, isproxy) == isproxy # is_proxy[a]

\* The checks of regproxy for an account that has a row.
MayChangeProxy(a, isproxy) ==
  /\ isproxy # is_proxy[a]
  /\ isproxy => proxy[a] = None

RegProxy(a, isproxy) ==
  /\ voters' = voters \union {a}
  /\ is_proxy' = [is_proxy EXCEPT ![a] = isproxy]
  /\ IF a \in voters
     THEN /\ MayChangeProxy(a, isproxy)
          /\ weights' = Propagated(weights, a, staked, is_proxy')
     ELSE UNCHANGED weights
  /\ UNCHANGED <<staked, proxy, producers, roster, week>>

\* register_producer: the votes an earlier registration received count again.
RegProducer(p) ==
  /\ registered' = registered \union {p}
  /\ active' = active \union {p}
  /\ UNCHANGED <<voters, staked, ballots, weights, week>>

UnregProd(p) ==
  /\ p \in registered
  /\ active' = active \ {p}
  /\ UNCHANGED <<voters, staked, ballots, weights, registered, week>>

NextWeek ==
  /\ week < LastWeek
  /\ week' = week + 1
  /\ UNCHANGED <<voters, staked, ballots, weights, roster>>

Next ==
  \/ \E a \in Account :
       \/ \E q \in Account \union {None}, ps \in SUBSET Producer : VoteProducer(a, q, ps)
       \/ \E n \in 0 .. MaxStake : UpdateVotingPower(a, n)
       \/ \E b \in BOOLEAN : RegProxy(a, b)
  \/ \E p \in Producer : RegProducer(p) \/ UnregProd(p)
  \/ NextWeek

Spec == Init /\ [][Next]_vars

-----------------------------------------------------------------------------

TypeOK ==
  /\ voters \subseteq Account
  /\ staked \in [Account -> 0 .. MaxStake]
  /\ is_proxy \in [Account -> BOOLEAN]
  /\ proxy \in [Account -> Account \union {None}]
  /\ producers \in [Account -> SUBSET Producer]
  /\ weights \in [last_vote_weight : [Account -> Nat],
                  proxied_vote_weight : [Account -> Nat],
                  total_votes : [Producer -> Nat],
                  total_producer_vote_weight : Nat]
  /\ active \subseteq registered /\ registered \subseteq Producer
  /\ week \in 0 .. LastWeek

\* The last weights of the accounts in a set; the others count nothing.
LastWeightsOf(S) ==
  [a \in Account |-> IF a \in S THEN weights.last_vote_weight[a] ELSE 0]

\* A proxy speaks for exactly the votes last cast through it, whoever moved
\* stake, changed proxies or unregistered since.
ProxiedVotesAddUp ==
  \A q \in Account :
    weights.proxied_vote_weight[q] = SumOf(LastWeightsOf({a \in Account : proxy[a] = q}))

\* A producer has exactly the votes last cast for it, directly or at the end
\* of a chain of proxies.
ProducerVotesAddUp ==
  \A p \in Producer :
    weights.total_votes[p] = SumOf(LastWeightsOf({a \in Account : p \in producers[a]}))

\* "the sum of all producer votes", by which block rewards are shared.
TotalWeightAddsUp ==
  weights.total_producer_vote_weight = SumOf(weights.total_votes)

\* Weights are passed on by differences that reach proxies and producers by
\* several roads; the tables stay well-formed, and the sums kept at each level
\* those of the last votes.
VotesAddUp == TypeOK /\ ProxiedVotesAddUp /\ ProducerVotesAddUp /\ TotalWeightAddsUp

\* An account that votes counts for its present stake, weighed in some week
\* up to now, and, while it is a proxy, for all that is voted through it:
\* stake that is gone counts for nobody.
VotesAreStake ==
  \A a \in Account : (producers[a] # {} \/ proxy[a] # None) =>
    \E k \in 0 .. week :
      weights.last_vote_weight[a] =
        staked[a] * Factor[k] + IF is_proxy[a] THEN weights.proxied_vote_weight[a] ELSE 0

\* No accounts vote through one another in a circle, so that passing a change
\* of weight on ends: any accounts include one that does not vote through
\* another of them.
NoProxyCycle ==
  \A S \in SUBSET Account : S # {} => \E a \in S : proxy[a] \notin S

\* A proxy votes itself, and every cast ballot would be accepted again: no
\* account is kept from changing its stake by the vote it has cast.
BallotsStayValid ==
  \A a \in Account :
    /\ ~(is_proxy[a] /\ proxy[a] # None)
    /\ (producers[a] # {} \/ proxy[a] # None) =>
          a \in voters /\ ValidBallot(a, proxy[a], producers[a], FALSE)
==============================================================================
