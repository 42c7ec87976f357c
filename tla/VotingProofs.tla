----------------------------- MODULE VotingProofs -----------------------------
(***************************************************************************)
(* Proxies never form a circle, a ballot, once cast, stays valid, votes    *)
(* count for the stake behind them, the tables keep their sums, and an     *)
(* election of block producers gives its seats to whom they belong, for any*)
(* accounts, producers, stakes and weights.                                *)
(***************************************************************************)
EXTENDS Voting

\* The tables hold what their columns say; weights are left out, since who
\* votes through whom does not depend on them.
BallotTypeOK ==
  /\ voters \subseteq Account
  /\ is_proxy \in [Account -> BOOLEAN]
  /\ proxy \in [Account -> Account \union {None}]
  /\ producers \in [Account -> SUBSET Producer]
  /\ active \subseteq registered

\* The invariant the proofs carry.  That no circle forms needs that a proxy
\* votes itself: a new link then always leads to the end of a chain.
BallotInv == BallotTypeOK /\ BallotsStayValid /\ NoProxyCycle

-----------------------------------------------------------------------------

\* Voting through an account that votes itself closes no circle.
LEMMA NewLinkMakesNoCycle ==
  ASSUME BallotTypeOK, NoProxyCycle, NEW a \in Account,
         NEW q \in Account \union {None}, q # a,
         q # None => proxy[q] = None,
         proxy' = [proxy EXCEPT ![a] = q]
  PROVE  NoProxyCycle'
  <1> SUFFICES ASSUME NEW S \in SUBSET Account, S # {}
               PROVE  \E x \in S : proxy'[x] \notin S
    BY DEF NoProxyCycle
  <1>1. /\ proxy'[a] = q
        /\ \A x \in Account \ {a} : proxy'[x] = proxy[x]
    BY DEF BallotTypeOK
  <1>2. None \notin S
    BY VotingAssumption
  <1>3. CASE q \in S
    BY <1>1, <1>2, <1>3
  <1>4. CASE q \notin S /\ a \in S
    BY <1>1, <1>4
  <1>5. CASE a \notin S
    <2>1. PICK x \in S : proxy[x] \notin S
      BY DEF NoProxyCycle
    <2> QED
      BY <1>1, <1>5, <2>1
  <1> QED
    BY <1>3, <1>4, <1>5

\* A valid ballot keeps the invariant.
LEMMA UpdateVotesKeepsInv ==
  ASSUME BallotInv, NEW a \in Account, NEW q \in Account \union {None},
         NEW ps \in SUBSET Producer, NEW voting \in BOOLEAN, NEW stake,
         a \in voters,
         voting \/ (q = proxy[a] /\ ps = producers[a]),
         UpdateVotes(a, q, ps, voting, stake),
         voters' = voters \union {a}, UNCHANGED roster
  PROVE  BallotInv'
  <1>1. /\ ValidBallot(a, q, ps, voting)
        /\ proxy' = [proxy EXCEPT ![a] = q]
        /\ producers' = [producers EXCEPT ![a] = ps]
        /\ is_proxy' = is_proxy
        /\ voters' = voters
        /\ active' = active /\ registered' = registered
    BY DEF UpdateVotes, roster
  <1>2. BallotTypeOK /\ BallotsStayValid /\ NoProxyCycle
    BY DEF BallotInv
  <1>3. BallotTypeOK'
    BY <1>1, <1>2 DEF BallotTypeOK
  <1>4. ValidBallot(a, q, ps, FALSE)
    BY <1>1, <1>2 DEF ValidBallot, BallotTypeOK
  <1>5. BallotsStayValid'
    <2> SUFFICES ASSUME NEW b \in Account
                 PROVE  /\ ~(is_proxy'[b] /\ proxy'[b] # None)
                        /\ (producers'[b] # {} \/ proxy'[b] # None) =>
                              b \in voters' /\ ValidBallot(b, proxy[b], producers[b], FALSE)'
      BY DEF BallotsStayValid
    <2>1. CASE b = a
      <3>1. proxy'[b] = q /\ producers'[b] = ps
        BY <1>1, <1>2, <2>1 DEF BallotTypeOK
      <3>2. ValidBallot(b, proxy[b], producers[b], FALSE)'
        BY <1>1, <1>4, <2>1, <3>1 DEF ValidBallot
      <3> QED
        BY <1>1, <1>4, <2>1, <3>1, <3>2 DEF ValidBallot
    <2>2. CASE b # a
      <3>1. proxy'[b] = proxy[b] /\ producers'[b] = producers[b]
        BY <1>1, <1>2, <2>2 DEF BallotTypeOK
      <3> QED
        BY <1>1, <1>2, <3>1 DEF BallotsStayValid, ValidBallot
    <2> QED
      BY <2>1, <2>2
  <1>6. NoProxyCycle'
    <2>1. CASE q = proxy[a]
      <3>1. proxy' = proxy
        BY <1>1, <1>2, <2>1 DEF BallotTypeOK
      <3> QED
        BY <1>2, <3>1 DEF NoProxyCycle
    <2>2. CASE q # proxy[a]
      <3>1. q # a /\ (q # None => proxy[q] = None)
        BY <1>1, <1>2, <2>2, VotingAssumption DEF ValidBallot, BallotsStayValid, BallotTypeOK
      <3> QED
        BY <1>1, <1>2, <3>1, NewLinkMakesNoCycle
    <2> QED
      BY <2>1, <2>2
  <1> QED
    BY <1>3, <1>5, <1>6 DEF BallotInv

\* Steps that leave the ballots alone, and take no row away, keep it.
LEMMA SameBallotsKeepInv ==
  ASSUME BallotInv, UNCHANGED ballots,
         voters \subseteq voters', voters' \subseteq Account,
         registered \subseteq registered', active' \subseteq registered'
  PROVE  BallotInv'
  <1>1. BallotTypeOK'
    BY DEF BallotInv, BallotTypeOK, ballots
  <1>2. BallotsStayValid'
    BY DEF BallotInv, BallotsStayValid, ValidBallot, ballots
  <1>3. NoProxyCycle'
    BY DEF BallotInv, NoProxyCycle, ballots
  <1> QED
    BY <1>1, <1>2, <1>3 DEF BallotInv

LEMMA InitHolds == Init => BallotInv
  <1> SUFFICES ASSUME Init PROVE BallotInv
    OBVIOUS
  <1>1. BallotTypeOK /\ BallotsStayValid
    BY VotingAssumption DEF Init, BallotTypeOK, BallotsStayValid
  <1>2. NoProxyCycle
    BY VotingAssumption DEF Init, NoProxyCycle
  <1> QED
    BY <1>1, <1>2 DEF BallotInv

\* Every step keeps the invariant.
LEMMA StepHolds == BallotInv /\ [Next]_vars => BallotInv'
  <1> SUFFICES ASSUME BallotInv, [Next]_vars PROVE BallotInv'
    OBVIOUS
  <1>0. BallotTypeOK
    BY DEF BallotInv
  <1>1. ASSUME NEW a \in Account, NEW q \in Account \union {None},
               NEW ps \in SUBSET Producer, VoteProducer(a, q, ps)
        PROVE  BallotInv'
    <2>1. /\ a \in voters /\ voters' = voters \union {a} /\ UNCHANGED roster
          /\ UpdateVotes(a, q, ps, TRUE, staked)
      BY <1>1 DEF VoteProducer
    <2> QED
      BY <2>1, UpdateVotesKeepsInv
  <1>2. ASSUME NEW a \in Account, NEW n, UpdateVotingPower(a, n)
        PROVE  BallotInv'
    <2>1. /\ voters' = voters \union {a} /\ UNCHANGED roster
          /\ registered' = registered /\ active' = active
          /\ Reweigh(a)
      BY <1>2 DEF UpdateVotingPower, roster
    <2>2. CASE producers[a] # {} \/ proxy[a] # None
      <3>1. a \in voters
        BY <2>2 DEF BallotInv, BallotsStayValid
      <3>2. UpdateVotes(a, proxy[a], producers[a], FALSE, staked')
        BY <2>1, <2>2 DEF Reweigh
      <3>3. proxy[a] \in Account \union {None} /\ producers[a] \in SUBSET Producer
        BY <1>0 DEF BallotTypeOK
      <3> QED
        BY <2>1, <3>1, <3>2, <3>3, UpdateVotesKeepsInv
    <2>3. CASE ~(producers[a] # {} \/ proxy[a] # None)
      BY <1>0, <2>1, <2>3, SameBallotsKeepInv DEF Reweigh, BallotTypeOK
    <2> QED
      BY <2>2, <2>3
  <1>3. ASSUME NEW a \in Account, NEW b \in BOOLEAN, RegProxy(a, b)
        PROVE  BallotInv'
    <2>1. /\ voters' = voters \union {a}
          /\ is_proxy' = [is_proxy EXCEPT ![a] = b]
          /\ proxy' = proxy /\ producers' = producers
          /\ registered' = registered /\ active' = active
          /\ a \in voters => (b => proxy[a] = None)
      BY <1>3 DEF RegProxy, MayChangeProxy, roster
    <2>2. a \notin voters => proxy[a] = None /\ producers[a] = {}
      BY DEF BallotInv, BallotsStayValid
    <2>3. BallotTypeOK'
      BY <1>0, <2>1 DEF BallotTypeOK
    <2>4. NoProxyCycle'
      BY <2>1 DEF BallotInv, NoProxyCycle
    <2>5. BallotsStayValid'
      <3>1. \A x \in Account : x # a => is_proxy'[x] = is_proxy[x]
        BY <1>0, <2>1 DEF BallotTypeOK
      <3>2. is_proxy'[a] = b
        BY <1>0, <2>1 DEF BallotTypeOK
      <3> QED
        BY <2>1, <2>2, <3>1, <3>2 DEF BallotInv, BallotsStayValid, ValidBallot
    <2> QED
      BY <2>3, <2>4, <2>5 DEF BallotInv
  <1>4. ASSUME NEW p \in Producer, RegProducer(p) \/ UnregProd(p)
        PROVE  BallotInv'
    BY <1>0, <1>4, SameBallotsKeepInv DEF RegProducer, UnregProd, BallotTypeOK
  <1>5. CASE NextWeek \/ UNCHANGED vars
    BY <1>0, <1>5, SameBallotsKeepInv DEF NextWeek, vars, roster, BallotTypeOK
  <1> QED
    BY <1>1, <1>2, <1>3, <1>4, <1>5 DEF Next

LEMMA InvHolds == Spec => []BallotInv
  BY InitHolds, StepHolds, PTL DEF Spec

\* propagate_weight_change always ends: no accounts vote through one another
\* in a circle, although a proxy may unregister and vote through another.
THEOREM VotingHasNoProxyCycle == Spec => []NoProxyCycle
  BY InvHolds, PTL DEF BallotInv

\* No check of update_votes ever keeps an account that has voted from
\* changing its stake.
THEOREM VotingBallotsStayValid == Spec => []BallotsStayValid
  BY InvHolds, PTL DEF BallotInv

-----------------------------------------------------------------------------
(* Passing changes of weight on.                                           *)

\* One call of propagate_weight_change; pass is what the next one makes.
PassOn(pass, w, a, stake, proxies) ==
  LET weight == VoteWeight(w, a, stake, proxies)
      delta == weight - w.last_vote_weight[a]
      passed == IF delta \in -1 .. 1 THEN w
                ELSE IF proxy[a] # None
                     THEN pass[<<AddProxied(w, proxy[a], delta), proxy[a]>>]
                     ELSE AddVotes(w, producers[a], delta)
  IN  [passed EXCEPT !.last_vote_weight[a] = weight]

\* What the calls of propagate_weight_change need to end.
MayPropagate(stake, proxies) ==
  /\ IsFiniteSet(Producer)
  /\ proxy \in [Account -> Account \union {None}]
  /\ producers \in [Account -> SUBSET Producer]
  /\ week \in 0 .. LastWeek
  /\ NoProxyCycle
  /\ stake \in [Account -> Nat] /\ proxies \in [Account -> BOOLEAN]

\* The weight of a vote is a number: the stake it is for, and what was voted
\* through its owner.
LEMMA WeightTypes ==
  ASSUME NEW stake, NEW proxies, MayPropagate(stake, proxies), NEW w \in Weights, NEW a \in Account
  PROVE  /\ VoteWeight(w, a, stake, proxies) \in Int
         /\ stake[a] \in Nat /\ Factor[week] \in Nat /\ stake[a] * Factor[week] \in Nat
         /\ VoteWeight(w, a, stake, proxies)
              = stake[a] * Factor[week] + IF proxies[a] THEN w.proxied_vote_weight[a] ELSE 0
         /\ w.last_vote_weight \in [Account -> Int] /\ w.last_vote_weight[a] \in Int
         /\ w.proxied_vote_weight \in [Account -> Int] /\ w.proxied_vote_weight[a] \in Int
  <1>1. stake[a] \in Nat /\ Factor[week] \in Nat
    BY VotingAssumption DEF MayPropagate
  <1>2. stake[a] * Factor[week] \in Nat
    BY <1>1
  <1>3. /\ w.last_vote_weight \in [Account -> Int] /\ w.proxied_vote_weight \in [Account -> Int]
    BY DEF Weights
  <1> QED
    BY <1>1, <1>2, <1>3 DEF VoteWeight, Stake2Vote

\* What a proxy is given changes nothing else.
LEMMA AddProxiedEffect ==
  ASSUME NEW w \in Weights, NEW q \in Account, NEW delta \in Int
  PROVE  /\ AddProxied(w, q, delta) \in Weights
         /\ AddProxied(w, q, delta).last_vote_weight = w.last_vote_weight
         /\ AddProxied(w, q, delta).proxied_vote_weight
              = [w.proxied_vote_weight EXCEPT ![q] = @ + delta]
         /\ AddProxied(w, q, delta).total_votes = w.total_votes
         /\ AddProxied(w, q, delta).total_producer_vote_weight = w.total_producer_vote_weight
  BY DEF AddProxied, Weights

\* What producers have after some of them gained a weight.
AddsVotes(w, voted, delta, r) ==
  /\ r \in Weights
  /\ r.last_vote_weight = w.last_vote_weight
  /\ r.proxied_vote_weight = w.proxied_vote_weight
  /\ \A p \in Producer :
       r.total_votes[p] = IF p \in voted THEN w.total_votes[p] + delta ELSE w.total_votes[p]
  /\ r.total_producer_vote_weight = w.total_producer_vote_weight + Cardinality(voted) * delta

\* Producers that are voted for gain a weight.
LEMMA AddVotesEffect ==
  ASSUME NEW w \in Weights, IsFiniteSet(Producer), NEW voted \in SUBSET Producer, NEW delta \in Int
  PROVE  AddsVotes(w, voted, delta, AddVotes(w, voted, delta))
  <1>1. Cardinality(voted) \in Nat
    BY FS_Subset, FS_CardinalityType
  <1>2. Cardinality(voted) * delta \in Int
    BY <1>1
  <1> DEFINE n == Cardinality(voted) * delta
             t == [p \in Producer |-> IF p \in voted THEN w.total_votes[p] + delta
                                      ELSE w.total_votes[p]]
             r == AddVotes(w, voted, delta)
  <1>3. t \in [Producer -> Int] /\ w.total_producer_vote_weight + n \in Int
    BY <1>2 DEF Weights
  <1>4. r = [w EXCEPT !.total_votes = t, !.total_producer_vote_weight = @ + n]
    BY DEF AddVotes
  <1> HIDE DEF n, t, r
  <1>5. /\ r \in Weights
        /\ r.last_vote_weight = w.last_vote_weight
        /\ r.proxied_vote_weight = w.proxied_vote_weight
        /\ r.total_votes = t
        /\ r.total_producer_vote_weight = w.total_producer_vote_weight + n
    BY <1>3, <1>4 DEF Weights
  <1>6. AddsVotes(w, voted, delta, r)
    BY <1>5 DEF n, t, AddsVotes
  <1> QED
    BY <1>6 DEF r

\* The weights stay what their columns say.
LEMMA AddVotesType ==
  ASSUME NEW w \in Weights, IsFiniteSet(Producer), NEW voted \in SUBSET Producer, NEW delta \in Int
  PROVE  AddVotes(w, voted, delta) \in Weights
  BY AddVotesEffect DEF AddsVotes

\* What a vote last weighed is its owner's only.
LEMMA SetLastEffect ==
  ASSUME NEW w \in Weights, NEW a \in Account, NEW weight \in Int
  PROVE  LET r == [w EXCEPT !.last_vote_weight[a] = weight]
         IN  /\ r \in Weights
             /\ r.last_vote_weight = [w.last_vote_weight EXCEPT ![a] = weight]
             /\ r.proxied_vote_weight = w.proxied_vote_weight
             /\ r.total_votes = w.total_votes
             /\ r.total_producer_vote_weight = w.total_producer_vote_weight
  BY DEF Weights

\* pass is what the calls of propagate_weight_change make.
Passes(pass, stake, proxies) ==
  /\ pass \in [Weights \X Account -> Weights]
  /\ \A w \in Weights : \A a \in Account : pass[<<w, a>>] = PassOn(pass, w, a, stake, proxies)
  /\ \A w \in Weights : \A a \in Account : Propagated(w, a, stake, proxies) = pass[<<w, a>>]

\* The recursion of propagate_weight_change ends.
LEMMA PropagationEnds ==
  ASSUME NEW stake, NEW proxies, MayPropagate(stake, proxies)
  PROVE  \E pass : Passes(pass, stake, proxies)
  <1> DEFINE D == Weights
             Weight(w, a) == VoteWeight(w, a, stake, proxies)
             Delta(w, a) == Weight(w, a) - w.last_vote_weight[a]
             stop == { x \in D \X Account : Delta(x[1], x[2]) \in -1 .. 1 \/ proxy[x[2]] = None }
             Final(w, a) == [w EXCEPT !.last_vote_weight[a] = Weight(w, a)]
             Ended(w, a) == [AddVotes(w, producers[a], Delta(w, a))
                               EXCEPT !.last_vote_weight[a] = Weight(w, a)]
             base == [x \in D \X Account |->
                        IF Delta(x[1], x[2]) \in -1 .. 1 THEN Final(x[1], x[2])
                        ELSE Ended(x[1], x[2])]
             step == [x \in D \X Account |->
                        IF proxy[x[2]] = None THEN x[1]
                        ELSE AddProxied(x[1], proxy[x[2]], Delta(x[1], x[2]))]
             finish == [x \in D \X Account \X D |->
                          [x[3] EXCEPT !.last_vote_weight[x[2]] = Weight(x[1], x[2])]]
  <1>1. \A w \in D : \A a \in Account : Weight(w, a) \in Int /\ Delta(w, a) \in Int
    BY WeightTypes
  <1>2. \A w \in D : \A a \in Account :
          /\ proxy[a] \in Account \union {None} /\ producers[a] \in SUBSET Producer
          /\ Final(w, a) \in D /\ Ended(w, a) \in D
    <2> SUFFICES ASSUME NEW w \in D, NEW a \in Account
                 PROVE  /\ proxy[a] \in Account \union {None} /\ producers[a] \in SUBSET Producer
                        /\ Final(w, a) \in D /\ Ended(w, a) \in D
      OBVIOUS
    <2>1. proxy[a] \in Account \union {None} /\ producers[a] \in SUBSET Producer
          /\ IsFiniteSet(Producer)
      BY DEF MayPropagate
    <2>2. Weight(w, a) \in Int /\ Delta(w, a) \in Int
      BY <1>1
    <2> HIDE DEF Weight, Delta
    <2>3. AddVotes(w, producers[a], Delta(w, a)) \in D
      BY <2>1, <2>2, AddVotesType
    <2> QED
      BY <2>1, <2>2, <2>3, SetLastEffect
  <1>3. NoCircle(Account, proxy)
    BY DEF MayPropagate, NoProxyCycle, NoCircle
  <1> HIDE DEF Weight, Final, Ended
  <1>4. base \in [D \X Account -> D]
    BY <1>2
  <1>5. step \in [D \X Account -> D]
    <2>1. ASSUME NEW x \in D \X Account, proxy[x[2]] # None
          PROVE  AddProxied(x[1], proxy[x[2]], Delta(x[1], x[2])) \in D
      <3>1. x[1] \in D /\ x[2] \in Account
        OBVIOUS
      <3>2. Delta(x[1], x[2]) \in Int /\ proxy[x[2]] \in Account
        BY <1>1, <1>2, <2>1, <3>1
      <3> HIDE DEF Delta
      <3> QED
        BY <3>1, <3>2, AddProxiedEffect
    <2> HIDE DEF Delta
    <2> QED
      BY <2>1
  <1>6. finish \in [D \X Account \X D -> D]
    <2>1. ASSUME NEW x \in D \X Account \X D
          PROVE  [x[3] EXCEPT !.last_vote_weight[x[2]] = Weight(x[1], x[2])] \in D
      <3>1. x[1] \in D /\ x[2] \in Account /\ x[3] \in D
        OBVIOUS
      <3>2. Weight(x[1], x[2]) \in Int
        BY <1>1, <3>1
      <3> QED
        BY <3>1, <3>2, SetLastEffect
    <2> QED
      BY <2>1
  <1>7. \A d \in D : \A a \in Account : <<d, a>> \notin stop => proxy[a] \in Account
    BY <1>2
  <1> HIDE DEF base, step, finish, stop
  <1>8. PICK f : Defines(Account, D, proxy, stop, base, step, finish, f)
    <2>1. Recursion(Account, D, proxy, stop, base, step, finish)
      BY <1>3, <1>4, <1>5, <1>6, <1>7 DEF Recursion
    <2> HIDE DEF D, Delta
    <2> QED
      BY <2>1, ChainRecursion
  <1>8a. /\ f \in [D \X Account -> D]
         /\ \A d \in D : \A a \in Account :
              f[<<d, a>>] = IF <<d, a>> \in stop THEN base[<<d, a>>]
                            ELSE finish[<<d, a, f[<<step[<<d, a>>], proxy[a]>>]>>]
    BY <1>8 DEF Defines
  <1>9. \A d \in D : \A a \in Account : f[<<d, a>>] = PassOn(f, d, a, stake, proxies)
    <2> SUFFICES ASSUME NEW d \in D, NEW a \in Account
                 PROVE  f[<<d, a>>] = PassOn(f, d, a, stake, proxies)
      OBVIOUS
    <2>1. CASE Delta(d, a) \in -1 .. 1
      <3>1. f[<<d, a>>] = Final(d, a)
        BY <1>8a, <2>1 DEF stop, base
      <3> QED
        BY <2>1, <3>1 DEF PassOn, Final, Weight
    <2>2. CASE Delta(d, a) \notin -1 .. 1 /\ proxy[a] = None
      <3>1. f[<<d, a>>] = Ended(d, a)
        BY <1>8a, <2>2 DEF stop, base
      <3> QED
        BY <2>2, <3>1 DEF PassOn, Ended, Weight
    <2>3. CASE Delta(d, a) \notin -1 .. 1 /\ proxy[a] # None
      <3>1. step[<<d, a>>] = AddProxied(d, proxy[a], Delta(d, a)) /\ step[<<d, a>>] \in D
        BY <1>5, <2>3 DEF step
      <3>2. <<d, a>> \notin stop /\ proxy[a] \in Account
        BY <1>7, <2>3 DEF stop
      <3> DEFINE r == f[<<step[<<d, a>>], proxy[a]>>]
      <3>3. r \in D
        BY <1>8a, <3>1, <3>2
      <3>4. f[<<d, a>>] = finish[<<d, a, r>>]
        BY <1>8a, <3>2
      <3>5. finish[<<d, a, r>>] = [r EXCEPT !.last_vote_weight[a] = Weight(d, a)]
        BY <3>3 DEF finish
      <3> QED
        BY <2>3, <3>1, <3>4, <3>5 DEF PassOn, Weight
    <2> QED
      BY <2>1, <2>2, <2>3
  <1> DEFINE pass == CHOOSE g : g = [x \in D \X Account |-> PassOn(g, x[1], x[2], stake, proxies)]
  <1>10. f = [x \in D \X Account |-> PassOn(f, x[1], x[2], stake, proxies)]
    <2>1. \A x \in D \X Account : f[x] = PassOn(f, x[1], x[2], stake, proxies)
      BY <1>9
    <2> HIDE DEF D
    <2> QED
      BY <1>8a, <2>1
  <1>11. pass = [x \in D \X Account |-> PassOn(pass, x[1], x[2], stake, proxies)]
    BY <1>10
  <1>12. \A w \in D : \A a \in Account :
           /\ Propagated(w, a, stake, proxies) = pass[<<w, a>>]
           /\ pass[<<w, a>>] = PassOn(pass, w, a, stake, proxies)
    <2>1. \A w, a : Propagated(w, a, stake, proxies) = pass[<<w, a>>]
      BY DEF Propagated, PassOn
    <2> HIDE DEF pass
    <2> QED
      BY <1>11, <2>1
  <1> HIDE DEF pass
  <1>13. \A a \in Account : \A w \in D : pass[<<w, a>>] = f[<<w, a>>]
    <2> DEFINE S == { a \in Account : \E w \in D : pass[<<w, a>>] # f[<<w, a>>] }
    <2>1. SUFFICES ASSUME S # {} PROVE FALSE
      OBVIOUS
    <2>2. PICK a \in S : proxy[a] \notin S
      BY <2>1, <1>3 DEF NoCircle
    <2>3. PICK w \in D : pass[<<w, a>>] # f[<<w, a>>]
      OBVIOUS
    <2>4. a \in Account
      OBVIOUS
    <2>5. proxy[a] # None =>
            LET w1 == AddProxied(w, proxy[a], Delta(w, a))
            IN  pass[<<w1, proxy[a]>>] = f[<<w1, proxy[a]>>]
      <3> SUFFICES ASSUME proxy[a] # None
                   PROVE  pass[<<AddProxied(w, proxy[a], Delta(w, a)), proxy[a]>>]
                            = f[<<AddProxied(w, proxy[a], Delta(w, a)), proxy[a]>>]
        OBVIOUS
      <3>1. proxy[a] \in Account /\ Delta(w, a) \in Int
        BY <1>1, <1>2, <2>4
      <3> HIDE DEF Delta
      <3>2. AddProxied(w, proxy[a], Delta(w, a)) \in D
        BY <3>1, AddProxiedEffect
      <3> QED
        BY <2>2, <3>1, <3>2
    <2>6. PassOn(pass, w, a, stake, proxies) = PassOn(f, w, a, stake, proxies)
      BY <2>5 DEF PassOn, Weight
    <2> QED
      BY <1>9, <1>12, <2>3, <2>4, <2>6
  <1> QED
    BY <1>8a, <1>9, <1>12, <1>13 DEF Passes

\* The accounts a change of weight may reach from one of them.
Reach(x) == Reached(Account, proxy, x)

\* One call finds the tables w, brings the vote of x to weight and leaves r.
OnePass(pass, w, x, weight, delta, passed, r) ==
  /\ weight \in Int /\ delta \in Int
  /\ passed \in Weights /\ r \in Weights
  /\ r.last_vote_weight = [passed.last_vote_weight EXCEPT ![x] = weight]
  /\ r.proxied_vote_weight = passed.proxied_vote_weight
  /\ r.total_votes = passed.total_votes
  /\ r.total_producer_vote_weight = passed.total_producer_vote_weight
  /\ \/ delta \in -1 .. 1 /\ passed = w
     \/ delta \notin -1 .. 1 /\ proxy[x] = None /\ passed = AddVotes(w, producers[x], delta)
     \/ /\ delta \notin -1 .. 1 /\ proxy[x] \in Account
        /\ AddProxied(w, proxy[x], delta) \in Weights
        /\ passed = pass[<<AddProxied(w, proxy[x], delta), proxy[x]>>]

\* What one call does to the tables.
LEMMA PassEffect ==
  ASSUME NEW stake, NEW proxies, MayPropagate(stake, proxies),
         NEW pass, Passes(pass, stake, proxies), NEW w \in Weights, NEW x \in Account
  PROVE  LET weight == VoteWeight(w, x, stake, proxies)
         IN  \E passed : OnePass(pass, w, x, weight, weight - w.last_vote_weight[x],
                                 passed, pass[<<w, x>>])
  <1> DEFINE weight == VoteWeight(w, x, stake, proxies)
             delta == weight - w.last_vote_weight[x]
             passed == IF delta \in -1 .. 1 THEN w
                       ELSE IF proxy[x] # None
                            THEN pass[<<AddProxied(w, proxy[x], delta), proxy[x]>>]
                            ELSE AddVotes(w, producers[x], delta)
  <1>1. weight \in Int /\ delta \in Int
    BY WeightTypes
  <1>2. /\ proxy[x] \in Account \union {None} /\ producers[x] \in SUBSET Producer
        /\ IsFiniteSet(Producer)
    BY DEF MayPropagate
  <1>3. pass[<<w, x>>] = [passed EXCEPT !.last_vote_weight[x] = weight]
    BY DEF Passes, PassOn
  <1> HIDE DEF weight, delta
  <1>4. proxy[x] # None => proxy[x] \in Account /\ AddProxied(w, proxy[x], delta) \in Weights
    BY <1>1, <1>2, AddProxiedEffect
  <1>5. AddVotes(w, producers[x], delta) \in Weights
    BY <1>1, <1>2, AddVotesType
  <1>6. passed \in Weights
    BY <1>4, <1>5 DEF Passes
  <1>7. /\ pass[<<w, x>>] \in Weights
        /\ pass[<<w, x>>].last_vote_weight = [passed.last_vote_weight EXCEPT ![x] = weight]
        /\ pass[<<w, x>>].proxied_vote_weight = passed.proxied_vote_weight
        /\ pass[<<w, x>>].total_votes = passed.total_votes
        /\ pass[<<w, x>>].total_producer_vote_weight = passed.total_producer_vote_weight
    <2> HIDE DEF passed
    <2> QED
      BY <1>1, <1>3, <1>6, SetLastEffect
  <1>8. \/ delta \in -1 .. 1 /\ passed = w
        \/ delta \notin -1 .. 1 /\ proxy[x] = None /\ passed = AddVotes(w, producers[x], delta)
        \/ /\ delta \notin -1 .. 1 /\ proxy[x] # None
           /\ proxy[x] \in Account
           /\ AddProxied(w, proxy[x], delta) \in Weights
           /\ passed = pass[<<AddProxied(w, proxy[x], delta), proxy[x]>>]
    BY <1>4
  <1> HIDE DEF passed
  <1>9. OnePass(pass, w, x, weight, delta, passed, pass[<<w, x>>])
    BY <1>1, <1>6, <1>7, <1>8 DEF OnePass
  <1> QED
    BY <1>9 DEF delta, weight

\* Producers' votes change nothing of the voters.
LEMMA AddVotesLeavesVoters ==
  ASSUME NEW w \in Weights, NEW voted, NEW delta
  PROVE  /\ AddVotes(w, voted, delta).last_vote_weight = w.last_vote_weight
         /\ AddVotes(w, voted, delta).proxied_vote_weight = w.proxied_vote_weight
  BY DEF AddVotes, Weights

\* An account counts for a stake in some week up to now, and for what is
\* voted through it.
Counts(w, b, stake, proxies) ==
  \E k \in 0 .. week :
    w.last_vote_weight[b]
      = stake[b] * Factor[k] + IF proxies[b] THEN w.proxied_vote_weight[b] ELSE 0

\* A change of weight reaches nobody but those ahead, and weighs them.
Reweighs(w, r, x, stake, proxies) ==
  /\ \A b \in Account : b \notin Reach(x) =>
       /\ r.last_vote_weight[b] = w.last_vote_weight[b]
       /\ r.proxied_vote_weight[b] = w.proxied_vote_weight[b]
  /\ r.proxied_vote_weight[x] = w.proxied_vote_weight[x]
  /\ Counts(r, x, stake, proxies)
  /\ \A b \in Account : b # x /\ Counts(w, b, stake, proxies) => Counts(r, b, stake, proxies)

\* However far a change is passed on, it reaches nobody but those ahead.
LEMMA PropagationReweighs ==
  ASSUME NEW stake, NEW proxies, MayPropagate(stake, proxies),
         NEW pass, Passes(pass, stake, proxies)
  PROVE  \A x \in Account : \A w \in Weights : Reweighs(w, pass[<<w, x>>], x, stake, proxies)
  <1> DEFINE G == { x \in Account : \A w \in Weights : Reweighs(w, pass[<<w, x>>], x, stake, proxies) }
  <1>0. /\ NoCircle(Account, proxy) /\ proxy \in [Account -> Account \union {None}]
        /\ week \in 0 .. LastWeek /\ None \notin Account
        /\ IsFiniteSet(Producer) /\ producers \in [Account -> SUBSET Producer]
    BY VotingAssumption DEF MayPropagate, NoProxyCycle, NoCircle
  <1>1. ASSUME NEW x \in Account, proxy[x] \in Account => proxy[x] \in G
        PROVE  x \in G
    <2> SUFFICES ASSUME NEW w \in Weights
                 PROVE  Reweighs(w, pass[<<w, x>>], x, stake, proxies)
      OBVIOUS
    <2> DEFINE weight == VoteWeight(w, x, stake, proxies)
               delta == weight - w.last_vote_weight[x]
               r == pass[<<w, x>>]
    <2>0. PICK passed : OnePass(pass, w, x, weight, delta, passed, r)
      BY PassEffect
    <2>2. weight = stake[x] * Factor[week] + IF proxies[x] THEN w.proxied_vote_weight[x] ELSE 0
      BY WeightTypes
    <2>3. x \in Reach(x)
      BY ReachedIsClosed DEF Reach
    <2> HIDE DEF weight, delta, r
    <2>1. /\ weight \in Int /\ delta \in Int
          /\ passed \in Weights /\ r \in Weights
          /\ r.last_vote_weight = [passed.last_vote_weight EXCEPT ![x] = weight]
          /\ r.proxied_vote_weight = passed.proxied_vote_weight
          /\ \/ delta \in -1 .. 1 /\ passed = w
             \/ proxy[x] = None /\ passed = AddVotes(w, producers[x], delta)
             \/ /\ proxy[x] \in Account
                /\ AddProxied(w, proxy[x], delta) \in Weights
                /\ passed = pass[<<AddProxied(w, proxy[x], delta), proxy[x]>>]
      BY <2>0 DEF OnePass
    <2>a. passed.last_vote_weight \in [Account -> Int]
      BY <2>1 DEF Weights
    <2>4. ASSUME \A b \in Account : b \notin Reach(x) =>
                    /\ passed.last_vote_weight[b] = w.last_vote_weight[b]
                    /\ passed.proxied_vote_weight[b] = w.proxied_vote_weight[b],
                 passed.proxied_vote_weight[x] = w.proxied_vote_weight[x],
                 \A b \in Account : b # x /\ Counts(w, b, stake, proxies)
                                    => Counts(passed, b, stake, proxies)
          PROVE  Reweighs(w, r, x, stake, proxies)
      <3>1. \A b \in Account : b # x => r.last_vote_weight[b] = passed.last_vote_weight[b]
        BY <2>1, <2>a
      <3>2. r.last_vote_weight[x] = weight
        BY <2>1, <2>a
      <3>3. r.proxied_vote_weight = passed.proxied_vote_weight
        BY <2>1
      <3>4. Counts(r, x, stake, proxies)
        BY <1>0, <2>2, <2>4, <3>2, <3>3 DEF Counts
      <3>5. \A b \in Account : b # x /\ Counts(w, b, stake, proxies) => Counts(r, b, stake, proxies)
        BY <2>4, <3>1, <3>3 DEF Counts
      <3> QED
        BY <2>3, <2>4, <3>1, <3>3, <3>4, <3>5 DEF Reweighs
    <2>5. CASE delta \in -1 .. 1 /\ passed = w
      BY <2>4, <2>5 DEF r
    <2>6. CASE proxy[x] = None /\ passed = AddVotes(w, producers[x], delta)
      <3>1. /\ passed.last_vote_weight = w.last_vote_weight
            /\ passed.proxied_vote_weight = w.proxied_vote_weight
        BY <2>6, AddVotesLeavesVoters
      <3>a. \A b \in Account : Counts(w, b, stake, proxies) => Counts(passed, b, stake, proxies)
        BY <3>1 DEF Counts
      <3>2. Reweighs(w, r, x, stake, proxies)
        BY <2>4, <3>1, <3>a
      <3> QED
        BY <3>2 DEF r
    <2>7. CASE /\ proxy[x] \in Account
               /\ AddProxied(w, proxy[x], delta) \in Weights
               /\ passed = pass[<<AddProxied(w, proxy[x], delta), proxy[x]>>]
      <3> DEFINE q == proxy[x]
                 v == AddProxied(w, q, delta)
      <3>1. q \in Account /\ v \in Weights /\ passed = pass[<<v, q>>]
        BY <2>7
      <3>2. /\ v.last_vote_weight = w.last_vote_weight
            /\ v.proxied_vote_weight = [w.proxied_vote_weight EXCEPT ![q] = @ + delta]
        BY <2>1, <2>7, AddProxiedEffect
      <3>3. w.proxied_vote_weight \in [Account -> Int]
        BY DEF Weights
      <3>4. x \notin Reach(q) /\ q \in Reach(q) /\ Reach(q) \subseteq Reach(x)
        BY <1>0, <2>7, ReachedIsAhead, ReachedIsClosed, ReachedFromNext DEF Reach
      <3>5. Reweighs(v, passed, q, stake, proxies)
        BY <1>1, <2>7, <3>1
      <3> HIDE DEF q, v
      <3>6. \A b \in Account : b # q => v.proxied_vote_weight[b] = w.proxied_vote_weight[b]
        BY <3>2, <3>3
      <3>7. \A b \in Account : b \notin Reach(x) =>
                    /\ passed.last_vote_weight[b] = w.last_vote_weight[b]
                    /\ passed.proxied_vote_weight[b] = w.proxied_vote_weight[b]
        BY <3>2, <3>4, <3>5, <3>6 DEF Reweighs
      <3>8. passed.proxied_vote_weight[x] = w.proxied_vote_weight[x]
        BY <3>2, <3>4, <3>5, <3>6 DEF Reweighs
      <3>9. ASSUME NEW b \in Account, b # x, Counts(w, b, stake, proxies)
            PROVE  Counts(passed, b, stake, proxies)
        <4>1. CASE b = q
          BY <3>5, <4>1 DEF Reweighs
        <4>2. CASE b # q
          <5>1. Counts(v, b, stake, proxies)
            BY <3>2, <3>6, <3>9, <4>2 DEF Counts
          <5> QED
            BY <3>5, <4>2, <5>1 DEF Reweighs
        <4> QED
          BY <4>1, <4>2
      <3>10. Reweighs(w, r, x, stake, proxies)
        BY <2>4, <3>7, <3>8, <3>9
      <3> QED
        BY <3>10 DEF r
    <2> QED
      BY <2>1, <2>5, <2>6, <2>7
  <1> HIDE DEF G
  <1>2. \A x \in Account : x \in G
    BY <1>0, <1>1, ChainInduction
  <1> QED
    BY <1>2 DEF G

\* What propagate_weight_change does, however far it goes.
LEMMA PropagationWeighs ==
  ASSUME NEW stake, NEW proxies, MayPropagate(stake, proxies),
         NEW w \in Weights, NEW x \in Account
  PROVE  /\ Propagated(w, x, stake, proxies) \in Weights
         /\ Reweighs(w, Propagated(w, x, stake, proxies), x, stake, proxies)
  <1>1. PICK pass : Passes(pass, stake, proxies)
    BY PropagationEnds
  <1>2. /\ pass[<<w, x>>] \in Weights
        /\ Propagated(w, x, stake, proxies) = pass[<<w, x>>]
    BY <1>1 DEF Passes
  <1>3. \A y \in Account : \A u \in Weights : Reweighs(u, pass[<<u, y>>], y, stake, proxies)
    BY <1>1, PropagationReweighs
  <1> QED
    BY <1>2, <1>3

\* A change of weight given to an account leaves every account that counted
\* for its stake counting for it, and does not touch one that is not ahead.
KeepsCounts(w, r, x, stake, proxies) ==
  /\ r \in Weights
  /\ \A b \in Account : Counts(w, b, stake, proxies) => Counts(r, b, stake, proxies)
  /\ \A b \in Account : b \notin Reach(x) =>
       /\ r.last_vote_weight[b] = w.last_vote_weight[b]
       /\ r.proxied_vote_weight[b] = w.proxied_vote_weight[b]

\* However far what an account is given is passed on.
LEMMA GivingKeepsCounts ==
  ASSUME NEW stake, NEW proxies, MayPropagate(stake, proxies),
         NEW w \in Weights, NEW x \in Account, NEW n \in Int
  PROVE  KeepsCounts(w, Propagated(AddProxied(w, x, n), x, stake, proxies), x, stake, proxies)
  <1> DEFINE v == AddProxied(w, x, n)
             r == Propagated(v, x, stake, proxies)
  <1>1. /\ v \in Weights
        /\ v.last_vote_weight = w.last_vote_weight
        /\ v.proxied_vote_weight = [w.proxied_vote_weight EXCEPT ![x] = @ + n]
    BY AddProxiedEffect
  <1>2. w.proxied_vote_weight \in [Account -> Int]
    BY DEF Weights
  <1> HIDE DEF v
  <1>3. \A b \in Account : b # x => v.proxied_vote_weight[b] = w.proxied_vote_weight[b]
    BY <1>1, <1>2
  <1>4. r \in Weights /\ Reweighs(v, r, x, stake, proxies)
    BY <1>1, PropagationWeighs
  <1> HIDE DEF r
  <1>5. ASSUME NEW b \in Account, Counts(w, b, stake, proxies)
        PROVE  Counts(r, b, stake, proxies)
    <2>1. CASE b = x
      BY <1>4, <2>1 DEF Reweighs
    <2>2. CASE b # x
      <3>1. Counts(v, b, stake, proxies)
        BY <1>1, <1>3, <1>5, <2>2 DEF Counts
      <3> QED
        BY <1>4, <2>2, <3>1 DEF Reweighs
    <2> QED
      BY <2>1, <2>2
  <1>6. ASSUME NEW b \in Account, b \notin Reach(x)
        PROVE  /\ r.last_vote_weight[b] = w.last_vote_weight[b]
               /\ r.proxied_vote_weight[b] = w.proxied_vote_weight[b]
    <2>1. x \in Reach(x)
      BY ReachedIsClosed DEF Reach
    <2> QED
      BY <1>1, <1>3, <1>4, <1>6, <2>1 DEF Reweighs
  <1>7. KeepsCounts(w, r, x, stake, proxies)
    BY <1>4, <1>5, <1>6 DEF KeepsCounts
  <1> QED
    BY <1>7 DEF r, v

\* The invariant for VotesAreStake.
StakeInv ==
  /\ BallotInv
  /\ staked \in [Account -> 0 .. MaxStake] /\ weights \in Weights /\ week \in 0 .. LastWeek
  /\ VotesAreStake

\* The accounts a ballot is passed on through lie ahead of its owner.
LEMMA BallotsLeadAhead ==
  ASSUME BallotInv, NEW a \in Account, NEW q \in Account, NEW ps, NEW voting \in BOOLEAN,
         ValidBallot(a, q, ps, voting), voting \/ q = proxy[a]
  PROVE  a \notin Reach(q)
  <1>1. NoCircle(Account, proxy)
    BY DEF BallotInv, NoProxyCycle, NoCircle
  <1>2. CASE voting
    <2>1. q # None /\ q # a /\ proxy[q] = None /\ None \notin Account
      BY <1>2, VotingAssumption DEF BallotInv, BallotsStayValid, ValidBallot
    <2> QED
      BY <2>1, ReachedFromNext DEF Reach
  <1>3. CASE q = proxy[a]
    BY <1>1, <1>3, ReachedIsAhead DEF Reach
  <1> QED
    BY <1>2, <1>3

\* After update_votes its account counts for its present stake, and the
\* others that voted do still.
LEMMA UpdateVotesCounts ==
  ASSUME IsFiniteSet(Producer), BallotInv, weights \in Weights, week \in 0 .. LastWeek,
         NEW a \in Account, NEW q \in Account \union {None},
         NEW ps \in SUBSET Producer, NEW voting \in BOOLEAN,
         voting \/ (q = proxy[a] /\ ps = producers[a]),
         NEW stake \in [Account -> Nat], UpdateVotes(a, q, ps, voting, stake)
  PROVE  /\ weights' \in Weights
         /\ Counts(weights', a, stake, is_proxy)
         /\ \A b \in Account : b # a /\ Counts(weights, b, stake, is_proxy)
                               => Counts(weights', b, stake, is_proxy)
  <1> DEFINE w == weights
             old == w.last_vote_weight[a]
             weight == VoteWeight(w, a, stake, is_proxy)
             u == Undone(w, a, stake)
             c == Cast(u, q, ps, weight, stake)
  <1>0. /\ MayPropagate(stake, is_proxy) /\ NoCircle(Account, proxy)
        /\ proxy[a] \in Account \union {None} /\ producers[a] \in SUBSET Producer
        /\ is_proxy \in [Account -> BOOLEAN] /\ None \notin Account
    BY VotingAssumption DEF MayPropagate, BallotInv, BallotTypeOK, NoProxyCycle, NoCircle
  <1>1. /\ ValidBallot(a, q, ps, voting)
        /\ weights' = [c EXCEPT !.last_vote_weight[a] = weight]
    BY DEF UpdateVotes
  <1>2. /\ weight \in Int /\ old \in Int /\ -old \in Int
        /\ weight = stake[a] * Factor[week] + IF is_proxy[a] THEN w.proxied_vote_weight[a] ELSE 0
    <2>1. w \in Weights
      OBVIOUS
    <2> HIDE DEF w
    <2> QED
      BY <1>0, <2>1, WeightTypes
  <1> HIDE DEF weight, old
  <1>3. /\ u \in Weights
        /\ \A b \in Account : Counts(w, b, stake, is_proxy) => Counts(u, b, stake, is_proxy)
        /\ u.proxied_vote_weight[a] = w.proxied_vote_weight[a]
    <2>1. CASE old <= 0
      <3>1. u = w
        BY <2>1 DEF Undone, old
      <3> QED
        BY <3>1
    <2>2. CASE ~(old <= 0) /\ proxy[a] # None
      <3>1. proxy[a] \in Account /\ a \notin Reach(proxy[a])
        BY <1>0, <2>2, ReachedIsAhead DEF Reach
      <3>2. u = Propagated(AddProxied(w, proxy[a], -old), proxy[a], stake, is_proxy)
        BY <2>2 DEF Undone, old
      <3> HIDE DEF u
      <3>3. KeepsCounts(w, u, proxy[a], stake, is_proxy)
        BY <1>0, <1>2, <3>1, <3>2, GivingKeepsCounts
      <3> QED
        BY <3>1, <3>3 DEF KeepsCounts
    <2>3. CASE ~(old <= 0) /\ proxy[a] = None
      <3>1. u = AddVotes(w, producers[a], -old)
        BY <2>3 DEF Undone, old
      <3> HIDE DEF u
      <3>2. u \in Weights
        BY <1>0, <1>2, <3>1, AddVotesType
      <3>3. u.last_vote_weight = w.last_vote_weight /\ u.proxied_vote_weight = w.proxied_vote_weight
        BY <3>1, AddVotesLeavesVoters
      <3> QED
        BY <3>2, <3>3 DEF Counts
    <2> QED
      BY <2>1, <2>2, <2>3
  <1> HIDE DEF u
  <1>4. /\ c \in Weights
        /\ \A b \in Account : Counts(u, b, stake, is_proxy) => Counts(c, b, stake, is_proxy)
        /\ c.proxied_vote_weight[a] = u.proxied_vote_weight[a]
    <2>1. CASE q # None
      <3>1. q \in Account /\ a \notin Reach(q)
        BY <1>1, <2>1, BallotsLeadAhead
      <3>2. c = Propagated(AddProxied(u, q, weight), q, stake, is_proxy)
        BY <2>1 DEF Cast
      <3> HIDE DEF c
      <3>3. KeepsCounts(u, c, q, stake, is_proxy)
        BY <1>0, <1>2, <1>3, <3>1, <3>2, GivingKeepsCounts
      <3> QED
        BY <3>1, <3>3 DEF KeepsCounts
    <2>2. CASE q = None
      <3>1. c = AddVotes(u, ps, weight)
        BY <2>2 DEF Cast
      <3> HIDE DEF c
      <3>2. c \in Weights
        BY <1>0, <1>2, <1>3, <3>1, AddVotesType
      <3>3. c.last_vote_weight = u.last_vote_weight /\ c.proxied_vote_weight = u.proxied_vote_weight
        BY <1>3, <3>1, AddVotesLeavesVoters
      <3> QED
        BY <3>2, <3>3 DEF Counts
    <2> QED
      BY <2>1, <2>2
  <1> HIDE DEF c
  <1>5. /\ weights' \in Weights
        /\ weights'.last_vote_weight = [c.last_vote_weight EXCEPT ![a] = weight]
        /\ weights'.proxied_vote_weight = c.proxied_vote_weight
    BY <1>1, <1>2, <1>4, SetLastEffect
  <1>6. c.last_vote_weight \in [Account -> Int]
    BY <1>4 DEF Weights
  <1>7. Counts(weights', a, stake, is_proxy)
    BY <1>0, <1>2, <1>3, <1>4, <1>5, <1>6 DEF Counts
  <1>8. \A b \in Account : b # a /\ Counts(w, b, stake, is_proxy)
                           => Counts(weights', b, stake, is_proxy)
    BY <1>3, <1>4, <1>5, <1>6 DEF Counts
  <1> QED
    BY <1>5, <1>7, <1>8

\* An account has cast a vote.
Votes(a) == producers[a] # {} \/ proxy[a] # None

\* Nobody votes at first.
LEMMA StakeInit ==
  ASSUME Init
  PROVE  StakeInv
  <1>1. /\ staked = [a \in Account |-> 0] /\ week = 0
        /\ weights = [last_vote_weight |-> [a \in Account |-> 0],
                      proxied_vote_weight |-> [a \in Account |-> 0],
                      total_votes |-> [p \in Producer |-> 0],
                      total_producer_vote_weight |-> 0]
        /\ producers = [a \in Account |-> {}] /\ proxy = [a \in Account |-> None]
    BY DEF Init
  <1>2. staked \in [Account -> 0 .. MaxStake] /\ week \in 0 .. LastWeek
    BY <1>1, VotingAssumption
  <1>3. weights \in Weights
    BY <1>1 DEF Weights
  <1>4. VotesAreStake
    BY <1>1 DEF VotesAreStake
  <1> QED
    BY <1>2, <1>3, <1>4, InitHolds DEF StakeInv

\* Every step keeps the invariant.
LEMMA StakeStep ==
  ASSUME IsFiniteSet(Producer)
  PROVE  StakeInv /\ [Next]_vars => StakeInv'
  <1> SUFFICES ASSUME StakeInv, [Next]_vars PROVE StakeInv'
    OBVIOUS
  <1>0. /\ BallotInv /\ BallotTypeOK /\ weights \in Weights /\ week \in 0 .. LastWeek
        /\ staked \in [Account -> 0 .. MaxStake] /\ staked \in [Account -> Nat]
        /\ \A b \in Account : Votes(b) => Counts(weights, b, staked, is_proxy)
        /\ is_proxy \in [Account -> BOOLEAN]
        /\ proxy \in [Account -> Account \union {None}]
        /\ producers \in [Account -> SUBSET Producer]
        /\ MaxStake \in Nat /\ LastWeek \in Nat
    <2>1. BallotInv /\ BallotTypeOK /\ staked \in [Account -> 0 .. MaxStake] /\ VotesAreStake
          /\ weights \in Weights /\ week \in 0 .. LastWeek
      BY DEF StakeInv, BallotInv
    <2>2. staked \in [Account -> Nat] /\ MaxStake \in Nat /\ LastWeek \in Nat
      BY <2>1, VotingAssumption
    <2>3. \A b \in Account : Votes(b) => Counts(weights, b, staked, is_proxy)
      BY <2>1 DEF VotesAreStake, Votes, Counts
    <2> QED
      BY <2>1, <2>2, <2>3 DEF BallotTypeOK
  <1>1. BallotInv'
    BY <1>0, StepHolds
  <1>2. ASSUME staked' \in [Account -> 0 .. MaxStake], weights' \in Weights, week' \in 0 .. LastWeek,
               \A b \in Account : Votes(b)' => Counts(weights, b, staked, is_proxy)',
               week' = week
        PROVE  StakeInv'
    BY <1>1, <1>2 DEF StakeInv, VotesAreStake, Votes, Counts
  <1>3. ASSUME NEW a \in Account, NEW q \in Account \union {None}, NEW ps \in SUBSET Producer,
               NEW voting \in BOOLEAN, voting \/ (q = proxy[a] /\ ps = producers[a]),
               UpdateVotes(a, q, ps, voting, staked'),
               staked' \in [Account -> 0 .. MaxStake],
               \A b \in Account : b # a => staked'[b] = staked[b], week' = week
        PROVE  StakeInv'
    <2>1. staked' \in [Account -> Nat]
      BY <1>0, <1>3
    <2>2. /\ weights' \in Weights
          /\ Counts(weights', a, staked', is_proxy)
          /\ \A b \in Account : b # a /\ Counts(weights, b, staked', is_proxy)
                                => Counts(weights', b, staked', is_proxy)
      BY <1>0, <1>3, <2>1, UpdateVotesCounts
    <2>3. \A b \in Account : b # a => (Counts(weights, b, staked', is_proxy)
                                         <=> Counts(weights, b, staked, is_proxy))
      BY <1>3 DEF Counts
    <2>4. /\ is_proxy' = is_proxy
          /\ \A b \in Account : b # a => (Votes(b)' <=> Votes(b))
      BY <1>0, <1>3 DEF UpdateVotes, Votes
    <2>5. \A b \in Account : Votes(b)' => Counts(weights', b, staked', is_proxy)
      BY <1>0, <2>2, <2>3, <2>4
    <2>6. \A b \in Account : Votes(b)' => Counts(weights, b, staked, is_proxy)'
      BY <1>3, <2>4, <2>5 DEF Counts
    <2> QED
      BY <1>0, <1>2, <1>3, <2>2, <2>6
  <1>4. ASSUME NEW a \in Account, NEW q \in Account \union {None},
               NEW ps \in SUBSET Producer, VoteProducer(a, q, ps)
        PROVE  StakeInv'
    <2>1. UpdateVotes(a, q, ps, TRUE, staked) /\ staked' = staked /\ week' = week
      BY <1>4 DEF VoteProducer
    <2> QED
      BY <1>0, <1>3, <2>1
  <1>5. ASSUME NEW a \in Account, NEW n \in 0 .. MaxStake, UpdateVotingPower(a, n)
        PROVE  StakeInv'
    <2>1. staked' = [staked EXCEPT ![a] = n] /\ week' = week /\ Reweigh(a)
      BY <1>5 DEF UpdateVotingPower
    <2>2. /\ staked' \in [Account -> 0 .. MaxStake]
          /\ \A b \in Account : b # a => staked'[b] = staked[b]
      BY <1>0, <2>1
    <2>3. CASE Votes(a)
      <3>1. UpdateVotes(a, proxy[a], producers[a], FALSE, staked')
        BY <2>1, <2>3 DEF Reweigh, Votes
      <3>2. proxy[a] \in Account \union {None} /\ producers[a] \in SUBSET Producer
        BY <1>0
      <3> QED
        BY <1>3, <2>1, <2>2, <3>1, <3>2
    <2>4. CASE ~Votes(a)
      <3>1. weights' = weights /\ is_proxy' = is_proxy /\ proxy' = proxy /\ producers' = producers
        BY <2>1, <2>4 DEF Reweigh, Votes, ballots
      <3>2. \A b \in Account : Votes(b)' => Counts(weights, b, staked, is_proxy)'
        BY <1>0, <2>1, <2>2, <2>4, <3>1 DEF Votes, Counts
      <3> QED
        BY <1>0, <1>2, <2>1, <2>2, <3>1, <3>2
    <2> QED
      BY <2>3, <2>4
  <1>6. ASSUME NEW a \in Account, NEW isproxy \in BOOLEAN, RegProxy(a, isproxy)
        PROVE  StakeInv'
    <2>1. /\ is_proxy' = [is_proxy EXCEPT ![a] = isproxy]
          /\ staked' = staked /\ proxy' = proxy /\ producers' = producers /\ week' = week
          /\ IF a \in voters THEN weights' = Propagated(weights, a, staked, is_proxy')
             ELSE weights' = weights
      BY <1>6 DEF RegProxy
    <2>2. \A b \in Account : Votes(b)' <=> Votes(b)
      BY <2>1 DEF Votes
    <2>3. /\ is_proxy' \in [Account -> BOOLEAN]
          /\ \A b \in Account : b # a => is_proxy'[b] = is_proxy[b]
      BY <1>0, <2>1
    <2>4. \A b \in Account : b # a /\ Votes(b) => Counts(weights, b, staked, is_proxy')
      BY <1>0, <2>3 DEF Counts
    <2>5. CASE a \in voters
      <3>1. weights' = Propagated(weights, a, staked, is_proxy')
        BY <2>1, <2>5
      <3>2. MayPropagate(staked, is_proxy')
        BY <1>0, <2>3 DEF MayPropagate, BallotInv
      <3>3. weights' \in Weights /\ Reweighs(weights, weights', a, staked, is_proxy')
        BY <1>0, <3>1, <3>2, PropagationWeighs
      <3>4. \A b \in Account : Votes(b) => Counts(weights', b, staked, is_proxy')
        BY <2>4, <3>3 DEF Reweighs
      <3>5. \A b \in Account : Votes(b)' => Counts(weights, b, staked, is_proxy)'
        BY <2>1, <2>2, <3>4 DEF Counts
      <3> QED
        BY <1>0, <1>2, <2>1, <3>3, <3>5
    <2>6. CASE a \notin voters
      <3>1. ~Votes(a) /\ weights' = weights
        BY <1>0, <2>1, <2>6 DEF BallotInv, BallotsStayValid, Votes
      <3>2. \A b \in Account : Votes(b)' => Counts(weights, b, staked, is_proxy)'
        BY <2>1, <2>2, <2>4, <3>1 DEF Counts
      <3> QED
        BY <1>0, <1>2, <2>1, <3>1, <3>2
    <2> QED
      BY <2>5, <2>6
  <1>7. CASE \/ \E p \in Producer : RegProducer(p) \/ UnregProd(p)
             \/ UNCHANGED vars
    <2>1. UNCHANGED <<staked, weights, is_proxy, proxy, producers, week>>
      BY <1>7 DEF RegProducer, UnregProd, vars, ballots
    <2>2. \A b \in Account : Votes(b)' => Counts(weights, b, staked, is_proxy)'
      BY <1>0, <2>1 DEF Votes, Counts
    <2> QED
      BY <1>0, <1>2, <2>1, <2>2
  <1>8. CASE NextWeek
    <2>1. /\ week' = week + 1 /\ week' \in 0 .. LastWeek
          /\ UNCHANGED <<staked, weights, is_proxy, proxy, producers>>
      BY <1>0, <1>8 DEF NextWeek, ballots
    <2>2. \A k \in 0 .. week : k \in 0 .. week'
      BY <1>0, <2>1
    <2>3. VotesAreStake'
      BY <2>1, <2>2 DEF StakeInv, VotesAreStake
    <2> QED
      BY <1>0, <1>1, <2>1, <2>3 DEF StakeInv
  <1> QED
    BY <1>4, <1>5, <1>6, <1>7, <1>8 DEF Next

\* Stake that is gone counts for nobody: whoever votes has the weight of its
\* present stake and, as a proxy, of all that is voted through it.
THEOREM VotingFollowsStake ==
  ASSUME IsFiniteSet(Producer)
  PROVE  Spec => []VotesAreStake
  <1>1. Init => StakeInv
    BY StakeInit
  <1>2. StakeInv => VotesAreStake
    BY DEF StakeInv
  <1> QED
    BY <1>1, <1>2, StakeStep, PTL DEF Spec

-----------------------------------------------------------------------------
(* The sums of votes.                                                      *)

\* The entries of some accounts.
PartOf(c, S) == [b \in Account |-> IF b \in S THEN c[b] ELSE 0]

\* Changing one entry changes the sums it is part of.
LEMMA PartWithEntry ==
  ASSUME IsFiniteSet(Account), NEW c \in [Account -> Nat], NEW d \in [Account -> Nat],
         NEW a \in Account, \A b \in Account \ {a} : d[b] = c[b], NEW S
  PROVE  /\ SumOf(PartOf(c, S)) \in Nat /\ SumOf(PartOf(d, S)) \in Nat
         /\ SumOf(PartOf(d, S)) = SumOf(PartOf(c, S)) + IF a \in S THEN d[a] - c[a] ELSE 0
  <1> DEFINE f == PartOf(c, S)
             g == PartOf(d, S)
  <1>1. f \in [Account -> Nat] /\ g \in [Account -> Nat]
    BY DEF PartOf
  <1>2. /\ \A x \in Account \ {a} : g[x] = f[x]
        /\ f[a] = IF a \in S THEN c[a] ELSE 0
        /\ g[a] = IF a \in S THEN d[a] ELSE 0
    BY DEF PartOf
  <1> HIDE DEF f, g
  <1>3. IsFiniteSet(Units(f))
    BY <1>1, SumIsFinite
  <1>4. SumOf(f) \in Nat /\ SumOf(g) \in Nat
    BY <1>1, SumIsFinite, SumBoundsEntry
  <1>5. SumOf(g) = SumOf(f) - f[a] + g[a]
    BY <1>1, <1>2, <1>3, SumOneEntry
  <1>6. SumOf(g) = SumOf(f) + IF a \in S THEN d[a] - c[a] ELSE 0
    BY <1>1, <1>2, <1>4, <1>5
  <1> QED
    BY <1>4, <1>6 DEF f, g

\* The tables hold the sums of what each account contributes, given by c, to
\* the proxy and the producers it votes for.
Recorded(w, c, prx, prods) ==
  /\ \A q \in Account :
       w.proxied_vote_weight[q] = SumOf(PartOf(c, {b \in Account : prx[b] = q}))
  /\ \A p \in Producer :
       w.total_votes[p] = SumOf(PartOf(c, {b \in Account : p \in prods[b]}))
  /\ w.total_producer_vote_weight = SumOf(w.total_votes)

\* The accounts and the producers are finitely many.
TablesAreFinite == IsFiniteSet(Account) /\ IsFiniteSet(Producer)

\* An account that contributes nothing may vote for others.
LEMMA RecordedForAll ==
  ASSUME NEW w, NEW c, NEW a \in Account, c[a] = 0,
         NEW prx, NEW prods, NEW prx2, NEW prods2, Recorded(w, c, prx, prods),
         \A b \in Account : b # a => prx2[b] = prx[b] /\ prods2[b] = prods[b]
  PROVE  Recorded(w, c, prx2, prods2)
  <1>1. ASSUME NEW q
        PROVE  PartOf(c, {b \in Account : prx2[b] = q}) = PartOf(c, {b \in Account : prx[b] = q})
    BY DEF PartOf
  <1>2. ASSUME NEW p
        PROVE  PartOf(c, {b \in Account : p \in prods2[b]})
                 = PartOf(c, {b \in Account : p \in prods[b]})
    BY DEF PartOf
  <1> QED
    BY <1>1, <1>2 DEF Recorded

\* A contribution through a proxy changes with what the proxy has.
LEMMA RecordedAtProxy ==
  ASSUME TablesAreFinite, NEW w \in Weights, NEW c \in [Account -> Nat], NEW prx, NEW prods,
         Recorded(w, c, prx, prods),
         NEW x \in Account, NEW n \in Nat, prx[x] \in Account, prods[x] = {}
  PROVE  Recorded(AddProxied(w, prx[x], n - c[x]), [c EXCEPT ![x] = n], prx, prods)
  <1> DEFINE q == prx[x]
             d == [c EXCEPT ![x] = n]
             v == AddProxied(w, q, n - c[x])
  <1>1. /\ v.proxied_vote_weight = [w.proxied_vote_weight EXCEPT ![q] = @ + (n - c[x])]
        /\ v.total_votes = w.total_votes
        /\ v.total_producer_vote_weight = w.total_producer_vote_weight
        /\ w.proxied_vote_weight \in [Account -> Int]
    BY AddProxiedEffect DEF Weights
  <1>2. ASSUME NEW S
        PROVE  /\ SumOf(PartOf(c, S)) \in Nat
               /\ SumOf(PartOf(d, S)) = SumOf(PartOf(c, S)) + IF x \in S THEN n - c[x] ELSE 0
    <2>1. /\ d \in [Account -> Nat] /\ d[x] = n
          /\ \A b \in Account \ {x} : d[b] = c[b]
      OBVIOUS
    <2> HIDE DEF d
    <2> QED
      BY <2>1, PartWithEntry DEF TablesAreFinite
  <1> HIDE DEF v, d
  <1>3. ASSUME NEW r \in Account
        PROVE  v.proxied_vote_weight[r] = SumOf(PartOf(d, {b \in Account : prx[b] = r}))
    <2> DEFINE S == {b \in Account : prx[b] = r}
    <2>1. w.proxied_vote_weight[r] = SumOf(PartOf(c, S))
      BY DEF Recorded
    <2>2. x \in S <=> r = q
      OBVIOUS
    <2> HIDE DEF S, q
    <2>3. SumOf(PartOf(d, S)) = SumOf(PartOf(c, S)) + IF x \in S THEN n - c[x] ELSE 0
      BY <1>2
    <2>4. SumOf(PartOf(c, S)) \in Nat
      BY <1>2
    <2>5. v.proxied_vote_weight[r] = SumOf(PartOf(d, S))
      BY <1>1, <2>1, <2>2, <2>3, <2>4
    <2> QED
      BY <2>5 DEF S
  <1>4. ASSUME NEW p \in Producer
        PROVE  v.total_votes[p] = SumOf(PartOf(d, {b \in Account : p \in prods[b]}))
    <2> DEFINE S == {b \in Account : p \in prods[b]}
    <2>1. w.total_votes[p] = SumOf(PartOf(c, S)) /\ x \notin S
      BY DEF Recorded
    <2> HIDE DEF S
    <2>2. /\ SumOf(PartOf(c, S)) \in Nat
          /\ SumOf(PartOf(d, S)) = SumOf(PartOf(c, S)) + IF x \in S THEN n - c[x] ELSE 0
      BY <1>2
    <2>3. v.total_votes[p] = SumOf(PartOf(d, S))
      BY <1>1, <2>1, <2>2
    <2> QED
      BY <2>3 DEF S
  <1>5. Recorded(v, d, prx, prods)
    BY <1>1, <1>3, <1>4 DEF Recorded
  <1> QED
    BY <1>5 DEF v, d

\* A direct vote changes with the producers it is for.
LEMMA RecordedAtProducers ==
  ASSUME TablesAreFinite, NEW w \in Weights, NEW c \in [Account -> Nat], NEW prx, NEW prods,
         Recorded(w, c, prx, prods),
         NEW x \in Account, NEW n \in Nat, prx[x] \notin Account, prods[x] \in SUBSET Producer
  PROVE  Recorded(AddVotes(w, prods[x], n - c[x]), [c EXCEPT ![x] = n], prx, prods)
  <1> DEFINE V == prods[x]
             delta == n - c[x]
             d == [c EXCEPT ![x] = n]
             v == AddVotes(w, V, delta)
  <1>0. c[x] \in Nat /\ delta \in Int /\ V \in SUBSET Producer /\ IsFiniteSet(Producer)
    BY DEF TablesAreFinite
  <1>1. /\ v.proxied_vote_weight = w.proxied_vote_weight
        /\ \A p \in Producer :
             v.total_votes[p] = IF p \in V THEN w.total_votes[p] + delta ELSE w.total_votes[p]
        /\ v \in Weights
        /\ v.total_producer_vote_weight = w.total_producer_vote_weight + Cardinality(V) * delta
    <2> HIDE DEF V, delta
    <2>1. AddsVotes(w, V, delta, AddVotes(w, V, delta))
      BY <1>0, AddVotesEffect
    <2> HIDE DEF v
    <2> QED
      BY <2>1 DEF v, AddsVotes
  <1>2. ASSUME NEW S
        PROVE  /\ SumOf(PartOf(c, S)) \in Nat /\ SumOf(PartOf(d, S)) \in Nat
               /\ SumOf(PartOf(d, S)) = SumOf(PartOf(c, S)) + IF x \in S THEN delta ELSE 0
    <2>1. /\ d \in [Account -> Nat] /\ d[x] = n
          /\ \A b \in Account \ {x} : d[b] = c[b]
      OBVIOUS
    <2> HIDE DEF d
    <2> QED
      BY <2>1, PartWithEntry DEF TablesAreFinite
  <1> HIDE DEF v, d
  <1>3. ASSUME NEW r \in Account
        PROVE  v.proxied_vote_weight[r] = SumOf(PartOf(d, {b \in Account : prx[b] = r}))
    <2> DEFINE S == {b \in Account : prx[b] = r}
    <2>1. w.proxied_vote_weight[r] = SumOf(PartOf(c, S)) /\ x \notin S
      BY DEF Recorded
    <2> HIDE DEF S
    <2>2. /\ SumOf(PartOf(c, S)) \in Nat
          /\ SumOf(PartOf(d, S)) = SumOf(PartOf(c, S)) + IF x \in S THEN delta ELSE 0
      BY <1>2
    <2>3. v.proxied_vote_weight[r] = SumOf(PartOf(d, S))
      BY <1>1, <2>1, <2>2
    <2> QED
      BY <2>3 DEF S
  <1>4. ASSUME NEW p \in Producer
        PROVE  /\ v.total_votes[p] = SumOf(PartOf(d, {b \in Account : p \in prods[b]}))
               /\ v.total_votes[p] \in Nat /\ w.total_votes[p] \in Nat
    <2> DEFINE S == {b \in Account : p \in prods[b]}
    <2>1. w.total_votes[p] = SumOf(PartOf(c, S)) /\ (x \in S <=> p \in V)
      BY DEF Recorded
    <2> HIDE DEF S, V, delta
    <2>2. /\ SumOf(PartOf(c, S)) \in Nat /\ SumOf(PartOf(d, S)) \in Nat
          /\ SumOf(PartOf(d, S)) = SumOf(PartOf(c, S)) + IF x \in S THEN delta ELSE 0
      BY <1>2
    <2>3. v.total_votes[p] = SumOf(PartOf(d, S))
      BY <1>1, <2>1, <2>2
    <2> QED
      BY <2>1, <2>2, <2>3 DEF S
  <1>5. v.total_producer_vote_weight = SumOf(v.total_votes)
    <2> DEFINE f == w.total_votes
               g == v.total_votes
    <2>1. /\ f \in [Producer -> Nat] /\ g \in [Producer -> Nat]
          /\ \A p \in Producer : g[p] = IF p \in V THEN f[p] + (n - c[x]) ELSE f[p]
      <3>1. f \in [Producer -> Int] /\ g \in [Producer -> Int]
        BY <1>1 DEF Weights
      <3>2. \A p \in Producer : f[p] \in Nat /\ g[p] \in Nat
        BY <1>4
      <3>3. \A p \in Producer : g[p] = IF p \in V THEN f[p] + (n - c[x]) ELSE f[p]
        BY <1>1
      <3> HIDE DEF f, g
      <3> QED
        BY <3>1, <3>2, <3>3
    <2>2. w.total_producer_vote_weight = SumOf(f)
      BY DEF Recorded
    <2> HIDE DEF f, g, V
    <2>3. SumOf(g) = SumOf(f) + Cardinality(V) * (n - c[x])
      BY <1>0, <2>1, SumOfShifted
    <2> QED
      BY <1>1, <2>2, <2>3 DEF g
  <1>6. Recorded(v, d, prx, prods)
    BY <1>1, <1>3, <1>4, <1>5 DEF Recorded
  <1> QED
    BY <1>6 DEF v, d

\* The factors of all weeks are multiples of a number above one.
FactorsAreMultiples(grain) ==
  /\ grain \in Nat \ {0, 1}
  /\ \A k \in 0 .. LastWeek : Factor[k] \in Multiples(grain)

\* An account that votes through a proxy votes for no producers itself.
OneKindOfVote == \A b \in Account : proxy[b] # None => producers[b] = {}

\* The contributions after a change was passed on: the last weights of those
\* it may have reached, and the old ones of the others.
After(c, r, x) == [b \in Account |-> IF b \in Reach(x) THEN r.last_vote_weight[b] ELSE c[b]]

\* The tables r hold exactly what the accounts contribute after the change.
KeepsRecords(grain, c, r, x, prx, prods) ==
  /\ After(c, r, x) \in [Account -> Multiples(grain)]
  /\ Recorded(r, After(c, r, x), prx, prods)

\* Those ahead of an account contribute their last weights, as they vote.
AsLast(w, c, x, prx, prods) ==
  \A b \in Reach(x) : c[b] = w.last_vote_weight[b] /\ prx[b] = proxy[b] /\ prods[b] = producers[b]

\* Where the tables record multiples, every weight is one.
LEMMA WeightIsMultiple ==
  ASSUME TablesAreFinite, NEW grain, FactorsAreMultiples(grain),
         NEW stake, NEW proxies, MayPropagate(stake, proxies),
         NEW w \in Weights, NEW c \in [Account -> Multiples(grain)], NEW prx, NEW prods,
         Recorded(w, c, prx, prods), NEW x \in Account
  PROVE  VoteWeight(w, x, stake, proxies) \in Multiples(grain)
  <1>1. /\ grain \in Nat /\ 0 \in Nat /\ Factor[week] \in Multiples(grain)
        /\ IsFiniteSet(Account)
    BY DEF FactorsAreMultiples, MayPropagate, TablesAreFinite
  <1>2. stake[x] * Factor[week] \in Multiples(grain) /\ 0 \in Multiples(grain)
    <2>1. stake[x] \in Nat
      BY DEF MayPropagate
    <2> QED
      BY <1>1, <2>1, MultiplesScale
  <1>3. w.proxied_vote_weight[x] \in Multiples(grain)
    <2> DEFINE f == PartOf(c, {b \in Account : prx[b] = x})
    <2>1. f \in [Account -> Multiples(grain)]
      BY <1>2 DEF PartOf
    <2>2. w.proxied_vote_weight[x] = SumOf(f)
      BY DEF Recorded
    <2> HIDE DEF f
    <2> QED
      BY <1>1, <2>1, <2>2, SumOfMultiples
  <1> DEFINE own == stake[x] * Factor[week]
             given == IF proxies[x] THEN w.proxied_vote_weight[x] ELSE 0
  <1>4. own \in Multiples(grain) /\ given \in Multiples(grain)
    BY <1>2, <1>3
  <1>5. VoteWeight(w, x, stake, proxies) = own + given
    BY WeightTypes
  <1> HIDE DEF own, given
  <1> QED
    BY <1>1, <1>4, <1>5, MultiplesAdd

\* However far a change is passed on, the tables record it wherever it is
\* felt: at each proxy on the way, and at the producers at the end.
LEMMA PropagationRecords ==
  ASSUME TablesAreFinite, NEW grain, FactorsAreMultiples(grain), OneKindOfVote,
         NEW stake, NEW proxies, MayPropagate(stake, proxies),
         NEW pass, Passes(pass, stake, proxies), NEW prx, NEW prods
  PROVE  \A x \in Account : \A w \in Weights : \A c \in [Account -> Multiples(grain)] :
           Recorded(w, c, prx, prods) /\ AsLast(w, c, x, prx, prods)
             => KeepsRecords(grain, c, pass[<<w, x>>], x, prx, prods)
  <1> DEFINE Good(x) ==
        \A w \in Weights : \A c \in [Account -> Multiples(grain)] :
          Recorded(w, c, prx, prods) /\ AsLast(w, c, x, prx, prods)
            => KeepsRecords(grain, c, pass[<<w, x>>], x, prx, prods)
  <1> DEFINE G == { x \in Account : Good(x) }
  <1>0. /\ NoCircle(Account, proxy) /\ proxy \in [Account -> Account \union {None}]
        /\ week \in 0 .. LastWeek /\ None \notin Account
        /\ IsFiniteSet(Producer) /\ producers \in [Account -> SUBSET Producer]
        /\ grain \in Nat /\ grain \in Nat \ {0, 1}
    BY VotingAssumption DEF MayPropagate, NoProxyCycle, NoCircle, FactorsAreMultiples
  <1>a. Multiples(grain) \subseteq Nat
    BY <1>0, MultiplesAdd
  <1>1. ASSUME NEW x \in Account, proxy[x] \in Account => proxy[x] \in G
        PROVE  x \in G
    <2> SUFFICES ASSUME NEW w \in Weights, NEW c \in [Account -> Multiples(grain)],
                        Recorded(w, c, prx, prods), AsLast(w, c, x, prx, prods)
                 PROVE  KeepsRecords(grain, c, pass[<<w, x>>], x, prx, prods)
      OBVIOUS
    <2> DEFINE weight == VoteWeight(w, x, stake, proxies)
               delta == weight - w.last_vote_weight[x]
               r == pass[<<w, x>>]
               d == [c EXCEPT ![x] = weight]
    <2>0. PICK passed : OnePass(pass, w, x, weight, delta, passed, r)
      BY PassEffect
    <2>1. weight \in Multiples(grain) /\ weight \in Nat
      BY <1>0, <1>a, WeightIsMultiple
    <2>2. x \in Reach(x)
      BY ReachedIsClosed DEF Reach
    <2>3. /\ c[x] = w.last_vote_weight[x] /\ c[x] \in Multiples(grain) /\ c[x] \in Nat
          /\ prx[x] = proxy[x] /\ prods[x] = producers[x] /\ c \in [Account -> Nat]
      BY <1>a, <2>2 DEF AsLast
    <2>4. delta = weight - c[x]
      BY <2>3
    <2> HIDE DEF weight, delta, r
    <2>5. /\ d \in [Account -> Multiples(grain)]
          /\ d[x] = weight /\ \A b \in Account : b # x => d[b] = c[b]
      BY <2>1
    <2> HIDE DEF d
    <2>6. /\ passed \in Weights /\ r \in Weights
          /\ r.last_vote_weight = [passed.last_vote_weight EXCEPT ![x] = weight]
          /\ r.proxied_vote_weight = passed.proxied_vote_weight
          /\ r.total_votes = passed.total_votes
          /\ r.total_producer_vote_weight = passed.total_producer_vote_weight
          /\ \/ delta \in -1 .. 1 /\ passed = w
             \/ proxy[x] = None /\ passed = AddVotes(w, producers[x], delta)
             \/ /\ proxy[x] \in Account
                /\ AddProxied(w, proxy[x], delta) \in Weights
                /\ passed = pass[<<AddProxied(w, proxy[x], delta), proxy[x]>>]
      BY <2>0 DEF OnePass
    <2>7. passed.last_vote_weight \in [Account -> Int]
      BY <2>6 DEF Weights
    <2>8. /\ r.last_vote_weight[x] = weight
          /\ \A b \in Account : b # x => r.last_vote_weight[b] = passed.last_vote_weight[b]
      BY <2>6, <2>7
    <2>9. ASSUME NEW e \in [Account -> Multiples(grain)], Recorded(passed, e, prx, prods),
                 \A b \in Account : e[b] = After(c, r, x)[b]
          PROVE  KeepsRecords(grain, c, r, x, prx, prods)
      <3>1. After(c, r, x) = e
        BY <2>9 DEF After
      <3>2. Recorded(r, e, prx, prods)
        BY <2>6, <2>9 DEF Recorded
      <3> QED
        BY <2>9, <3>1, <3>2 DEF KeepsRecords
    <2>10. CASE delta \in -1 .. 1 /\ passed = w
      <3>1. weight = c[x]
        BY <1>0, <2>1, <2>3, <2>4, <2>10, MultiplesLieApart
      <3>2. \A b \in Account : c[b] = After(c, r, x)[b]
        BY <2>3, <2>8, <2>10, <3>1 DEF After, AsLast
      <3>3. KeepsRecords(grain, c, r, x, prx, prods)
        BY <2>9, <2>10, <3>2
      <3> QED
        BY <3>3 DEF r
    <2>11. CASE proxy[x] = None /\ passed = AddVotes(w, producers[x], delta)
      <3>1. Reach(x) = {x}
        BY <1>0, <2>11, ReachedFromNext DEF Reach
      <3>2. prx[x] \notin Account /\ prods[x] \in SUBSET Producer
        BY <1>0, <2>3, <2>11
      <3>3. passed = AddVotes(w, prods[x], weight - c[x])
        BY <2>3, <2>4, <2>11
      <3>4. Recorded(passed, d, prx, prods)
        BY <2>1, <2>3, <3>2, <3>3, RecordedAtProducers DEF d
      <3>5. \A b \in Account : d[b] = After(c, r, x)[b]
        BY <2>5, <2>8, <3>1 DEF After
      <3>6. KeepsRecords(grain, c, r, x, prx, prods)
        BY <2>5, <2>9, <3>4, <3>5
      <3> QED
        BY <3>6 DEF r
    <2>12. CASE /\ proxy[x] \in Account
                /\ AddProxied(w, proxy[x], delta) \in Weights
                /\ passed = pass[<<AddProxied(w, proxy[x], delta), proxy[x]>>]
      <3> DEFINE q == proxy[x]
                 v == AddProxied(w, q, delta)
      <3>1. q \in Account /\ v \in Weights /\ passed = pass[<<v, q>>] /\ q \in G
        BY <1>1, <2>12
      <3>2. v.last_vote_weight = w.last_vote_weight
        BY <2>12 DEF AddProxied, Weights
      <3>3. prx[x] = q /\ prx[x] \in Account /\ prods[x] = {}
        BY <1>0, <2>3, <2>12 DEF OneKindOfVote
      <3>4. v = AddProxied(w, prx[x], weight - c[x])
        BY <2>4, <3>3
      <3>5. x \notin Reach(q) /\ q \in Reach(q) /\ Reach(q) \subseteq Reach(x)
            /\ Reach(x) \subseteq {x} \union Reach(q) /\ Reach(x) \subseteq Account
        BY <1>0, <2>12, ReachedIsAhead, ReachedIsClosed, ReachedFromNext DEF Reach
      <3> HIDE DEF v, q
      <3>6. Recorded(v, d, prx, prods)
        BY <2>1, <2>3, <3>3, <3>4, RecordedAtProxy DEF d
      <3>7. AsLast(v, d, q, prx, prods)
        BY <2>5, <3>2, <3>5 DEF AsLast
      <3>8. KeepsRecords(grain, d, passed, q, prx, prods)
        BY <2>5, <3>1, <3>6, <3>7
      <3>9. \A b \in Account : After(d, passed, q)[b] = After(c, r, x)[b]
        <4> SUFFICES ASSUME NEW b \in Account PROVE After(d, passed, q)[b] = After(c, r, x)[b]
          OBVIOUS
        <4>1. CASE b = x
          BY <2>2, <2>5, <2>8, <3>5, <4>1 DEF After
        <4>2. CASE b # x
          BY <2>5, <2>8, <3>5, <4>2 DEF After
        <4> QED
          BY <4>1, <4>2
      <3> DEFINE e == After(d, passed, q)
      <3>10. /\ e \in [Account -> Multiples(grain)] /\ Recorded(passed, e, prx, prods)
             /\ \A b \in Account : e[b] = After(c, r, x)[b]
        BY <3>8, <3>9 DEF KeepsRecords
      <3> HIDE DEF e
      <3>11. KeepsRecords(grain, c, r, x, prx, prods)
        BY <2>9, <3>10
      <3> QED
        BY <3>11 DEF r
    <2> QED
      BY <2>6, <2>10, <2>11, <2>12
  <1> HIDE DEF G
  <1>2. \A x \in Account : x \in G
    BY <1>0, <1>1, ChainInduction
  <1> QED
    BY <1>2 DEF G

\* The same of propagate_weight_change.
LEMMA PropagationKeepsRecords ==
  ASSUME TablesAreFinite, NEW grain, FactorsAreMultiples(grain), OneKindOfVote,
         NEW stake, NEW proxies, MayPropagate(stake, proxies), NEW prx, NEW prods,
         NEW x \in Account, NEW w \in Weights, NEW c \in [Account -> Multiples(grain)],
         Recorded(w, c, prx, prods), AsLast(w, c, x, prx, prods)
  PROVE  KeepsRecords(grain, c, Propagated(w, x, stake, proxies), x, prx, prods)
  <1>1. PICK pass : Passes(pass, stake, proxies)
    BY PropagationEnds
  <1>2. /\ pass[<<w, x>>] \in Weights
        /\ Propagated(w, x, stake, proxies) = pass[<<w, x>>]
    BY <1>1 DEF Passes
  <1>3. \A y \in Account : \A u \in Weights : \A e \in [Account -> Multiples(grain)] :
          Recorded(u, e, prx, prods) /\ AsLast(u, e, y, prx, prods)
            => KeepsRecords(grain, e, pass[<<u, y>>], y, prx, prods)
    BY <1>1, PropagationRecords
  <1>4. KeepsRecords(grain, c, pass[<<w, x>>], x, prx, prods)
    BY <1>3
  <1> QED
    BY <1>2, <1>4

\* The tables hold what the accounts last weighed, except that a contributes n.
RecordedWith(grain, w, a, n, prx, prods) ==
  \E c \in [Account -> Multiples(grain)] :
    /\ c[a] = n /\ \A b \in Account : b # a => c[b] = w.last_vote_weight[b]
    /\ Recorded(w, c, prx, prods)

\* An account's contribution changes to m: all that changes with it is recorded.
LEMMA GivingKeepsRecords ==
  ASSUME TablesAreFinite, NEW grain, FactorsAreMultiples(grain), OneKindOfVote,
         NEW stake, NEW proxies, MayPropagate(stake, proxies), NEW prx, NEW prods,
         NEW w \in Weights, NEW a \in Account, NEW n \in Multiples(grain), NEW m \in Multiples(grain),
         RecordedWith(grain, w, a, n, prx, prods),
         \A b \in Account : b # a => prx[b] = proxy[b] /\ prods[b] = producers[b],
         prods[a] = {}, NEW q \in Account, q = prx[a], a \notin Reach(q)
  PROVE  RecordedWith(grain, Propagated(AddProxied(w, q, m - n), q, stake, proxies), a, m, prx, prods)
  <1> DEFINE v == AddProxied(w, q, m - n)
             r == Propagated(v, q, stake, proxies)
  <1>0. Multiples(grain) \subseteq Nat /\ m - n \in Int
    <2>1. Multiples(grain) \subseteq Nat
      BY MultiplesAdd DEF FactorsAreMultiples
    <2> QED
      BY <2>1
  <1>1. PICK c \in [Account -> Multiples(grain)] :
          /\ c[a] = n /\ \A b \in Account : b # a => c[b] = w.last_vote_weight[b]
          /\ Recorded(w, c, prx, prods)
    BY DEF RecordedWith
  <1> DEFINE d == [c EXCEPT ![a] = m]
  <1>2. /\ d \in [Account -> Multiples(grain)] /\ d[a] = m
        /\ \A b \in Account : b # a => d[b] = w.last_vote_weight[b]
    BY <1>1
  <1>3. Recorded(v, d, prx, prods)
    <2>1. c \in [Account -> Nat] /\ m \in Nat
      BY <1>0
    <2> QED
      BY <1>1, <2>1, RecordedAtProxy
  <1>4. v \in Weights /\ v.last_vote_weight = w.last_vote_weight
    <2>1. v \in Weights
      BY <1>0, AddProxiedEffect
    <2> QED
      BY <2>1 DEF AddProxied, Weights
  <1>5. AsLast(v, d, q, prx, prods)
    <2>1. Reach(q) \subseteq Account
      BY ReachedIsClosed DEF Reach
    <2> HIDE DEF v, d
    <2> QED
      BY <1>2, <1>4, <2>1 DEF AsLast
  <1>6. KeepsCounts(w, r, q, stake, proxies)
    BY <1>0, GivingKeepsCounts
  <1> HIDE DEF v, d
  <1>7. KeepsRecords(grain, d, r, q, prx, prods)
    BY <1>2, <1>3, <1>4, <1>5, PropagationKeepsRecords
  <1> HIDE DEF r
  <1> DEFINE e == After(d, r, q)
  <1>8. /\ e \in [Account -> Multiples(grain)] /\ Recorded(r, e, prx, prods)
    BY <1>7 DEF KeepsRecords
  <1>9. e[a] = m /\ \A b \in Account : b # a => e[b] = r.last_vote_weight[b]
    <2>1. \A b \in Account : e[b] = IF b \in Reach(q) THEN r.last_vote_weight[b] ELSE d[b]
      BY DEF After
    <2>2. \A b \in Account : b \notin Reach(q) => r.last_vote_weight[b] = w.last_vote_weight[b]
      BY <1>6 DEF KeepsCounts
    <2> HIDE DEF e
    <2> QED
      BY <1>2, <2>1, <2>2
  <1> HIDE DEF e
  <1>10. RecordedWith(grain, r, a, m, prx, prods)
    BY <1>8, <1>9 DEF RecordedWith
  <1> QED
    BY <1>10 DEF r, v

\* The same for an account that votes for producers itself.
LEMMA VotingKeepsRecords ==
  ASSUME TablesAreFinite, NEW grain, FactorsAreMultiples(grain), NEW prx, NEW prods,
         NEW w \in Weights, NEW a \in Account, NEW n \in Multiples(grain), NEW m \in Multiples(grain),
         RecordedWith(grain, w, a, n, prx, prods), prx[a] \notin Account,
         NEW ps \in SUBSET Producer, ps = prods[a]
  PROVE  RecordedWith(grain, AddVotes(w, ps, m - n), a, m, prx, prods)
  <1> DEFINE r == AddVotes(w, ps, m - n)
  <1>0. Multiples(grain) \subseteq Nat
    BY MultiplesAdd DEF FactorsAreMultiples
  <1>1. PICK c \in [Account -> Multiples(grain)] :
          /\ c[a] = n /\ \A b \in Account : b # a => c[b] = w.last_vote_weight[b]
          /\ Recorded(w, c, prx, prods)
    BY DEF RecordedWith
  <1> DEFINE d == [c EXCEPT ![a] = m]
  <1>2. /\ d \in [Account -> Multiples(grain)] /\ d[a] = m
        /\ \A b \in Account : b # a => d[b] = w.last_vote_weight[b]
    BY <1>1
  <1>3. Recorded(r, d, prx, prods)
    <2>1. c \in [Account -> Nat] /\ m \in Nat
      BY <1>0
    <2> QED
      BY <1>1, <2>1, RecordedAtProducers
  <1>4. r.last_vote_weight = w.last_vote_weight
    BY AddVotesLeavesVoters
  <1> HIDE DEF r, d
  <1>5. RecordedWith(grain, r, a, m, prx, prods)
    BY <1>2, <1>3, <1>4 DEF RecordedWith
  <1> QED
    BY <1>5 DEF r

\* The last weights are all multiples, and the tables hold their sums.
RecordInv(grain) ==
  /\ weights.last_vote_weight \in [Account -> Multiples(grain)]
  /\ Recorded(weights, weights.last_vote_weight, proxy, producers)

\* update_votes keeps the records.
LEMMA UpdateVotesRecords ==
  ASSUME TablesAreFinite, NEW grain, FactorsAreMultiples(grain), RecordInv(grain),
         BallotInv, weights \in Weights, week \in 0 .. LastWeek,
         NEW a \in Account, NEW q \in Account \union {None},
         NEW ps \in SUBSET Producer, NEW voting \in BOOLEAN,
         voting \/ (q = proxy[a] /\ ps = producers[a]),
         NEW stake \in [Account -> Nat], UpdateVotes(a, q, ps, voting, stake)
  PROVE  RecordInv(grain)'
  <1> DEFINE w == weights
             old == w.last_vote_weight[a]
             weight == VoteWeight(w, a, stake, is_proxy)
             u == Undone(w, a, stake)
             c == Cast(u, q, ps, weight, stake)
  <1>0. /\ MayPropagate(stake, is_proxy) /\ NoCircle(Account, proxy)
        /\ proxy \in [Account -> Account \union {None}] /\ producers \in [Account -> SUBSET Producer]
        /\ is_proxy \in [Account -> BOOLEAN] /\ None \notin Account /\ OneKindOfVote
        /\ grain \in Nat
    BY VotingAssumption
    DEF MayPropagate, BallotInv, BallotTypeOK, NoProxyCycle, NoCircle, TablesAreFinite,
        OneKindOfVote, BallotsStayValid, ValidBallot, FactorsAreMultiples
  <1>1. /\ ValidBallot(a, q, ps, voting)
        /\ weights' = [c EXCEPT !.last_vote_weight[a] = weight]
        /\ proxy' = [proxy EXCEPT ![a] = q] /\ producers' = [producers EXCEPT ![a] = ps]
    BY DEF UpdateVotes
  <1>2. Multiples(grain) \subseteq Nat /\ 0 \in Multiples(grain)
    BY <1>0, MultiplesAdd, MultiplesScale DEF FactorsAreMultiples
  <1>3. /\ old \in Multiples(grain) /\ w \in Weights
        /\ RecordedWith(grain, w, a, old, proxy, producers)
    BY DEF RecordInv, RecordedWith
  <1>4. weight \in Multiples(grain)
    BY <1>0, WeightIsMultiple DEF RecordInv
  <1> HIDE DEF weight
  <1>5. u \in Weights /\ RecordedWith(grain, u, a, 0, proxy, producers)
    <2>0. old \in Nat /\ 0 - old = -old /\ -old \in Int
      BY <1>2, <1>3
    <2>1. CASE old <= 0
      <3>1. u = w /\ old = 0
        BY <2>0, <2>1 DEF Undone
      <3> QED
        BY <1>3, <3>1
    <2>2. CASE ~(old <= 0) /\ proxy[a] # None
      <3>1. /\ proxy[a] \in Account /\ a \notin Reach(proxy[a]) /\ producers[a] = {}
        BY <1>0, <2>2, ReachedIsAhead DEF Reach, OneKindOfVote
      <3>2. u = Propagated(AddProxied(w, proxy[a], 0 - old), proxy[a], stake, is_proxy)
        BY <2>0, <2>2 DEF Undone
      <3>3. u = Propagated(AddProxied(w, proxy[a], -old), proxy[a], stake, is_proxy)
        BY <2>2 DEF Undone
      <3> HIDE DEF u, old, w
      <3>4. KeepsCounts(w, u, proxy[a], stake, is_proxy)
        BY <1>0, <1>3, <2>0, <3>1, <3>3, GivingKeepsCounts
      <3>5. RecordedWith(grain, u, a, 0, proxy, producers)
        BY <1>0, <1>2, <1>3, <3>1, <3>2, GivingKeepsRecords
      <3> QED
        BY <3>4, <3>5 DEF KeepsCounts
    <2>3. CASE ~(old <= 0) /\ proxy[a] = None
      <3>1. /\ proxy[a] \notin Account /\ producers[a] \in SUBSET Producer
        BY <1>0, <2>3
      <3>2. u = AddVotes(w, producers[a], 0 - old) /\ u = AddVotes(w, producers[a], -old)
        BY <2>0, <2>3 DEF Undone
      <3> HIDE DEF u, old, w
      <3>3. u \in Weights
        BY <1>3, <2>0, <3>1, <3>2, AddVotesType DEF TablesAreFinite
      <3>4. RecordedWith(grain, u, a, 0, proxy, producers)
        BY <1>2, <1>3, <3>1, <3>2, VotingKeepsRecords
      <3> QED
        BY <3>3, <3>4
    <2> QED
      BY <2>1, <2>2, <2>3
  <1> HIDE DEF u, old, w
  <1>6. /\ proxy'[a] = q /\ producers'[a] = ps
        /\ \A b \in Account : b # a => proxy'[b] = proxy[b] /\ producers'[b] = producers[b]
    BY <1>0, <1>1
  <1>7. RecordedWith(grain, u, a, 0, proxy', producers')
    <2>1. PICK e \in [Account -> Multiples(grain)] :
            /\ e[a] = 0 /\ \A b \in Account : b # a => e[b] = u.last_vote_weight[b]
            /\ Recorded(u, e, proxy, producers)
      BY <1>5 DEF RecordedWith
    <2>2. Recorded(u, e, proxy', producers')
      BY <1>6, <2>1, RecordedForAll
    <2> QED
      BY <2>1, <2>2 DEF RecordedWith
  <1>8. c \in Weights /\ RecordedWith(grain, c, a, weight, proxy', producers')
    <2>0. weight \in Nat /\ weight - 0 = weight
      BY <1>2, <1>4
    <2>1. CASE q # None
      <3>1. q \in Account /\ a \notin Reach(q) /\ ps = {}
        BY <1>1, <2>1, BallotsLeadAhead DEF ValidBallot
      <3>2. /\ c = Propagated(AddProxied(u, q, weight), q, stake, is_proxy)
            /\ c = Propagated(AddProxied(u, q, weight - 0), q, stake, is_proxy)
        BY <2>0, <2>1 DEF Cast
      <3> HIDE DEF c
      <3>3. KeepsCounts(u, c, q, stake, is_proxy)
        BY <1>0, <1>5, <2>0, <3>1, <3>2, GivingKeepsCounts
      <3>4. RecordedWith(grain, c, a, weight, proxy', producers')
        <4> DEFINE prx == proxy'
                   prods == producers'
        <4>1. /\ RecordedWith(grain, u, a, 0, prx, prods)
              /\ \A b \in Account : b # a => prx[b] = proxy[b] /\ prods[b] = producers[b]
              /\ prods[a] = {} /\ q = prx[a] /\ u \in Weights
          BY <1>5, <1>6, <1>7, <3>1
        <4>2. MayPropagate(stake, is_proxy) /\ OneKindOfVote
          BY <1>0
        <4> HIDE DEF prx, prods
        <4>3. RecordedWith(grain, c, a, weight, prx, prods)
          BY <1>2, <1>4, <3>1, <3>2, <4>1, <4>2, GivingKeepsRecords
        <4> QED
          BY <4>3 DEF prx, prods
      <3> QED
        BY <3>3, <3>4 DEF KeepsCounts
    <2>2. CASE q = None
      <3>1. c = AddVotes(u, ps, weight) /\ c = AddVotes(u, ps, weight - 0) /\ q \notin Account
        BY <1>0, <2>0, <2>2 DEF Cast
      <3> HIDE DEF c
      <3>2. c \in Weights
        BY <1>5, <2>0, <3>1, AddVotesType DEF TablesAreFinite
      <3>3. RecordedWith(grain, c, a, weight, proxy', producers')
        BY <1>2, <1>4, <1>5, <1>6, <1>7, <3>1, VotingKeepsRecords
      <3> QED
        BY <3>2, <3>3
    <2> QED
      BY <2>1, <2>2
  <1> HIDE DEF c
  <1>9. PICK e \in [Account -> Multiples(grain)] :
          /\ e[a] = weight /\ \A b \in Account : b # a => e[b] = c.last_vote_weight[b]
          /\ Recorded(c, e, proxy', producers')
    BY <1>8 DEF RecordedWith
  <1>10. /\ weights'.last_vote_weight = [c.last_vote_weight EXCEPT ![a] = weight]
         /\ weights'.proxied_vote_weight = c.proxied_vote_weight
         /\ weights'.total_votes = c.total_votes
         /\ weights'.total_producer_vote_weight = c.total_producer_vote_weight
    BY <1>1, <1>2, <1>4, <1>8, SetLastEffect
  <1>11. weights'.last_vote_weight = e
    <2>1. c.last_vote_weight \in [Account -> Int]
      BY <1>8 DEF Weights
    <2> QED
      BY <1>9, <1>10, <2>1
  <1>12. Recorded(weights', e, proxy', producers')
    BY <1>9, <1>10 DEF Recorded
  <1> QED
    BY <1>9, <1>11, <1>12 DEF RecordInv, Recorded, PartOf

\* The invariant for VotesAddUp.
AddUpInv(grain) == StakeInv /\ registered \subseteq Producer /\ RecordInv(grain)

\* Nothing is recorded at first.
LEMMA AddUpInit ==
  ASSUME TablesAreFinite, NEW grain, FactorsAreMultiples(grain), Init
  PROVE  AddUpInv(grain)
  <1> DEFINE z == [a \in Account |-> 0]
             t == [p \in Producer |-> 0]
  <1>1. /\ weights.last_vote_weight = z /\ weights.proxied_vote_weight = z
        /\ weights.total_votes = t /\ weights.total_producer_vote_weight = 0
        /\ registered = {}
    BY DEF Init
  <1>2. /\ SumOf(z) = 0 /\ SumOf(t) = 0
    BY SumOfZeros
  <1>3. z \in [Account -> Multiples(grain)]
    <2>1. 0 \in Multiples(grain)
      BY 0 = 0 * grain DEF FactorsAreMultiples, Multiples
    <2> QED
      BY <2>1
  <1>4. \A S : PartOf(z, S) = z
    BY DEF PartOf
  <1>5. /\ \A q \in Account : weights.proxied_vote_weight[q] = 0
        /\ \A p \in Producer : weights.total_votes[p] = 0
    BY <1>1
  <1> HIDE DEF z, t
  <1>6. RecordInv(grain)
    BY <1>1, <1>2, <1>3, <1>4, <1>5 DEF RecordInv, Recorded
  <1> QED
    BY <1>1, <1>6, StakeInit DEF AddUpInv

\* Every step keeps the records.
LEMMA AddUpStep ==
  ASSUME TablesAreFinite, NEW grain, FactorsAreMultiples(grain)
  PROVE  AddUpInv(grain) /\ [Next]_vars => AddUpInv(grain)'
  <1> SUFFICES ASSUME AddUpInv(grain), [Next]_vars PROVE AddUpInv(grain)'
    OBVIOUS
  <1>0. /\ BallotInv /\ weights \in Weights /\ week \in 0 .. LastWeek
        /\ staked \in [Account -> Nat] /\ is_proxy \in [Account -> BOOLEAN]
        /\ proxy \in [Account -> Account \union {None}] /\ producers \in [Account -> SUBSET Producer]
        /\ RecordInv(grain) /\ registered \subseteq Producer
    <2>1. BallotInv /\ weights \in Weights /\ week \in 0 .. LastWeek /\ RecordInv(grain)
          /\ staked \in [Account -> 0 .. MaxStake] /\ registered \subseteq Producer
      BY DEF AddUpInv, StakeInv
    <2>2. staked \in [Account -> Nat]
      BY <2>1, VotingAssumption
    <2> QED
      BY <2>1, <2>2 DEF BallotInv, BallotTypeOK
  <1>1. StakeInv'
    BY StakeStep DEF AddUpInv, TablesAreFinite
  <1>2. registered' \subseteq Producer
    <2>1. \/ registered' = registered
          \/ \E p \in Producer : registered' = registered \union {p}
      BY DEF Next, VoteProducer, UpdateVotingPower, RegProxy, RegProducer, UnregProd, NextWeek,
             roster, vars
    <2> QED
      BY <1>0, <2>1
  <1>3. ASSUME UNCHANGED <<weights, proxy, producers>>
        PROVE  RecordInv(grain)'
    BY <1>0, <1>3 DEF RecordInv, Recorded, PartOf
  <1>4. ASSUME NEW a \in Account, NEW q \in Account \union {None},
               NEW ps \in SUBSET Producer, VoteProducer(a, q, ps)
        PROVE  RecordInv(grain)'
    <2>1. UpdateVotes(a, q, ps, TRUE, staked)
      BY <1>4 DEF VoteProducer
    <2> QED
      BY <1>0, <2>1, UpdateVotesRecords
  <1>5. ASSUME NEW a \in Account, NEW n \in 0 .. MaxStake, UpdateVotingPower(a, n)
        PROVE  RecordInv(grain)'
    <2>1. staked' = [staked EXCEPT ![a] = n] /\ Reweigh(a)
      BY <1>5 DEF UpdateVotingPower
    <2>2. staked' \in [Account -> Nat]
      BY <1>0, <2>1, VotingAssumption
    <2>3. CASE producers[a] # {} \/ proxy[a] # None
      <3>1. UpdateVotes(a, proxy[a], producers[a], FALSE, staked')
        BY <2>1, <2>3 DEF Reweigh
      <3>2. proxy[a] \in Account \union {None} /\ producers[a] \in SUBSET Producer
        BY <1>0
      <3> QED
        BY <1>0, <2>2, <3>1, <3>2, UpdateVotesRecords
    <2>4. CASE ~(producers[a] # {} \/ proxy[a] # None)
      BY <1>3, <2>1, <2>4 DEF Reweigh, ballots
    <2> QED
      BY <2>3, <2>4
  <1>6. ASSUME NEW a \in Account, NEW isproxy \in BOOLEAN, RegProxy(a, isproxy)
        PROVE  RecordInv(grain)'
    <2>1. /\ is_proxy' = [is_proxy EXCEPT ![a] = isproxy] /\ proxy' = proxy /\ producers' = producers
          /\ IF a \in voters THEN weights' = Propagated(weights, a, staked, is_proxy')
             ELSE weights' = weights
      BY <1>6 DEF RegProxy
    <2>2. CASE a \notin voters
      BY <1>3, <2>1, <2>2
    <2>3. CASE a \in voters
      <3> DEFINE r == weights'
                 prx == proxy
                 prods == producers
                 c == weights.last_vote_weight
      <3>1. r = Propagated(weights, a, staked, is_proxy')
        BY <2>1, <2>3
      <3>2. MayPropagate(staked, is_proxy') /\ OneKindOfVote
        <4>1. is_proxy' \in [Account -> BOOLEAN]
          BY <1>0, <2>1
        <4>2. OneKindOfVote
          BY <1>0 DEF OneKindOfVote, BallotInv, BallotsStayValid, ValidBallot
        <4> QED
          BY <1>0, <4>1, <4>2 DEF MayPropagate, BallotInv, TablesAreFinite
      <3>3. c \in [Account -> Multiples(grain)] /\ Recorded(weights, c, prx, prods)
        BY <1>0 DEF RecordInv
      <3>4. AsLast(weights, c, a, prx, prods)
        BY DEF AsLast
      <3>5. r \in Weights /\ Reweighs(weights, r, a, staked, is_proxy')
        BY <1>0, <3>1, <3>2, PropagationWeighs
      <3> HIDE DEF r, c, prx, prods
      <3>6. KeepsRecords(grain, c, r, a, prx, prods)
        BY <1>0, <3>1, <3>2, <3>3, <3>4, PropagationKeepsRecords
      <3>7. After(c, r, a) = r.last_vote_weight
        <4>1. \A b \in Account : After(c, r, a)[b] = r.last_vote_weight[b]
          BY <3>5 DEF After, Reweighs, c
        <4>2. /\ After(c, r, a) = [b \in Account |-> After(c, r, a)[b]]
              /\ r.last_vote_weight = [b \in Account |-> r.last_vote_weight[b]]
          BY <3>5 DEF After, Weights
        <4> QED
          BY <4>1, <4>2
      <3>8. r.last_vote_weight \in [Account -> Multiples(grain)]
            /\ Recorded(r, r.last_vote_weight, prx, prods)
        BY <3>6, <3>7 DEF KeepsRecords
      <3> QED
        BY <2>1, <3>8 DEF r, prx, prods, RecordInv, Recorded, PartOf
    <2> QED
      BY <2>2, <2>3
  <1>7. ASSUME \/ \E p \in Producer : RegProducer(p) \/ UnregProd(p)
               \/ NextWeek \/ UNCHANGED vars
        PROVE  RecordInv(grain)'
    <2>1. UNCHANGED <<weights, proxy, producers>>
      BY <1>7 DEF RegProducer, UnregProd, NextWeek, vars, ballots
    <2> QED
      BY <1>3, <2>1
  <1>8. RecordInv(grain)'
    BY <1>4, <1>5, <1>6, <1>7 DEF Next
  <1> QED
    BY <1>1, <1>2, <1>8 DEF AddUpInv

\* What the tables record is what the runs check.
LEMMA AddUpInvAddsUp ==
  ASSUME TablesAreFinite, NEW grain, FactorsAreMultiples(grain), AddUpInv(grain)
  PROVE  VotesAddUp
  <1>0. Multiples(grain) \subseteq Nat
    BY MultiplesAdd DEF FactorsAreMultiples
  <1>1. /\ weights.last_vote_weight \in [Account -> Nat]
        /\ Recorded(weights, weights.last_vote_weight, proxy, producers)
        /\ weights \in Weights
    BY <1>0 DEF AddUpInv, RecordInv, StakeInv
  <1>2. \A S : LastWeightsOf(S) = PartOf(weights.last_vote_weight, S)
    BY DEF LastWeightsOf, PartOf
  <1>3. ProxiedVotesAddUp /\ ProducerVotesAddUp /\ TotalWeightAddsUp
    BY <1>1, <1>2 DEF ProxiedVotesAddUp, ProducerVotesAddUp, TotalWeightAddsUp, Recorded
  <1>4. ASSUME NEW S
        PROVE  SumOf(PartOf(weights.last_vote_weight, S)) \in Nat
    <2> DEFINE f == PartOf(weights.last_vote_weight, S)
    <2>1. f \in [Account -> Nat]
      BY <1>1 DEF PartOf
    <2> HIDE DEF f
    <2>2. IsFiniteSet(Units(f))
      BY <2>1, SumIsFinite DEF TablesAreFinite
    <2>3. SumOf(f) \in Nat
      BY <2>2, FS_CardinalityType DEF SumOf
    <2> QED
      BY <2>3 DEF f
  <1>5. /\ weights.proxied_vote_weight \in [Account -> Nat]
        /\ weights.total_votes \in [Producer -> Nat]
    <2>1. \A q \in Account : weights.proxied_vote_weight[q] \in Nat
      BY <1>1, <1>4 DEF Recorded
    <2>2. \A p \in Producer : weights.total_votes[p] \in Nat
      BY <1>1, <1>4 DEF Recorded
    <2> QED
      BY <1>1, <2>1, <2>2 DEF Weights
  <1>6. weights.total_producer_vote_weight \in Nat
    <2> DEFINE f == weights.total_votes
    <2>1. f \in [Producer -> Nat] /\ weights.total_producer_vote_weight = SumOf(f)
      BY <1>1, <1>5 DEF Recorded
    <2> HIDE DEF f
    <2>2. IsFiniteSet(Units(f))
      BY <2>1, SumIsFinite DEF TablesAreFinite
    <2> QED
      BY <2>1, <2>2, FS_CardinalityType DEF SumOf
  <1>7. TypeOK
    <2>1. weights \in [last_vote_weight : [Account -> Nat],
                       proxied_vote_weight : [Account -> Nat],
                       total_votes : [Producer -> Nat],
                       total_producer_vote_weight : Nat]
      BY <1>1, <1>5, <1>6 DEF Weights
    <2> QED
      BY <2>1 DEF TypeOK, AddUpInv, StakeInv, BallotInv, BallotTypeOK
  <1> QED
    BY <1>3, <1>7 DEF VotesAddUp

\* Whatever is voted, staked, registered or left, and however a change is
\* passed on along the proxies, each proxy has the votes last cast through it,
\* each producer those last cast for it, and their total is their sum, as long
\* as no change is too small to be passed on.
THEOREM VotingAddsUp ==
  ASSUME TablesAreFinite, NEW grain, FactorsAreMultiples(grain)
  PROVE  Spec => []VotesAddUp
  <1>1. Init => AddUpInv(grain)
    BY AddUpInit
  <1>2. AddUpInv(grain) => VotesAddUp
    BY AddUpInvAddsUp
  <1> QED
    BY <1>1, <1>2, AddUpStep, PTL DEF Spec

-----------------------------------------------------------------------------
(* The election of the schedule (Election).                                *)

CONSTANTS MaxPoolVotes, Size, MaxTotalVotes

VARIABLES configured, pool_votes, listed, total_votes, schedule,
          last_producer_schedule_size, seats

Elections == INSTANCE Election WITH MaxVotes <- MaxTotalVotes

\* The constants of Election.
ElectionConstants ==
  /\ IsFiniteSet(Producer) /\ MaxPoolVotes \in Nat
  /\ Size \in Nat \ {0} /\ MaxTotalVotes \in Nat

\* Before pools exist nobody is in their table, so that its flags cannot lag
\* behind those of the producers table.
ElectionInv ==
  /\ Elections!SeatsAreSound
  /\ ~configured => listed.row = {}

\* Cardinality in that module is the one of this one.
LEMMA ElectionSizes == \A S : Elections!Cardinality(S) = Cardinality(S)
  BY Zenon DEF Elections!Cardinality, Cardinality

\* Nobody is registered, active or elected at first.
LEMMA ElectionInit ==
  ASSUME ElectionConstants, Elections!Init
  PROVE  ElectionInv
  <1>1. /\ configured = FALSE /\ registered = {} /\ active = {}
        /\ pool_votes = [p \in Producer |-> 0]
        /\ listed = [row |-> {}, active |-> {}, votes |-> [p \in Producer |-> 0]]
        /\ total_votes = [p \in Producer |-> 0]
        /\ schedule = {} /\ last_producer_schedule_size = 0 /\ seats = 0
    BY DEF Elections!Init, Elections!TablesInit
  <1>2. MaxPoolVotes \in Nat /\ Size \in Nat /\ MaxTotalVotes \in Nat
    BY DEF ElectionConstants
  <1> DEFINE z == [p \in Producer |-> 0]
  <1>3. z \in [Producer -> 0 .. MaxPoolVotes] /\ z \in [Producer -> 0 .. MaxTotalVotes]
    BY <1>2
  <1>4. pool_votes = z /\ total_votes = z /\ listed = [row |-> {}, active |-> {}, votes |-> z]
    BY <1>1
  <1> HIDE DEF z
  <1>5. listed.row = {} /\ listed.active = {}
        /\ listed \in [row : SUBSET registered, active : SUBSET listed.row,
                       votes : [Producer -> 0 .. MaxPoolVotes]]
    BY <1>3, <1>4
  <1>6. Elections!TypeOK
    <2>1. Elections!TablesTypeOK
      BY <1>1, <1>3, <1>4, <1>5 DEF Elections!TablesTypeOK
    <2>2. total_votes \in [Producer -> 0 .. MaxTotalVotes]
      BY <1>3, <1>4
    <2> QED
      BY <1>1, <1>2, <2>1, <2>2 DEF Elections!TypeOK
  <1>7. Elections!OneSeatEach
    BY <1>1, FS_EmptySet, ElectionSizes DEF Elections!OneSeatEach
  <1> QED
    BY <1>1, <1>5, <1>6, <1>7
    DEF ElectionInv, Elections!SeatsAreSound, Elections!FlagsAgree

\* Producers come, leave, return and gain votes in both tables alike.
LEMMA TablesKeepElection ==
  ASSUME ElectionConstants, ElectionInv,
         Elections!CfgSrPool \/ Elections!TablesNext,
         UNCHANGED <<total_votes, schedule, last_producer_schedule_size, seats>>
  PROVE  ElectionInv'
  <1>1. Elections!TablesTypeOK /\ Elections!FlagsAgree /\ (~configured => listed.row = {})
    BY DEF ElectionInv, Elections!SeatsAreSound, Elections!TypeOK
  <1> DEFINE Kept == /\ Elections!TablesTypeOK' /\ Elections!FlagsAgree'
                     /\ ~configured' => listed'.row = {}
                     /\ registered \subseteq registered'
  <1>2. ASSUME Elections!CfgSrPool
        PROVE  Kept
    BY <1>1, <1>2 DEF Elections!CfgSrPool, Elections!TablesTypeOK, Elections!FlagsAgree
  <1>3. ASSUME NEW p \in Producer, Elections!RegProducer(p)
        PROVE  Kept
    <2>1. /\ registered' = registered \union {p} /\ active' = active \union {p}
          /\ configured' = configured /\ pool_votes' = pool_votes
          /\ listed' = IF configured THEN [listed EXCEPT !.row = @ \union {p},
                                                         !.active = @ \union {p}]
                                     ELSE listed
      BY <1>3 DEF Elections!RegProducer, Elections!Enabled
    <2>2. CASE configured
      <3>1. /\ listed'.row = listed.row \union {p} /\ listed'.active = listed.active \union {p}
            /\ listed' = [row |-> listed'.row, active |-> listed'.active, votes |-> listed.votes]
        BY <1>1, <2>1, <2>2 DEF Elections!TablesTypeOK
      <3> QED
        BY <1>1, <2>1, <2>2, <3>1 DEF Elections!TablesTypeOK, Elections!FlagsAgree
    <2>3. CASE ~configured
      <3>1. listed' = listed /\ listed.row = {}
        BY <1>1, <2>1, <2>3
      <3> QED
        BY <1>1, <2>1, <2>3, <3>1 DEF Elections!TablesTypeOK, Elections!FlagsAgree
    <2> QED
      BY <2>2, <2>3
  <1>4. ASSUME NEW p \in Producer, Elections!Deactivate(p)
        PROVE  Kept
    <2>1. /\ active' = active \ {p} /\ listed' = [listed EXCEPT !.active = @ \ {p}]
          /\ UNCHANGED <<configured, registered, pool_votes>>
      BY <1>4 DEF Elections!Deactivate
    <2>2. /\ listed'.row = listed.row /\ listed'.active = listed.active \ {p}
          /\ listed' = [row |-> listed.row, active |-> listed'.active, votes |-> listed.votes]
      BY <1>1, <2>1 DEF Elections!TablesTypeOK
    <2> QED
      BY <1>1, <2>1, <2>2 DEF Elections!TablesTypeOK, Elections!FlagsAgree
  <1>5. ASSUME NEW p \in Producer, NEW n \in 0 .. MaxPoolVotes, Elections!ChangePoolVotes(p, n)
        PROVE  Kept
    BY <1>1, <1>5
    DEF Elections!ChangePoolVotes, Elections!TablesTypeOK, Elections!FlagsAgree
  <1>6. ASSUME NEW p \in Producer, Elections!UpdateVotes(p)
        PROVE  Kept
    <2>1. /\ listed' = [listed EXCEPT !.votes[p] = pool_votes[p]]
          /\ UNCHANGED <<configured, registered, active, pool_votes>>
      BY <1>6 DEF Elections!UpdateVotes
    <2> DEFINE v == [listed.votes EXCEPT ![p] = pool_votes[p]]
    <2>2. v \in [Producer -> 0 .. MaxPoolVotes] /\ listed' = [listed EXCEPT !.votes = v]
      BY <1>1, <2>1 DEF Elections!TablesTypeOK
    <2> HIDE DEF v
    <2>3. /\ listed'.row = listed.row /\ listed'.active = listed.active
          /\ listed' = [row |-> listed.row, active |-> listed.active, votes |-> v]
      BY <1>1, <2>2 DEF Elections!TablesTypeOK
    <2> QED
      BY <1>1, <2>1, <2>2, <2>3 DEF Elections!TablesTypeOK, Elections!FlagsAgree
  <1>7. Kept
    BY <1>2, <1>3, <1>4, <1>5, <1>6 DEF Elections!TablesNext
  <1> QED
    BY <1>7 DEF ElectionInv, Elections!SeatsAreSound, Elections!TypeOK, Elections!OneSeatEach,
                Elections!Cardinality

\* The first by votes are some of the candidates, and not too many.
LEMMA FirstsAreCandidates ==
  ASSUME NEW n \in Nat, NEW C, IsFiniteSet(C), NEW votes, NEW T \in Elections!Firsts(n, C, votes)
  PROVE  /\ T \subseteq C /\ IsFiniteSet(T) /\ Cardinality(T) \in Nat /\ Cardinality(T) <= n
         /\ \A t \in T : \A c \in C \ T : votes[c] <= votes[t]
  <1>1. /\ T \subseteq C
        /\ Cardinality(T) = IF n < Cardinality(C) THEN n ELSE Cardinality(C)
        /\ \A t \in T : \A c \in C \ T : votes[c] <= votes[t]
    BY ElectionSizes DEF Elections!Firsts
  <1>2. Cardinality(C) \in Nat /\ IsFiniteSet(T)
    BY <1>1, FS_CardinalityType, FS_Subset
  <1> QED
    BY <1>1, <1>2

\* Who may be elected: two groups without a common member, of which nobody
\* left out has more votes of the kind that decided.
LEMMA OutcomesAreFair ==
  ASSUME ElectionConstants, ElectionInv, NEW n \in 0 .. Size, NEW o \in Elections!Outcomes(n)
  PROVE  /\ o[1] \union o[2] \subseteq active
         /\ Cardinality(o[1] \union o[2]) = Cardinality(o[1]) + Cardinality(o[2])
         /\ Cardinality(o[1]) + Cardinality(o[2]) \in 0 .. Size
         /\ \A out \in active \ (o[1] \union o[2]), in \in o[1] \union o[2] :
              \/ total_votes[out] <= total_votes[in]
              \/ out \in listed.row => listed.votes[out] <= listed.votes[in]
  <1>1. /\ listed.active = active \intersect listed.row
        /\ active \subseteq Producer /\ IsFiniteSet(active)
        /\ listed.votes \in [Producer -> 0 .. MaxPoolVotes]
        /\ total_votes \in [Producer -> 0 .. MaxTotalVotes]
        /\ Size \in Nat /\ n \in Nat /\ n <= Size
        /\ MaxPoolVotes \in Nat /\ MaxTotalVotes \in Nat
    <2>1. active \subseteq Producer /\ IsFiniteSet(Producer)
      BY DEF ElectionInv, Elections!SeatsAreSound, Elections!TypeOK, Elections!TablesTypeOK,
             ElectionConstants
    <2>2. IsFiniteSet(active)
      BY <2>1, FS_Subset
    <2> QED
      BY <2>1, <2>2
      DEF ElectionInv, Elections!SeatsAreSound, Elections!TypeOK, Elections!TablesTypeOK,
          Elections!FlagsAgree, ElectionConstants
  <1>2. PICK byPool \in Elections!TopActive(n, listed) :
          o \in {byPool} \X Elections!Firsts(Size - Elections!Cardinality(byPool),
                                             Elections!Candidates(byPool), total_votes)
    BY DEF Elections!Outcomes
  <1> DEFINE A == { p \in listed.active : listed.votes[p] > 0 }
             B == { p \in active : total_votes[p] > 0 } \ byPool
             m == Size - Cardinality(byPool)
  <1>3. IsFiniteSet(A) /\ IsFiniteSet(B) /\ A \subseteq active /\ B \subseteq active
    <2>1. A \in SUBSET active /\ B \in SUBSET active
      BY <1>1
    <2> QED
      BY <1>1, <2>1, FS_Subset
  <1>4. byPool \in Elections!Firsts(n, A, listed.votes)
    BY <1>2 DEF Elections!TopActive
  <1>5. /\ byPool \subseteq A /\ IsFiniteSet(byPool) /\ Cardinality(byPool) \in 0 .. n
        /\ \A t \in byPool : \A c \in A \ byPool : listed.votes[c] <= listed.votes[t]
    BY <1>1, <1>3, <1>4, FirstsAreCandidates
  <1>6. m \in Nat /\ m + Cardinality(byPool) = Size
    BY <1>1, <1>5
  <1>7. o[1] = byPool /\ o[2] \in Elections!Firsts(m, B, total_votes)
    BY <1>2, ElectionSizes DEF Elections!Candidates
  <1> HIDE DEF m
  <1>8. /\ o[2] \subseteq B /\ IsFiniteSet(o[2]) /\ Cardinality(o[2]) \in 0 .. m
        /\ \A t \in o[2] : \A c \in B \ o[2] : total_votes[c] <= total_votes[t]
    BY <1>3, <1>6, <1>7, FirstsAreCandidates
  <1>9. o[1] \intersect o[2] = {} /\ o[1] \union o[2] \subseteq active
    BY <1>3, <1>5, <1>7, <1>8
  <1>10. Cardinality(o[1] \union o[2]) = Cardinality(o[1]) + Cardinality(o[2])
    <2>1. Cardinality(o[1] \union o[2])
            = Cardinality(o[1]) + Cardinality(o[2]) - Cardinality(o[1] \intersect o[2])
      BY <1>5, <1>7, <1>8, FS_Union
    <2>2. Cardinality(o[1] \intersect o[2]) = 0
      BY <1>9, FS_EmptySet
    <2>3. Cardinality(o[1]) \in Nat /\ Cardinality(o[2]) \in Nat
      BY <1>1, <1>5, <1>6, <1>7, <1>8
    <2> QED
      BY <2>1, <2>2, <2>3
  <1>11. Cardinality(o[1]) + Cardinality(o[2]) \in 0 .. Size
    BY <1>1, <1>5, <1>6, <1>7, <1>8
  <1>12. ASSUME NEW out \in active \ (o[1] \union o[2]), NEW in \in o[1] \union o[2],
                out \in listed.row
         PROVE  total_votes[out] <= total_votes[in] \/ listed.votes[out] <= listed.votes[in]
    <2>1. /\ total_votes[out] \in Nat /\ total_votes[in] \in Nat
          /\ listed.votes[out] \in Nat /\ listed.votes[in] \in Nat /\ out \in listed.active
      BY <1>1, <1>9, <1>12
    <2>2. CASE in \in byPool
      <3>1. out \in A => listed.votes[out] <= listed.votes[in]
        BY <1>5, <1>7, <2>2
      <3> QED
        BY <2>1, <3>1
    <2>3. CASE in \in o[2]
      <3>1. out \in B => total_votes[out] <= total_votes[in]
        BY <1>8, <2>3
      <3>2. out \notin byPool
        BY <1>7
      <3> QED
        BY <2>1, <3>1, <3>2
    <2> QED
      BY <1>7, <2>2, <2>3
  <1> QED
    BY <1>9, <1>10, <1>11, <1>12

\* update_elected_producers seats those of one outcome, or nobody new.
LEMMA ElectsFromOutcomes ==
  ASSUME ElectionConstants, ElectionInv, NEW n \in 0 .. Size, Elections!UpdateElected(n)
  PROVE  \/ UNCHANGED <<schedule, last_producer_schedule_size>>
         \/ \E o \in Elections!Outcomes(n) :
              /\ schedule' = o[1] \union o[2]
              /\ last_producer_schedule_size' = Cardinality(o[1]) + Cardinality(o[2])
  <1>1. PICK o \in Elections!Outcomes(n) :
       LET size == Elections!Cardinality(o[1]) + Elections!Cardinality(o[2])
           top == o[1] \union o[2]
       IN  IF Elections!LongEnough(size) /\ top # schedule
           THEN schedule' = top /\ last_producer_schedule_size' = size
           ELSE UNCHANGED <<schedule, last_producer_schedule_size>>
    BY Zenon DEF Elections!UpdateElected
  <1> QED
    BY <1>1, ElectionSizes

\* An election keeps the seats sound.
LEMMA ElectKeepsElection ==
  ASSUME ElectionConstants, ElectionInv, NEW n \in 0 .. Size, Elections!UpdateElected(n)
  PROVE  ElectionInv'
  <1>1. seats' = n
        /\ UNCHANGED <<configured, registered, active, pool_votes, listed, total_votes>>
    BY DEF Elections!UpdateElected, Elections!tables
  <1>2. Elections!TypeOK /\ Elections!FlagsAgree /\ Elections!OneSeatEach
    BY DEF ElectionInv, Elections!SeatsAreSound
  <1>3. /\ schedule' \subseteq registered /\ last_producer_schedule_size' \in 0 .. Size
        /\ last_producer_schedule_size' = Cardinality(schedule')
    <2>1. CASE UNCHANGED <<schedule, last_producer_schedule_size>>
      BY <1>2, <2>1, ElectionSizes DEF Elections!TypeOK, Elections!OneSeatEach
    <2>2. ASSUME NEW o \in Elections!Outcomes(n),
                 schedule' = o[1] \union o[2],
                 last_producer_schedule_size' = Cardinality(o[1]) + Cardinality(o[2])
          PROVE  /\ schedule' \subseteq registered /\ last_producer_schedule_size' \in 0 .. Size
                 /\ last_producer_schedule_size' = Cardinality(schedule')
      <3>1. active \subseteq registered
        BY <1>2 DEF Elections!TypeOK, Elections!TablesTypeOK
      <3> QED
        BY <2>2, <3>1, OutcomesAreFair
    <2> QED
      BY <2>1, <2>2, ElectsFromOutcomes
  <1>4. Elections!TypeOK'
    BY <1>1, <1>2, <1>3 DEF Elections!TypeOK, Elections!TablesTypeOK
  <1>5. Elections!OneSeatEach'
    BY <1>3, ElectionSizes DEF Elections!OneSeatEach
  <1> QED
    BY <1>1, <1>2, <1>4, <1>5 DEF ElectionInv, Elections!SeatsAreSound, Elections!FlagsAgree

\* Every step keeps the invariant.
LEMMA ElectionStep ==
  ASSUME ElectionConstants
  PROVE  ElectionInv /\ [Elections!Next]_(Elections!vars) => ElectionInv'
  <1> SUFFICES ASSUME ElectionInv, [Elections!Next]_(Elections!vars) PROVE ElectionInv'
    OBVIOUS
  <1>1. CASE (Elections!CfgSrPool \/ Elections!TablesNext)
             /\ UNCHANGED <<total_votes, Elections!elected>>
    <2>1. UNCHANGED <<total_votes, schedule, last_producer_schedule_size, seats>>
      BY <1>1 DEF Elections!elected
    <2> QED
      BY <1>1, <2>1, TablesKeepElection
  <1>2. ASSUME NEW p \in Producer, NEW k \in 0 .. MaxTotalVotes, Elections!ChangeVotes(p, k)
        PROVE  ElectionInv'
    <2>1. /\ total_votes' = [total_votes EXCEPT ![p] = k]
          /\ UNCHANGED <<configured, registered, active, pool_votes, listed,
                         schedule, last_producer_schedule_size, seats>>
      BY <1>2 DEF Elections!ChangeVotes, Elections!tables, Elections!elected
    <2> QED
      BY <1>2, <2>1
      DEF ElectionInv, Elections!SeatsAreSound, Elections!TypeOK, Elections!TablesTypeOK,
          Elections!FlagsAgree, Elections!OneSeatEach, Elections!Cardinality
  <1>3. CASE Elections!Elects
    BY <1>3, ElectKeepsElection DEF Elections!Elects
  <1>4. CASE UNCHANGED Elections!vars
    BY <1>4
    DEF Elections!vars, Elections!tables, ElectionInv, Elections!SeatsAreSound,
        Elections!TypeOK, Elections!TablesTypeOK, Elections!FlagsAgree, Elections!OneSeatEach,
        Elections!Cardinality
  <1> QED
    BY <1>1, <1>2, <1>3, <1>4 DEF Elections!Next

\* update_elected_producers gives nobody two seats, and no seat to a producer
\* that is inactive in either table, however producers leave and return
\* before and after pools exist.
THEOREM ElectionSeatsAreSound ==
  ASSUME ElectionConstants
  PROVE  Elections!Spec => []Elections!SeatsAreSound
  <1>1. Elections!Init => ElectionInv
    BY ElectionInit
  <1>2. ElectionInv => Elections!SeatsAreSound
    BY DEF ElectionInv
  <1> QED
    BY <1>1, <1>2, ElectionStep, PTL DEF Elections!Spec

\* An election passes nobody over: an active producer left out never has more
\* of both kinds of votes than one that was elected.
THEOREM ElectionPassesNobodyOver ==
  ASSUME ElectionConstants
  PROVE  Elections!Spec => [][Elections!NobodyIsPassedOver]_(Elections!vars)
  <1>1. Elections!Init => ElectionInv
    BY ElectionInit
  <1>2. ElectionInv /\ [Elections!Next]_(Elections!vars)
          => [Elections!NobodyIsPassedOver]_(Elections!vars)
    <2> SUFFICES ASSUME ElectionInv, Elections!Next, schedule' # schedule
                 PROVE  Elections!NobodyIsPassedOver
      BY DEF Elections!NobodyIsPassedOver
    <2>1. PICK n \in 0 .. Size : Elections!UpdateElected(n)
      BY DEF Elections!Next, Elections!ChangeVotes, Elections!elected, Elections!Elects
    <2>2. PICK o \in Elections!Outcomes(n) : schedule' = o[1] \union o[2]
      BY <2>1, ElectsFromOutcomes
    <2>3. /\ schedule' \subseteq active
          /\ \A out \in active \ schedule', in \in schedule' :
               \/ total_votes[out] <= total_votes[in]
               \/ out \in listed.row => listed.votes[out] <= listed.votes[in]
      BY <2>1, <2>2, OutcomesAreFair
    <2>4. /\ active \subseteq Producer
          /\ \A p \in Producer : total_votes[p] \in Int /\ listed.votes[p] \in Int
      BY DEF ElectionInv, Elections!SeatsAreSound, Elections!TypeOK, Elections!TablesTypeOK,
             ElectionConstants
    <2> QED
      BY <2>3, <2>4 DEF Elections!NobodyIsPassedOver, Elections!Outranks
  <1> QED
    BY <1>1, <1>2, ElectionStep, PTL DEF Elections!Spec
==============================================================================
