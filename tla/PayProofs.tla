------------------------------- MODULE PayProofs -------------------------------
(***************************************************************************)
(* Theorems about the pay of producers (ProducerPay) and about pay by      *)
(* rounds (PoolPay), for any producers, pools and parameters: the buckets  *)
(* cover every claim, the total of all shares, extrapolated from one rate, *)
(* is what the producers' shares add up to, and no round is paid twice.    *)
(***************************************************************************)
EXTENDS ProducerPay

\* The votes and the shares of the producers that earn, and nothing for those
\* that do not.
CountedVotes == [p \in Producer |-> IF p \in Counted THEN total_votes[p] ELSE 0]
CountedShares == [p \in Producer |-> IF p \in Counted THEN ShareNow(p) ELSE 0]

\* What the total of all shares has grown to by now, and the rate of its growth.
Rate == global.total_vpay_share_change_rate
Total ==
  global.total_producer_votepay_share + Rate * (now - global.last_vpay_state_update)

\* Only a producer registered before producers2 existed has no row there, and
\* nobody votes for an account that has not registered.
RosterInv ==
  /\ roster \in [registered : SUBSET Producer, active : SUBSET Producer,
                 second : SUBSET Producer]
  /\ roster.registered \subseteq roster.second \union Legacy
  /\ \A p \in Producer \ roster.registered : total_votes[p] = 0

\* What is extrapolated covers what the producers have, and is no more when
\* all of them registered with producers2.
SharesCovered ==
  /\ SumOf(CountedVotes) <= Rate
  /\ SumOf(CountedShares) <= Total
  /\ Legacy = {} => SumOf(CountedVotes) = Rate /\ SumOf(CountedShares) = Total

\* A producer that does not earn was paid or has lost what it had.
SettledHaveNothing == \A p \in Producer \ Counted : votepay_share[p] = 0

PayInv ==
  /\ TypeOK /\ RosterInv
  /\ BlocksAddUp /\ BucketsBacked
  /\ SettledHaveNothing /\ SharesCovered

-----------------------------------------------------------------------------
(* Shares.                                                                 *)

\* Numbers behind the shares.
LEMMA ShareTypes ==
  ASSUME TypeOK
  PROVE  /\ now \in Nat /\ IsFiniteSet(Producer)
         /\ \A p \in Producer : /\ total_votes[p] \in Nat /\ votepay_share[p] \in Nat
                                /\ now - last_votepay_share_update[p] \in Nat
                                /\ ShareNow(p) \in Nat
         /\ CountedVotes \in [Producer -> Nat] /\ CountedShares \in [Producer -> Nat]
         /\ SumOf(CountedVotes) \in Nat /\ SumOf(CountedShares) \in Nat
         /\ Rate \in Nat /\ Total \in Nat
  <1>1. now \in Nat /\ IsFiniteSet(Producer)
    BY ProducerPayAssumption DEF TypeOK
  <1>2. ASSUME NEW p \in Producer
        PROVE  /\ total_votes[p] \in Nat /\ votepay_share[p] \in Nat
               /\ now - last_votepay_share_update[p] \in Nat
               /\ ShareNow(p) \in Nat
    <2>1. /\ total_votes[p] \in Nat /\ votepay_share[p] \in Nat
          /\ now - last_votepay_share_update[p] \in Nat
      BY <1>1, ProducerPayAssumption DEF TypeOK
    <2>2. total_votes[p] * (now - last_votepay_share_update[p]) \in Nat
      BY <2>1, ProductIsNat
    <2> QED
      BY <2>1, <2>2 DEF ShareNow
  <1>3. CountedVotes \in [Producer -> Nat] /\ CountedShares \in [Producer -> Nat]
    BY <1>2 DEF CountedVotes, CountedShares
  <1>4. SumOf(CountedVotes) \in Nat /\ SumOf(CountedShares) \in Nat
    <2>1. IsFiniteSet(Units(CountedVotes)) /\ IsFiniteSet(Units(CountedShares))
      BY <1>1, <1>3, SumIsFinite
    <2> QED
      BY <2>1, FS_CardinalityType DEF SumOf
  <1>5. Rate \in Nat /\ Total \in Nat
    <2>1. /\ Rate \in Nat /\ global.total_producer_votepay_share \in Nat
          /\ now - global.last_vpay_state_update \in Nat
      BY <1>1 DEF TypeOK, Rate
    <2>2. Rate * (now - global.last_vpay_state_update) \in Nat
      BY <2>1, ProductIsNat
    <2> QED
      BY <2>1, <2>2 DEF Total
  <1> QED
    BY <1>1, <1>2, <1>3, <1>4, <1>5

\* An update that takes no more than there is settles the total.
LEMMA TotalSettles ==
  ASSUME TypeOK, NEW shareGain \in Int, NEW rateGain \in Int,
         Total + shareGain >= 0, Rate + rateGain >= 0
  PROVE  TotalUpdated(shareGain, rateGain)
           = [total_producer_votepay_share |-> Total + shareGain,
              total_vpay_share_change_rate |-> Rate + rateGain,
              last_vpay_state_update |-> now]
  <1>1. Total \in Nat /\ Rate \in Nat
    BY ShareTypes
  <1>2. TotalUpdated(shareGain, rateGain)
          = [total_producer_votepay_share |-> IF Total + shareGain < 0 THEN 0
                                              ELSE Total + shareGain,
             total_vpay_share_change_rate |-> IF Rate + rateGain < 0 THEN 0
                                              ELSE Rate + rateGain,
             last_vpay_state_update |-> now]
    BY DEF TotalUpdated, Total, Rate
  <1> QED
    BY <1>1, <1>2

\* The total after such an update.
LEMMA AfterSettling ==
  ASSUME TypeOK, now' = now, NEW share \in Nat, NEW rate \in Nat,
         global' = [total_producer_votepay_share |-> share,
                    total_vpay_share_change_rate |-> rate,
                    last_vpay_state_update |-> now]
  PROVE  /\ Total' = share /\ Rate' = rate
         /\ global' \in [total_producer_votepay_share : Nat,
                         total_vpay_share_change_rate : Nat,
                         last_vpay_state_update : 0 .. now]
  <1>1. now \in Nat
    BY ShareTypes
  <1>2. Rate' = rate
    BY DEF Rate
  <1>3. Total' = share + rate * (now - now)
    BY <1>2 DEF Total
  <1>4. rate * (now - now) = 0
    BY <1>1
  <1> QED
    BY <1>1, <1>2, <1>3, <1>4

\* When a producer earns: it has a row in producers2, and its share was not
\* settled after the threshold.
LEMMA WhoEarns ==
  ASSUME TypeOK, NEW p \in Producer
  PROVE  /\ p \in roster.second =>
              /\ last_claim_time[p] \in 0 .. now
              /\ Settled(p) <=> last_claim_time[p] + 3 <= last_votepay_share_update[p]
              /\ Crossed(p) <=> now - last_claim_time[p] >= 3
              /\ Settled(p) => Crossed(p)
         /\ p \in Counted <=> p \in roster.second /\ ~Settled(p)
         /\ last_votepay_share_update[p] \in 0 .. now
  <1>1. /\ last_claim_time[p] \in 0 .. now \union {Never}
        /\ last_votepay_share_update[p] \in 0 .. now
        /\ p \in roster.second => last_claim_time[p] # Never
        /\ now \in Nat
    BY ShareTypes DEF TypeOK
  <1>2. p \in Counted <=> p \in roster.second /\ ~Settled(p)
    BY DEF Counted, TypeOK
  <1>3. ASSUME p \in roster.second
        PROVE  /\ last_claim_time[p] \in 0 .. now
               /\ Settled(p) <=> last_claim_time[p] + 3 <= last_votepay_share_update[p]
               /\ Crossed(p) <=> now - last_claim_time[p] >= 3
    BY <1>1, <1>3 DEF Settled, Crossed, Since, Threshold
  <1>4. ASSUME p \in roster.second, Settled(p)
        PROVE  Crossed(p)
    BY <1>1, <1>3, <1>4
  <1> QED
    BY <1>1, <1>2, <1>3, <1>4

\* While no claim, vote or registration happens, the shares stand.
LEMMA SharesStand ==
  ASSUME PayInv, roster' \in [registered : SUBSET Producer, active : SUBSET Producer,
                              second : SUBSET Producer],
         roster'.second = roster.second, roster'.registered = roster.registered,
         UNCHANGED <<now, total_votes, last_claim_time, shares>>
  PROVE  RosterInv' /\ SettledHaveNothing' /\ SharesCovered'
  <1>1. /\ now' = now /\ total_votes' = total_votes /\ last_claim_time' = last_claim_time
        /\ votepay_share' = votepay_share /\ global' = global
        /\ last_votepay_share_update' = last_votepay_share_update
    BY DEF shares
  <1>2. Counted' = Counted
    BY <1>1 DEF Counted, Settled
  <1>3. CountedVotes' = CountedVotes /\ CountedShares' = CountedShares
    BY <1>1, <1>2 DEF CountedVotes, CountedShares, ShareNow, Settled
  <1>4. Total' = Total /\ Rate' = Rate
    BY <1>1 DEF Total, Rate
  <1>5. RosterInv'
    BY <1>1 DEF PayInv, RosterInv
  <1>6. SettledHaveNothing'
    BY <1>1, <1>2 DEF PayInv, SettledHaveNothing
  <1>7. SharesCovered'
    BY <1>3, <1>4 DEF PayInv, SharesCovered, SumOf, Units
  <1> QED
    BY <1>5, <1>6, <1>7

\* A day passes: the total grows by the rate, and each share by its votes.
LEMMA DayKeepsShares ==
  ASSUME PayInv, TypeOK', NextDay
  PROVE  RosterInv' /\ SettledHaveNothing' /\ SharesCovered'
  <1>1. /\ now' = now + 1 /\ total_votes' = total_votes /\ last_claim_time' = last_claim_time
        /\ votepay_share' = votepay_share /\ global' = global /\ roster' = roster
        /\ last_votepay_share_update' = last_votepay_share_update
    BY DEF NextDay, shares
  <1>2. TypeOK
    BY DEF PayInv
  <1>3. Counted' = Counted
    BY <1>1 DEF Counted, Settled
  <1>4. RosterInv' /\ SettledHaveNothing'
    BY <1>1, <1>3 DEF PayInv, RosterInv, SettledHaveNothing
  <1> DEFINE V == CountedVotes
             W == CountedShares
             W1 == CountedShares'
             none == [p \in Producer |-> 0]
  <1>5. CountedVotes' = V
    BY <1>1, <1>3 DEF CountedVotes
  <1>6. V \in [Producer -> Nat] /\ W \in [Producer -> Nat] /\ none \in [Producer -> Nat]
        /\ IsFiniteSet(Producer) /\ now \in Nat /\ SumOf(none) = 0
        /\ SumOf(V) \in Nat /\ SumOf(W) \in Nat /\ Rate \in Nat /\ Total \in Nat
    BY <1>2, ShareTypes, SumOfZeros
  <1>7. ASSUME NEW p \in Producer
        PROVE  ShareNow(p)' = ShareNow(p) + IF Settled(p) THEN 0 ELSE total_votes[p]
    <2> DEFINE v == total_votes[p]
               d == now - last_votepay_share_update[p]
    <2>1. v \in Nat /\ d \in Nat /\ votepay_share[p] \in Nat /\ now \in Nat
          /\ last_votepay_share_update[p] \in Nat
      BY <1>2, <1>6, ShareTypes, WhoEarns
    <2> DEFINE e == now' - last_votepay_share_update[p]
    <2>2. e = d + 1
      BY <1>1, <2>1
    <2>3. ShareNow(p) = votepay_share[p] + IF Settled(p) THEN 0 ELSE v * d
      BY DEF ShareNow
    <2>6. ShareNow(p)' = votepay_share[p] + IF Settled(p) THEN 0 ELSE v * e
      <3>1. Settled(p)' <=> Settled(p)
        BY <1>1 DEF Settled
      <3>2. ShareNow(p)' = votepay_share'[p] + IF Settled(p)' THEN 0
                           ELSE total_votes'[p] * (now' - last_votepay_share_update'[p])
        BY DEF ShareNow
      <3> QED
        BY Zenon, <1>1, <3>1, <3>2
    <2> HIDE DEF v, d, e
    <2>4. ShareNow(p)' = votepay_share[p] + IF Settled(p) THEN 0 ELSE v * (d + 1)
      BY <2>2, <2>6
    <2>5. v * (d + 1) = v * d + v /\ v * d \in Nat
      BY <2>1, ProductIsNat
    <2> QED
      BY <2>1, <2>3, <2>4, <2>5 DEF v
  <1>8. \A p \in Producer : W1[p] + none[p] = W[p] + V[p]
    <2> SUFFICES ASSUME NEW p \in Producer
                 PROVE  W1[p] + 0 = W[p] + V[p]
      OBVIOUS
    <2>1. W1[p] = IF p \in Counted THEN ShareNow(p)' ELSE 0
      BY <1>3 DEF CountedShares
    <2>2. /\ W[p] = IF p \in Counted THEN ShareNow(p) ELSE 0
          /\ V[p] = IF p \in Counted THEN total_votes[p] ELSE 0
      BY DEF CountedShares, CountedVotes
    <2>3. p \in Counted => ~Settled(p)
      BY DEF Counted
    <2>4. ShareNow(p) \in Nat /\ total_votes[p] \in Nat
      BY <1>2, ShareTypes
    <2> QED
      BY <1>7, <2>1, <2>2, <2>3, <2>4
  <1>9. W1 \in [Producer -> Nat]
    <2>1. W1 = [p \in Producer |-> IF p \in Counted' THEN ShareNow(p)' ELSE 0]
      BY DEF CountedShares
    <2>2. \A p \in Producer : W1[p] \in Nat
      <3> SUFFICES ASSUME NEW p \in Producer
                   PROVE  W1[p] \in Nat
        OBVIOUS
      <3>1. ShareNow(p) \in Nat /\ total_votes[p] \in Nat
        BY <1>2, ShareTypes
      <3>2. W1[p] = IF p \in Counted' THEN ShareNow(p)' ELSE 0
        BY <2>1
      <3> QED
        BY <1>7, <3>1, <3>2
    <2> QED
      BY <2>1, <2>2
  <1> HIDE DEF V, W, W1, none
  <1>10. SumOf(W1) + SumOf(none) = SumOf(W) + SumOf(V) /\ SumOf(W1) \in Nat
    BY <1>6, <1>8, <1>9, SumsBalance
  <1>11. Rate' = Rate /\ Total' = Total + Rate
    <2> DEFINE d == now - global.last_vpay_state_update
               t == global.total_producer_votepay_share
    <2>1. d \in Nat /\ t \in Nat /\ global.last_vpay_state_update \in Nat
      BY <1>2, <1>6 DEF TypeOK
    <2>2. Rate' = Rate
      BY <1>1 DEF Rate
    <2>3. Total = t + Rate * d
      BY DEF Total
    <2> DEFINE e == now' - global.last_vpay_state_update
    <2>4. e = d + 1
      BY <1>1, <1>6, <2>1
    <2>7. Total' = t + Rate * e
      BY Zenon, <1>1, <2>2 DEF Total
    <2> HIDE DEF d, t, e
    <2>5. Total' = t + Rate * (d + 1)
      BY <2>4, <2>7
    <2>6. Rate * (d + 1) = Rate * d + Rate /\ Rate * d \in Nat
      BY <1>6, <2>1, ProductIsNat
    <2> QED
      BY <1>6, <2>1, <2>2, <2>3, <2>5, <2>6
  <1>12. SumOf(V) <= Rate /\ SumOf(W) <= Total
         /\ (Legacy = {} => SumOf(V) = Rate /\ SumOf(W) = Total)
    BY DEF PayInv, SharesCovered, V, W
  <1>13. SumOf(CountedVotes)' = SumOf(V) /\ SumOf(CountedShares)' = SumOf(W1)
    BY <1>5 DEF SumOf, Units, W1
  <1>14. SharesCovered'
    BY <1>6, <1>10, <1>11, <1>12, <1>13 DEF SharesCovered
  <1> QED
    BY <1>4, <1>14

\* A producer with a row in producers2 has nothing yet to lose when it is paid
\* or registers: its votes count once afterwards, and its share starts anew.
LEMMA ShareRestarts ==
  ASSUME PayInv, NEW p \in Producer, NEW rate \in Nat, NEW total \in Nat,
         now' = now, total_votes' = total_votes,
         roster'.second = roster.second \union {p},
         \A q \in Producer \ {p} :
           /\ last_claim_time'[q] = last_claim_time[q]
           /\ votepay_share'[q] = votepay_share[q]
           /\ last_votepay_share_update'[q] = last_votepay_share_update[q],
         votepay_share'[p] = 0, last_votepay_share_update'[p] = now,
         total = Total - CountedShares[p],
         rate \in {Rate + (IF p \in Counted' THEN total_votes[p] ELSE 0) - CountedVotes[p],
                   Rate + total_votes[p]},
         Legacy = {} => rate = Rate + (IF p \in Counted' THEN total_votes[p] ELSE 0)
                                 - CountedVotes[p],
         Rate' = rate, Total' = total
  PROVE  SettledHaveNothing' /\ SharesCovered'
  <1> DEFINE V == CountedVotes
             W == CountedShares
             V1 == CountedVotes'
             W1 == CountedShares'
             v == IF p \in Counted' THEN total_votes[p] ELSE 0
  <1>1. TypeOK
    BY DEF PayInv
  <1>2. V \in [Producer -> Nat] /\ W \in [Producer -> Nat]
        /\ IsFiniteSet(Producer) /\ now \in Nat /\ total_votes[p] \in Nat
        /\ SumOf(V) \in Nat /\ SumOf(W) \in Nat /\ Rate \in Nat /\ Total \in Nat
    BY <1>1, ShareTypes
  <1>3. \A q \in Producer \ {p} : q \in Counted' <=> q \in Counted
    BY DEF Counted, Settled
  <1>4. \A q \in Producer \ {p} : ShareNow(q)' = ShareNow(q)
    BY DEF ShareNow, Settled
  <1>5. /\ V1 = [q \in Producer |-> IF q \in Counted' THEN total_votes[q] ELSE 0]
        /\ W1 = [q \in Producer |-> IF q \in Counted' THEN ShareNow(q)' ELSE 0]
    BY DEF CountedVotes, CountedShares
  <1>6. ShareNow(p)' = 0
    <2>1. ShareNow(p)' = 0 + IF Settled(p)' THEN 0 ELSE total_votes[p] * (now - now)
      BY DEF ShareNow
    <2>2. total_votes[p] * (now - now) = 0
      BY <1>2
    <2> QED
      BY <2>1, <2>2
  <1>7. /\ V1 \in [Producer -> Nat] /\ V1[p] = v
        /\ \A q \in Producer \ {p} : V1[q] = V[q]
    <2>1. \A q \in Producer \ {p} : V1[q] = V[q]
      BY <1>3, <1>5 DEF CountedVotes
    <2>2. V1[p] = v /\ v \in Nat
      BY <1>2, <1>5
    <2> QED
      BY <1>2, <1>5, <2>1, <2>2
  <1>8. /\ W1 \in [Producer -> Nat] /\ W1[p] = 0
        /\ \A q \in Producer \ {p} : W1[q] = W[q]
    <2>1. \A q \in Producer \ {p} : W1[q] = W[q]
      BY <1>3, <1>4, <1>5 DEF CountedShares
    <2>2. W1[p] = 0
      BY <1>5, <1>6
    <2> QED
      BY <1>2, <1>5, <2>1, <2>2
  <1>9. SumOf(V) <= Rate /\ SumOf(W) <= Total
        /\ (Legacy = {} => SumOf(V) = Rate /\ SumOf(W) = Total)
    BY DEF PayInv, SharesCovered
  <1>10. SettledHaveNothing'
    BY <1>3 DEF SettledHaveNothing, PayInv
  <1>11. v \in Nat /\ v <= total_votes[p]
    BY <1>2
  <1>12. /\ rate = Rate + v - V[p] \/ rate = Rate + total_votes[p]
         /\ Legacy = {} => rate = Rate + v - V[p]
         /\ total = Total - W[p] /\ Rate' = rate /\ Total' = total
    OBVIOUS
  <1>13. SumOf(CountedVotes)' = SumOf(V1) /\ SumOf(CountedShares)' = SumOf(W1)
    BY DEF SumOf, Units
  <1> HIDE DEF V, W, V1, W1, v
  <1>14. SumOf(V1) = SumOf(V) - V[p] + V1[p] /\ SumOf(W1) = SumOf(W) - W[p] + W1[p]
    <2>1. IsFiniteSet(Units(V)) /\ IsFiniteSet(Units(W))
      BY <1>2, SumIsFinite
    <2>2. SumOf(V1) = SumOf(V) - V[p] + V1[p]
      BY <1>2, <1>7, <2>1, SumOneEntry
    <2>3. SumOf(W1) = SumOf(W) - W[p] + W1[p]
      BY <1>2, <1>8, <2>1, SumOneEntry
    <2> QED
      BY <2>2, <2>3
  <1>15. V[p] \in Nat /\ W[p] \in Nat
    BY <1>2
  <1>16. SharesCovered'
    BY <1>2, <1>7, <1>8, <1>9, <1>11, <1>12, <1>13, <1>14, <1>15 DEF SharesCovered
  <1> QED
    BY <1>10, <1>16

\* The types of all that only claims, votes and registrations change.
ShareTypesOK ==
  /\ total_votes \in [Producer -> 0 .. MaxVotes]
  /\ last_claim_time \in [Producer -> 0 .. now \union {Never}]
  /\ \A p \in roster.second : last_claim_time[p] # Never
  /\ votepay_share \in [Producer -> Nat]
  /\ last_votepay_share_update \in [Producer -> 0 .. now]
  /\ global \in [total_producer_votepay_share : Nat, total_vpay_share_change_rate : Nat,
                 last_vpay_state_update : 0 .. now]

\* regproducer: the votes of a producer that has no row in producers2 count
\* from now on.
LEMMA RegProducerShares ==
  ASSUME PayInv, NEW p \in Producer, RegProducer(p)
  PROVE  RosterInv' /\ SettledHaveNothing' /\ SharesCovered' /\ ShareTypesOK'
  <1>1. /\ roster' = [registered |-> roster.registered \union {p},
                      active |-> roster.active \union {p},
                      second |-> roster.second \union {p}]
        /\ last_claim_time' = [last_claim_time EXCEPT ![p] = ClaimTimeOf(p)]
        /\ now' = now /\ total_votes' = total_votes
    BY DEF RegProducer
  <1>2. TypeOK /\ RosterInv /\ SettledHaveNothing /\ now \in Nat /\ now \in 0 .. now
    BY ShareTypes DEF PayInv
  <1>3. ShareTypesOK
    BY <1>2 DEF TypeOK, ShareTypesOK
  <1>4. ClaimTimeOf(p) \in 0 .. now /\ ClaimTimeOf(p) # Never
    BY <1>2, <1>3, ProducerPayAssumption DEF ClaimTimeOf, ShareTypesOK
  <1>5. /\ last_claim_time' \in [Producer -> 0 .. now \union {Never}]
        /\ \A q \in roster'.second : last_claim_time'[q] # Never
    <2>1. \A q \in Producer : last_claim_time'[q]
            = IF q = p THEN ClaimTimeOf(p) ELSE last_claim_time[q]
      BY <1>1, <1>3 DEF ShareTypesOK
    <2>2. roster'.second = roster.second \union {p} /\ roster.second \subseteq Producer
      BY <1>1, <1>2 DEF RosterInv
    <2> QED
      BY <1>1, <1>3, <1>4, <2>1, <2>2 DEF ShareTypesOK
  <1>6. RosterInv'
    BY <1>1, <1>2 DEF RosterInv
  <1>7. CASE p \in roster.second
    <2>1. UNCHANGED shares
      BY <1>7 DEF RegProducer
    <2>2. p \in roster.registered /\ last_claim_time[p] # Never
      BY <1>2, <1>7 DEF TypeOK
    <2>3. last_claim_time' = last_claim_time
      BY <1>1, <1>3, <2>2 DEF ClaimTimeOf, ShareTypesOK
    <2>4. /\ roster'.second = roster.second /\ roster'.registered = roster.registered
          /\ roster' \in [registered : SUBSET Producer, active : SUBSET Producer,
                          second : SUBSET Producer]
      BY <1>1, <1>2, <1>6, <1>7, <2>2 DEF RosterInv
    <2>5. SettledHaveNothing' /\ SharesCovered'
      BY <1>1, <2>1, <2>3, <2>4, SharesStand
    <2>6. ShareTypesOK'
      BY <1>1, <1>3, <1>5, <2>1 DEF ShareTypesOK, shares
    <2> QED
      BY <1>6, <2>5, <2>6
  <1>8. CASE p \notin roster.second
    <2> DEFINE old == p \in roster.registered
    <2>1. /\ last_votepay_share_update' = [last_votepay_share_update EXCEPT ![p] = now]
          /\ global' = IF old THEN TotalUpdated(0, total_votes[p]) ELSE global
          /\ votepay_share' = votepay_share
      BY <1>8 DEF RegProducer
    <2>2. p \notin Counted /\ votepay_share[p] = 0
      BY <1>2, <1>8, WhoEarns DEF SettledHaveNothing
    <2>3. CountedVotes[p] = 0 /\ CountedShares[p] = 0
      BY <2>2 DEF CountedVotes, CountedShares
    <2>4. total_votes[p] \in Nat /\ Rate \in Nat /\ Total \in Nat
      BY <1>2, ShareTypes
    <2>5. /\ Total' = Total /\ Rate' = Rate + IF old THEN total_votes[p] ELSE 0
          /\ global' \in [total_producer_votepay_share : Nat,
                          total_vpay_share_change_rate : Nat,
                          last_vpay_state_update : 0 .. now]
      <3>1. CASE old
        <4> DEFINE rate == Rate + total_votes[p]
        <4>1. global' = [total_producer_votepay_share |-> Total + 0,
                         total_vpay_share_change_rate |-> rate,
                         last_vpay_state_update |-> now]
          <5> DEFINE r == total_votes[p]
          <5>1. r \in Int /\ 0 \in Int /\ Total + 0 >= 0 /\ Rate + r >= 0 /\ rate = Rate + r
            BY <2>4
          <5>2. global' = TotalUpdated(0, r)
            BY <2>1, <3>1
          <5> HIDE DEF r, rate
          <5> QED
            BY <1>2, <5>1, <5>2, TotalSettles
        <4>2. rate \in Nat
          BY <2>4
        <4>3. global' = [total_producer_votepay_share |-> Total,
                         total_vpay_share_change_rate |-> rate,
                         last_vpay_state_update |-> now]
          BY <2>4, <4>1
        <4> HIDE DEF rate
        <4>4. /\ Total' = Total /\ Rate' = rate
              /\ global' \in [total_producer_votepay_share : Nat,
                              total_vpay_share_change_rate : Nat,
                              last_vpay_state_update : 0 .. now]
          BY <1>1, <1>2, <2>4, <4>2, <4>3, AfterSettling
        <4> QED
          BY <3>1, <4>4 DEF rate
      <3>2. CASE ~old
        <4>1. Total' = Total /\ Rate' = Rate
          BY <1>1, <2>1, <3>2 DEF Total, Rate
        <4> QED
          BY <1>3, <2>1, <2>4, <3>2, <4>1 DEF ShareTypesOK
      <3> QED
        BY <3>1, <3>2
    <2>6. /\ \A q \in Producer \ {p} :
               /\ last_claim_time'[q] = last_claim_time[q]
               /\ votepay_share'[q] = votepay_share[q]
               /\ last_votepay_share_update'[q] = last_votepay_share_update[q]
          /\ votepay_share'[p] = 0 /\ last_votepay_share_update'[p] = now
          /\ last_votepay_share_update' \in [Producer -> 0 .. now]
      BY <1>1, <1>2, <1>3, <2>1, <2>2 DEF ShareTypesOK
    <2>7. ~old => total_votes[p] = 0
      BY <1>2 DEF RosterInv
    <2>8. Legacy = {} => ~old
      BY <1>2, <1>8 DEF RosterInv
    <2> DEFINE rate == Rate + IF old THEN total_votes[p] ELSE 0
               v == IF p \in Counted' THEN total_votes[p] ELSE 0
    <2>9. /\ rate \in {Rate + v - CountedVotes[p], Rate + total_votes[p]}
          /\ Legacy = {} => rate = Rate + v - CountedVotes[p]
          /\ rate \in Nat /\ Total = Total - CountedShares[p]
      BY <2>3, <2>4, <2>7, <2>8
    <2>10. SettledHaveNothing' /\ SharesCovered'
      <3>1. roster'.second = roster.second \union {p} /\ Rate' = rate
        BY <1>1, <2>5
      <3> HIDE DEF rate
      <3> QED
        BY <1>1, <2>4, <2>5, <2>6, <2>9, <3>1, ShareRestarts
    <2>11. ShareTypesOK'
      BY <1>1, <1>3, <1>5, <2>1, <2>5, <2>6 DEF ShareTypesOK
    <2> QED
      BY <1>6, <2>10, <2>11
  <1> QED
    BY <1>7, <1>8

\* What a producer may claim is its share, and part of the total.
LEMMA ClaimIsCovered ==
  ASSUME PayInv, NEW p \in Producer
  PROVE  /\ ClaimShare(p) = CountedShares[p]
         /\ CountedShares[p] \in Nat /\ CountedShares[p] <= Total
  <1>1. TypeOK /\ SettledHaveNothing
    BY DEF PayInv
  <1>2. ClaimShare(p) = CountedShares[p]
    <2>1. CASE p \in Counted
      BY <1>1, <2>1, WhoEarns DEF ClaimShare, CountedShares
    <2>2. CASE p \notin Counted /\ p \in roster.second
      <3>1. Settled(p) /\ votepay_share[p] = 0
        BY <1>1, <2>2, WhoEarns DEF SettledHaveNothing
      <3> QED
        BY <2>2, <3>1 DEF ClaimShare, ShareNow, CountedShares
    <2>3. CASE p \notin roster.second
      BY <1>1, <2>3, WhoEarns DEF ClaimShare, CountedShares
    <2> QED
      BY <2>1, <2>2, <2>3
  <1>3. /\ CountedShares \in [Producer -> Nat] /\ IsFiniteSet(Producer)
        /\ SumOf(CountedShares) \in Nat /\ Total \in Nat
    BY <1>1, ShareTypes
  <1>4. CountedShares[p] <= SumOf(CountedShares)
    BY <1>3, SumIsFinite, SumBoundsEntry
  <1>5. SumOf(CountedShares) <= Total
    BY DEF PayInv, SharesCovered
  <1> QED
    BY <1>2, <1>3, <1>4, <1>5

\* claimrewards: a claim takes the producer's share out of the total, and its
\* votes count again if they had stopped counting.
LEMMA ClaimShares ==
  ASSUME PayInv, NEW p \in Producer, NEW new, ClaimRewards(p, new)
  PROVE  RosterInv' /\ SettledHaveNothing' /\ SharesCovered' /\ ShareTypesOK'
  <1>1. /\ global' = TotalUpdated(-ClaimShare(p), RateRegained(p))
        /\ votepay_share' = [votepay_share EXCEPT ![p] = 0]
        /\ last_votepay_share_update' = [last_votepay_share_update EXCEPT ![p] = now]
        /\ last_claim_time' = [last_claim_time EXCEPT ![p] = now]
        /\ roster' = [roster EXCEPT !.second = @ \union {p}]
        /\ now' = now /\ total_votes' = total_votes /\ p \in roster.active
    BY DEF ClaimRewards, MayClaim
  <1>2. TypeOK /\ RosterInv /\ SettledHaveNothing /\ now \in Nat /\ now \in 0 .. now
    BY ShareTypes DEF PayInv
  <1>3. ShareTypesOK
    BY <1>2 DEF TypeOK, ShareTypesOK
  <1>4. /\ roster'.second = roster.second \union {p}
        /\ roster'.registered = roster.registered
        /\ roster' \in [registered : SUBSET Producer, active : SUBSET Producer,
                        second : SUBSET Producer]
    BY <1>1, <1>2 DEF RosterInv
  <1>5. RosterInv'
    BY <1>1, <1>2, <1>4 DEF RosterInv
  <1>6. /\ total_votes[p] \in Nat /\ Rate \in Nat /\ Total \in Nat
        /\ CountedVotes \in [Producer -> Nat] /\ CountedShares \in [Producer -> Nat]
        /\ SumOf(CountedShares) \in Nat /\ IsFiniteSet(Producer)
    BY <1>2, ShareTypes
  <1>7. ClaimShare(p) = CountedShares[p]
    BY ClaimIsCovered
  <1>8. RateRegained(p) = total_votes[p] - CountedVotes[p]
    BY <1>2, <1>6, WhoEarns DEF RateRegained, SettledOrNew, CountedVotes
  <1>9. CountedShares[p] \in Nat /\ CountedShares[p] <= Total /\ RateRegained(p) \in Nat
    <2>1. RateRegained(p) \in {total_votes[p], 0}
      BY DEF RateRegained
    <2> QED
      BY <1>6, <2>1, ClaimIsCovered
  <1> DEFINE rate == Rate + RateRegained(p)
             total == Total - CountedShares[p]
  <1>10. rate \in Nat /\ total \in Nat
    BY <1>6, <1>9
  <1>11. global' = [total_producer_votepay_share |-> total,
                    total_vpay_share_change_rate |-> rate,
                    last_vpay_state_update |-> now]
    <2> DEFINE g == -ClaimShare(p)
               r == RateRegained(p)
    <2>1. g \in Int /\ r \in Int /\ Total + g >= 0 /\ Rate + r >= 0 /\ total = Total + g
      BY <1>6, <1>7, <1>9
    <2>2. global' = TotalUpdated(g, r) /\ rate = Rate + r
      BY <1>1
    <2> HIDE DEF g, r, total, rate
    <2> QED
      BY <1>2, <2>1, <2>2, TotalSettles
  <1> HIDE DEF rate, total
  <1>12. /\ Total' = total /\ Rate' = rate
         /\ global' \in [total_producer_votepay_share : Nat,
                         total_vpay_share_change_rate : Nat,
                         last_vpay_state_update : 0 .. now]
    BY <1>1, <1>2, <1>10, <1>11, AfterSettling
  <1>13. /\ \A q \in Producer \ {p} :
              /\ last_claim_time'[q] = last_claim_time[q]
              /\ votepay_share'[q] = votepay_share[q]
              /\ last_votepay_share_update'[q] = last_votepay_share_update[q]
         /\ votepay_share'[p] = 0 /\ last_votepay_share_update'[p] = now
         /\ last_claim_time'[p] = now
         /\ last_votepay_share_update' \in [Producer -> 0 .. now]
         /\ votepay_share' \in [Producer -> Nat]
         /\ last_claim_time' \in [Producer -> 0 .. now \union {Never}]
    BY <1>1, <1>2, <1>3 DEF ShareTypesOK
  <1>14. p \in Counted'
    <2>1. now # Never
      BY <1>2, ProducerPayAssumption
    <2>2. ~Settled(p)'
      BY <1>2, <1>13, <2>1 DEF Settled, Threshold
    <2> QED
      BY <1>4, <2>2 DEF Counted
  <1>15. rate = Rate + (IF p \in Counted' THEN total_votes[p] ELSE 0) - CountedVotes[p]
    BY <1>6, <1>8, <1>14 DEF rate
  <1>16. SettledHaveNothing' /\ SharesCovered'
    BY <1>1, <1>4, <1>10, <1>12, <1>13, <1>15, ShareRestarts DEF total
  <1>17. \A q \in roster'.second : last_claim_time'[q] # Never
    <2>1. now # Never
      BY <1>2, ProducerPayAssumption
    <2>2. roster.second \subseteq Producer
      BY <1>2 DEF RosterInv
    <2> QED
      BY <1>3, <1>4, <1>13, <2>1, <2>2 DEF ShareTypesOK
  <1>18. ShareTypesOK'
    BY <1>1, <1>3, <1>12, <1>13, <1>17 DEF ShareTypesOK
  <1> QED
    BY <1>5, <1>16, <1>18

\* A change of votes reaches the total through what each producer gains or
\* loses: those that have crossed the threshold lose all and stop counting.
LEMMA VotesShares ==
  ASSUME PayInv, NEW S \in SUBSET Producer, NEW delta \in [S -> -MaxVotes .. MaxVotes],
         ChangeVotes(S, delta)
  PROVE  RosterInv' /\ SettledHaveNothing' /\ SharesCovered' /\ ShareTypesOK'
  <1> DEFINE touched == S \intersect roster.second
             losing == { p \in S : LosesShare(p) }
             lost == [p \in Producer |-> IF p \in losing THEN ShareNow(p) ELSE 0]
             g == [p \in S |-> RateGain(p, delta[p])]
             pos == [p \in Producer |-> IF p \in S /\ g[p] > 0 THEN g[p] ELSE 0]
             neg == [p \in Producer |-> IF p \in S /\ g[p] < 0 THEN -g[p] ELSE 0]
             none == [p \in Producer |-> 0]
             V == CountedVotes
             W == CountedShares
             V1 == CountedVotes'
             W1 == CountedShares'
  <1>1. /\ S \subseteq roster.registered
        /\ \A p \in S : total_votes[p] + delta[p] \in 0 .. MaxVotes
        /\ votepay_share' = [p \in Producer |->
             IF p \in losing THEN 0
             ELSE IF p \in touched THEN ShareNow(p) ELSE votepay_share[p]]
        /\ last_votepay_share_update' = [p \in Producer |->
             IF p \in touched THEN now ELSE last_votepay_share_update[p]]
        /\ global' = TotalUpdated(-SumOf([p \in losing |-> ShareNow(p)]), NetOver(S, g))
        /\ total_votes' = [p \in Producer |-> total_votes[p] + IF p \in S THEN delta[p] ELSE 0]
        /\ now' = now /\ roster' = roster /\ last_claim_time' = last_claim_time
    BY DEF ChangeVotes
  <1>2. TypeOK /\ RosterInv /\ SettledHaveNothing /\ now \in Nat /\ now \in 0 .. now
    BY ShareTypes DEF PayInv
  <1>3. ShareTypesOK
    BY <1>2 DEF TypeOK, ShareTypesOK
  <1>4. /\ V \in [Producer -> Nat] /\ W \in [Producer -> Nat] /\ IsFiniteSet(Producer)
        /\ SumOf(V) \in Nat /\ SumOf(W) \in Nat /\ Rate \in Nat /\ Total \in Nat
        /\ \A p \in Producer : ShareNow(p) \in Nat /\ total_votes[p] \in Nat
                               /\ votepay_share[p] \in Nat
    BY <1>2, ShareTypes
  <1>5. /\ total_votes' \in [Producer -> 0 .. MaxVotes]
        /\ votepay_share' \in [Producer -> Nat]
        /\ last_votepay_share_update' \in [Producer -> 0 .. now]
    <2>1. \A p \in Producer : total_votes'[p] \in 0 .. MaxVotes
      BY <1>1, <1>3, ProducerPayAssumption DEF ShareTypesOK
    <2>2. \A p \in Producer : votepay_share'[p] \in Nat
      BY <1>1, <1>4
    <2>3. \A p \in Producer : last_votepay_share_update'[p] \in 0 .. now
      BY <1>1, <1>2, <1>3 DEF ShareTypesOK
    <2> QED
      BY <1>1, <2>1, <2>2, <2>3
  <1>6. RosterInv'
    <2>1. \A p \in Producer \ roster.registered : total_votes'[p] = 0
      BY <1>1, <1>2 DEF RosterInv
    <2> QED
      BY <1>1, <1>2, <2>1 DEF RosterInv
  \* What becomes of one producer.
  <1>7. ASSUME NEW p \in Producer
        PROVE  /\ V1[p] + neg[p] = V[p] + pos[p]
               /\ W1[p] + lost[p] = W[p] + none[p]
               /\ V1[p] \in Nat /\ W1[p] \in Nat /\ neg[p] \in Nat /\ pos[p] \in Nat
               /\ lost[p] \in Nat
               /\ p \notin Counted' => votepay_share'[p] = 0
    <2> DEFINE u == last_votepay_share_update[p]
               c == last_claim_time[p]
    <2>1. /\ V1[p] = IF p \in Counted' THEN total_votes'[p] ELSE 0
          /\ W1[p] = IF p \in Counted' THEN ShareNow(p)' ELSE 0
          /\ V[p] = IF p \in Counted THEN total_votes[p] ELSE 0
          /\ W[p] = IF p \in Counted THEN ShareNow(p) ELSE 0
      BY DEF CountedVotes, CountedShares
    <2>2. p \in Counted' <=> p \in roster.second /\ ~Settled(p)'
      BY <1>1, <1>2 DEF Counted, RosterInv
    <2>3. p \in Counted <=> p \in roster.second /\ ~Settled(p)
      BY <1>2, WhoEarns
    <2>4. /\ ShareNow(p) \in Nat /\ total_votes[p] \in Nat /\ u \in 0 .. now
          /\ total_votes'[p] \in Nat /\ votepay_share[p] \in Nat
          /\ p \notin Counted => votepay_share[p] = 0
      BY <1>2, <1>4, <1>5, WhoEarns DEF SettledHaveNothing
    <2>5. p \in touched => /\ c \in 0 .. now /\ c # Never
                           /\ Settled(p) <=> c + 3 <= u
                           /\ Crossed(p) <=> now - c >= 3
      BY <1>2, WhoEarns DEF TypeOK
    <2>6. CASE p \in touched /\ ~Crossed(p)
      <3>1. ~Settled(p)
        BY <1>2, <2>6, WhoEarns
      <3>2. last_votepay_share_update'[p] = now
        BY <1>1, <2>6
      <3>3. ~Settled(p)'
        BY <1>1, <1>2, <2>5, <2>6, <3>2 DEF Settled, Threshold
      <3>4. p \notin losing
        BY <2>6 DEF LosesShare
      <3>5. votepay_share'[p] = ShareNow(p)
        BY <1>1, <2>6, <3>4
      <3>6. ShareNow(p)' = ShareNow(p)
        <4>1. ShareNow(p)' = votepay_share'[p] + total_votes'[p] * (now - now)
          BY <1>1, <3>2, <3>3 DEF ShareNow
        <4>2. total_votes'[p] * (now - now) = 0
          BY <1>2, <2>4
        <4> QED
          BY <2>4, <3>5, <4>1, <4>2
      <3>7. /\ p \in S /\ g[p] = delta[p] /\ delta[p] \in Int
            /\ total_votes'[p] = total_votes[p] + delta[p]
        BY <1>1, <2>6, ProducerPayAssumption DEF RateGain
      <3>8. lost[p] = 0 /\ none[p] = 0
        BY <3>4
      <3>9. V1[p] = total_votes[p] + delta[p] /\ V[p] = total_votes[p]
            /\ W1[p] = ShareNow(p) /\ W[p] = ShareNow(p) /\ p \in Counted'
        BY <2>1, <2>2, <2>3, <2>6, <3>1, <3>3, <3>6, <3>7
      <3>10. /\ pos[p] = IF delta[p] > 0 THEN delta[p] ELSE 0
             /\ neg[p] = IF delta[p] < 0 THEN -delta[p] ELSE 0
        BY <3>7
      <3> HIDE DEF V, W, V1, W1, lost, none, pos, neg, g
      <3> QED
        BY <2>4, <3>7, <3>8, <3>9, <3>10
    <2>7. CASE p \in touched /\ Crossed(p)
      <3>1. last_votepay_share_update'[p] = now
        BY <1>1, <2>7
      <3>2. Settled(p)' /\ p \notin Counted'
        <4>1. c + 3 <= now
          BY <1>2, <2>5, <2>7
        <4> QED
          BY <1>1, <2>2, <3>1, <4>1 DEF Settled, Threshold
      <3>3. p \in losing <=> ~Settled(p)
        BY <2>7 DEF LosesShare
      <3>4. votepay_share'[p] = IF Settled(p) THEN ShareNow(p) ELSE 0
        BY <1>1, <2>7, <3>3
      <3>5. Settled(p) => ShareNow(p) = 0
        BY <2>3, <2>4 DEF ShareNow
      <3>6. g[p] = IF Settled(p) THEN 0 ELSE -total_votes[p]
        BY <2>7 DEF RateGain
      <3>7. lost[p] = IF Settled(p) THEN 0 ELSE ShareNow(p)
        BY <3>3
      <3>8. /\ pos[p] = 0 /\ neg[p] = IF Settled(p) THEN 0 ELSE total_votes[p]
        BY <2>4, <2>7, <3>6
      <3>9. /\ V1[p] = 0 /\ W1[p] = 0 /\ none[p] = 0
            /\ V[p] = IF Settled(p) THEN 0 ELSE total_votes[p]
            /\ W[p] = IF Settled(p) THEN 0 ELSE ShareNow(p)
        BY <2>1, <2>3, <2>7, <3>2
      <3> HIDE DEF V, W, V1, W1, lost, none, pos, neg, g
      <3> QED
        BY <2>4, <3>4, <3>5, <3>7, <3>8, <3>9
    <2>8. CASE p \notin touched
      <3>1. /\ last_votepay_share_update'[p] = u /\ votepay_share'[p] = votepay_share[p]
            /\ p \notin losing
        BY <1>1, <2>8 DEF LosesShare
      <3>2. Settled(p)' <=> Settled(p)
        BY <1>1, <3>1 DEF Settled
      <3>3. p \in roster.second => p \notin S /\ total_votes'[p] = total_votes[p]
        BY <1>1, <2>4, <2>8
      <3>4. p \in Counted' <=> p \in Counted
        BY <2>2, <2>3, <3>2
      <3>5. pos[p] = 0 /\ neg[p] = 0 /\ lost[p] = 0 /\ none[p] = 0
        BY <2>8, <3>1 DEF RateGain
      <3>6. p \in Counted => ShareNow(p)' = ShareNow(p)
        BY <1>1, <2>3, <3>1, <3>2, <3>3 DEF ShareNow
      <3>7. V1[p] = V[p] /\ W1[p] = W[p]
        BY <2>1, <2>3, <3>3, <3>4, <3>6
      <3>8. V[p] \in Nat /\ W[p] \in Nat
        BY <2>1, <2>4
      <3> HIDE DEF V, W, V1, W1, lost, none, pos, neg, g
      <3> QED
        BY <2>4, <3>1, <3>4, <3>5, <3>7, <3>8
    <2> QED
      BY <2>6, <2>7, <2>8
  <1>8. SettledHaveNothing'
    BY <1>7 DEF SettledHaveNothing
  <1>9. /\ V1 \in [Producer -> Nat] /\ W1 \in [Producer -> Nat]
    <2>1. /\ V1 = [p \in Producer |-> IF p \in Counted' THEN total_votes'[p] ELSE 0]
          /\ W1 = [p \in Producer |-> IF p \in Counted' THEN ShareNow(p)' ELSE 0]
      BY DEF CountedVotes, CountedShares
    <2>2. \A p \in Producer : V1[p] \in Nat /\ W1[p] \in Nat
      BY <1>7
    <2> QED
      BY <2>1, <2>2
  <1>10. /\ lost \in [Producer -> Nat] /\ none \in [Producer -> Nat]
         /\ pos \in [Producer -> Nat] /\ neg \in [Producer -> Nat]
    <2>1. \A p \in Producer : lost[p] \in Nat /\ pos[p] \in Nat /\ neg[p] \in Nat
      BY <1>7
    <2> QED
      BY <2>1
  <1>11. SumOf([p \in losing |-> ShareNow(p)]) = SumOf(lost)
    <2>1. losing \subseteq Producer /\ \A p \in Producer \ losing : lost[p] = 0
      OBVIOUS
    <2>2. [p \in losing |-> lost[p]] = [p \in losing |-> ShareNow(p)]
      BY <2>1
    <2> HIDE DEF lost, losing
    <2>3. SumOf([p \in losing |-> lost[p]]) = SumOf(lost)
      BY <1>4, <1>10, <2>1, SumIsFinite, SumOfSupport
    <2> QED
      BY <2>2, <2>3
  <1>12. NetOver(S, g) = SumOf(pos) - SumOf(neg)
    <2>1. /\ [p \in S |-> pos[p]] = [p \in S |-> IF g[p] > 0 THEN g[p] ELSE 0]
          /\ [p \in S |-> neg[p]] = [p \in S |-> IF g[p] < 0 THEN -g[p] ELSE 0]
          /\ \A p \in Producer \ S : pos[p] = 0 /\ neg[p] = 0
      OBVIOUS
    <2> HIDE DEF pos, neg, g
    <2>2. SumOf([p \in S |-> pos[p]]) = SumOf(pos)
      BY <1>4, <1>10, <2>1, SumIsFinite, SumOfSupport
    <2>3. SumOf([p \in S |-> neg[p]]) = SumOf(neg)
      BY <1>4, <1>10, <2>1, SumIsFinite, SumOfSupport
    <2> QED
      BY <2>1, <2>2, <2>3 DEF NetOver
  <1>13. SumOf(CountedVotes)' = SumOf(V1) /\ SumOf(CountedShares)' = SumOf(W1)
    BY DEF SumOf, Units
  <1>14. SumOf(none) = 0
    BY SumOfZeros
  <1>15. SumOf(V) <= Rate /\ SumOf(W) <= Total
         /\ (Legacy = {} => SumOf(V) = Rate /\ SumOf(W) = Total)
    BY DEF PayInv, SharesCovered
  <1> DEFINE down == -SumOf([p \in losing |-> ShareNow(p)])
             up == NetOver(S, g)
             rate == Rate + up
             total == Total + down
  <1>16. global' = TotalUpdated(down, up)
    BY <1>1
  <1>17. down = -SumOf(lost) /\ up = SumOf(pos) - SumOf(neg)
    BY <1>11, <1>12
  <1>18. \A p \in Producer : /\ V1[p] + neg[p] = V[p] + pos[p]
                             /\ W1[p] + lost[p] = W[p] + none[p]
    BY <1>7
  <1> HIDE DEF V, W, V1, W1, lost, none, pos, neg, g, down, up
  <1>19. /\ SumOf(V1) + SumOf(neg) = SumOf(V) + SumOf(pos)
         /\ SumOf(V1) \in Nat /\ SumOf(neg) \in Nat /\ SumOf(pos) \in Nat
    BY <1>4, <1>9, <1>10, <1>18, SumsBalance
  <1>20. /\ SumOf(W1) + SumOf(lost) = SumOf(W) + SumOf(none)
         /\ SumOf(W1) \in Nat /\ SumOf(lost) \in Nat
    BY <1>4, <1>9, <1>10, <1>18, SumsBalance
  <1>21. down \in Int /\ up \in Int /\ rate >= SumOf(V1) /\ total >= SumOf(W1)
         /\ rate \in Nat /\ total \in Nat
         /\ (Legacy = {} => rate = SumOf(V1) /\ total = SumOf(W1))
    BY <1>4, <1>14, <1>15, <1>17, <1>19, <1>20
  <1>22. /\ Total' = total /\ Rate' = rate
         /\ global' \in [total_producer_votepay_share : Nat,
                         total_vpay_share_change_rate : Nat,
                         last_vpay_state_update : 0 .. now]
    <2>1. global' = [total_producer_votepay_share |-> total,
                     total_vpay_share_change_rate |-> rate,
                     last_vpay_state_update |-> now]
      BY <1>2, <1>16, <1>21, TotalSettles
    <2> HIDE DEF total, rate
    <2> QED
      BY <1>1, <1>2, <1>21, <2>1, AfterSettling
  <1>23. SharesCovered'
    <2> HIDE DEF total, rate
    <2> QED
      BY <1>13, <1>21, <1>22 DEF SharesCovered
  <1>24. ShareTypesOK'
    BY <1>1, <1>3, <1>5, <1>22 DEF ShareTypesOK
  <1> QED
    BY <1>6, <1>8, <1>23, <1>24

-----------------------------------------------------------------------------
(* The buckets.                                                            *)

\* Of what is issued no part is negative.
LEMMA IssueParts ==
  ASSUME TypeOK, NEW new \in Nat
  PROVE  ToPerBlock(new) \in Nat /\ ToPerVote(new) \in Nat
  <1> DEFINE i == factors.inflation_pay
             v == factors.votepay
             r == ToProducers(new)
  <1>1. /\ i \in Nat \ {0} /\ v \in Nat \ {0} /\ Precision \in Nat /\ Precision <= v
    <2>1. i \in Factors /\ v \in Factors
      BY DEF TypeOK
    <2>2. Precision \in Nat \ {0} /\ Factors \subseteq Nat /\ \A f \in Factors : f >= Precision
      BY ProducerPayAssumption
    <2> HIDE DEF i, v
    <2> QED
      BY <2>1, <2>2
  <1>2. r \in Nat
    <2>1. new * Precision \in Nat
      BY <1>1, ProductIsNat
    <2> DEFINE m == new * Precision
    <2>2. r = m \div i
      BY DEF ToProducers
    <2> HIDE DEF m, i, r
    <2> QED
      BY <1>1, <2>1, <2>2, DivisionBounds DEF m
  <1>3. ToPerBlock(new) = (r * Precision) \div v /\ ToPerVote(new) = r - ToPerBlock(new)
    BY DEF ToPerBlock, ToPerVote
  <1> HIDE DEF r, v
  <1>4. (r * Precision) \div v \in Nat /\ (r * Precision) \div v <= r
    BY <1>1, <1>2, PartAtMost
  <1> QED
    BY <1>2, <1>3, <1>4

\* The blocks of one producer are some of all.
LEMMA BlocksOfOne ==
  ASSUME TypeOK, BlocksAddUp, NEW p \in Producer
  PROVE  /\ unpaid_blocks \in [Producer -> Nat] /\ IsFiniteSet(Units(unpaid_blocks))
         /\ unpaid_blocks[p] \in Nat /\ unpaid_blocks[p] <= buckets.unpaid
         /\ buckets.unpaid \in Nat /\ buckets.unpaid = SumOf(unpaid_blocks)
  <1>1. /\ unpaid_blocks \in [Producer -> Nat] /\ IsFiniteSet(Producer)
        /\ buckets.unpaid \in Nat
    BY ProducerPayAssumption DEF TypeOK
  <1>2. IsFiniteSet(Units(unpaid_blocks))
    BY <1>1, SumIsFinite
  <1>3. unpaid_blocks[p] <= SumOf(unpaid_blocks)
    BY <1>1, <1>2, SumBoundsEntry
  <1> QED
    BY <1>1, <1>2, <1>3 DEF BlocksAddUp

\* No producer is paid more than a bucket holds.
LEMMA PayIsPart ==
  ASSUME TypeOK, BlocksAddUp, NEW p \in Producer, NEW bucket \in Nat
  PROVE  PerBlockPay(p, bucket) \in 0 .. bucket /\ PerVotePay(p, bucket) \in 0 .. bucket
  <1>1. PerBlockPay(p, bucket) \in 0 .. bucket
    <2>1. CASE buckets.unpaid > 0
      <3> DEFINE n == unpaid_blocks[p]
                 d == buckets.unpaid
      <3>1. n \in Nat /\ d \in Nat \ {0} /\ n <= d
        BY <2>1, BlocksOfOne
      <3>2. PerBlockPay(p, bucket) = (bucket * n) \div d
        BY <2>1 DEF PerBlockPay
      <3> HIDE DEF n, d
      <3>3. (bucket * n) \div d \in Nat /\ (bucket * n) \div d <= bucket
        BY <3>1, PartAtMost
      <3> QED
        BY <3>2, <3>3
    <2>2. CASE ~(buckets.unpaid > 0)
      BY <2>2 DEF PerBlockPay
    <2> QED
      BY <2>1, <2>2
  <1>2. PerVotePart(p, bucket) \in 0 .. bucket
    <2>1. CASE revision > 0
      <3> DEFINE total == TotalUpdated(0, 0).total_producer_votepay_share
                 part == (ClaimShare(p) * bucket) \div total
      <3>1. PerVotePart(p, bucket)
              = IF total > 0 /\ ~Crossed(p) THEN AtMost(part, bucket) ELSE 0
        BY <2>1 DEF PerVotePart
      <3>2. ClaimShare(p) \in Nat
        BY ShareTypes DEF ClaimShare
      <3>3. total \in Nat
        <4>1. Total \in Nat /\ Rate \in Nat
          BY ShareTypes
        <4>2. TotalUpdated(0, 0) = [total_producer_votepay_share |-> Total + 0,
                                    total_vpay_share_change_rate |-> Rate + 0,
                                    last_vpay_state_update |-> now]
          BY <4>1, TotalSettles
        <4> QED
          BY <4>1, <4>2
      <3>4. total > 0 => part \in Nat
        <4> DEFINE m == ClaimShare(p) * bucket
        <4>1. m \in Nat
          BY <3>2, ProductIsNat
        <4> HIDE DEF m, total
        <4>2. total > 0 => m \div total \in Nat
          BY <3>3, <4>1, DivisionBounds
        <4> QED
          BY <4>2 DEF m
      <3> HIDE DEF total, part
      <3> QED
        BY <3>1, <3>4 DEF AtMost
    <2>2. CASE ~(revision > 0)
      <3> DEFINE v == total_votes[p]
                 d == VoteWeight
      <3>1. total_votes \in [Producer -> Nat] /\ IsFiniteSet(Producer)
        BY ShareTypes DEF TypeOK
      <3>2. v \in Nat /\ d \in Nat /\ v <= d
        BY <3>1, SumIsFinite, SumBoundsEntry DEF VoteWeight
      <3>3. PerVotePart(p, bucket) = IF d > 0 THEN (bucket * v) \div d ELSE 0
        BY <2>2 DEF PerVotePart
      <3> HIDE DEF v, d
      <3>4. d > 0 => (bucket * v) \div d \in Nat /\ (bucket * v) \div d <= bucket
        BY <3>2, PartAtMost
      <3> QED
        BY <3>3, <3>4
    <2> QED
      BY <2>1, <2>2
  <1> QED
    BY <1>1, <1>2 DEF PerVotePay

\* claimrewards takes the same from a bucket as from its account.
LEMMA ClaimBooks ==
  ASSUME PayInv, NEW p \in Producer, NEW new, ClaimRewards(p, new)
  PROVE  /\ buckets' \in [perblock : Nat, pervote : Nat, last_fill : 0 .. now \union {Never},
                          unpaid : Nat]
         /\ balance' \in [bpay : Nat, vpay : Nat]
         /\ unpaid_blocks' \in [Producer -> Nat]
         /\ BlocksAddUp' /\ BucketsBacked'
  <1>1. TypeOK /\ BlocksAddUp /\ BucketsBacked /\ now \in Nat
    BY ShareTypes DEF PayInv
  <1>2. new \in Nat
    <2>1. CASE Fills
      <3>1. buckets.last_fill \in Nat /\ now > buckets.last_fill
        BY <1>1, <2>1 DEF Fills, TypeOK
      <3> DEFINE d == now - buckets.last_fill
      <3>2. d \in Nat /\ MaxInflation \in Nat
        BY <1>1, <3>1, ProducerPayAssumption
      <3>3. new \in 0 .. MaxInflation * d
        BY <2>1 DEF ClaimRewards
      <3> HIDE DEF d
      <3> QED
        BY <3>2, <3>3, ProductIsNat
    <2>2. CASE ~Fills
      BY <2>2 DEF ClaimRewards
    <2> QED
      BY <2>1, <2>2
  <1> DEFINE b == ToPerBlock(new)
             v == ToPerVote(new)
             perblock == buckets.perblock + b
             pervote == buckets.pervote + v
             blockPay == PerBlockPay(p, perblock)
             votePay == PerVotePay(p, pervote)
             fill == IF Fills THEN now ELSE buckets.last_fill
             x == balance.bpay + b
             y == balance.vpay + v
  <1>3. /\ buckets' = [perblock |-> perblock - blockPay, pervote |-> PerVoteLeft(p, pervote),
                       last_fill |-> fill, unpaid |-> BlocksLeft(p)]
        /\ balance' = [bpay |-> x - blockPay, vpay |-> y - votePay]
        /\ unpaid_blocks' = [unpaid_blocks EXCEPT ![p] = 0]
    <2> DEFINE funded == [bpay |-> x, vpay |-> y]
    <2>1. balance' = [bpay |-> funded.bpay - blockPay, vpay |-> funded.vpay - votePay]
      BY Zenon DEF ClaimRewards
    <2>2. buckets' = [perblock |-> perblock - blockPay, pervote |-> PerVoteLeft(p, pervote),
                      last_fill |-> fill, unpaid |-> BlocksLeft(p)]
      BY Zenon DEF ClaimRewards
    <2>3. unpaid_blocks' = [unpaid_blocks EXCEPT ![p] = 0]
      BY Zenon DEF ClaimRewards
    <2> HIDE DEF b, v, blockPay, votePay, x, y
    <2>4. funded.bpay = x /\ funded.vpay = y
      OBVIOUS
    <2> HIDE DEF funded
    <2>5. balance' = [bpay |-> x - blockPay, vpay |-> y - votePay]
      BY <2>1, <2>4
    <2> QED
      BY Zenon, <2>2, <2>3, <2>5
  <1>4. b \in Nat /\ v \in Nat
    BY <1>1, <1>2, IssueParts
  <1>5. /\ buckets.perblock \in Nat /\ buckets.pervote \in Nat
        /\ balance.bpay = buckets.perblock /\ balance.vpay = buckets.pervote
        /\ fill \in 0 .. now \union {Never}
    BY <1>1 DEF TypeOK, BucketsBacked
  <1>6. perblock \in Nat /\ pervote \in Nat
    BY <1>4, <1>5
  <1>7. blockPay \in 0 .. perblock /\ votePay \in 0 .. pervote
    BY <1>1, <1>6, PayIsPart
  <1>8. PerVoteLeft(p, pervote) = pervote - votePay
    BY DEF PerVoteLeft
  <1>9. /\ unpaid_blocks \in [Producer -> Nat] /\ IsFiniteSet(Units(unpaid_blocks))
        /\ unpaid_blocks[p] \in Nat /\ unpaid_blocks[p] <= buckets.unpaid
        /\ buckets.unpaid \in Nat /\ buckets.unpaid = SumOf(unpaid_blocks)
    BY <1>1, BlocksOfOne
  <1>10. BlocksLeft(p) \in Nat /\ BlocksLeft(p) = buckets.unpaid - unpaid_blocks[p]
    BY <1>9 DEF BlocksLeft
  <1>11. unpaid_blocks' \in [Producer -> Nat]
    BY <1>3, <1>9
  <1>12. SumOf(unpaid_blocks') = SumOf(unpaid_blocks) - unpaid_blocks[p]
    <2>1. unpaid_blocks'[p] = 0 /\ \A q \in Producer \ {p} : unpaid_blocks'[q] = unpaid_blocks[q]
      BY <1>3, <1>9
    <2> DEFINE f == unpaid_blocks
               h == unpaid_blocks'
    <2>2. /\ f \in [Producer -> Nat] /\ h \in [Producer -> Nat] /\ IsFiniteSet(Units(f))
          /\ h[p] = 0 /\ \A q \in Producer \ {p} : h[q] = f[q]
      BY <1>9, <1>11, <2>1
    <2> HIDE DEF f, h
    <2>3. SumOf(h) = SumOf(f) - f[p] + h[p]
      BY <2>2, SumOneEntry
    <2>4. SumOf(f) \in Nat /\ f[p] \in Nat
      BY <2>2, SumBoundsEntry
    <2> QED
      BY <2>2, <2>3, <2>4 DEF f, h
  <1>13. BlocksAddUp'
    BY <1>3, <1>9, <1>10, <1>12 DEF BlocksAddUp, SumOf, Units
  <1> DEFINE left == perblock - blockPay
             rest == pervote - votePay
  <1>14. left \in Nat /\ rest \in Nat
    BY <1>6, <1>7
  <1>15. x = perblock /\ y = pervote
    BY <1>5
  <1> HIDE DEF blockPay, votePay, perblock, pervote, b, v, fill, left, rest, x, y
  <1>16. /\ buckets' = [perblock |-> left, pervote |-> rest, last_fill |-> fill,
                        unpaid |-> BlocksLeft(p)]
         /\ balance' = [bpay |-> left, vpay |-> rest]
    BY <1>3, <1>8, <1>15 DEF left, rest
  <1> QED
    BY <1>5, <1>10, <1>11, <1>13, <1>14, <1>16 DEF BucketsBacked

\* onblock counts a block for its producer and for all.
LEMMA OnBlockBooks ==
  ASSUME PayInv, NEW p \in Producer, OnBlock(p)
  PROVE  /\ buckets' \in [perblock : Nat, pervote : Nat, last_fill : 0 .. now \union {Never},
                          unpaid : Nat]
         /\ unpaid_blocks' \in [Producer -> Nat]
         /\ BlocksAddUp' /\ BucketsBacked'
  <1> DEFINE counted == p \in roster.registered
             more == IF counted THEN 1 ELSE 0
             fill == IF buckets.last_fill = Never THEN now ELSE buckets.last_fill
             total == buckets.unpaid + more
             n == unpaid_blocks[p] + more
  <1>1. TypeOK /\ BlocksAddUp /\ BucketsBacked /\ now \in Nat
    BY ShareTypes DEF PayInv
  <1>2. /\ unpaid_blocks' = IF counted THEN [unpaid_blocks EXCEPT ![p] = @ + 1]
                            ELSE unpaid_blocks
        /\ buckets' = [buckets EXCEPT !.unpaid = total, !.last_fill = fill]
        /\ balance' = balance
    BY DEF OnBlock
  <1>3. /\ unpaid_blocks \in [Producer -> Nat] /\ IsFiniteSet(Units(unpaid_blocks))
        /\ unpaid_blocks[p] \in Nat
        /\ buckets.unpaid \in Nat /\ buckets.unpaid = SumOf(unpaid_blocks)
    BY <1>1, BlocksOfOne
  <1>4. /\ unpaid_blocks' \in [Producer -> Nat]
        /\ unpaid_blocks'[p] = n /\ \A q \in Producer \ {p} : unpaid_blocks'[q] = unpaid_blocks[q]
        /\ n \in Nat /\ total \in Nat
    <2>1. CASE counted
      BY <1>2, <1>3, <2>1
    <2>2. CASE ~counted
      BY <1>2, <1>3, <2>2
    <2> QED
      BY <2>1, <2>2
  <1>5. total = SumOf(unpaid_blocks) - unpaid_blocks[p] + n
    BY <1>3, <1>4
  <1>6. /\ buckets \in [perblock : Nat, pervote : Nat, last_fill : 0 .. now \union {Never},
                        unpaid : Nat]
        /\ fill \in 0 .. now \union {Never}
    BY <1>1 DEF TypeOK
  <1> HIDE DEF n, total, fill
  <1>7. SumOf(unpaid_blocks') = total
    <2> DEFINE f == unpaid_blocks
               h == unpaid_blocks'
    <2>2. /\ f \in [Producer -> Nat] /\ h \in [Producer -> Nat] /\ IsFiniteSet(Units(f))
          /\ h[p] = n /\ \A q \in Producer \ {p} : h[q] = f[q]
      BY <1>3, <1>4
    <2> HIDE DEF f, h
    <2>3. SumOf(h) = SumOf(f) - f[p] + h[p]
      BY <2>2, SumOneEntry
    <2> QED
      BY <1>5, <2>2, <2>3 DEF f, h
  <1>8. /\ buckets' \in [perblock : Nat, pervote : Nat, last_fill : 0 .. now \union {Never},
                         unpaid : Nat]
        /\ buckets'.unpaid = total /\ buckets'.perblock = buckets.perblock
        /\ buckets'.pervote = buckets.pervote
    BY <1>2, <1>4, <1>6
  <1>9. BlocksAddUp' /\ BucketsBacked'
    BY <1>1, <1>2, <1>7, <1>8 DEF BlocksAddUp, BucketsBacked, SumOf, Units
  <1> QED
    BY <1>4, <1>8, <1>9

-----------------------------------------------------------------------------
(* The invariant.                                                          *)

\* The types of the books and of what administers them.
BookTypesOK ==
  /\ now \in 0 .. LastTime /\ activated \in BOOLEAN /\ revision \in 0 .. MaxRevision
  /\ roster.active \subseteq roster.registered /\ roster.registered \subseteq Producer
  /\ roster.second \subseteq roster.registered
  /\ unpaid_blocks \in [Producer -> Nat]
  /\ buckets \in [perblock : Nat, pervote : Nat, last_fill : 0 .. now \union {Never}, unpaid : Nat]
  /\ factors \in [inflation_pay : Factors, votepay : Factors]
  /\ balance \in [bpay : Nat, vpay : Nat]

\* TypeOK in its two parts, before and after a step.
LEMMA TypesInParts ==
  /\ TypeOK <=> ShareTypesOK /\ BookTypesOK
  /\ ShareTypesOK' /\ BookTypesOK' => TypeOK'
  BY DEF TypeOK, ShareTypesOK, BookTypesOK

\* Nobody earns, is owed or has produced anything at first.
LEMMA PayInit == Init => PayInv
  <1> SUFFICES ASSUME Init PROVE PayInv
    OBVIOUS
  <1>1. /\ LastTime \in Nat /\ MaxVotes \in Nat \ {0} /\ Legacy \subseteq Producer
        /\ MaxRevision \in {0, 1}
    BY ProducerPayAssumption
  <1>2. TypeOK
    <2>1. 0 \in 0 .. 0 /\ 0 .. 1 \subseteq 0 .. MaxVotes
      BY <1>1
    <2>2. total_votes \in [Producer -> 0 .. MaxVotes]
      BY <2>1 DEF Init
    <2>3. ShareTypesOK
      BY <1>1, <2>1, <2>2 DEF Init, ShareTypesOK
    <2>4. BookTypesOK
      BY <1>1 DEF Init, BookTypesOK
    <2> QED
      BY <2>3, <2>4, TypesInParts
  <1>3. RosterInv
    BY <1>1 DEF Init, RosterInv
  <1> DEFINE none == [p \in Producer |-> 0]
  <1>4. SumOf(none) = 0
    BY SumOfZeros
  <1>5. BlocksAddUp /\ BucketsBacked
    BY <1>4 DEF Init, BlocksAddUp, BucketsBacked
  <1>6. Counted = {}
    BY DEF Init, Counted
  <1>7. SettledHaveNothing
    BY DEF Init, SettledHaveNothing
  <1>8. CountedVotes = none /\ CountedShares = none
    BY <1>6 DEF CountedVotes, CountedShares
  <1>9. Rate = 0 /\ Total = 0
    BY DEF Init, Rate, Total
  <1>10. SharesCovered
    BY <1>4, <1>8, <1>9 DEF SharesCovered
  <1> QED
    BY <1>2, <1>3, <1>5, <1>7, <1>10 DEF PayInv

\* Every action keeps the shares covered and the books even.
LEMMA PayNext == PayInv /\ [Next]_vars => PayInv'
  <1> SUFFICES ASSUME PayInv, [Next]_vars PROVE PayInv'
    OBVIOUS
  <1>1. /\ TypeOK /\ ShareTypesOK /\ BookTypesOK /\ RosterInv
        /\ BlocksAddUp /\ BucketsBacked /\ now \in Nat
    BY TypesInParts, ShareTypes DEF PayInv
  <1>2. ASSUME NEW S \in SUBSET Producer, NEW delta \in [S -> -MaxVotes .. MaxVotes],
               ChangeVotes(S, delta)
        PROVE  PayInv'
    <2>1. RosterInv' /\ SettledHaveNothing' /\ SharesCovered' /\ ShareTypesOK'
      BY <1>2, VotesShares
    <2>2. /\ UNCHANGED <<now, roster, unpaid_blocks, revision, buckets, factors, balance>>
          /\ activated' \in {activated, TRUE}
      BY <1>2 DEF ChangeVotes
    <2>3. BookTypesOK'
      BY <1>1, <2>2 DEF BookTypesOK
    <2>4. BlocksAddUp' /\ BucketsBacked'
      BY <1>1, <2>2 DEF BlocksAddUp, BucketsBacked, SumOf, Units
    <2> QED
      BY <2>1, <2>3, <2>4, TypesInParts DEF PayInv
  <1>3. ASSUME NEW p \in Producer, RegProducer(p)
        PROVE  PayInv'
    <2>1. RosterInv' /\ SettledHaveNothing' /\ SharesCovered' /\ ShareTypesOK'
      BY <1>3, RegProducerShares
    <2>2. /\ UNCHANGED <<now, activated, unpaid_blocks, revision, buckets, factors, balance>>
          /\ roster' = [registered |-> roster.registered \union {p},
                        active |-> roster.active \union {p},
                        second |-> roster.second \union {p}]
      BY <1>3 DEF RegProducer
    <2>3. BookTypesOK'
      BY <1>1, <2>2 DEF BookTypesOK
    <2>4. BlocksAddUp' /\ BucketsBacked'
      BY <1>1, <2>2 DEF BlocksAddUp, BucketsBacked, SumOf, Units
    <2> QED
      BY <2>1, <2>3, <2>4, TypesInParts DEF PayInv
  <1>4. ASSUME NEW p \in Producer, Deactivate(p)
        PROVE  PayInv'
    <2>1. /\ UNCHANGED <<now, activated, total_votes, last_claim_time, unpaid_blocks, shares,
                         revision, buckets, factors, balance>>
          /\ roster' = [roster EXCEPT !.active = @ \ {p}]
      BY <1>4 DEF Deactivate
    <2>2. /\ roster' \in [registered : SUBSET Producer, active : SUBSET Producer,
                          second : SUBSET Producer]
          /\ roster'.second = roster.second /\ roster'.registered = roster.registered
          /\ roster'.active \subseteq roster.active
      BY <1>1, <2>1 DEF RosterInv
    <2>3. RosterInv' /\ SettledHaveNothing' /\ SharesCovered'
      BY <2>1, <2>2, SharesStand
    <2>4. BookTypesOK'
      BY <1>1, <2>1, <2>2 DEF BookTypesOK
    <2>5. ShareTypesOK'
      BY <1>1, <2>1, <2>2 DEF ShareTypesOK, shares
    <2>6. BlocksAddUp' /\ BucketsBacked'
      BY <1>1, <2>1 DEF BlocksAddUp, BucketsBacked, SumOf, Units
    <2> QED
      BY <2>3, <2>4, <2>5, <2>6, TypesInParts DEF PayInv
  <1>5. ASSUME NEW p \in Producer, OnBlock(p)
        PROVE  PayInv'
    <2>1. UNCHANGED <<now, activated, roster, total_votes, last_claim_time, shares, revision,
                      factors, balance>>
      BY <1>5 DEF OnBlock
    <2>2. RosterInv' /\ SettledHaveNothing' /\ SharesCovered'
      BY <1>1, <2>1, SharesStand DEF RosterInv
    <2>3. /\ buckets' \in [perblock : Nat, pervote : Nat, last_fill : 0 .. now \union {Never},
                           unpaid : Nat]
          /\ unpaid_blocks' \in [Producer -> Nat]
          /\ BlocksAddUp' /\ BucketsBacked'
      BY <1>5, OnBlockBooks
    <2>4. BookTypesOK'
      BY <1>1, <2>1, <2>3 DEF BookTypesOK
    <2>5. ShareTypesOK'
      BY <1>1, <2>1 DEF ShareTypesOK, shares
    <2> QED
      BY <2>2, <2>3, <2>4, <2>5, TypesInParts DEF PayInv
  <1>6. ASSUME NEW p \in Producer, NEW new, ClaimRewards(p, new)
        PROVE  PayInv'
    <2>1. /\ UNCHANGED <<now, activated, total_votes, revision, factors>>
          /\ roster' = [roster EXCEPT !.second = @ \union {p}]
          /\ p \in roster.active
      BY <1>6 DEF ClaimRewards, MayClaim
    <2>2. RosterInv' /\ SettledHaveNothing' /\ SharesCovered' /\ ShareTypesOK'
      BY <1>6, ClaimShares
    <2>3. /\ buckets' \in [perblock : Nat, pervote : Nat, last_fill : 0 .. now \union {Never},
                           unpaid : Nat]
          /\ balance' \in [bpay : Nat, vpay : Nat]
          /\ unpaid_blocks' \in [Producer -> Nat]
          /\ BlocksAddUp' /\ BucketsBacked'
      BY <1>6, ClaimBooks
    <2>4. /\ roster'.registered = roster.registered /\ roster'.active = roster.active
          /\ roster'.second = roster.second \union {p}
      BY <1>1, <2>1 DEF RosterInv
    <2>5. BookTypesOK'
      BY <1>1, <2>1, <2>3, <2>4 DEF BookTypesOK
    <2> QED
      BY <2>2, <2>3, <2>5, TypesInParts DEF PayInv
  <1>7. CASE \/ UpdtRevision
             \/ \E f, g \in Factors : SetInflation(f, g)
             \/ UNCHANGED vars
    <2>1. /\ UNCHANGED <<now, activated, roster, total_votes, last_claim_time, unpaid_blocks,
                         shares, buckets, balance>>
          /\ revision' \in 0 .. MaxRevision
          /\ factors' \in [inflation_pay : Factors, votepay : Factors]
      <3>1. MaxRevision \in Nat /\ revision \in 0 .. MaxRevision
            /\ factors \in [inflation_pay : Factors, votepay : Factors]
        BY <1>1, ProducerPayAssumption DEF BookTypesOK
      <3> QED
        BY <1>7, <3>1 DEF UpdtRevision, SetInflation, vars
    <2>2. RosterInv' /\ SettledHaveNothing' /\ SharesCovered'
      BY <1>1, <2>1, SharesStand DEF RosterInv
    <2>3. BookTypesOK'
      BY <1>1, <2>1 DEF BookTypesOK
    <2>4. ShareTypesOK'
      BY <1>1, <2>1 DEF ShareTypesOK, shares
    <2>5. BlocksAddUp' /\ BucketsBacked'
      BY <1>1, <2>1 DEF BlocksAddUp, BucketsBacked, SumOf, Units
    <2> QED
      BY <2>2, <2>3, <2>4, <2>5, TypesInParts DEF PayInv
  <1>8. CASE NextDay
    <2>1. /\ UNCHANGED <<activated, roster, total_votes, last_claim_time, unpaid_blocks, shares,
                         revision, buckets, factors, balance>>
          /\ now' = now + 1 /\ now < LastTime
      BY <1>8 DEF NextDay
    <2>2. LastTime \in Nat /\ now' \in 0 .. LastTime /\ 0 .. now \subseteq 0 .. now'
      BY <1>1, <2>1, ProducerPayAssumption
    <2>3. BookTypesOK'
      BY <1>1, <2>1, <2>2 DEF BookTypesOK
    <2>4. ShareTypesOK'
      BY <1>1, <2>1, <2>2 DEF ShareTypesOK, shares
    <2>5. TypeOK'
      BY <2>3, <2>4, TypesInParts
    <2>6. RosterInv' /\ SettledHaveNothing' /\ SharesCovered'
      BY <1>8, <2>5, DayKeepsShares
    <2>7. BlocksAddUp' /\ BucketsBacked'
      BY <1>1, <2>1 DEF BlocksAddUp, BucketsBacked, SumOf, Units
    <2> QED
      BY <2>5, <2>6, <2>7 DEF PayInv
  <1> QED
    BY <1>2, <1>3, <1>4, <1>5, <1>6, <1>7, <1>8 DEF Next

\* Brought up to date, the total is what the rate has made of it.
LEMMA TotalNow ==
  ASSUME TypeOK
  PROVE  TotalUpdated(0, 0).total_producer_votepay_share = Total
  <1>1. Total \in Nat /\ Rate \in Nat
    BY ShareTypes
  <1>2. TotalUpdated(0, 0) = [total_producer_votepay_share |-> Total + 0,
                              total_vpay_share_change_rate |-> Rate + 0,
                              last_vpay_state_update |-> now]
    BY <1>1, TotalSettles
  <1> QED
    BY <1>1, <1>2

\* What follows from the invariant: all that a claim finds is there.
LEMMA PayIsCovered == PayInv => PayIsBacked
  <1> SUFFICES ASSUME PayInv PROVE PayIsBacked
    OBVIOUS
  <1>1. TypeOK /\ BlocksAddUp /\ BucketsBacked
    BY DEF PayInv
  <1>2. /\ buckets.perblock \in Nat /\ buckets.pervote \in Nat
        /\ buckets.perblock = balance.bpay /\ buckets.pervote = balance.vpay
        /\ roster.active \subseteq Producer
    BY <1>1 DEF TypeOK, BucketsBacked
  <1>3. ASSUME NEW p \in roster.active
        PROVE  /\ PerBlockPay(p, buckets.perblock) <= balance.bpay
               /\ PerVotePay(p, buckets.pervote) <= balance.vpay
               /\ ClaimShare(p) <= TotalUpdated(0, 0).total_producer_votepay_share
    <2>1. p \in Producer
      BY <1>2
    <2>2. PerBlockPay(p, buckets.perblock) \in 0 .. buckets.perblock
      BY <1>1, <1>2, <2>1, PayIsPart
    <2>3. PerVotePay(p, buckets.pervote) \in 0 .. buckets.pervote
      BY <1>1, <1>2, <2>1, PayIsPart
    <2>4. ClaimShare(p) <= Total
      BY <2>1, ClaimIsCovered
    <2> QED
      BY <1>1, <1>2, <2>2, <2>3, <2>4, TotalNow
  <1>4. ClaimsArePayable
    BY <1>3 DEF ClaimsArePayable
  <1> QED
    BY <1>1, <1>4 DEF PayIsBacked

\* Without producers of old, what follows is an equality.
LEMMA SharesAreExact == PayInv /\ Legacy = {} => SharesAddUp
  <1> SUFFICES ASSUME PayInv, Legacy = {} PROVE SharesAddUp
    OBVIOUS
  <1>1. TypeOK /\ SettledHaveNothing /\ Counted \subseteq Producer
    BY DEF PayInv, TypeOK, Counted
  <1>2. SumOf(CountedVotes) = Rate /\ SumOf(CountedShares) = Total
    BY DEF PayInv, SharesCovered
  <1>3. /\ CountedVotes \in [Producer -> Nat] /\ CountedShares \in [Producer -> Nat]
        /\ IsFiniteSet(Units(CountedVotes)) /\ IsFiniteSet(Units(CountedShares))
    BY <1>1, ShareTypes, SumIsFinite
  <1>4. /\ \A p \in Producer \ Counted : CountedVotes[p] = 0 /\ CountedShares[p] = 0
        /\ [p \in Counted |-> CountedVotes[p]] = [p \in Counted |-> total_votes[p]]
        /\ [p \in Counted |-> CountedShares[p]] = [p \in Counted |-> ShareNow(p)]
    BY <1>1 DEF CountedVotes, CountedShares
  <1>5. SumOf([p \in Counted |-> CountedVotes[p]]) = SumOf(CountedVotes)
    BY <1>1, <1>3, <1>4, SumOfSupport
  <1>6. SumOf([p \in Counted |-> CountedShares[p]]) = SumOf(CountedShares)
    BY <1>1, <1>3, <1>4, SumOfSupport
  <1>7. RateAddsUp
    BY <1>2, <1>4, <1>5 DEF RateAddsUp, Rate
  <1> QED
    BY <1>1, <1>2, <1>4, <1>6, <1>7, TotalNow DEF SharesAddUp, SettledHaveNothing

-----------------------------------------------------------------------------

\* claimrewards never finds less in eosio.bpay or eosio.vpay than it pays, nor
\* less in the total of the shares than a producer claims, whoever registered
\* when, and the books of blocks and buckets stay even.
THEOREM PayStaysBacked == Spec => []PayIsBacked
  <1>1. PayInv /\ [Next]_vars => PayInv'
    BY PayNext
  <1> QED
    BY <1>1, PayInit, PayIsCovered, PTL DEF Spec

\* update_total_votepay_share extrapolates the total of all shares from one
\* rate, and it is always what update_producer_votepay_share brings the
\* producers to one by one, however late each claims, registers, is voted for
\* or falls behind the threshold, when no producer is left from before
\* producers2 existed.
THEOREM SharesStayExact ==
  ASSUME Legacy = {}
  PROVE  Spec => []SharesAddUp
  <1>1. PayInv /\ [Next]_vars => PayInv'
    BY PayNext
  <1>2. PayInv => SharesAddUp
    BY SharesAreExact
  <1> QED
    BY <1>1, <1>2, PayInit, PTL DEF Spec
-----------------------------------------------------------------------------
(* Pay for rounds, once staking pools exist (PoolPay).                     *)

CONSTANTS Pool, MaxPoolVotes, BlocksPerRound, LastSlot, MaxNumPay, RatioParts, RatioOf,
          MaxTarget, MaxPoolPay

VARIABLES configured, registered, active, pool_votes, listed,
          slot, round, vote_pay, pools, tokens

Rounds == INSTANCE PoolPay

\* The constants of PoolPay, and of the tables it uses.
RoundsConstants ==
  Rounds!PoolPayConstants /\ IsFiniteSet(Pool) /\ MaxPoolVotes \in Nat

\* Before pools exist no round is counted.  A finished round is paid for in
\* one that comes after it.
RoundsInv ==
  /\ Rounds!TypeOK /\ Rounds!RoundsArePaidOnce
  /\ ~configured => round = [interval_start |-> 0, blocks |-> 0, unpaid_blocks |-> 0]

\* The sums of that module are those of this one.
LEMMA RoundsSums ==
  /\ \A f : Rounds!SumOf(f) = SumOf(f)
  /\ \A S : Rounds!Cardinality(S) = Cardinality(S)
  <1>1. ASSUME NEW f
        PROVE  Rounds!SumOf(f) = SumOf(f)
    BY Zenon DEF Rounds!SumOf, Rounds!Units, Rounds!Cardinality, SumOf, Units, Cardinality
  <1>2. ASSUME NEW S
        PROVE  Rounds!Cardinality(S) = Cardinality(S)
    BY Zenon DEF Rounds!Cardinality, Cardinality
  <1> QED
    BY <1>1, <1>2

\* The slots of rounds.
LEMMA RoundTimes ==
  ASSUME RoundsConstants, NEW s \in Nat
  PROVE  /\ Rounds!RoundOf(s) \in 0 .. s
         /\ s < Rounds!RoundOf(s) + BlocksPerRound
         /\ Rounds!RoundOf(s) \div BlocksPerRound = s \div BlocksPerRound
         /\ s \div BlocksPerRound \in Nat
  <1> DEFINE b == BlocksPerRound
             q == s \div b
  <1>1. b \in Nat \ {0}
    BY DEF RoundsConstants, Rounds!PoolPayConstants
  <1>2. q \in Nat /\ b * q <= s /\ s < b * q + b
    BY <1>1, DivisionBounds
  <1>3. Rounds!RoundOf(s) = q * b
    BY DEF Rounds!RoundOf
  <1> HIDE DEF q, b
  <1>4. q * b \in Nat /\ q * b = b * q
    BY <1>1, <1>2
  <1>5. (q * b) \div b = q
    BY <1>1, <1>2
  <1> QED
    BY <1>1, <1>2, <1>3, <1>4, <1>5 DEF q, b

\* Blocks are counted in the round they belong to, and paid for at most once.
LEMMA OnBlockRounds ==
  ASSUME RoundsConstants, RoundsInv, NEW s \in 0 .. LastSlot, Rounds!OnBlock(s)
  PROVE  RoundsInv'
  <1>1. /\ LastSlot \in Nat /\ BlocksPerRound \in Nat \ {0} /\ MaxPoolPay \in Nat
        /\ s \in Nat /\ s <= LastSlot
    BY DEF RoundsConstants, Rounds!PoolPayConstants
  <1>2. /\ slot \in Nat /\ slot <= s /\ slot' = s + 1
        /\ round \in [interval_start : 0 .. LastSlot + 1, blocks : Nat, unpaid_blocks : Nat]
        /\ round.blocks <= slot - round.interval_start
        /\ round.blocks <= BlocksPerRound /\ round.unpaid_blocks <= BlocksPerRound
    BY DEF RoundsInv, Rounds!TypeOK, Rounds!RoundsArePaidOnce, Rounds!RoundsAreFull, Rounds!OnBlock
  <1>3. UNCHANGED <<Rounds!tables, vote_pay, pools, tokens>>
    BY DEF Rounds!OnBlock
  <1>4. UNCHANGED <<configured, registered, active, pool_votes, listed, vote_pay, pools, tokens>>
    BY <1>3 DEF Rounds!tables
  <1>5. Rounds!TablesTypeOK' /\ Rounds!PayIsBacked'
    BY <1>4 DEF RoundsInv, Rounds!TypeOK, Rounds!TablesTypeOK, Rounds!RoundsArePaidOnce,
                Rounds!PayIsBacked, Rounds!SumOf, Rounds!Units
  <1> DEFINE start == round.interval_start
             over == start \div BlocksPerRound
             n == Cardinality(Pool)
             m == MaxPoolPay * n
             paidFor == IF round.unpaid_blocks > 0 THEN over - 1 ELSE over
             paidFor1 == IF round'.unpaid_blocks > 0 THEN round'.interval_start \div BlocksPerRound - 1
                         ELSE round'.interval_start \div BlocksPerRound
  <1>6. over \in Nat /\ m \in Nat
    <2>1. n \in Nat
      BY FS_CardinalityType DEF RoundsConstants
    <2>2. m \in Nat
      BY <1>1, <2>1, ProductIsNat
    <2>3. start \in Nat
      BY <1>2
    <2> HIDE DEF start
    <2>4. over \in Nat
      BY <1>1, <2>3, DivisionBounds
    <2> QED
      BY <2>2, <2>4
  <1>7. tokens.srpool <= m * paidFor /\ tokens.srpool \in Nat
    BY RoundsSums DEF RoundsInv, Rounds!TypeOK, Rounds!RoundsArePaidOnce, Rounds!OncePerRound
  <1>8. CASE ~configured \/ ~Rounds!RoundIsOver(s)
    <2>1. /\ round' = round \/ round' = [round EXCEPT !.blocks = @ + 1]
          /\ ~configured => round' = round
          /\ configured => s < start + BlocksPerRound /\ round' = [round EXCEPT !.blocks = @ + 1]
      BY <1>1, <1>2, <1>8 DEF Rounds!OnBlock, Rounds!RoundIsOver
    <2>2. /\ round'.interval_start = start /\ round'.unpaid_blocks = round.unpaid_blocks
          /\ round'.blocks \in {round.blocks, round.blocks + 1}
          /\ ~configured => round'.blocks = round.blocks
          /\ round' \in [interval_start : 0 .. LastSlot + 1, blocks : Nat, unpaid_blocks : Nat]
      BY <1>2, <2>1
    <2>3. Rounds!RoundsAreFull'
      BY <1>1, <1>2, <2>1, <2>2 DEF Rounds!RoundsAreFull
    <2>4. Rounds!OncePerRound'
      BY <1>4, <2>2 DEF RoundsInv, Rounds!RoundsArePaidOnce, Rounds!OncePerRound
    <2>5. Rounds!TypeOK'
      BY <1>1, <1>2, <1>4, <1>5, <2>2 DEF RoundsInv, Rounds!TypeOK
    <2>6. ~configured' => round' = [interval_start |-> 0, blocks |-> 0, unpaid_blocks |-> 0]
      BY <1>4, <2>1 DEF RoundsInv
    <2> QED
      BY <1>5, <2>3, <2>4, <2>5, <2>6 DEF RoundsInv, Rounds!RoundsArePaidOnce
  <1>9. CASE configured /\ Rounds!RoundIsOver(s)
    <2>1. round' = [interval_start |-> Rounds!RoundOf(s), blocks |-> 1,
                    unpaid_blocks |-> round.blocks]
      BY <1>9 DEF Rounds!OnBlock, Rounds!UnpaidAfterRound
    <2>2. /\ Rounds!RoundOf(s) \in 0 .. s
          /\ Rounds!RoundOf(s) \div BlocksPerRound = s \div BlocksPerRound
          /\ s \div BlocksPerRound \in Nat
      BY <1>1, RoundTimes
    <2>3. over + 1 <= s \div BlocksPerRound
      <3> DEFINE b == BlocksPerRound
                 t == start + b
      <3>1. t \in Nat /\ s >= t /\ start \in Nat /\ b \in Nat \ {0}
        BY <1>1, <1>2, <1>9 DEF Rounds!RoundIsOver
      <3>2. t \div b = over + 1
        <4>1. t \div b = (start \div b) + 1
          <5> HIDE DEF start, b
          <5> QED
            BY <3>1 DEF t
        <4> QED
          BY <4>1
      <3> HIDE DEF t, b
      <3>3. t \div b <= s \div b
        BY <1>1, <3>1, DivisionMonotonic
      <3> QED
        BY <3>2, <3>3 DEF b
    <2>4. paidFor1 \in Nat /\ paidFor <= paidFor1 /\ paidFor \in Int
      <3> DEFINE q == s \div BlocksPerRound
      <3>1. paidFor1 \in {q, q - 1} /\ paidFor \in {over, over - 1}
        BY <2>1, <2>2
      <3> HIDE DEF q, over
      <3> QED
        BY <1>6, <2>2, <2>3, <3>1 DEF q
    <2>5. tokens.srpool <= m * paidFor1
      <3>1. m * paidFor <= m * paidFor1
        <4> HIDE DEF m, paidFor, paidFor1
        <4>1. CASE paidFor >= 0
          BY <1>6, <2>4, <4>1, ProductMonotonic
        <4>2. CASE paidFor < 0
          <5>1. m * paidFor1 \in Nat
            BY <1>6, <2>4, ProductIsNat
          <5>2. m * paidFor <= 0
            BY <1>6, <2>4, <4>2
          <5>3. m * paidFor \in Int
            BY <1>6, <2>4
          <5> QED
            BY <5>1, <5>2, <5>3
        <4> QED
          BY <2>4, <4>1, <4>2
      <3> HIDE DEF m, paidFor, paidFor1
      <3>2. m * paidFor \in Int /\ m * paidFor1 \in Int
        BY <1>6, <2>4
      <3> QED
        BY <1>7, <3>1, <3>2
    <2>6. Rounds!OncePerRound'
      BY <1>4, <2>5, RoundsSums DEF Rounds!OncePerRound
    <2>7. Rounds!RoundsAreFull'
      BY <1>1, <1>2, <2>1, <2>2 DEF Rounds!RoundsAreFull
    <2>8. Rounds!TypeOK'
      BY <1>1, <1>2, <1>4, <1>5, <2>1, <2>2 DEF RoundsInv, Rounds!TypeOK
    <2> QED
      BY <1>4, <1>5, <1>9, <2>6, <2>7, <2>8 DEF RoundsInv, Rounds!RoundsArePaidOnce
  <1> QED
    BY <1>8, <1>9

\* What a round's pay gives to each producer.
LEMMA PayOfRound ==
  ASSUME RoundsConstants, Rounds!TypeOK, NEW target \in Nat, NEW tops \in SUBSET Producer,
         NEW first \in SUBSET Producer,
         NEW S \in IF target > 0 /\ Rounds!AllVotes > 0
                   THEN Rounds!PaidSets(tops, Rounds!Refreshed(first)) ELSE {{}}
  PROVE  /\ S \subseteq Producer
         /\ S # {} => Rounds!AllVotes \in Nat \ {0}
         /\ Rounds!Refreshed(first).votes \in [Producer -> Nat]
         /\ Rounds!Pay(target, S, Rounds!Refreshed(first)) \in [Producer -> Nat]
  <1> DEFINE list == Rounds!Refreshed(first)
             all == Rounds!AllVotes
             pay == Rounds!Pay(target, S, list)
  <1>1. /\ listed \in [row : SUBSET registered, active : SUBSET listed.row,
                       votes : [Producer -> 0 .. MaxPoolVotes]]
        /\ pool_votes \in [Producer -> 0 .. MaxPoolVotes]
    BY DEF Rounds!TypeOK, Rounds!TablesTypeOK
  <1>2. list.votes = [p \in Producer |-> IF p \in first THEN pool_votes[p] ELSE listed.votes[p]]
    BY <1>1 DEF Rounds!Refreshed
  <1>3. list.votes \in [Producer -> Nat]
    BY <1>1, <1>2 DEF RoundsConstants
  <1> HIDE DEF list
  <1>4. S \subseteq Producer /\ (S # {} => all > 0)
    BY DEF Rounds!PaidSets, list
  <1>5. all \in Nat
    <2>1. pool_votes \in [Producer -> Nat] /\ IsFiniteSet(Producer)
      BY <1>1, ProducerPayAssumption DEF RoundsConstants
    <2>2. IsFiniteSet(Units(pool_votes))
      BY <2>1, SumIsFinite
    <2>3. SumOf(pool_votes) \in Nat
      BY <2>2, FS_CardinalityType DEF SumOf
    <2> QED
      BY <2>3, RoundsSums DEF Rounds!AllVotes
  <1>6. pay = [p \in Producer |-> IF p \in S THEN (target * list.votes[p]) \div all ELSE 0]
    BY DEF Rounds!Pay
  <1> HIDE DEF all, pay
  <1>7. ASSUME NEW p \in S
        PROVE  (target * list.votes[p]) \div all \in Nat
    <2> DEFINE x == target * list.votes[p]
    <2>1. all \in Nat \ {0} /\ x \in Nat
      BY <1>3, <1>4, <1>5, <1>7, ProductIsNat
    <2> HIDE DEF x
    <2>2. x \div all \in Nat
      BY <2>1, DivisionBounds
    <2> QED
      BY <2>2 DEF x
  <1>8. pay \in [Producer -> Nat]
    BY <1>6, <1>7
  <1> QED
    BY <1>3, <1>4, <1>5, <1>8 DEF list, all, pay

\* updatepay pays once for the round that has ended, and issues what it pays.
LEMMA UpdatePayRounds ==
  ASSUME RoundsConstants, RoundsInv, NEW target \in 0 .. MaxTarget,
         NEW amount \in 0 .. MaxPoolPay, NEW staked \in SUBSET Pool,
         Rounds!UpdatePay(target, amount, staked)
  PROVE  RoundsInv'
  <1>1. /\ LastSlot \in Nat /\ BlocksPerRound \in Nat \ {0} /\ MaxPoolPay \in Nat
        /\ MaxTarget \in Nat /\ target \in Nat /\ amount \in Nat /\ amount <= MaxPoolPay
        /\ IsFiniteSet(Pool) /\ IsFiniteSet(Producer)
    BY ProducerPayAssumption DEF RoundsConstants, Rounds!PoolPayConstants
  <1>2. /\ configured /\ round.unpaid_blocks > 0
        /\ round' = [round EXCEPT !.unpaid_blocks = 0]
        /\ pools' = [i \in Pool |-> pools[i] + Rounds!PoolPay(staked, amount)[i]]
        /\ UNCHANGED <<configured, registered, active, pool_votes, slot>>
    BY DEF Rounds!UpdatePay, Rounds!NoneUnpaid
  <1>3. /\ listed \in [row : SUBSET registered, active : SUBSET listed.row,
                       votes : [Producer -> 0 .. MaxPoolVotes]]
        /\ pool_votes \in [Producer -> 0 .. MaxPoolVotes]
        /\ active \subseteq registered /\ registered \subseteq Producer /\ configured \in BOOLEAN
        /\ round \in [interval_start : 0 .. LastSlot + 1, blocks : Nat, unpaid_blocks : Nat]
        /\ vote_pay \in [Producer -> Nat] /\ pools \in [Pool -> Nat]
        /\ tokens \in [bpspay : Nat, srpool : Nat] /\ slot \in 0 .. LastSlot + 1
    BY DEF RoundsInv, Rounds!TypeOK, Rounds!TablesTypeOK
  <1>4. PICK first \in Rounds!TopActive(MaxNumPay, listed) :
          /\ listed' = Rounds!Refreshed(first)
          /\ \E tops \in Rounds!TopActive(MaxNumPay, Rounds!Refreshed(first)) :
             \E S \in IF target > 0 /\ Rounds!AllVotes > 0
                      THEN Rounds!PaidSets(tops, Rounds!Refreshed(first)) ELSE {{}} :
               LET pay == Rounds!Pay(target, S, Rounds!Refreshed(first))
               IN  /\ vote_pay' = [p \in Producer |-> vote_pay[p] + pay[p]]
                   /\ tokens' = [bpspay |-> tokens.bpspay + Rounds!SumOf(pay),
                                 srpool |-> tokens.srpool + amount * Rounds!Cardinality(staked)]
    BY Zenon DEF Rounds!UpdatePay
  <1>5. first \in SUBSET Producer
    BY <1>3 DEF Rounds!TopActive, Rounds!Firsts
  <1> DEFINE list == Rounds!Refreshed(first)
  <1>6. /\ listed' \in [row : SUBSET registered, active : SUBSET listed'.row,
                        votes : [Producer -> 0 .. MaxPoolVotes]]
        /\ list.row = listed.row /\ list.active = listed.active
    <2>1. list = [listed EXCEPT !.votes = [p \in Producer |->
                    IF p \in first THEN pool_votes[p] ELSE listed.votes[p]]]
      BY DEF Rounds!Refreshed
    <2> DEFINE votes == [p \in Producer |-> IF p \in first THEN pool_votes[p] ELSE listed.votes[p]]
    <2>2. votes \in [Producer -> 0 .. MaxPoolVotes]
      BY <1>3
    <2>3. list = [listed EXCEPT !.votes = votes]
      BY <2>1
    <2> HIDE DEF votes, list
    <2>4. list.row = listed.row /\ list.active = listed.active
          /\ list \in [row : SUBSET registered, active : SUBSET listed.row,
                       votes : [Producer -> 0 .. MaxPoolVotes]]
      BY <1>3, <2>2, <2>3
    <2> QED
      BY <1>4, <2>4 DEF list
  <1>7. PICK tops \in Rounds!TopActive(MaxNumPay, list) :
             \E S \in IF target > 0 /\ Rounds!AllVotes > 0
                      THEN Rounds!PaidSets(tops, list) ELSE {{}} :
               LET pay == Rounds!Pay(target, S, list)
               IN  /\ vote_pay' = [p \in Producer |-> vote_pay[p] + pay[p]]
                   /\ tokens' = [bpspay |-> tokens.bpspay + Rounds!SumOf(pay),
                                 srpool |-> tokens.srpool + amount * Rounds!Cardinality(staked)]
    BY Zenon, <1>4
  <1>8. tops \in SUBSET Producer
    BY <1>3, <1>6 DEF Rounds!TopActive, Rounds!Firsts
  <1>9. PICK S \in IF target > 0 /\ Rounds!AllVotes > 0
                   THEN Rounds!PaidSets(tops, list) ELSE {{}} :
               LET pay == Rounds!Pay(target, S, list)
               IN  /\ vote_pay' = [p \in Producer |-> vote_pay[p] + pay[p]]
                   /\ tokens' = [bpspay |-> tokens.bpspay + Rounds!SumOf(pay),
                                 srpool |-> tokens.srpool + amount * Rounds!Cardinality(staked)]
    BY Zenon, <1>7
  <1> DEFINE pay == Rounds!Pay(target, S, list)
             n == Cardinality(staked)
             part == [i \in Pool |-> IF i \in staked THEN amount ELSE 0]
             new == amount * n
  <1>10. pay \in [Producer -> Nat]
    BY <1>1, <1>5, <1>8, <1>9, PayOfRound DEF RoundsInv
  <1> HIDE DEF pay
  <1>11. /\ vote_pay' = [p \in Producer |-> vote_pay[p] + pay[p]]
         /\ tokens' = [bpspay |-> tokens.bpspay + SumOf(pay), srpool |-> tokens.srpool + new]
    BY <1>9, RoundsSums DEF pay
  <1>12. /\ SumOf(vote_pay') = SumOf(vote_pay) + SumOf(pay) /\ SumOf(pay) \in Nat
         /\ vote_pay' \in [Producer -> Nat]
    <2>1. IsFiniteSet(Units(vote_pay)) /\ IsFiniteSet(Units(pay))
      BY <1>1, <1>3, <1>10, SumIsFinite
    <2>2. SumOf([p \in Producer |-> vote_pay[p] + pay[p]]) = SumOf(vote_pay) + SumOf(pay)
      BY <1>3, <1>10, <2>1, SumOfBoth
    <2>3. SumOf(pay) \in Nat
      BY <2>1, FS_CardinalityType DEF SumOf
    <2> QED
      BY <1>3, <1>10, <1>11, <2>2, <2>3
  <1>13. n \in Nat /\ new \in Nat /\ IsFiniteSet(staked) /\ n <= Cardinality(Pool)
         /\ Cardinality(Pool) \in Nat
    <2>1. IsFiniteSet(staked) /\ n <= Cardinality(Pool)
      BY <1>1, FS_Subset
    <2>2. n \in Nat /\ Cardinality(Pool) \in Nat
      BY <1>1, <2>1, FS_CardinalityType
    <2> HIDE DEF n
    <2>3. new \in Nat
      BY <1>1, <2>2, ProductIsNat
    <2> QED
      BY <2>1, <2>2, <2>3
  <1>14. part \in [Pool -> Nat] /\ SumOf(part) = new
    <2>1. part \in [Pool -> Nat]
      BY <1>1
    <2>2. IsFiniteSet(Units(part)) /\ \A i \in Pool \ staked : part[i] = 0
      BY <1>1, <2>1, SumIsFinite
    <2>3. [i \in staked |-> part[i]] = [i \in staked |-> amount]
      OBVIOUS
    <2> HIDE DEF part
    <2>4. SumOf([i \in staked |-> part[i]]) = SumOf(part)
      BY <2>1, <2>2, SumOfSupport
    <2>5. SumOf([i \in staked |-> amount]) = n * amount
      BY <1>1, <1>13, SumOfConstant
    <2> HIDE DEF n
    <2>6. n * amount = amount * n
      BY <1>1, <1>13
    <2> QED
      BY <2>1, <2>3, <2>4, <2>5, <2>6
  <1>15. SumOf(pools') = SumOf(pools) + new /\ pools' \in [Pool -> Nat]
    <2>1. pools' = [i \in Pool |-> pools[i] + part[i]]
      BY <1>2 DEF Rounds!PoolPay
    <2> HIDE DEF part, new
    <2>2. IsFiniteSet(Units(pools)) /\ IsFiniteSet(Units(part))
      BY <1>1, <1>3, <1>14, SumIsFinite
    <2>3. SumOf([i \in Pool |-> pools[i] + part[i]]) = SumOf(pools) + SumOf(part)
      BY <1>3, <1>14, <2>2, SumOfBoth
    <2> QED
      BY <1>3, <1>14, <2>1, <2>3
  <1> HIDE DEF part, new
  <1>16. /\ tokens' \in [bpspay : Nat, srpool : Nat]
         /\ tokens'.bpspay = tokens.bpspay + SumOf(pay) /\ tokens'.srpool = tokens.srpool + new
    BY <1>3, <1>11, <1>12, <1>13
  <1>17. Rounds!PayIsBacked'
    <2>1. tokens.bpspay = SumOf(vote_pay) /\ tokens.srpool = SumOf(pools)
      BY RoundsSums DEF RoundsInv, Rounds!RoundsArePaidOnce, Rounds!PayIsBacked
    <2>2. tokens'.bpspay = SumOf(vote_pay') /\ tokens'.srpool = SumOf(pools')
      BY <1>12, <1>15, <1>16, <2>1
    <2> QED
      BY <2>2, RoundsSums DEF Rounds!PayIsBacked
  <1>18. /\ round'.interval_start = round.interval_start /\ round'.blocks = round.blocks
         /\ round'.unpaid_blocks = 0
         /\ round' \in [interval_start : 0 .. LastSlot + 1, blocks : Nat, unpaid_blocks : Nat]
    BY <1>2, <1>3
  <1>19. Rounds!TypeOK'
    BY <1>2, <1>3, <1>6, <1>12, <1>15, <1>16, <1>18 DEF Rounds!TypeOK, Rounds!TablesTypeOK
  <1>20. Rounds!RoundsAreFull'
    BY <1>1, <1>2, <1>18 DEF RoundsInv, Rounds!RoundsArePaidOnce, Rounds!RoundsAreFull
  <1>21. Rounds!OncePerRound'
    <2> DEFINE c == Cardinality(Pool)
               m == MaxPoolPay * c
               over == round.interval_start \div BlocksPerRound
               start == round.interval_start
    <2>1. tokens.srpool <= m * (over - 1)
      BY <1>2, RoundsSums DEF RoundsInv, Rounds!RoundsArePaidOnce, Rounds!OncePerRound
    <2>2. new <= m
      <3>1. amount * n <= MaxPoolPay * n
        <4> HIDE DEF n
        <4>1. n * amount <= n * MaxPoolPay
          BY <1>1, <1>13, ProductMonotonic
        <4> QED
          BY <1>1, <1>13, <4>1
      <3>2. MaxPoolPay * n <= MaxPoolPay * c
        BY <1>1, <1>13, ProductMonotonic
      <3>3. amount * n \in Nat /\ MaxPoolPay * n \in Nat /\ MaxPoolPay * c \in Nat
        BY <1>1, <1>13, ProductIsNat
      <3> HIDE DEF n, c
      <3> QED
        BY <3>1, <3>2, <3>3 DEF new
    <2>3. m \in Nat /\ over \in Nat
      <3>1. start \in Nat
        BY <1>1, <1>3
      <3> HIDE DEF start
      <3>2. start \div BlocksPerRound \in Nat
        BY <1>1, <3>1, DivisionBounds
      <3> QED
        BY <1>1, <1>13, <3>2, ProductIsNat DEF start
    <2>4. m * over = m * (over - 1) + m
      <3> HIDE DEF m, over
      <3> QED
        BY <2>3
    <2>5. m * (over - 1) \in Int
      <3> HIDE DEF m, over
      <3> QED
        BY <2>3
    <2>6. tokens'.srpool <= m * over
      <3> HIDE DEF m, over
      <3> QED
        BY <1>3, <1>13, <1>16, <2>1, <2>2, <2>3, <2>4, <2>5
    <2>7. tokens'.srpool <= m * (round'.interval_start \div BlocksPerRound)
      BY <1>18, <2>6
    <2> QED
      BY <1>18, <2>7, RoundsSums DEF Rounds!OncePerRound
  <1> QED
    BY <1>2, <1>17, <1>19, <1>20, <1>21 DEF RoundsInv, Rounds!RoundsArePaidOnce

\* claimvotepay pays out what was issued for the producer.
LEMMA ClaimVotePayRounds ==
  ASSUME RoundsConstants, RoundsInv, NEW p \in Producer, Rounds!ClaimVotePay(p)
  PROVE  RoundsInv'
  <1>1. /\ vote_pay' = [vote_pay EXCEPT ![p] = 0]
        /\ tokens' = [tokens EXCEPT !.bpspay = @ - vote_pay[p]]
        /\ tokens.bpspay >= vote_pay[p]
        /\ UNCHANGED <<configured, registered, active, pool_votes, listed, slot, round, pools>>
    BY DEF Rounds!ClaimVotePay, Rounds!tables
  <1>2. /\ vote_pay \in [Producer -> Nat] /\ IsFiniteSet(Producer)
        /\ tokens \in [bpspay : Nat, srpool : Nat]
        /\ tokens.bpspay = SumOf(vote_pay) /\ tokens.srpool = SumOf(pools)
    BY RoundsSums, ProducerPayAssumption
    DEF RoundsInv, Rounds!TypeOK, Rounds!RoundsArePaidOnce, Rounds!PayIsBacked, RoundsConstants
  <1> DEFINE v == vote_pay[p]
             f == [vote_pay EXCEPT ![p] = 0]
  <1>3. SumOf(f) = SumOf(vote_pay) - v + 0
    <2>1. IsFiniteSet(Units(vote_pay)) /\ 0 \in Nat
      BY <1>2, SumIsFinite
    <2>2. SumOf([vote_pay EXCEPT ![p] = 0]) = SumOf(vote_pay) - vote_pay[p] + 0
      <3>1. vote_pay \in [Producer -> Nat] /\ p \in Producer
        BY <1>2
      <3> QED
        BY ONLY <2>1, <3>1, SumUpdate
    <2> QED
      BY <2>2
  <1>4. v \in Nat /\ f \in [Producer -> Nat] /\ vote_pay' = f
    BY <1>1, <1>2
  <1> HIDE DEF v
  <1>5. /\ tokens' \in [bpspay : Nat, srpool : Nat]
        /\ tokens'.bpspay = tokens.bpspay - v /\ tokens'.srpool = tokens.srpool
    <2>1. tokens.bpspay - v \in Nat
      BY <1>1, <1>2, <1>4, DifferenceIsNat DEF v
    <2>2. tokens' = [tokens EXCEPT !.bpspay = tokens.bpspay - v]
      BY <1>1 DEF v
    <2> QED
      BY <1>2, <2>1, <2>2
  <1> HIDE DEF f
  <1>6. tokens'.bpspay = SumOf(vote_pay') /\ tokens'.srpool = SumOf(pools')
    <2>1. tokens'.bpspay = SumOf(f)
      <3> DEFINE b == tokens.bpspay
      <3>1. b \in Nat /\ b = SumOf(vote_pay)
        BY <1>2
      <3>2. tokens'.bpspay = b - v /\ SumOf(f) = b - v + 0
        BY <1>3, <1>5, <3>1
      <3> HIDE DEF b
      <3> QED
        BY <1>4, <3>1, <3>2
    <2>2. pools' = pools
      BY <1>1
    <2> QED
      BY <1>2, <1>4, <1>5, <2>1, <2>2
  <1>7. Rounds!PayIsBacked'
    BY <1>6, RoundsSums DEF Rounds!PayIsBacked
  <1>8. Rounds!TypeOK'
    BY <1>1, <1>4, <1>5 DEF RoundsInv, Rounds!TypeOK, Rounds!TablesTypeOK
  <1>9. Rounds!RoundsAreFull' /\ Rounds!OncePerRound'
    BY <1>1, <1>5
    DEF RoundsInv, Rounds!RoundsArePaidOnce, Rounds!RoundsAreFull, Rounds!OncePerRound
  <1> QED
    BY <1>1, <1>7, <1>8, <1>9 DEF RoundsInv, Rounds!RoundsArePaidOnce

\* The first round is the one in which pools are configured.
LEMMA ConfigureRounds ==
  ASSUME RoundsConstants, RoundsInv, Rounds!Configure
  PROVE  RoundsInv'
  <1>1. /\ ~configured /\ configured' = TRUE
        /\ round' = [round EXCEPT !.interval_start = Rounds!RoundOf(slot)]
        /\ UNCHANGED <<registered, active, pool_votes, listed, slot, vote_pay, pools, tokens>>
    BY DEF Rounds!Configure, Rounds!CfgSrPool
  <1>2. /\ round = [interval_start |-> 0, blocks |-> 0, unpaid_blocks |-> 0]
        /\ slot \in 0 .. LastSlot + 1 /\ LastSlot \in Nat
        /\ BlocksPerRound \in Nat \ {0} /\ MaxPoolPay \in Nat
        /\ tokens \in [bpspay : Nat, srpool : Nat]
    BY <1>1 DEF RoundsInv, Rounds!TypeOK, RoundsConstants, Rounds!PoolPayConstants
  <1>3. slot \in Nat /\ slot <= LastSlot + 1
    BY <1>2
  <1>4. /\ Rounds!RoundOf(slot) \in 0 .. slot
        /\ Rounds!RoundOf(slot) \div BlocksPerRound \in Nat
    BY <1>3, RoundTimes
  <1>5. round' = [interval_start |-> Rounds!RoundOf(slot), blocks |-> 0, unpaid_blocks |-> 0]
    BY <1>1, <1>2
  <1>6. Rounds!TypeOK'
    BY <1>1, <1>2, <1>3, <1>4, <1>5 DEF RoundsInv, Rounds!TypeOK, Rounds!TablesTypeOK
  <1>7. Rounds!RoundsAreFull'
    BY <1>1, <1>2, <1>3, <1>4, <1>5 DEF Rounds!RoundsAreFull
  <1>8. Rounds!PayIsBacked'
    BY <1>1, RoundsSums DEF RoundsInv, Rounds!RoundsArePaidOnce, Rounds!PayIsBacked
  <1>9. Rounds!OncePerRound'
    <2> DEFINE m == MaxPoolPay * Cardinality(Pool)
               over == Rounds!RoundOf(slot) \div BlocksPerRound
    <2>1. m \in Nat
      <3>1. Cardinality(Pool) \in Nat
        BY FS_CardinalityType DEF RoundsConstants
      <3> QED
        BY <1>2, <3>1, ProductIsNat
    <2>2. tokens.srpool <= m * 0
      <3>1. 0 \div BlocksPerRound = 0
        BY <1>2
      <3> QED
        BY <1>2, <3>1, RoundsSums DEF RoundsInv, Rounds!RoundsArePaidOnce, Rounds!OncePerRound
    <2> HIDE DEF m
    <2>3. m * 0 = 0 /\ m * over \in Nat
      BY <1>4, <2>1, ProductIsNat
    <2>4. tokens'.srpool <= m * over
      BY <1>1, <1>2, <2>2, <2>3
    <2> QED
      BY <1>5, <2>4, RoundsSums DEF Rounds!OncePerRound, m
  <1> QED
    BY <1>1, <1>6, <1>7, <1>8, <1>9 DEF RoundsInv, Rounds!RoundsArePaidOnce

\* Producers come and go and gain votes without touching rounds or pay.
LEMMA TablesRounds ==
  ASSUME RoundsConstants, RoundsInv, Rounds!TablesNext \/ UNCHANGED Rounds!tables,
         UNCHANGED Rounds!payVars
  PROVE  RoundsInv'
  <1>1. UNCHANGED <<slot, round, vote_pay, pools, tokens>>
    BY DEF Rounds!payVars
  <1>2. Rounds!TablesTypeOK /\ MaxPoolVotes \in Nat
    BY DEF RoundsInv, Rounds!TypeOK, RoundsConstants
  <1>3. Rounds!TablesTypeOK' /\ configured' = configured
    <2>1. CASE UNCHANGED Rounds!tables
      BY <1>2, <2>1 DEF Rounds!tables, Rounds!TablesTypeOK
    <2>2. ASSUME NEW p \in Producer, Rounds!RegProducer(p)
          PROVE  Rounds!TablesTypeOK' /\ configured' = configured
      <3>1. /\ registered' = registered \union {p} /\ active' = active \union {p}
            /\ listed' = listed \/ listed' = [listed EXCEPT !.row = @ \union {p},
                                                            !.active = @ \union {p}]
            /\ configured' = configured /\ pool_votes' = pool_votes
        BY <2>2 DEF Rounds!RegProducer, Rounds!Enabled
      <3>2. listed' \in [row : SUBSET registered', active : SUBSET listed'.row,
                         votes : [Producer -> 0 .. MaxPoolVotes]]
        <4>1. /\ listed'.row \in {listed.row, listed.row \union {p}}
              /\ listed'.active \in {listed.active, listed.active \union {p}}
              /\ listed'.active \subseteq listed'.row
              /\ listed' = [row |-> listed'.row, active |-> listed'.active, votes |-> listed.votes]
          BY <1>2, <3>1 DEF Rounds!TablesTypeOK
        <4> QED
          BY <1>2, <3>1, <4>1 DEF Rounds!TablesTypeOK
      <3> QED
        BY <1>2, <3>1, <3>2 DEF Rounds!TablesTypeOK
    <2>3. ASSUME NEW p \in Producer, Rounds!Deactivate(p)
          PROVE  Rounds!TablesTypeOK' /\ configured' = configured
      <3>1. /\ active' = active \ {p} /\ listed' = [listed EXCEPT !.active = @ \ {p}]
            /\ UNCHANGED <<configured, registered, pool_votes>>
        BY <2>3 DEF Rounds!Deactivate
      <3>2. /\ listed'.row = listed.row /\ listed'.active = listed.active \ {p}
            /\ listed' \in [row : SUBSET registered', active : SUBSET listed'.row,
                            votes : [Producer -> 0 .. MaxPoolVotes]]
        BY <1>2, <3>1 DEF Rounds!TablesTypeOK
      <3> QED
        BY <1>2, <3>1, <3>2 DEF Rounds!TablesTypeOK
    <2>4. ASSUME NEW p \in Producer, NEW n \in 0 .. MaxPoolVotes, Rounds!ChangePoolVotes(p, n)
          PROVE  Rounds!TablesTypeOK' /\ configured' = configured
      <3>1. /\ pool_votes' = [pool_votes EXCEPT ![p] = n]
            /\ UNCHANGED <<configured, registered, active, listed>>
        BY <2>4 DEF Rounds!ChangePoolVotes
      <3> QED
        BY <1>2, <2>4, <3>1 DEF Rounds!TablesTypeOK
    <2>5. ASSUME NEW p \in Producer, Rounds!UpdateVotes(p)
          PROVE  Rounds!TablesTypeOK' /\ configured' = configured
      <3>1. /\ listed' = [listed EXCEPT !.votes[p] = pool_votes[p]]
            /\ UNCHANGED <<configured, registered, active, pool_votes>>
        BY <2>5 DEF Rounds!UpdateVotes
      <3> DEFINE v == [listed.votes EXCEPT ![p] = pool_votes[p]]
      <3>2. v \in [Producer -> 0 .. MaxPoolVotes]
        BY <1>2 DEF Rounds!TablesTypeOK
      <3>3. listed' = [listed EXCEPT !.votes = v]
        BY <3>1
      <3> HIDE DEF v
      <3>4. /\ listed'.row = listed.row
            /\ listed' \in [row : SUBSET registered', active : SUBSET listed'.row,
                            votes : [Producer -> 0 .. MaxPoolVotes]]
        BY <1>2, <3>1, <3>2, <3>3 DEF Rounds!TablesTypeOK
      <3> QED
        BY <1>2, <3>1, <3>4 DEF Rounds!TablesTypeOK
    <2> QED
      BY <2>1, <2>2, <2>3, <2>4, <2>5 DEF Rounds!TablesNext
  <1>4. Rounds!TypeOK'
    BY <1>1, <1>3 DEF RoundsInv, Rounds!TypeOK
  <1>5. Rounds!RoundsArePaidOnce'
    BY <1>1 DEF RoundsInv, Rounds!RoundsArePaidOnce, Rounds!RoundsAreFull, Rounds!OncePerRound,
                Rounds!PayIsBacked, Rounds!SumOf, Rounds!Units
  <1> QED
    BY <1>1, <1>3, <1>4, <1>5 DEF RoundsInv

\* No round has been counted at first.
LEMMA RoundsInit ==
  ASSUME RoundsConstants
  PROVE  Rounds!Init => RoundsInv
  <1> SUFFICES ASSUME Rounds!Init PROVE RoundsInv
    OBVIOUS
  <1>1. /\ configured = FALSE /\ registered = {} /\ active = {}
        /\ pool_votes = [p \in Producer |-> 0]
        /\ listed = [row |-> {}, active |-> {}, votes |-> [p \in Producer |-> 0]]
        /\ slot = 0 /\ round = [interval_start |-> 0, blocks |-> 0, unpaid_blocks |-> 0]
        /\ vote_pay = [p \in Producer |-> 0] /\ pools = [i \in Pool |-> 0]
        /\ tokens = [bpspay |-> 0, srpool |-> 0]
    BY DEF Rounds!Init, Rounds!TablesInit
  <1>2. /\ LastSlot \in Nat /\ BlocksPerRound \in Nat \ {0} /\ MaxPoolPay \in Nat
        /\ MaxPoolVotes \in Nat
    BY DEF RoundsConstants, Rounds!PoolPayConstants
  <1>3. Rounds!TypeOK
    <2>1. Rounds!TablesTypeOK
      <3> DEFINE z == [p \in Producer |-> 0]
      <3>1. z \in [Producer -> 0 .. MaxPoolVotes]
        BY <1>2
      <3>2. /\ configured = FALSE /\ registered = {} /\ active = {} /\ pool_votes = z
            /\ listed = [row |-> {}, active |-> {}, votes |-> z]
        BY <1>1
      <3> HIDE DEF z
      <3>3. /\ listed.row = {}
            /\ listed \in [row : SUBSET registered, active : SUBSET listed.row,
                           votes : [Producer -> 0 .. MaxPoolVotes]]
        BY <3>1, <3>2
      <3> QED
        BY <3>1, <3>2, <3>3 DEF Rounds!TablesTypeOK
    <2> QED
      BY <1>1, <1>2, <2>1 DEF Rounds!TypeOK
  <1>4. Rounds!RoundsAreFull
    BY <1>1, <1>2 DEF Rounds!RoundsAreFull
  <1>5. Rounds!OncePerRound
    <2> DEFINE m == MaxPoolPay * Cardinality(Pool)
    <2>1. Cardinality(Pool) \in Nat
      BY FS_CardinalityType DEF RoundsConstants
    <2>2. m \in Nat
      BY <1>2, <2>1, ProductIsNat
    <2> HIDE DEF m
    <2>3. 0 \div BlocksPerRound = 0 /\ m * 0 = 0
      BY <1>2, <2>2
    <2> QED
      BY <1>1, <2>3, RoundsSums DEF Rounds!OncePerRound, m
  <1>6. Rounds!PayIsBacked
    BY <1>1, SumOfZeros, RoundsSums DEF Rounds!PayIsBacked
  <1> QED
    BY <1>1, <1>3, <1>4, <1>5, <1>6 DEF RoundsInv, Rounds!RoundsArePaidOnce

\* Every step keeps the invariant of rounds.
LEMMA RoundsNext ==
  ASSUME RoundsConstants
  PROVE  RoundsInv /\ [Rounds!Next]_(Rounds!vars) => RoundsInv'
  <1> SUFFICES ASSUME RoundsInv, [Rounds!Next]_(Rounds!vars) PROVE RoundsInv'
    OBVIOUS
  <1>1. CASE Rounds!Configure
    BY <1>1, ConfigureRounds
  <1>2. CASE Rounds!TablesNext /\ UNCHANGED Rounds!payVars
    BY <1>2, TablesRounds
  <1>3. CASE UNCHANGED Rounds!vars
    BY <1>3, TablesRounds DEF Rounds!vars
  <1>4. CASE \E s \in 0 .. LastSlot : Rounds!OnBlock(s)
    BY <1>4, OnBlockRounds
  <1>5. CASE \E target \in 0 .. MaxTarget, amount \in 0 .. MaxPoolPay, staked \in SUBSET Pool :
               Rounds!UpdatePay(target, amount, staked)
    BY <1>5, UpdatePayRounds
  <1>6. CASE \E p \in Producer : Rounds!ClaimVotePay(p)
    BY <1>6, ClaimVotePayRounds
  <1> QED
    BY <1>1, <1>2, <1>3, <1>4, <1>5, <1>6 DEF Rounds!Next

\* updatepay pays for each finished round once, however late it is called and
\* whichever blocks were missed, no round counts more blocks than it has
\* slots, and what producers and pools are paid was issued for them.
THEOREM RoundsStayPaidOnce ==
  ASSUME RoundsConstants
  PROVE  Rounds!Spec => [](Rounds!TypeOK /\ Rounds!RoundsArePaidOnce)
  <1>1. Rounds!Init => RoundsInv
    BY RoundsInit
  <1>2. RoundsInv /\ [Rounds!Next]_(Rounds!vars) => RoundsInv'
    BY RoundsNext
  <1>3. RoundsInv => Rounds!TypeOK /\ Rounds!RoundsArePaidOnce
    BY DEF RoundsInv
  <1> QED
    BY <1>1, <1>2, <1>3, PTL DEF Rounds!Spec

\* Shares of a target, each rounded down, are no more than the target together.
LEMMA SharesOfTarget ==
  ASSUME NEW A, IsFiniteSet(A), NEW f \in [A -> Nat], NEW g \in [A -> Nat], NEW t \in Nat,
         SumOf(f) > 0, \A a \in A : g[a] <= (t * f[a]) \div SumOf(f)
  PROVE  SumOf(g) <= t
  <1> DEFINE s == SumOf(f)
             m == SumOf(g)
             scaled == [a \in A |-> g[a] * s]
             whole == [a \in A |-> f[a] * t]
  <1>1. IsFiniteSet(Units(f)) /\ IsFiniteSet(Units(g)) /\ f \in [A -> Nat] /\ g \in [A -> Nat]
    BY SumIsFinite
  <1>2. s \in Nat \ {0}
    <2>1. s \in Nat
      BY <1>1, FS_CardinalityType DEF SumOf
    <2> QED
      BY <2>1
  <1>3. m \in Nat
    BY <1>1, FS_CardinalityType DEF SumOf
  <1> HIDE DEF s
  <1>4. SumOf(scaled) = m * s
    BY <1>1, <1>2, SumOfScaled
  <1>5. SumOf(whole) = s * t /\ IsFiniteSet(Units(whole))
    BY <1>1, SumOfScaled DEF s
  <1>6. scaled \in [A -> Nat] /\ whole \in [A -> Nat]
    BY <1>1, <1>2, ProductIsNat
  <1>7. \A a \in A : scaled[a] <= whole[a]
    <2> SUFFICES ASSUME NEW a \in A PROVE g[a] * s <= f[a] * t
      OBVIOUS
    <2> DEFINE n == t * f[a]
               q == n \div s
               r == g[a]
    <2>1. n \in Nat /\ r \in Nat /\ r <= q /\ n = f[a] * t
      BY <1>1, ProductIsNat DEF s
    <2> HIDE DEF n, r
    <2>2. q \in Nat /\ s * q <= n
      BY <1>2, <2>1, DivisionBounds
    <2> HIDE DEF q
    <2>3. s * r <= s * q /\ s * r = r * s /\ s * r \in Nat /\ s * q \in Nat
      BY <1>2, <2>1, <2>2, ProductMonotonic
    <2> QED
      BY <2>1, <2>2, <2>3 DEF r
  <1> HIDE DEF scaled, whole
  <1>8. SumOf(scaled) <= SumOf(whole)
    BY ONLY <1>5, <1>6, <1>7, SumOfSmaller
  <1> HIDE DEF m
  <1>9. ~(m > t)
    <2> SUFFICES ASSUME m >= t + 1 PROVE FALSE
      BY <1>3
    <2>1. s * (t + 1) <= s * m
      BY <1>2, <1>3, ProductMonotonic
    <2>2. s * (t + 1) = s * t + s /\ s * m = m * s /\ s * t \in Nat /\ m * s \in Nat
      BY <1>2, <1>3
    <2> QED
      BY <1>2, <1>4, <1>5, <1>8, <2>1, <2>2
  <1> QED
    BY <1>3, <1>9 DEF m

\* A step that pays nobody more pays nothing.
LEMMA NobodyPaid ==
  ASSUME IsFiniteSet(Producer), vote_pay \in [Producer -> Nat], vote_pay' \in [Producer -> Nat],
         \A p \in Producer : vote_pay'[p] <= vote_pay[p]
  PROVE  Rounds!Paid = 0
  <1> DEFINE z == [p \in Producer |-> 0]
             more == [p \in Producer |-> IF vote_pay'[p] > vote_pay[p]
                                         THEN vote_pay'[p] - vote_pay[p] ELSE 0]
  <1>1. more = z
    OBVIOUS
  <1>2. SumOf(z) = 0
    BY SumOfZeros
  <1> QED
    BY <1>1, <1>2, RoundsSums DEF Rounds!Paid

\* updatepay, when the listed votes are those of the pools, shares out the
\* target at most.
LEMMA UpdatePayWithinTarget ==
  ASSUME RoundsConstants, RoundsInv, NEW target \in 0 .. MaxTarget,
         NEW amount \in 0 .. MaxPoolPay, NEW staked \in SUBSET Pool,
         Rounds!UpdatePay(target, amount, staked), listed.votes = pool_votes
  PROVE  Rounds!Paid <= MaxTarget
  <1>1. /\ MaxTarget \in Nat /\ target \in Nat /\ target <= MaxTarget /\ IsFiniteSet(Producer)
    BY ProducerPayAssumption DEF RoundsConstants, Rounds!PoolPayConstants
  <1>2. /\ listed \in [row : SUBSET registered, active : SUBSET listed.row,
                       votes : [Producer -> 0 .. MaxPoolVotes]]
        /\ pool_votes \in [Producer -> 0 .. MaxPoolVotes] /\ MaxPoolVotes \in Nat
        /\ registered \subseteq Producer /\ vote_pay \in [Producer -> Nat]
    BY DEF RoundsInv, Rounds!TypeOK, Rounds!TablesTypeOK, RoundsConstants
  <1>3. PICK first \in Rounds!TopActive(MaxNumPay, listed) :
          \E tops \in Rounds!TopActive(MaxNumPay, Rounds!Refreshed(first)) :
             \E S \in IF target > 0 /\ Rounds!AllVotes > 0
                      THEN Rounds!PaidSets(tops, Rounds!Refreshed(first)) ELSE {{}} :
               LET pay == Rounds!Pay(target, S, Rounds!Refreshed(first))
               IN  /\ vote_pay' = [p \in Producer |-> vote_pay[p] + pay[p]]
                   /\ tokens' = [bpspay |-> tokens.bpspay + Rounds!SumOf(pay),
                                 srpool |-> tokens.srpool + amount * Rounds!Cardinality(staked)]
    BY Zenon DEF Rounds!UpdatePay
  <1> DEFINE list == Rounds!Refreshed(first)
  <1>4. list.votes = pool_votes
    <2> DEFINE v == [p \in Producer |-> IF p \in first THEN pool_votes[p] ELSE listed.votes[p]]
    <2>1. v = pool_votes
      BY <1>2
    <2>2. list = [listed EXCEPT !.votes = v]
      BY DEF Rounds!Refreshed
    <2> HIDE DEF v, list
    <2> QED
      BY <1>2, <2>1, <2>2
  <1>5. PICK tops, S :
          /\ S \in IF target > 0 /\ Rounds!AllVotes > 0
                   THEN Rounds!PaidSets(tops, list) ELSE {{}}
          /\ LET pay == Rounds!Pay(target, S, list)
             IN  /\ vote_pay' = [p \in Producer |-> vote_pay[p] + pay[p]]
                 /\ tokens' = [bpspay |-> tokens.bpspay + Rounds!SumOf(pay),
                               srpool |-> tokens.srpool + amount * Rounds!Cardinality(staked)]
    BY Zenon, <1>3
  <1> DEFINE s == SumOf(pool_votes)
             pay == [p \in Producer |-> IF p \in S THEN (target * pool_votes[p]) \div s ELSE 0]
  <1>6. vote_pay' = [p \in Producer |-> vote_pay[p] + pay[p]]
    <2>1. Rounds!Pay(target, S, list) = pay
      BY <1>4, RoundsSums DEF Rounds!Pay, Rounds!AllVotes
    <2> QED
      BY <1>5, <2>1
  <1> HIDE DEF list
  <1>7. s \in Nat /\ pool_votes \in [Producer -> Nat]
    <2>1. pool_votes \in [Producer -> Nat]
      BY <1>2
    <2> QED
      BY <1>1, <2>1, SumIsFinite, FS_CardinalityType DEF SumOf
  <1>8. CASE ~(target > 0 /\ Rounds!AllVotes > 0)
    <2>1. S = {}
      BY <1>5, <1>8
    <2>2. \A p \in Producer : vote_pay'[p] = vote_pay[p]
      BY <1>2, <1>6, <2>1
    <2>3. vote_pay' \in [Producer -> Nat] /\ \A p \in Producer : vote_pay'[p] <= vote_pay[p]
      BY <1>2, <1>6, <2>1
    <2>4. Rounds!Paid = 0
      BY <1>1, <1>2, <2>3, NobodyPaid
    <2> QED
      BY <1>1, <2>4
  <1>9. CASE target > 0 /\ Rounds!AllVotes > 0
    <2>1. s \in Nat \ {0}
      BY <1>7, <1>9, RoundsSums DEF Rounds!AllVotes
    <2> HIDE DEF s
    <2>2. \A p \in Producer : (target * pool_votes[p]) \div s \in Nat
      <3> TAKE p \in Producer
      <3> DEFINE n == target * pool_votes[p]
      <3>1. n \in Nat
        BY <1>1, <1>7, ProductIsNat
      <3> HIDE DEF n
      <3>2. n \div s \in Nat
        BY <2>1, <3>1, DivisionBounds
      <3> QED
        BY <3>2 DEF n
    <2>3. pay \in [Producer -> Nat] /\ \A p \in Producer : pay[p] <= (target * pool_votes[p]) \div s
      <3> DEFINE part(p) == (target * pool_votes[p]) \div s
      <3>1. \A p \in Producer : part(p) \in Nat
        BY <2>2
      <3> HIDE DEF part
      <3>2. pay = [p \in Producer |-> IF p \in S THEN part(p) ELSE 0]
        BY DEF part
      <3>3. pay \in [Producer -> Nat] /\ \A p \in Producer : pay[p] <= part(p)
        <4> HIDE DEF pay
        <4> QED
          BY <3>1, <3>2
      <3> QED
        BY <3>3 DEF part
    <2> HIDE DEF pay
    <2>4. SumOf(pay) <= target
      BY <1>1, <1>7, <2>1, <2>3, SharesOfTarget DEF s
    <2>5. [p \in Producer |-> IF vote_pay'[p] > vote_pay[p]
                              THEN vote_pay'[p] - vote_pay[p] ELSE 0] = pay
      BY <1>2, <1>6, <2>3
    <2>6. Rounds!Paid = SumOf(pay)
      BY <2>5, RoundsSums DEF Rounds!Paid
    <2>7. SumOf(pay) \in Nat
      BY <1>1, <2>3, SumIsFinite, FS_CardinalityType DEF SumOf
    <2> QED
      BY <1>1, <2>4, <2>6, <2>7
  <1> QED
    BY <1>8, <1>9

\* While the listed votes are those the pools give, updatepay does not pay the
\* producers together more than their target for the round, although it rounds
\* each producer's pay by itself and stops among them.
THEOREM RoundPayWithinTarget ==
  ASSUME RoundsConstants
  PROVE  Rounds!Spec => [][Rounds!FreshPayWithinTarget]_(Rounds!vars)
  <1>1. Rounds!Init => RoundsInv
    BY RoundsInit
  <1>2. RoundsInv /\ [Rounds!Next]_(Rounds!vars) => RoundsInv'
    BY RoundsNext
  <1>3. RoundsInv /\ [Rounds!Next]_(Rounds!vars)
          => [Rounds!FreshPayWithinTarget]_(Rounds!vars)
    <2> SUFFICES ASSUME RoundsInv, Rounds!Next, listed.votes = pool_votes
                 PROVE  Rounds!Paid <= MaxTarget
      BY DEF Rounds!FreshPayWithinTarget
    <2>1. vote_pay \in [Producer -> Nat] /\ IsFiniteSet(Producer) /\ MaxTarget \in Nat
      BY ProducerPayAssumption
      DEF RoundsInv, Rounds!TypeOK, RoundsConstants, Rounds!PoolPayConstants
    <2>2. CASE vote_pay' = vote_pay
      BY <2>1, <2>2, NobodyPaid
    <2>3. ASSUME NEW p \in Producer, Rounds!ClaimVotePay(p)
          PROVE  Rounds!Paid <= MaxTarget
      <3>1. vote_pay' = [vote_pay EXCEPT ![p] = 0]
        BY <2>3 DEF Rounds!ClaimVotePay
      <3>2. vote_pay' \in [Producer -> Nat] /\ \A q \in Producer : vote_pay'[q] <= vote_pay[q]
        BY <2>1, <3>1
      <3>3. Rounds!Paid = 0
        BY <2>1, <3>2, NobodyPaid
      <3> QED
        BY <2>1, <3>3
    <2>4. CASE \E target \in 0 .. MaxTarget, amount \in 0 .. MaxPoolPay, staked \in SUBSET Pool :
                 Rounds!UpdatePay(target, amount, staked)
      BY <2>4, UpdatePayWithinTarget
    <2>5. Rounds!Configure \/ (Rounds!TablesNext /\ UNCHANGED Rounds!payVars)
            \/ (\E s \in 0 .. LastSlot : Rounds!OnBlock(s)) => vote_pay' = vote_pay
      BY DEF Rounds!Configure, Rounds!payVars, Rounds!OnBlock
    <2> QED
      BY <2>2, <2>3, <2>4, <2>5 DEF Rounds!Next
  <1> QED
    BY <1>1, <1>2, <1>3, PTL DEF Rounds!Spec
==============================================================================
