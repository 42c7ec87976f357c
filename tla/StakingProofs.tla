---------------------------- MODULE StakingProofs ----------------------------
(***************************************************************************)
(* Staking stays within its types, its tokens are all accounted for, the   *)
(* automatic refund never comes early, and it implements the abstract      *)
(* lock, for any accounts, funds, quantities and delays; and an account's  *)
(* resource limits are what was granted to it (ResourceLimits).            *)
(***************************************************************************)
EXTENDS Staking

\* All rows together hold finitely many tokens.
RowsAreFinite ==
  /\ IsFiniteSet(Units(delegated))
  /\ IsFiniteSet(Units(refund_amount))

\* An account without a refund has waited for nothing yet.
IdleIsNew == \A a \in Account : ~Pending(a) => refund_age[a] = 0

\* The invariant the proofs carry.
StakingInv ==
  /\ TypeOK
  /\ RowsAreFinite
  /\ IdleIsNew
  /\ StakeIsBacked
  /\ DeferredNotEarly

\* What changebw is called with: a change of both kinds in one direction.
OneDirection(delta) ==
  /\ delta \in [Kind -> Int]
  /\ \/ \A k \in Kind : delta[k] >= 0
     \/ \A k \in Kind : delta[k] <= 0
  /\ delta["net"] + delta["cpu"] # 0

-----------------------------------------------------------------------------

\* An offer to stake, and the same offer to unstake, goes in one direction.
LEMMA OffersGoOneWay ==
  ASSUME NEW q \in Offers
  PROVE  /\ OneDirection(q)
         /\ OneDirection([k \in Kind |-> -q[k]])
  <1>1. q \in [Kind -> Nat] /\ q["net"] + q["cpu"] > 0
    BY StakingAssumption DEF Offers
  <1>2. OneDirection(q)
    BY <1>1 DEF OneDirection, Kind
  <1> DEFINE d == [k \in Kind |-> -q[k]]
  <1>3. d \in [Kind -> Int] /\ d["net"] = -q["net"] /\ d["cpu"] = -q["cpu"]
    BY <1>1 DEF Kind
  <1>4. q["net"] \in Nat /\ q["cpu"] \in Nat
    BY <1>1 DEF Kind
  <1>5. OneDirection(d)
    <2> HIDE DEF d
    <2> QED
      BY <1>1, <1>3, <1>4 DEF OneDirection, Kind
  <1> QED
    BY <1>2, <1>5

\* Adding a delta to a row, when no cell of it falls below zero, changes the
\* two cells of the row only.
LEMMA AddDeltaType ==
  ASSUME NEW D, NEW table \in [D -> Nat],
         NEW row \in [Kind -> D], row["net"] # row["cpu"],
         NEW delta \in [Kind -> Int],
         \A k \in Kind : AddDelta(table, row, delta)[row[k]] >= 0
  PROVE  LET new == AddDelta(table, row, delta)
         IN  /\ new \in [D -> Nat]
             /\ \A k \in Kind : new[row[k]] = table[row[k]] + delta[k]
             /\ \A x \in D : (\A k \in Kind : row[k] # x) => new[x] = table[x]
  <1> DEFINE n == row["net"]
             c == row["cpu"]
             dn == delta["net"]
             dc == delta["cpu"]
             new == AddDelta(table, row, delta)
  <1>1. n \in D /\ c \in D /\ n # c /\ dn \in Int /\ dc \in Int
    BY DEF Kind
  <1>2. table[n] \in Nat /\ table[c] \in Nat
    BY <1>1
  <1>3. new[n] = table[n] + dn /\ new[c] = table[c] + dc
    BY <1>1 DEF AddDelta
  <1>4. new[n] \in Nat /\ new[c] \in Nat
    <2>1. new[n] >= 0 /\ new[c] >= 0
      BY DEF Kind
    <2>2. table[n] + dn \in Int /\ table[c] + dc \in Int
      BY <1>1, <1>2
    <2> QED
      BY <1>3, <2>1, <2>2
  <1>5. \A x \in D \ {n, c} : new[x] = table[x]
    BY <1>1 DEF AddDelta
  <1>6. new \in [D -> Nat]
    <2>1. new = [[table EXCEPT ![n] = table[n] + dn] EXCEPT ![c] = table[c] + dc]
      BY <1>1 DEF AddDelta
    <2>2. table[n] + dn \in Nat /\ table[c] + dc \in Nat
      BY <1>3, <1>4
    <2> HIDE DEF new
    <2> QED
      BY <1>1, <2>1, <2>2
  <1>7. \A k \in Kind : new[row[k]] = table[row[k]] + delta[k]
    BY <1>3 DEF Kind
  <1>8. \A x \in D : (\A k \in Kind : row[k] # x) => new[x] = table[x]
    BY <1>5 DEF Kind
  <1> QED
    BY <1>6, <1>7, <1>8

\* The sum of the table changes by the delta.
LEMMA AddDeltaEffect ==
  ASSUME NEW D, NEW table \in [D -> Nat], IsFiniteSet(Units(table)),
         NEW row \in [Kind -> D], row["net"] # row["cpu"],
         NEW delta \in [Kind -> Int],
         \A k \in Kind : AddDelta(table, row, delta)[row[k]] >= 0
  PROVE  LET new == AddDelta(table, row, delta)
         IN  /\ IsFiniteSet(Units(new))
             /\ SumOf(new) = SumOf(table) + delta["net"] + delta["cpu"]
  <1> DEFINE n == row["net"]
             c == row["cpu"]
             dn == delta["net"]
             dc == delta["cpu"]
             new == AddDelta(table, row, delta)
  <1>1. /\ n \in D /\ c \in D /\ n # c /\ dn \in Int /\ dc \in Int
        /\ table[n] \in Nat /\ table[c] \in Nat
    BY DEF Kind
  <1>2. /\ new \in [D -> Nat]
        /\ \A k \in Kind : new[row[k]] = table[row[k]] + delta[k]
        /\ \A x \in D : (\A k \in Kind : row[k] # x) => new[x] = table[x]
    BY AddDeltaType
  <1>3. /\ new[n] = table[n] + dn /\ new[c] = table[c] + dc
        /\ \A x \in D \ {n, c} : new[x] = table[x]
    BY <1>2 DEF Kind
  <1>4. /\ IsFiniteSet(Units(new))
        /\ SumOf(new) - new[n] - new[c] = SumOf(table) - table[n] - table[c]
    <2> HIDE DEF new, n, c
    <2> QED
      BY <1>1, <1>2, <1>3, SumTwoEntries
  <1>5. SumOf(new) = SumOf(table) + dn + dc
    <2> DEFINE tn == table[n]
               tc == table[c]
    <2>1. SumOf(table) \in Nat /\ SumOf(new) \in Nat
      BY <1>4, FS_CardinalityType DEF SumOf
    <2>2. tn \in Nat /\ tc \in Nat
      BY <1>1
    <2>3. SumOf(new) - (tn + dn) - (tc + dc) = SumOf(table) - tn - tc
      BY <1>3, <1>4
    <2> HIDE DEF tn, tc, dn, dc, new
    <2> QED
      BY <1>1, <2>1, <2>2, <2>3
  <1> QED
    BY <1>4, <1>5

\* What staking takes out of a refund, it does not take from the payer.
LEMMA PositiveSplits ==
  ASSUME NEW r \in Nat, NEW d \in Int
  PROVE  /\ Positive(r - d) \in Nat
         /\ Positive(d - r) \in Nat
         /\ Positive(r - d) = r - d + Positive(d - r)
  BY DEF Positive

\* The refund row after a change, in terms of what the payer still owes.
LEMMA RefundAfterEffect ==
  ASSUME TypeOK, IsFiniteSet(Units(refund_amount)),
         NEW owner \in Account, NEW delta \in [Kind -> Int]
  PROVE  LET after == RefundAfter(owner, delta)
         IN  /\ after \in [Account \X Kind -> Nat]
             /\ IsFiniteSet(Units(after))
             /\ Unrefunded(owner, delta) \in Nat
             /\ SumOf(after) = SumOf(refund_amount) - delta["net"] - delta["cpu"]
                                 + Unrefunded(owner, delta)
             /\ \A x \in Account \X Kind :
                  after[x] = IF x[1] = owner
                             THEN Positive(refund_amount[x] - delta[x[2]])
                             ELSE refund_amount[x]
  <1> DEFINE after == RefundAfter(owner, delta)
             rn == refund_amount[<<owner, "net">>]
             rc == refund_amount[<<owner, "cpu">>]
             dn == delta["net"]
             dc == delta["cpu"]
  <1>1. rn \in Nat /\ rc \in Nat /\ dn \in Int /\ dc \in Int
    BY DEF TypeOK, Kind
  <1>2. \A k \in Kind : Positive(refund_amount[<<owner, k>>] - delta[k]) \in Nat
    <2> TAKE k \in Kind
    <2>1. refund_amount[<<owner, k>>] \in Nat /\ delta[k] \in Int
      BY DEF TypeOK
    <2> QED
      BY <2>1, PositiveSplits
  <1>3. \A x \in Account \X Kind :
          after[x] = IF x[1] = owner
                     THEN Positive(refund_amount[x] - delta[x[2]])
                     ELSE refund_amount[x]
    BY DEF RefundAfter
  <1>4. after \in [Account \X Kind -> Nat]
    <2>1. ASSUME NEW x \in Account \X Kind
          PROVE  after[x] \in Nat
      <3>1. refund_amount[x] \in Nat /\ delta[x[2]] \in Int
        BY DEF TypeOK
      <3> QED
        BY <1>3, <3>1, PositiveSplits
    <2>2. after = [x \in Account \X Kind |-> after[x]]
      BY DEF RefundAfter
    <2> QED
      BY <2>1, <2>2
  <1>5. /\ after[<<owner, "net">>] = Positive(rn - dn)
        /\ after[<<owner, "cpu">>] = Positive(rc - dc)
    BY <1>3 DEF Kind
  <1>6. /\ IsFiniteSet(Units(after))
        /\ SumOf(after) - Positive(rn - dn) - Positive(rc - dc) = SumOf(refund_amount) - rn - rc
    <2> DEFINE D == Account \X Kind
               n == <<owner, "net">>
               c == <<owner, "cpu">>
    <2>1. n \in D /\ c \in D /\ n # c
      BY DEF Kind
    <2>2. \A x \in D \ {n, c} : after[x] = refund_amount[x]
      BY <1>3 DEF Kind
    <2>3. refund_amount \in [D -> Nat] /\ after \in [D -> Nat]
      BY <1>4 DEF TypeOK
    <2>4. /\ IsFiniteSet(Units(after))
          /\ SumOf(after) - after[n] - after[c]
               = SumOf(refund_amount) - refund_amount[n] - refund_amount[c]
      <3> HIDE DEF D, n, c, after
      <3> QED
        BY <2>1, <2>2, <2>3, SumTwoEntries
    <2> QED
      BY <1>5, <2>4
  <1>7. /\ Unrefunded(owner, delta) \in Nat
        /\ Positive(rn - dn) + Positive(rc - dc) = rn + rc - dn - dc + Unrefunded(owner, delta)
        /\ Positive(rn - dn) \in Nat /\ Positive(rc - dc) \in Nat
    <2>1. /\ Positive(rn - dn) = rn - dn + Positive(dn - rn)
          /\ Positive(rc - dc) = rc - dc + Positive(dc - rc)
          /\ Positive(dn - rn) \in Nat /\ Positive(dc - rc) \in Nat
          /\ Positive(rn - dn) \in Nat /\ Positive(rc - dc) \in Nat
      BY <1>1, PositiveSplits
    <2>2. Unrefunded(owner, delta) = Positive(dn - rn) + Positive(dc - rc)
      BY DEF Unrefunded
    <2> HIDE DEF rn, rc, dn, dc
    <2> QED
      BY <1>1, <2>1, <2>2
  <1>8. SumOf(after) = SumOf(refund_amount) - dn - dc + Unrefunded(owner, delta)
    <2>1. SumOf(refund_amount) \in Nat /\ SumOf(after) \in Nat
      BY <1>6, FS_CardinalityType DEF SumOf
    <2> HIDE DEF rn, rc, dn, dc, after
    <2> QED
      BY <1>1, <1>6, <1>7, <2>1
  <1> QED
    BY <1>3, <1>4, <1>6, <1>7, <1>8

\* The tokens of an owner that are on their way back.
Returning(owner) == refund_amount[<<owner, "net">>] + refund_amount[<<owner, "cpu">>]

\* A refund is pending when tokens are on their way back.
LEMMA PendingMeansReturning ==
  ASSUME TypeOK, NEW owner \in Account
  PROVE  /\ Returning(owner) \in Nat
         /\ Pending(owner) <=> Returning(owner) > 0
  <1>1. refund_amount[<<owner, "net">>] \in Nat /\ refund_amount[<<owner, "cpu">>] \in Nat
    BY DEF TypeOK, Kind
  <1> QED
    BY <1>1 DEF Returning, Pending, Kind

\* A payment into the stake that the payer can afford.
LEMMA PaymentEffect ==
  ASSUME balance \in [Holder -> Nat], NEW payer \in Account, NEW amount \in Nat,
         CanPay(balance, payer, amount)
  PROVE  LET after == Paid(balance, payer, "eosio.stake", amount)
         IN  /\ after \in [Holder -> Nat]
             /\ after["eosio.stake"] = balance["eosio.stake"] + amount
             /\ after[payer] = balance[payer] - amount
             /\ \A a \in Account \ {payer} : after[a] = balance[a]
  <1>1. payer # "eosio.stake" /\ payer \in Holder /\ "eosio.stake" \in Holder
    BY StakingAssumption DEF Holder
  <1>2. balance[payer] \in Nat /\ balance["eosio.stake"] \in Nat /\ balance[payer] >= amount
    BY <1>1 DEF CanPay
  <1>3. balance[payer] - amount \in Nat
    BY <1>2, DifferenceIsNat
  <1> QED
    BY <1>1, <1>2, <1>3, StakingAssumption DEF Paid, Holder

\* changebw moves into the refund what it unstakes, out of it what the owner
\* stakes anew, and takes what is due beyond that from the payer.
LEMMA UpdateRefundEffect ==
  ASSUME TypeOK, IsFiniteSet(Units(refund_amount)),
         NEW payer \in Account, NEW receiver \in Account, NEW transfer \in BOOLEAN,
         NEW delta, OneDirection(delta),
         UpdateRefund(payer, receiver, delta, transfer),
         NEW owner, owner = IF transfer THEN receiver ELSE payer
  PROVE  /\ refund_amount' \in [Account \X Kind -> Nat]
         /\ IsFiniteSet(Units(refund_amount'))
         /\ \E due \in Nat :
              /\ SumOf(refund_amount') = SumOf(refund_amount) - delta["net"] - delta["cpu"] + due
              /\ IF due > 0
                 THEN /\ CanPay(balance, payer, due)
                      /\ balance' = Paid(balance, payer, "eosio.stake", due)
                 ELSE UNCHANGED balance
  <1> DEFINE undelegating == delta["net"] + delta["cpu"] < 0
             toSelf == ~transfer /\ payer = receiver
             paid(due) == IF due > 0
                          THEN /\ CanPay(balance, payer, due)
                               /\ balance' = Paid(balance, payer, "eosio.stake", due)
                          ELSE UNCHANGED balance
  <1>0. owner \in Account /\ delta \in [Kind -> Int]
    BY DEF OneDirection
  <1>1. CASE toSelf \/ undelegating
    <2>1. /\ refund_amount' = RefundAfter(owner, delta)
          /\ paid(Unrefunded(owner, delta))
      BY <1>1 DEF UpdateRefund
    <2>2. /\ refund_amount' \in [Account \X Kind -> Nat]
          /\ IsFiniteSet(Units(refund_amount'))
          /\ Unrefunded(owner, delta) \in Nat
          /\ SumOf(refund_amount') = SumOf(refund_amount) - delta["net"] - delta["cpu"]
                                       + Unrefunded(owner, delta)
          /\ \A x \in Account \X Kind :
               refund_amount'[x] = IF x[1] = owner
                                   THEN Positive(refund_amount[x] - delta[x[2]])
                                   ELSE refund_amount[x]
      <3> DEFINE after == RefundAfter(owner, delta)
      <3>1. /\ after \in [Account \X Kind -> Nat]
            /\ IsFiniteSet(Units(after))
            /\ Unrefunded(owner, delta) \in Nat
            /\ SumOf(after) = SumOf(refund_amount) - delta["net"] - delta["cpu"]
                                + Unrefunded(owner, delta)
            /\ \A x \in Account \X Kind :
                 after[x] = IF x[1] = owner
                            THEN Positive(refund_amount[x] - delta[x[2]])
                            ELSE refund_amount[x]
        BY <1>0, RefundAfterEffect
      <3>2. refund_amount' = after
        BY <2>1
      <3> HIDE DEF after
      <3> QED
        BY <3>1, <3>2
    <2> QED
      BY <2>1, <2>2
  <1>2. CASE ~(toSelf \/ undelegating)
    <2> DEFINE due == delta["net"] + delta["cpu"]
    <2>1. refund_amount' = refund_amount /\ paid(due)
      BY <1>2 DEF UpdateRefund
    <2>2. due \in Nat /\ delta["net"] \in Int /\ delta["cpu"] \in Int
      BY <1>0, <1>2 DEF Kind
    <2>3. SumOf(refund_amount) \in Nat
      BY FS_CardinalityType DEF SumOf
    <2>4. SumOf(refund_amount') = SumOf(refund_amount) - delta["net"] - delta["cpu"] + due
      BY <2>1, <2>2, <2>3
    <2> QED
      BY <2>1, <2>2, <2>4 DEF TypeOK
  <1> QED
    BY <1>1, <1>2

\* changebw leaves the refunds of other accounts alone.
LEMMA OthersKeepRefunds ==
  ASSUME TypeOK, NEW payer, NEW receiver, NEW transfer \in BOOLEAN, NEW delta,
         UpdateRefund(payer, receiver, delta, transfer),
         NEW a \in Account, a # IF transfer THEN receiver ELSE payer
  PROVE  \A k \in Kind : refund_amount'[<<a, k>>] = refund_amount[<<a, k>>]
  <1> DEFINE owner == IF transfer THEN receiver ELSE payer
  <1>1. \/ refund_amount' = RefundAfter(owner, delta)
        \/ refund_amount' = refund_amount
    BY DEF UpdateRefund
  <1>2. a # owner
    OBVIOUS
  <1> HIDE DEF owner
  <1> QED
    BY <1>1, <1>2 DEF RefundAfter

\* changebw restarts the wait when it unstakes, and otherwise only ends it
\* when nothing is left to wait for; what it schedules has the full delay.
LEMMA UpdateRefundTimes ==
  ASSUME TypeOK, refund_amount' \in [Account \X Kind -> Nat], IdleIsNew,
         NEW payer \in Account, NEW receiver \in Account, NEW transfer \in BOOLEAN,
         NEW delta, UpdateRefund(payer, receiver, delta, transfer),
         NEW owner, owner = IF transfer THEN receiver ELSE payer
  PROVE  /\ refund_age' \in [Account -> 0 .. RefundDelay]
         /\ deferred' \in [Account -> NoTrx .. RefundDelay]
         /\ deferred'[owner] \in {NoTrx, RefundDelay}
         /\ refund_age'[owner] =
              IF delta["net"] + delta["cpu"] < 0 \/ ~Pending(owner)' THEN 0
              ELSE refund_age[owner]
         /\ \A a \in Account \ {owner} :
              refund_age'[a] = refund_age[a] /\ deferred'[a] = deferred[a]
  <1> DEFINE undelegating == delta["net"] + delta["cpu"] < 0
             toSelf == ~transfer /\ payer = receiver
  <1>1. owner \in Account /\ RefundDelay \in Nat /\ NoTrx = -1
    BY StakingAssumption DEF NoTrx
  <1>2. ~Pending(owner)' <=> \A k \in Kind : refund_amount'[<<owner, k>>] = 0
    <2>1. \A k \in Kind : refund_amount'[<<owner, k>>] \in Nat
      BY <1>1
    <2>2. Pending(owner)' <=> \E k \in Kind : refund_amount'[<<owner, k>>] > 0
      BY DEF Pending
    <2>3. \A k \in Kind : refund_amount'[<<owner, k>>] > 0 <=> refund_amount'[<<owner, k>>] # 0
      BY <2>1
    <2> QED
      BY <2>2, <2>3
  <1>3. CASE toSelf \/ undelegating
    <2>1. /\ AgeAfter(owner, undelegating)
          /\ Schedule(owner) \/ Cancel(owner)
      BY <1>3 DEF UpdateRefund
    <2>2. /\ refund_age \in [Account -> 0 .. RefundDelay]
          /\ deferred \in [Account -> NoTrx .. RefundDelay]
      BY DEF TypeOK
    <2> QED
      BY <1>1, <1>2, <2>1, <2>2 DEF AgeAfter, Schedule, Cancel
  <1>4. CASE ~(toSelf \/ undelegating)
    <2>1. Cancel(owner) /\ UNCHANGED <<refund_amount, refund_age>>
      BY <1>4 DEF UpdateRefund
    <2>2. Pending(owner)' <=> Pending(owner)
      BY <2>1 DEF Pending
    <2> QED
      BY <1>1, <1>4, <2>1, <2>2 DEF Cancel, TypeOK, IdleIsNew
  <1> QED
    BY <1>3, <1>4

-----------------------------------------------------------------------------

\* The invariant holds initially.
LEMMA InitHolds == Init => StakingInv
  <1> SUFFICES ASSUME Init
               PROVE  StakingInv
    OBVIOUS
  <1> USE StakingAssumption
  <1>1. TypeOK
    BY DEF Init, TypeOK, NoTrx, Holder
  <1>2. /\ IsFiniteSet(Units(delegated)) /\ SumOf(delegated) = 0
        /\ IsFiniteSet(Units(refund_amount)) /\ SumOf(refund_amount) = 0
    BY SumOfZeros DEF Init
  <1>3. balance["eosio.stake"] = 0
    BY DEF Init, Holder
  <1>4. IdleIsNew /\ DeferredNotEarly
    BY DEF Init, IdleIsNew, DeferredNotEarly, Pending
  <1> QED
    BY <1>1, <1>2, <1>3, <1>4 DEF StakingInv, RowsAreFinite, StakeIsBacked

\* The part of the invariant about times, after a change of one owner's
\* refund that leaves the others alone.
LEMMA TimesStayInOrder ==
  ASSUME StakingInv, NEW owner \in Account, refund_age'[owner] \in Nat,
         deferred'[owner] \in {NoTrx, RefundDelay},
         ~Pending(owner)' => refund_age'[owner] = 0,
         \A a \in Account \ {owner} :
           /\ \A k \in Kind : refund_amount'[<<a, k>>] = refund_amount[<<a, k>>]
           /\ refund_age'[a] = refund_age[a]
           /\ deferred'[a] = deferred[a]
  PROVE  IdleIsNew' /\ DeferredNotEarly'
  <1>1. RefundDelay \in Nat
    BY StakingAssumption
  <1>2. \A a \in Account \ {owner} : Pending(a)' <=> Pending(a)
    BY DEF Pending
  <1>3. IdleIsNew'
    BY <1>2 DEF StakingInv, IdleIsNew
  <1>4. DeferredNotEarly'
    BY <1>1, <1>2 DEF StakingInv, DeferredNotEarly, NoTrx
  <1> QED
    BY <1>3, <1>4

\* Every change of a delegation keeps the invariant.
LEMMA ChangeBwKeepsInv ==
  ASSUME StakingInv,
         NEW payer \in Account, NEW receiver \in Account, NEW transfer \in BOOLEAN,
         NEW delta, OneDirection(delta),
         ChangeBw(payer, receiver, delta, transfer)
  PROVE  StakingInv'
  <1> DEFINE owner == IF transfer THEN receiver ELSE payer
             row == [k \in Kind |-> <<owner, receiver, k>>]
             totals == [k \in Kind |-> <<receiver, k>>]
             dn == delta["net"]
             dc == delta["cpu"]
  <1>0. /\ owner \in Account
        /\ delta \in [Kind -> Int] /\ dn \in Int /\ dc \in Int
        /\ row \in [Kind -> Account \X Account \X Kind] /\ row["net"] # row["cpu"]
        /\ totals \in [Kind -> Account \X Kind] /\ totals["net"] # totals["cpu"]
    BY DEF OneDirection, Kind
  <1>1. /\ delegated' = AddDelta(delegated, row, delta)
        /\ \A k \in Kind : delegated'[row[k]] >= 0
        /\ resources' = AddDelta(resources, totals, delta)
        /\ \A k \in Kind : resources'[totals[k]] >= 0
        /\ SetLimits(receiver)
        /\ UpdateRefund(payer, receiver, delta, transfer)
        /\ staked' = [staked EXCEPT ![owner] = @ + dn + dc]
        /\ staked'[owner] >= 0
        /\ UNCHANGED <<managed, vested>>
    BY DEF ChangeBw
  <1>2. TypeOK /\ RowsAreFinite /\ IdleIsNew
    BY DEF StakingInv
  <1>3. /\ delegated' \in [Account \X Account \X Kind -> Nat]
        /\ IsFiniteSet(Units(delegated'))
        /\ SumOf(delegated') = SumOf(delegated) + dn + dc
    <2> DEFINE new == AddDelta(delegated, row, delta)
               D == Account \X Account \X Kind
    <2>1. delegated \in [D -> Nat] /\ IsFiniteSet(Units(delegated))
      BY <1>2 DEF TypeOK, RowsAreFinite
    <2>2. \A k \in Kind : new[row[k]] >= 0
      BY <1>1
    <2>3. row \in [Kind -> D]
      BY <1>0
    <2> HIDE DEF row, D
    <2>4. /\ new \in [D -> Nat]
          /\ IsFiniteSet(Units(new))
          /\ SumOf(new) = SumOf(delegated) + dn + dc
      <3>1. new \in [D -> Nat]
        BY <1>0, <2>1, <2>2, <2>3, AddDeltaType
      <3>2. IsFiniteSet(Units(new)) /\ SumOf(new) = SumOf(delegated) + dn + dc
        BY <1>0, <2>1, <2>2, <2>3, AddDeltaEffect
      <3> QED
        BY <3>1, <3>2
    <2>5. delegated' = new
      BY <1>1
    <2> HIDE DEF new
    <2> QED
      BY <2>4, <2>5 DEF D
  <1>4. resources' \in [Account \X Kind -> Nat]
    <2> DEFINE new == AddDelta(resources, totals, delta)
               D == Account \X Kind
    <2>1. resources \in [D -> Nat]
      BY <1>2 DEF TypeOK
    <2>2. \A k \in Kind : new[totals[k]] >= 0
      BY <1>1
    <2>3. totals \in [Kind -> D]
      BY <1>0
    <2> HIDE DEF totals, D
    <2>4. new \in [D -> Nat]
      BY <1>0, <2>1, <2>2, <2>3, AddDeltaType
    <2>5. resources' = new
      BY <1>1
    <2> HIDE DEF new
    <2> QED
      BY <2>4, <2>5 DEF D
  <1>5. staked' \in [Account -> Nat]
    <2>1. staked[owner] + dn + dc \in Int
      BY <1>0, <1>2 DEF TypeOK
    <2>2. staked'[owner] = staked[owner] + dn + dc
      BY <1>0, <1>1, <1>2 DEF TypeOK
    <2>3. staked[owner] + dn + dc \in Nat
      BY <1>1, <2>1, <2>2
    <2> HIDE DEF owner, dn, dc
    <2> QED
      BY <1>0, <1>1, <1>2, <2>3 DEF TypeOK
  <1>6. limits' \in [Account \X Kind -> Nat \union {-1}]
    <2>1. limits \in [Account \X Kind -> Nat \union {-1}]
      BY <1>2 DEF TypeOK
    <2>2. limits' = [x \in Account \X Kind |->
                       IF x[1] = receiver /\ x \notin managed THEN resources'[x] ELSE limits[x]]
      BY <1>1 DEF SetLimits
    <2> QED
      BY <1>4, <2>1, <2>2
  <1>7. /\ refund_amount' \in [Account \X Kind -> Nat]
        /\ IsFiniteSet(Units(refund_amount'))
        /\ \E due \in Nat :
              /\ SumOf(refund_amount') = SumOf(refund_amount) - dn - dc + due
              /\ IF due > 0
                 THEN /\ CanPay(balance, payer, due)
                      /\ balance' = Paid(balance, payer, "eosio.stake", due)
                 ELSE UNCHANGED balance
        /\ \A a \in Account \ {owner} : \A k \in Kind :
              refund_amount'[<<a, k>>] = refund_amount[<<a, k>>]
    <2>1. IsFiniteSet(Units(refund_amount))
      BY <1>2 DEF RowsAreFinite
    <2>2. owner = IF transfer THEN receiver ELSE payer
      OBVIOUS
    <2>3. TypeOK /\ UpdateRefund(payer, receiver, delta, transfer)
      BY <1>1, <1>2
    <2> HIDE DEF owner
    <2>4. refund_amount' \in [Account \X Kind -> Nat] /\ IsFiniteSet(Units(refund_amount'))
      BY <2>1, <2>2, <2>3, UpdateRefundEffect
    <2>5. \E due \in Nat :
              /\ SumOf(refund_amount') = SumOf(refund_amount) - dn - dc + due
              /\ IF due > 0
                 THEN /\ CanPay(balance, payer, due)
                      /\ balance' = Paid(balance, payer, "eosio.stake", due)
                 ELSE UNCHANGED balance
      BY <2>1, <2>2, <2>3, UpdateRefundEffect
    <2>6. ASSUME NEW a \in Account \ {owner}
          PROVE  \A k \in Kind : refund_amount'[<<a, k>>] = refund_amount[<<a, k>>]
      <3>1. a # IF transfer THEN receiver ELSE payer
        BY <2>2
      <3> QED
        BY <2>3, <3>1, OthersKeepRefunds
    <2> QED
      BY <2>4, <2>5, <2>6
  <1>8. /\ balance' \in [Holder -> Nat]
        /\ balance'["eosio.stake"] = balance["eosio.stake"]
             + (SumOf(delegated') - SumOf(delegated))
             + (SumOf(refund_amount') - SumOf(refund_amount))
    <2>1. PICK due \in Nat :
              /\ SumOf(refund_amount') = SumOf(refund_amount) - dn - dc + due
              /\ IF due > 0
                 THEN /\ CanPay(balance, payer, due)
                      /\ balance' = Paid(balance, payer, "eosio.stake", due)
                 ELSE UNCHANGED balance
      BY <1>7
    <2>2. /\ balance' \in [Holder -> Nat]
          /\ balance'["eosio.stake"] = balance["eosio.stake"] + due
      <3>1. balance \in [Holder -> Nat] /\ balance["eosio.stake"] \in Nat
        BY <1>2 DEF TypeOK, Holder
      <3>2. CASE due > 0
        BY <2>1, <3>1, <3>2, PaymentEffect
      <3>3. CASE ~(due > 0)
        BY <2>1, <3>1, <3>3
      <3> QED
        BY <3>2, <3>3
    <2>3. /\ SumOf(delegated) \in Nat /\ SumOf(refund_amount) \in Nat
          /\ SumOf(delegated') \in Nat /\ SumOf(refund_amount') \in Nat
          /\ balance["eosio.stake"] \in Nat
      BY <1>2, <1>3, <1>7, FS_CardinalityType DEF SumOf, RowsAreFinite, TypeOK, Holder
    <2> HIDE DEF dn, dc
    <2> QED
      BY <1>0, <1>3, <2>1, <2>2, <2>3
  <1>9. StakeIsBacked'
    <2>1. /\ SumOf(delegated) \in Nat /\ SumOf(refund_amount) \in Nat
          /\ SumOf(delegated') \in Nat /\ SumOf(refund_amount') \in Nat
      BY <1>2, <1>3, <1>7, FS_CardinalityType DEF SumOf, RowsAreFinite
    <2>2. balance["eosio.stake"] = SumOf(delegated) + SumOf(refund_amount)
      BY DEF StakingInv, StakeIsBacked
    <2>3. balance'["eosio.stake"] = SumOf(delegated') + SumOf(refund_amount')
      BY <1>8, <2>1, <2>2
    <2> QED
      BY <2>3 DEF StakeIsBacked
  <1>10. /\ refund_age' \in [Account -> 0 .. RefundDelay]
         /\ deferred' \in [Account -> NoTrx .. RefundDelay]
         /\ deferred'[owner] \in {NoTrx, RefundDelay}
         /\ refund_age'[owner] = IF dn + dc < 0 \/ ~Pending(owner)' THEN 0
                                 ELSE refund_age[owner]
         /\ \A a \in Account \ {owner} :
              refund_age'[a] = refund_age[a] /\ deferred'[a] = deferred[a]
    <2> HIDE DEF owner
    <2> QED
      BY <1>1, <1>2, <1>7, UpdateRefundTimes DEF owner
  <1>11. IdleIsNew' /\ DeferredNotEarly'
    <2>1. refund_age'[owner] \in Nat
      BY <1>0, <1>10
    <2> HIDE DEF owner
    <2> QED
      BY <1>0, <1>7, <1>10, <2>1, TimesStayInOrder
  <1>12. TypeOK'
    BY <1>1, <1>2, <1>3, <1>4, <1>5, <1>6, <1>7, <1>8, <1>10 DEF TypeOK
  <1> QED
    BY <1>3, <1>7, <1>9, <1>11, <1>12 DEF StakingInv, RowsAreFinite

\* Paying a refund out keeps the invariant, with its transaction or without.
LEMMA PayRefundKeepsInv ==
  ASSUME StakingInv, NEW owner \in Account, PayRefund(owner),
         UNCHANGED deferred \/ Cancel(owner)
  PROVE  StakingInv'
  <1> DEFINE n == <<owner, "net">>
             c == <<owner, "cpu">>
             amount == refund_amount[n] + refund_amount[c]
  <1>1. TypeOK /\ RowsAreFinite /\ StakeIsBacked
    BY DEF StakingInv
  <1>2. /\ n \in Account \X Kind /\ c \in Account \X Kind /\ n # c
        /\ refund_amount[n] \in Nat /\ refund_amount[c] \in Nat
    BY <1>1 DEF TypeOK, Kind
  <1>3. /\ CanPay(balance, "eosio.stake", amount)
        /\ balance' = Paid(balance, "eosio.stake", owner, amount)
        /\ refund_amount' = [x \in Account \X Kind |->
                               IF x[1] = owner THEN 0 ELSE refund_amount[x]]
        /\ refund_age' = [refund_age EXCEPT ![owner] = 0]
        /\ UNCHANGED <<delegated, resources, staked, managed, limits, vested>>
    BY DEF PayRefund, weights, kernel
  <1>4. refund_amount' \in [Account \X Kind -> Nat]
    BY <1>1, <1>3 DEF TypeOK
  <1>5. /\ IsFiniteSet(Units(refund_amount'))
        /\ SumOf(refund_amount') = SumOf(refund_amount) - amount
    <2> DEFINE D == Account \X Kind
               new == [x \in D |-> IF x[1] = owner THEN 0 ELSE refund_amount[x]]
    <2>1. new \in [D -> Nat] /\ refund_amount \in [D -> Nat]
      BY <1>1 DEF TypeOK
    <2>2. new[n] = 0 /\ new[c] = 0 /\ \A x \in D \ {n, c} : new[x] = refund_amount[x]
      BY <1>2 DEF Kind
    <2>3. n \in D /\ c \in D /\ n # c /\ IsFiniteSet(Units(refund_amount))
      BY <1>1, <1>2 DEF RowsAreFinite
    <2>4. refund_amount' = new
      BY <1>3
    <2>5. /\ IsFiniteSet(Units(new))
          /\ SumOf(new) - new[n] - new[c] = SumOf(refund_amount) - refund_amount[n] - refund_amount[c]
      <3> HIDE DEF D, new, n, c
      <3> QED
        BY <2>1, <2>2, <2>3, SumTwoEntries
    <2>6. SumOf(new) \in Nat /\ SumOf(refund_amount) \in Nat
      BY <2>3, <2>5, FS_CardinalityType DEF SumOf
    <2>7. SumOf(new) = SumOf(refund_amount) - amount
      <3> HIDE DEF D, new, n, c
      <3> QED
        BY <1>2, <2>2, <2>5, <2>6
    <2> HIDE DEF new
    <2> QED
      BY <2>4, <2>5, <2>7
  <1>6. /\ balance' \in [Holder -> Nat]
        /\ balance'["eosio.stake"] = balance["eosio.stake"] - amount
    <2>1. /\ balance \in [Holder -> Nat] /\ owner \in Holder
          /\ "eosio.stake" \in Holder /\ owner # "eosio.stake"
      BY <1>1, StakingAssumption DEF TypeOK, Holder
    <2>2. amount \in Nat /\ balance["eosio.stake"] >= amount /\ balance["eosio.stake"] \in Nat
      BY <1>2, <1>3, <2>1 DEF CanPay
    <2>3. balance["eosio.stake"] - amount \in Nat
      BY <2>2, DifferenceIsNat
    <2> HIDE DEF amount
    <2> QED
      BY <1>3, <2>1, <2>2, <2>3 DEF Paid
  <1>7. StakeIsBacked'
    <2>1. /\ SumOf(delegated) \in Nat /\ SumOf(refund_amount) \in Nat
          /\ amount \in Nat /\ balance["eosio.stake"] \in Nat
      BY <1>1, <1>2, FS_CardinalityType DEF SumOf, RowsAreFinite, TypeOK, Holder
    <2>2. balance["eosio.stake"] = SumOf(delegated) + SumOf(refund_amount)
      BY <1>1 DEF StakeIsBacked
    <2>3. delegated' = delegated
      BY <1>3
    <2> HIDE DEF amount
    <2>4. balance'["eosio.stake"] = SumOf(delegated) + SumOf(refund_amount')
      BY <1>5, <1>6, <2>1, <2>2
    <2> QED
      BY <2>3, <2>4 DEF StakeIsBacked
  <1>8. /\ refund_age' \in [Account -> 0 .. RefundDelay]
        /\ deferred' \in [Account -> NoTrx .. RefundDelay]
    BY <1>1, <1>3, StakingAssumption, SMTT(60) DEF TypeOK, Cancel, NoTrx
  <1>9. ~Pending(owner)'
    BY <1>3 DEF Pending, Kind
  <1>10. \A a \in Account \ {owner} :
           /\ Pending(a)' <=> Pending(a)
           /\ refund_age'[a] = refund_age[a]
           /\ deferred'[a] = deferred[a]
    BY <1>1, <1>3 DEF Pending, Kind, TypeOK, Cancel
  <1>11. IdleIsNew' /\ DeferredNotEarly'
    <2>1. refund_age'[owner] = 0
      BY <1>1, <1>3 DEF TypeOK
    <2> QED
      BY <1>9, <1>10, <2>1 DEF StakingInv, IdleIsNew, DeferredNotEarly
  <1>12. TypeOK'
    BY <1>1, <1>3, <1>4, <1>6, <1>8 DEF TypeOK
  <1> QED
    BY <1>1, <1>3, <1>5, <1>7, <1>11, <1>12 DEF StakingInv, RowsAreFinite

\* Time passing keeps the invariant: what ages is what comes due.
LEMMA TickKeepsInv ==
  ASSUME StakingInv, Tick
  PROVE  StakingInv'
  <1>1. TypeOK /\ RefundDelay \in Nat /\ VestingTime \in Nat /\ NoTrx = -1
    BY StakingAssumption DEF StakingInv, NoTrx
  <1>2. TypeOK'
    <2>1. refund_age' \in [Account -> 0 .. RefundDelay]
      BY <1>1 DEF Tick, TypeOK
    <2>2. deferred' \in [Account -> NoTrx .. RefundDelay]
      BY <1>1 DEF Tick, TypeOK
    <2>3. vested' \in 0 .. VestingTime
      BY <1>1 DEF Tick, TypeOK
    <2> QED
      BY <1>1, <2>1, <2>2, <2>3 DEF Tick, TypeOK, weights, kernel
  <1>3. \A a \in Account : Pending(a)' <=> Pending(a)
    BY DEF Tick, Pending
  <1>4. IdleIsNew'
    BY <1>3 DEF Tick, StakingInv, IdleIsNew
  <1>5. DeferredNotEarly'
    <2> SUFFICES ASSUME NEW a \in Account, Pending(a)', deferred'[a] # NoTrx
                 PROVE  deferred'[a] + refund_age'[a] >= RefundDelay
      BY DEF DeferredNotEarly
    <2>1. /\ deferred[a] \in NoTrx .. RefundDelay /\ refund_age[a] \in 0 .. RefundDelay
          /\ deferred'[a] = IF deferred[a] > 0 THEN deferred[a] - 1 ELSE deferred[a]
          /\ refund_age'[a] = IF Pending(a) /\ refund_age[a] < RefundDelay
                              THEN refund_age[a] + 1 ELSE refund_age[a]
      BY <1>1 DEF Tick, TypeOK
    <2>2. Pending(a)
      BY <1>3
    <2>3. deferred[a] # NoTrx
      BY <1>1, <2>1
    <2>4. deferred[a] + refund_age[a] >= RefundDelay
      BY <2>2, <2>3 DEF StakingInv, DeferredNotEarly
    <2> HIDE DEF Pending
    <2> QED
      BY <1>1, <2>1, <2>2, <2>3, <2>4
  <1> QED
    BY <1>2, <1>4, <1>5 DEF StakingInv, Tick, weights, RowsAreFinite, StakeIsBacked

\* Every step keeps the invariant.
LEMMA StepHolds == StakingInv /\ [Next]_vars => StakingInv'
  <1> SUFFICES ASSUME StakingInv, [Next]_vars PROVE StakingInv'
    OBVIOUS
  <1>1. ASSUME NEW p \in Account, NEW r \in Account, NEW q \in Offers, NEW t \in BOOLEAN,
               DelegateBw(p, r, q, t)
        PROVE  StakingInv'
    BY <1>1, OffersGoOneWay, ChangeBwKeepsInv DEF DelegateBw
  <1>2. ASSUME NEW p \in Account, NEW r \in Account, NEW q \in Offers,
               UndelegateBw(p, r, q)
        PROVE  StakingInv'
    BY <1>2, OffersGoOneWay, ChangeBwKeepsInv DEF UndelegateBw
  <1>3. ASSUME NEW a \in Account, Refund(a)
        PROVE  StakingInv'
    BY <1>3, PayRefundKeepsInv DEF Refund
  <1>4. ASSUME NEW a \in Account, Cancel(a),
               UNCHANGED <<weights, refund_amount, refund_age, kernel, balance, vested>>
        PROVE  StakingInv'
    <2>1. RefundDelay \in Nat /\ NoTrx = -1 /\ TypeOK
      BY StakingAssumption DEF NoTrx, StakingInv
    <2>2. deferred' \in [Account -> NoTrx .. RefundDelay]
      BY <1>4, <2>1 DEF Cancel, TypeOK
    <2>3. TypeOK'
      BY <1>4, <2>1, <2>2 DEF TypeOK, weights, kernel
    <2>4. \A x \in Account : Pending(x)' <=> Pending(x)
      BY <1>4 DEF Pending
    <2>5. IdleIsNew' /\ DeferredNotEarly'
      BY <1>4, <2>1, <2>4 DEF Cancel, TypeOK, StakingInv, IdleIsNew, DeferredNotEarly
    <2> QED
      BY <1>4, <2>3, <2>5 DEF StakingInv, weights, RowsAreFinite, StakeIsBacked
  <1>5. ASSUME NEW a \in Account, RunDeferred(a) \/ LoseDeferred(a)
        PROVE  StakingInv'
    BY <1>4, <1>5, PayRefundKeepsInv DEF RunDeferred, LoseDeferred
  <1>6. ASSUME UNCHANGED <<weights, refunds, balance, vested>>,
               managed' \subseteq Account \X Kind, limits' \in [Account \X Kind -> Nat \union {-1}]
        PROVE  StakingInv'
    <2>1. \A x \in Account : Pending(x)' <=> Pending(x)
      BY <1>6 DEF Pending, refunds
    <2> QED
      BY <1>6, <2>1 DEF StakingInv, TypeOK, weights, refunds, RowsAreFinite, IdleIsNew,
                        StakeIsBacked, DeferredNotEarly
  <1>7. ASSUME NEW a \in Account, NEW k \in Kind, UnmanageLimit(a, k)
        PROVE  StakingInv'
    <2>1. managed' \subseteq Account \X Kind /\ limits' \in [Account \X Kind -> Nat \union {-1}]
      BY <1>7 DEF UnmanageLimit, StakingInv, TypeOK
    <2> QED
      BY <1>6, <1>7, <2>1 DEF UnmanageLimit
  <1>8. ASSUME NEW a \in Account, NEW k \in Kind, NEW l \in LimitValues, ManageLimit(a, k, l)
        PROVE  StakingInv'
    <2>1. managed' \subseteq Account \X Kind /\ limits' \in [Account \X Kind -> Nat \union {-1}]
      BY <1>8, StakingAssumption DEF ManageLimit, StakingInv, TypeOK
    <2> QED
      BY <1>6, <1>8, <2>1 DEF ManageLimit
  <1>9. CASE Tick
    BY <1>9, TickKeepsInv
  <1>10. CASE UNCHANGED vars
    <2>1. managed' \subseteq Account \X Kind /\ limits' \in [Account \X Kind -> Nat \union {-1}]
      BY <1>10 DEF vars, kernel, StakingInv, TypeOK
    <2> QED
      BY <1>6, <1>10, <2>1 DEF vars
  <1> QED
    BY <1>1, <1>2, <1>3, <1>5, <1>7, <1>8, <1>9, <1>10 DEF Next

LEMMA InvHolds == Spec => []StakingInv
  BY InitHolds, StepHolds, PTL DEF Spec

-----------------------------------------------------------------------------

\* What one account has been given of each kind, and what one has delegated.
GivenTo(x) == [f \in Account |-> delegated[<<f, x[1], x[2]>>]]
GivenBy(a) == [x \in Account \X Kind |-> delegated[<<a, x[1], x[2]>>]]

\* The parts of the delegation table have finite sums.
LEMMA GivenIsFinite ==
  ASSUME TypeOK, RowsAreFinite
  PROVE  /\ \A x \in Account \X Kind :
              GivenTo(x) \in [Account -> Nat] /\ IsFiniteSet(Units(GivenTo(x)))
         /\ \A a \in Account :
              GivenBy(a) \in [Account \X Kind -> Nat] /\ IsFiniteSet(Units(GivenBy(a)))
  <1> DEFINE D == Account \X Account \X Kind
  <1>1. delegated \in [D -> Nat] /\ IsFiniteSet(Units(delegated))
    BY DEF TypeOK, RowsAreFinite
  <1>2. ASSUME NEW x \in Account \X Kind
        PROVE  GivenTo(x) \in [Account -> Nat] /\ IsFiniteSet(Units(GivenTo(x)))
    <2> DEFINE at == [f \in Account |-> <<f, x[1], x[2]>>]
    <2>1. /\ at \in [Account -> D]
          /\ \A f \in Account : \A g \in Account : at[f] = at[g] => f = g
      OBVIOUS
    <2>2. /\ GivenTo(x) \in [Account -> Nat]
          /\ \A f \in Account : GivenTo(x)[f] <= delegated[at[f]]
      BY <1>1 DEF GivenTo
    <2> HIDE DEF D, at
    <2> QED
      BY ONLY <1>1, <2>1, <2>2, SumOfSelection
  <1>3. ASSUME NEW a \in Account
        PROVE  GivenBy(a) \in [Account \X Kind -> Nat] /\ IsFiniteSet(Units(GivenBy(a)))
    <2> DEFINE P == Account \X Kind
               at == [x \in P |-> <<a, x[1], x[2]>>]
    <2>1. /\ at \in [P -> D]
          /\ \A x \in P : \A y \in P : at[x] = at[y] => x = y
      OBVIOUS
    <2>2. /\ GivenBy(a) \in [P -> Nat]
          /\ \A x \in P : GivenBy(a)[x] <= delegated[at[x]]
      BY <1>1 DEF GivenBy
    <2> HIDE DEF D, P, at
    <2>3. IsFiniteSet(Units(GivenBy(a)))
      BY ONLY <1>1, <2>1, <2>2, SumOfSelection
    <2> QED
      BY <2>2, <2>3 DEF P
  <1> QED
    BY <1>2, <1>3

\* The row that changebw changes, and the rows it leaves.
LEMMA ChangeBwTables ==
  ASSUME TypeOK, NEW payer \in Account, NEW receiver \in Account, NEW transfer \in BOOLEAN,
         NEW delta, OneDirection(delta), ChangeBw(payer, receiver, delta, transfer),
         NEW owner, owner = IF transfer THEN receiver ELSE payer
  PROVE  /\ \A f \in Account : \A r \in Account : \A k \in Kind :
              delegated'[<<f, r, k>>] = delegated[<<f, r, k>>] +
                (IF f = owner /\ r = receiver THEN delta[k] ELSE 0)
         /\ \A r \in Account : \A k \in Kind :
              resources'[<<r, k>>] = resources[<<r, k>>] + (IF r = receiver THEN delta[k] ELSE 0)
         /\ \A a \in Account :
              staked'[a] = staked[a] + (IF a = owner THEN delta["net"] + delta["cpu"] ELSE 0)
         /\ UNCHANGED <<managed, vested>>
         /\ SetLimits(receiver)
         /\ KeepsVesting(owner, staked'[owner])
  <1> DEFINE row == [k \in Kind |-> <<owner, receiver, k>>]
             totals == [k \in Kind |-> <<receiver, k>>]
             dn == delta["net"]
             dc == delta["cpu"]
  <1>0. /\ owner \in Account
        /\ delta \in [Kind -> Int] /\ dn \in Int /\ dc \in Int
        /\ row \in [Kind -> Account \X Account \X Kind] /\ row["net"] # row["cpu"]
        /\ totals \in [Kind -> Account \X Kind] /\ totals["net"] # totals["cpu"]
    BY DEF OneDirection, Kind
  <1>1. /\ delegated' = AddDelta(delegated, row, delta)
        /\ resources' = AddDelta(resources, totals, delta)
        /\ SetLimits(receiver)
        /\ staked' = [staked EXCEPT ![owner] = @ + dn + dc]
        /\ UNCHANGED <<managed, vested>>
        /\ KeepsVesting(owner, staked'[owner])
        /\ \A k \in Kind : delegated'[row[k]] >= 0
        /\ \A k \in Kind : resources'[totals[k]] >= 0
    BY DEF ChangeBw
  <1>2. /\ delegated \in [Account \X Account \X Kind -> Nat]
        /\ resources \in [Account \X Kind -> Nat] /\ staked \in [Account -> Nat]
    BY DEF TypeOK
  <1>3. /\ \A k \in Kind : delegated'[row[k]] = delegated[row[k]] + delta[k]
        /\ \A x \in Account \X Account \X Kind :
             (\A k \in Kind : row[k] # x) => delegated'[x] = delegated[x]
    <2> DEFINE D == Account \X Account \X Kind
               new == AddDelta(delegated, row, delta)
    <2>1. delegated \in [D -> Nat] /\ row \in [Kind -> D] /\ row["net"] # row["cpu"]
      BY <1>0, <1>2
    <2>2. \A k \in Kind : new[row[k]] >= 0
      BY <1>1
    <2>3. new = delegated'
      BY <1>1
    <2>4. delta \in [Kind -> Int]
      BY <1>0
    <2> HIDE DEF D, row
    <2>5. /\ \A k \in Kind : new[row[k]] = delegated[row[k]] + delta[k]
          /\ \A x \in D : (\A k \in Kind : row[k] # x) => new[x] = delegated[x]
      BY ONLY <2>1, <2>2, <2>4, AddDeltaType
    <2> HIDE DEF new
    <2> QED
      BY <2>3, <2>5 DEF D
  <1>4. /\ \A k \in Kind : resources'[totals[k]] = resources[totals[k]] + delta[k]
        /\ \A x \in Account \X Kind :
             (\A k \in Kind : totals[k] # x) => resources'[x] = resources[x]
    <2> DEFINE D == Account \X Kind
               new == AddDelta(resources, totals, delta)
    <2>1. resources \in [D -> Nat] /\ totals \in [Kind -> D] /\ totals["net"] # totals["cpu"]
      BY <1>0, <1>2
    <2>2. \A k \in Kind : new[totals[k]] >= 0
      BY <1>1
    <2>3. new = resources'
      BY <1>1
    <2>4. delta \in [Kind -> Int]
      BY <1>0
    <2> HIDE DEF D, totals
    <2>5. /\ \A k \in Kind : new[totals[k]] = resources[totals[k]] + delta[k]
          /\ \A x \in D : (\A k \in Kind : totals[k] # x) => new[x] = resources[x]
      BY ONLY <2>1, <2>2, <2>4, AddDeltaType
    <2> HIDE DEF new
    <2> QED
      BY <2>3, <2>5 DEF D
  <1>5. ASSUME NEW f \in Account, NEW r \in Account, NEW k \in Kind
        PROVE  delegated'[<<f, r, k>>] = delegated[<<f, r, k>>] +
                 (IF f = owner /\ r = receiver THEN delta[k] ELSE 0)
    <2>1. delegated[<<f, r, k>>] \in Nat
      BY <1>2
    <2>2. CASE f = owner /\ r = receiver
      BY <1>3, <2>2
    <2>3. CASE ~(f = owner /\ r = receiver)
      <3>1. \A j \in Kind : row[j] # <<f, r, k>>
        BY <2>3
      <3> QED
        BY <1>3, <2>1, <2>3, <3>1
    <2> QED
      BY <2>2, <2>3
  <1>6. ASSUME NEW r \in Account, NEW k \in Kind
        PROVE  resources'[<<r, k>>] = resources[<<r, k>>] + (IF r = receiver THEN delta[k] ELSE 0)
    <2>1. resources[<<r, k>>] \in Nat
      BY <1>2
    <2>2. CASE r = receiver
      BY <1>4, <2>2
    <2>3. CASE r # receiver
      BY <1>4, <2>1, <2>3
    <2> QED
      BY <2>2, <2>3
  <1>7. ASSUME NEW a \in Account
        PROVE  staked'[a] = staked[a] + (IF a = owner THEN dn + dc ELSE 0)
    <2>1. staked[a] \in Nat
      BY <1>2
    <2> HIDE DEF dn, dc
    <2> QED
      BY <1>0, <1>1, <1>2, <2>1
  <1> QED
    BY <1>1, <1>5, <1>6, <1>7

\* changebw changes rows, totals, limits and votes by the same amounts, and
\* leaves the vesting account with what it must keep.
LEMMA ChangeBwAddsUp ==
  ASSUME StakingInv, StakesAddUp, StakingInv',
         NEW payer \in Account, NEW receiver \in Account, NEW transfer \in BOOLEAN,
         NEW delta, OneDirection(delta), ChangeBw(payer, receiver, delta, transfer)
  PROVE  StakesAddUp'
  <1> DEFINE owner == IF transfer THEN receiver ELSE payer
             dn == delta["net"]
             dc == delta["cpu"]
  <1>1. /\ TypeOK /\ RowsAreFinite /\ TypeOK' /\ RowsAreFinite'
        /\ TotalsAreDelegated /\ VotesAreDelegated /\ LimitsFollowTotals /\ VestingHolds
    BY DEF StakingInv, StakesAddUp, StakeAddsUp
  <1>2. owner \in Account /\ delta \in [Kind -> Int] /\ dn \in Int /\ dc \in Int
    BY DEF OneDirection, Kind
  <1>3. /\ \A f \in Account : \A r \in Account : \A k \in Kind :
             delegated'[<<f, r, k>>] = delegated[<<f, r, k>>] +
               (IF f = owner /\ r = receiver THEN delta[k] ELSE 0)
        /\ \A r \in Account : \A k \in Kind :
             resources'[<<r, k>>] = resources[<<r, k>>] + (IF r = receiver THEN delta[k] ELSE 0)
        /\ \A a \in Account :
             staked'[a] = staked[a] + (IF a = owner THEN dn + dc ELSE 0)
        /\ UNCHANGED <<managed, vested>>
        /\ SetLimits(receiver)
        /\ KeepsVesting(owner, staked'[owner])
    BY <1>1, ChangeBwTables
  <1>0. \A f \in Account : \A r \in Account : \A k \in Kind :
          f # owner \/ r # receiver => delegated'[<<f, r, k>>] = delegated[<<f, r, k>>]
    <2> SUFFICES ASSUME NEW f \in Account, NEW r \in Account, NEW k \in Kind,
                        f # owner \/ r # receiver
                 PROVE  delegated'[<<f, r, k>>] = delegated[<<f, r, k>>]
      OBVIOUS
    <2>1. delegated[<<f, r, k>>] \in Nat
      BY <1>1 DEF TypeOK
    <2>2. delegated'[<<f, r, k>>] = delegated[<<f, r, k>>] + 0
      BY <1>3
    <2> QED
      BY <2>1, <2>2
  <1>4. /\ \A x \in Account \X Kind :
             /\ GivenTo(x) \in [Account -> Nat] /\ IsFiniteSet(Units(GivenTo(x)))
        /\ \A a \in Account :
             /\ GivenBy(a) \in [Account \X Kind -> Nat] /\ IsFiniteSet(Units(GivenBy(a)))
    BY <1>1, GivenIsFinite
  <1>5. /\ delegated \in [Account \X Account \X Kind -> Nat]
        /\ delegated' \in [Account \X Account \X Kind -> Nat]
        /\ resources \in [Account \X Kind -> Nat] /\ staked \in [Account -> Nat]
    BY <1>1 DEF TypeOK
  <1>6. /\ \A x \in Account \X Kind : GivenTo(x)' \in [Account -> Nat]
        /\ \A a \in Account : GivenBy(a)' \in [Account \X Kind -> Nat]
    BY <1>5 DEF GivenTo, GivenBy
  <1> HIDE DEF owner, dn, dc
  <1>7. TotalsAreDelegated'
    <2> SUFFICES ASSUME NEW r \in Account, NEW k \in Kind
                 PROVE  resources'[<<r, k>>] = SumOf(GivenTo(<<r, k>>)')
      BY DEF TotalsAreDelegated, GivenTo
    <2> DEFINE x == <<r, k>>
               G == GivenTo(x)
    <2>1. resources[x] = SumOf(G) /\ resources[x] \in Nat
      BY <1>1, <1>5 DEF TotalsAreDelegated, GivenTo
    <2>2. G \in [Account -> Nat] /\ IsFiniteSet(Units(G)) /\ G' \in [Account -> Nat]
      BY <1>4, <1>6
    <2>3. \A f \in Account : /\ G[f] = delegated[<<f, r, k>>]
                             /\ G'[f] = delegated'[<<f, r, k>>]
      BY DEF GivenTo
    <2>4. CASE r = receiver
      <3>1. G'[owner] = G[owner] + delta[k]
        BY <1>2, <1>3, <2>3, <2>4, ZenonT(60)
      <3>2. \A f \in Account \ {owner} : G'[f] = G[f]
        BY <1>0, <2>3, ZenonT(60)
      <3>3. G[owner] \in Nat /\ G'[owner] \in Nat /\ delta[k] \in Int
        BY <1>2, <2>2
      <3> HIDE DEF G
      <3>4. SumOf(G') = SumOf(G) - G[owner] + G'[owner]
        BY ONLY <1>2, <2>2, <3>2, SumOneEntry
      <3>5. resources'[x] = resources[x] + delta[k]
        BY <1>3, <2>4
      <3>6. SumOf(G') = SumOf(G) + delta[k]
        BY <2>1, <3>1, <3>3, <3>4
      <3>7. resources'[x] = SumOf(G')
        BY <2>1, <3>5, <3>6
      <3> QED
        BY <3>7 DEF G
    <2>5. CASE r # receiver
      <3>1. \A f \in Account : G'[f] = G[f]
        BY <1>0, <2>3, <2>5, ZenonT(60)
      <3>2. G' = G
        <4> HIDE DEF G
        <4> QED
          BY <2>2, <3>1
      <3>3. resources'[x] = resources[x]
        BY <1>3, <2>1, <2>5
      <3> QED
        BY <2>1, <3>2, <3>3
    <2> QED
      BY <2>4, <2>5
  <1>8. VotesAreDelegated'
    <2> SUFFICES ASSUME NEW a \in Account
                 PROVE  staked'[a] = SumOf(GivenBy(a)')
      BY DEF VotesAreDelegated, GivenBy
    <2> DEFINE G == GivenBy(a)
               P == Account \X Kind
               n == <<receiver, "net">>
               c == <<receiver, "cpu">>
    <2>1. staked[a] = SumOf(G) /\ staked[a] \in Nat
      BY <1>1, <1>5 DEF VotesAreDelegated, GivenBy
    <2>2. G \in [P -> Nat] /\ IsFiniteSet(Units(G)) /\ G' \in [P -> Nat]
      BY <1>4, <1>6
    <2>3. \A r \in Account : \A k \in Kind : /\ G[<<r, k>>] = delegated[<<a, r, k>>]
                                             /\ G'[<<r, k>>] = delegated'[<<a, r, k>>]
      BY DEF GivenBy
    <2>4. CASE a = owner
      <3>1. n \in P /\ c \in P /\ n # c
        BY DEF Kind
      <3>2. G'[n] = G[n] + dn /\ G'[c] = G[c] + dc
        BY <1>2, <1>3, <2>3, <2>4 DEF Kind, dn, dc
      <3>3. \A x \in P \ {n, c} : G'[x] = G[x]
        <4>1. \A r \in Account \ {receiver} : \A k \in Kind : G'[<<r, k>>] = G[<<r, k>>]
          <5> SUFFICES ASSUME NEW r \in Account, NEW k \in Kind, r # receiver
                       PROVE  G'[<<r, k>>] = G[<<r, k>>]
            OBVIOUS
          <5>1. delegated'[<<a, r, k>>] = delegated[<<a, r, k>>]
            BY <1>0
          <5> HIDE DEF G
          <5> QED
            BY <2>3, <5>1
        <4>2. \A x \in P \ {n, c} : /\ x[1] \in Account \ {receiver} /\ x[2] \in Kind
                                    /\ x = <<x[1], x[2]>>
          BY DEF Kind
        <4> HIDE DEF G, P, n, c
        <4> QED
          BY <4>1, <4>2
      <3>4. G[n] \in Nat /\ G[c] \in Nat
        BY <2>2, <3>1
      <3>5. SumOf(G) \in Nat /\ staked'[a] = staked[a] + (dn + dc)
        BY <1>3, <2>1, <2>4
      <3> HIDE DEF G, P, n, c
      <3>6. /\ IsFiniteSet(Units(G'))
            /\ SumOf(G') - G'[n] - G'[c] = SumOf(G) - G[n] - G[c]
        BY ONLY <2>2, <3>1, <3>3, SumTwoEntries
      <3>7. SumOf(G') \in Nat
        BY <3>6, FS_CardinalityType DEF SumOf
      <3>8. SumOf(G') = SumOf(G) + (dn + dc)
        BY <1>2, <3>2, <3>4, <3>5, <3>6, <3>7
      <3>9. staked'[a] = SumOf(G')
        BY <2>1, <3>5, <3>8
      <3> QED
        BY <3>9 DEF G
    <2>5. CASE a # owner
      <3>1. \A r \in Account : \A k \in Kind : G'[<<r, k>>] = G[<<r, k>>]
        <4> SUFFICES ASSUME NEW r \in Account, NEW k \in Kind
                     PROVE  G'[<<r, k>>] = G[<<r, k>>]
          OBVIOUS
        <4>1. delegated'[<<a, r, k>>] = delegated[<<a, r, k>>]
          BY <1>0, <2>5
        <4> HIDE DEF G
        <4> QED
          BY <2>3, <4>1
      <3>2. G' = G
        <4>1. \A x \in P : G'[x] = G[x]
          BY <3>1
        <4> HIDE DEF G, P
        <4> QED
          BY <2>2, <4>1
      <3>3. staked'[a] = staked[a]
        BY <1>3, <2>1, <2>5
      <3> QED
        BY <2>1, <3>2, <3>3
    <2> QED
      BY <2>4, <2>5
  <1>9. LimitsFollowTotals'
    <2> SUFFICES ASSUME NEW r \in Account, NEW k \in Kind, <<r, k>> \notin managed
                 PROVE  limits'[<<r, k>>] = resources'[<<r, k>>]
      BY <1>3 DEF LimitsFollowTotals
    <2>1. limits'[<<r, k>>] = IF r = receiver THEN resources'[<<r, k>>] ELSE limits[<<r, k>>]
      BY <1>3 DEF SetLimits
    <2>2. limits[<<r, k>>] = resources[<<r, k>>] /\ resources[<<r, k>>] \in Nat
      BY <1>1, <1>5 DEF LimitsFollowTotals
    <2>3. r # receiver => resources'[<<r, k>>] = resources[<<r, k>>]
      BY <1>3, <2>2
    <2> QED
      BY <2>1, <2>2, <2>3
  <1>10. VestingHolds'
    <2>1. Claimable' = Claimable
      BY <1>3 DEF Claimable
    <2> SUFFICES ASSUME NEW a \in Account, a = B1
                 PROVE  staked'[a] = 0 \/ staked'[a] >= MaxClaimable - Claimable
      BY <2>1 DEF VestingHolds
    <2>2. CASE a = owner
      BY <1>3, <2>1, <2>2 DEF KeepsVesting
    <2>3. CASE a # owner
      <3>1. staked'[a] = staked[a]
        BY <1>3, <1>5, <2>3
      <3> QED
        BY <1>1, <3>1 DEF VestingHolds
    <2> QED
      BY <2>2, <2>3
  <1> QED
    BY <1>1, <1>7, <1>8, <1>9, <1>10 DEF StakesAddUp, StakeAddsUp

\* Vesting only ever lowers what must stay staked.
LEMMA ClaimableGrows ==
  ASSUME vested \in 0 .. VestingTime, vested' \in 0 .. VestingTime, vested <= vested'
  PROVE  /\ Claimable \in Nat /\ Claimable' \in Nat
         /\ Claimable <= Claimable'
  <1>1. MaxClaimable \in Nat /\ VestingTime \in Nat \ {0}
    BY StakingAssumption
  <1>2. vested \in Nat /\ vested' \in Nat
    BY <1>1
  <1>3. MaxClaimable * vested \in Nat /\ MaxClaimable * vested' \in Nat
    BY <1>1, <1>2, ProductIsNat
  <1>4. MaxClaimable * vested <= MaxClaimable * vested'
    BY <1>1, <1>2, ProductMonotonic
  <1> QED
    BY <1>1, <1>3, <1>4, DivisionMonotonic, DivisionBounds DEF Claimable

\* A step that leaves rows, totals and votes alone, keeps the limits that are
\* not managed with the totals, and does not turn the vesting back.
LEMMA StakeUntouched ==
  ASSUME StakesAddUp, TypeOK', UNCHANGED weights, vested <= vested',
         \A x \in (Account \X Kind) \ managed' :
           \/ limits'[x] = resources[x]
           \/ x \notin managed /\ limits'[x] = limits[x]
  PROVE  StakesAddUp'
  <1>1. TypeOK /\ TotalsAreDelegated /\ VotesAreDelegated /\ LimitsFollowTotals /\ VestingHolds
    BY DEF StakesAddUp, StakeAddsUp
  <1>2. delegated' = delegated /\ resources' = resources /\ staked' = staked
    BY DEF weights
  <1>3. TotalsAreDelegated' /\ VotesAreDelegated'
    BY <1>1, <1>2 DEF TotalsAreDelegated, VotesAreDelegated
  <1>4. LimitsFollowTotals'
    BY <1>1, <1>2 DEF LimitsFollowTotals
  <1>5. VestingHolds'
    <2>1. /\ Claimable \in Nat /\ Claimable' \in Nat
          /\ Claimable <= Claimable'
      BY <1>1, ClaimableGrows DEF TypeOK
    <2>2. MaxClaimable \in Nat
      BY StakingAssumption
    <2> SUFFICES ASSUME NEW a \in Account, a = B1
                 PROVE  staked[a] = 0 \/ staked[a] >= MaxClaimable - Claimable'
      BY <1>2 DEF VestingHolds
    <2>3. staked[a] \in Nat /\ (staked[a] = 0 \/ staked[a] >= MaxClaimable - Claimable)
      BY <1>1 DEF VestingHolds, TypeOK
    <2> QED
      BY <2>1, <2>2, <2>3
  <1> QED
    BY <1>3, <1>4, <1>5 DEF StakesAddUp, StakeAddsUp

\* A step keeps the tables in step.
LEMMA StepAddsUp == StakingInv /\ StakesAddUp /\ [Next]_vars => StakesAddUp'
  <1> SUFFICES ASSUME StakingInv, StakesAddUp, [Next]_vars
               PROVE  StakesAddUp'
    OBVIOUS
  <1>1. TypeOK /\ StakingInv' /\ TypeOK'
    <2>1. StakingInv'
      BY StepHolds
    <2> QED
      BY <2>1 DEF StakingInv
  <1>2. vested \in Nat
    BY <1>1, StakingAssumption DEF TypeOK
  <1>3. ASSUME NEW p \in Account, NEW r \in Account, NEW q \in Offers, NEW t \in BOOLEAN,
               DelegateBw(p, r, q, t)
        PROVE  StakesAddUp'
    BY <1>1, <1>3, OffersGoOneWay, ChangeBwAddsUp DEF DelegateBw
  <1>4. ASSUME NEW p \in Account, NEW r \in Account, NEW q \in Offers,
               UndelegateBw(p, r, q)
        PROVE  StakesAddUp'
    BY <1>1, <1>4, OffersGoOneWay, ChangeBwAddsUp DEF UndelegateBw
  <1>5. ASSUME UNCHANGED <<weights, kernel, vested>>
        PROVE  StakesAddUp'
    <2>1. UNCHANGED weights /\ vested <= vested' /\ managed' = managed /\ limits' = limits
      BY <1>2, <1>5 DEF kernel
    <2> QED
      BY <1>1, <2>1, StakeUntouched
  <1>6. ASSUME NEW a \in Account, Refund(a) \/ RunDeferred(a) \/ LoseDeferred(a)
        PROVE  StakesAddUp'
    BY <1>5, <1>6 DEF Refund, RunDeferred, LoseDeferred, PayRefund
  <1>7. ASSUME NEW a \in Account, NEW k \in Kind, UnmanageLimit(a, k)
        PROVE  StakesAddUp'
    <2>1. UNCHANGED weights /\ vested <= vested'
      BY <1>2, <1>7 DEF UnmanageLimit
    <2>2. \A x \in (Account \X Kind) \ managed' :
            limits'[x] = resources[x] \/ (x \notin managed /\ limits'[x] = limits[x])
      BY <1>1, <1>7 DEF UnmanageLimit, TypeOK
    <2> QED
      BY <1>1, <2>1, <2>2, StakeUntouched
  <1>8. ASSUME NEW a \in Account, NEW k \in Kind, NEW l \in LimitValues, ManageLimit(a, k, l)
        PROVE  StakesAddUp'
    <2>1. UNCHANGED weights /\ vested <= vested'
      BY <1>2, <1>8 DEF ManageLimit
    <2>2. \A x \in (Account \X Kind) \ managed' :
            limits'[x] = resources[x] \/ (x \notin managed /\ limits'[x] = limits[x])
      BY <1>1, <1>8 DEF ManageLimit, TypeOK
    <2> QED
      BY <1>1, <2>1, <2>2, StakeUntouched
  <1>9. CASE Tick
    <2>1. UNCHANGED <<weights, kernel>> /\ vested <= vested'
      BY <1>2, <1>9 DEF Tick
    <2> QED
      BY <1>1, <2>1, StakeUntouched DEF kernel
  <1>10. CASE UNCHANGED vars
    BY <1>5, <1>10 DEF vars
  <1> QED
    BY <1>3, <1>4, <1>6, <1>7, <1>8, <1>9, <1>10 DEF Next

\* Nothing is staked at first, so there is nothing to add up or to vest.
LEMMA InitAddsUp == Init => StakesAddUp
  <1> SUFFICES ASSUME Init
               PROVE  StakesAddUp
    OBVIOUS
  <1>1. TypeOK
    BY InitHolds DEF StakingInv
  <1>2. TotalsAreDelegated
    <2> SUFFICES ASSUME NEW x \in Account \X Kind
                 PROVE  resources[x] = SumOf([f \in Account |-> delegated[<<f, x[1], x[2]>>]])
      BY DEF TotalsAreDelegated
    <2>1. [f \in Account |-> delegated[<<f, x[1], x[2]>>]] = [f \in Account |-> 0]
      BY DEF Init
    <2> QED
      BY <2>1, SumOfZeros DEF Init
  <1>3. VotesAreDelegated
    <2> SUFFICES ASSUME NEW a \in Account
                 PROVE  staked[a] = SumOf([x \in Account \X Kind |-> delegated[<<a, x[1], x[2]>>]])
      BY DEF VotesAreDelegated
    <2>1. [x \in Account \X Kind |-> delegated[<<a, x[1], x[2]>>]] = [x \in Account \X Kind |-> 0]
      BY DEF Init
    <2> QED
      BY <2>1, SumOfZeros DEF Init
  <1>4. LimitsFollowTotals /\ VestingHolds
    BY DEF Init, LimitsFollowTotals, VestingHolds
  <1> QED
    BY <1>1, <1>2, <1>3, <1>4 DEF StakesAddUp, StakeAddsUp

-----------------------------------------------------------------------------

\* The tables of the abstract lock.
Liquid == [a \in Account |-> balance[a]]
OnTheWay == [a \in Account |-> Returning(a)]

\* What a change of an owner's stake does to the tokens on their way back.
LEMMA ReturningAfter ==
  ASSUME TypeOK, NEW owner \in Account, NEW delta, OneDirection(delta),
         refund_amount' = RefundAfter(owner, delta)
  PROVE  LET n == delta["net"] + delta["cpu"]
             due == Unrefunded(owner, delta)
         IN  /\ due \in Nat
             /\ Returning(owner)' = Returning(owner) - n + due
             /\ n > 0 => due <= n
             /\ n < 0 => due = 0
             /\ \A a \in Account \ {owner} : Returning(a)' = Returning(a)
  <1> DEFINE rn == refund_amount[<<owner, "net">>]
             rc == refund_amount[<<owner, "cpu">>]
             dn == delta["net"]
             dc == delta["cpu"]
             due == Unrefunded(owner, delta)
  <1>1. /\ rn \in Nat /\ rc \in Nat /\ dn \in Int /\ dc \in Int
        /\ (dn >= 0 /\ dc >= 0) \/ (dn <= 0 /\ dc <= 0)
    BY DEF TypeOK, OneDirection, Kind
  <1>2. /\ refund_amount'[<<owner, "net">>] = Positive(rn - dn)
        /\ refund_amount'[<<owner, "cpu">>] = Positive(rc - dc)
    BY DEF RefundAfter, Kind
  <1>3. \A a \in Account \ {owner} : Returning(a)' = Returning(a)
    BY DEF RefundAfter, Returning, Kind
  <1>4. due = Positive(dn - rn) + Positive(dc - rc)
    BY DEF Unrefunded
  <1>5. /\ Returning(owner) = rn + rc
        /\ Returning(owner)' = Positive(rn - dn) + Positive(rc - dc)
    BY <1>2 DEF Returning
  <1> HIDE DEF rn, rc, dn, dc, due
  <1>6. /\ due \in Nat
        /\ Returning(owner)' = Returning(owner) - (dn + dc) + due
        /\ dn + dc > 0 => due <= dn + dc
        /\ dn + dc < 0 => due = 0
    BY <1>1, <1>4, <1>5 DEF Positive
  <1> QED
    BY <1>3, <1>6 DEF dn, dc, due

\* What the payer pays comes out of its liquid tokens.
LEMMA LiquidAfter ==
  ASSUME TypeOK, NEW payer \in Account, NEW due \in Nat,
         IF due > 0
         THEN /\ CanPay(balance, payer, due)
              /\ balance' = Paid(balance, payer, "eosio.stake", due)
         ELSE UNCHANGED balance
  PROVE  /\ Liquid[payer] >= due
         /\ Liquid' = [Liquid EXCEPT ![payer] = @ - due]
  <1>1. balance \in [Holder -> Nat] /\ \A a \in Account : a \in Holder /\ balance[a] \in Nat
    BY DEF TypeOK, Holder
  <1>2. /\ balance[payer] >= due
        /\ \A a \in Account : balance'[a] = IF a = payer THEN balance[a] - due ELSE balance[a]
    <2>1. CASE due > 0
      BY <1>1, <2>1, PaymentEffect DEF CanPay
    <2>2. CASE due = 0
      BY <1>1, <2>2
    <2> QED
      BY <2>1, <2>2
  <1> QED
    BY <1>2 DEF Liquid

\* The lock's view of a change of stake: who is affected, and in what.
LEMMA ChangeBwView ==
  ASSUME StakingInv,
         NEW payer \in Account, NEW receiver \in Account, NEW transfer \in BOOLEAN,
         transfer => payer # receiver,
         NEW delta, OneDirection(delta), ChangeBw(payer, receiver, delta, transfer),
         NEW owner, owner = IF transfer THEN receiver ELSE payer,
         NEW n, n = delta["net"] + delta["cpu"], transfer => n > 0
  PROVE  \E due \in Nat :
           /\ Liquid[payer] >= due
           /\ Liquid' = [Liquid EXCEPT ![payer] = @ - due]
           /\ n > 0 => due <= n
           /\ n < 0 => due = 0
           /\ payer # owner => due = n
           /\ Returning(owner)' = Returning(owner) - n + due
           /\ \A a \in Account \ {owner} : Returning(a)' = Returning(a)
  <1> DEFINE undelegating == n < 0
             toSelf == ~transfer /\ payer = receiver
             paid(due) == IF due > 0
                          THEN /\ CanPay(balance, payer, due)
                               /\ balance' = Paid(balance, payer, "eosio.stake", due)
                          ELSE UNCHANGED balance
  <1>1. TypeOK /\ owner \in Account /\ n \in Int /\ n # 0
    BY DEF StakingInv, OneDirection, Kind
  <1>2. UpdateRefund(payer, receiver, delta, transfer)
    BY DEF ChangeBw
  <1>3. CASE toSelf \/ undelegating
    <2> DEFINE due == Unrefunded(owner, delta)
    <2>1. refund_amount' = RefundAfter(owner, delta) /\ paid(due)
      BY <1>2, <1>3 DEF UpdateRefund
    <2>2. /\ due \in Nat
          /\ Returning(owner)' = Returning(owner) - n + due
          /\ n > 0 => due <= n
          /\ n < 0 => due = 0
          /\ \A a \in Account \ {owner} : Returning(a)' = Returning(a)
      BY <1>1, <2>1, ReturningAfter
    <2> HIDE DEF due
    <2>3. /\ Liquid[payer] >= due
          /\ Liquid' = [Liquid EXCEPT ![payer] = @ - due]
      BY <1>1, <2>1, <2>2, LiquidAfter
    <2>4. payer = owner
      BY <1>1, <1>3
    <2> QED
      BY <2>2, <2>3, <2>4
  <1>4. CASE ~(toSelf \/ undelegating)
    <2>1. refund_amount' = refund_amount /\ paid(n)
      BY <1>2, <1>4 DEF UpdateRefund
    <2>2. n \in Nat /\ n > 0
      BY <1>1, <1>4
    <2>3. /\ Liquid[payer] >= n
          /\ Liquid' = [Liquid EXCEPT ![payer] = @ - n]
      BY <1>1, <2>1, <2>2, LiquidAfter
    <2>4. \A a \in Account : Returning(a)' = Returning(a)
      BY <2>1 DEF Returning
    <2>5. Returning(owner) \in Nat
      BY <1>1, PendingMeansReturning
    <2>6. Returning(owner)' = Returning(owner) - n + n
      BY <1>1, <2>2, <2>4, <2>5
    <2>7. (n > 0 => n <= n) /\ (n < 0 => n = 0)
      BY <2>2
    <2> WITNESS n \in Nat
    <2> QED
      BY <2>3, <2>4, <2>6, <2>7
  <1> QED
    BY <1>3, <1>4

\* The times of the changed refund, as the lock sees them.
LEMMA ChangeBwWaits ==
  ASSUME StakingInv, StakingInv',
         NEW payer \in Account, NEW receiver \in Account, NEW transfer \in BOOLEAN,
         NEW delta, ChangeBw(payer, receiver, delta, transfer),
         NEW owner, owner = IF transfer THEN receiver ELSE payer
  PROVE  /\ refund_age'[owner] =
              IF delta["net"] + delta["cpu"] < 0 \/ Returning(owner)' = 0 THEN 0
              ELSE refund_age[owner]
         /\ \A a \in Account \ {owner} : refund_age'[a] = refund_age[a]
  <1>1. /\ TypeOK /\ IdleIsNew /\ TypeOK' /\ owner \in Account
        /\ UpdateRefund(payer, receiver, delta, transfer)
    BY DEF StakingInv, ChangeBw
  <1>2. refund_amount' \in [Account \X Kind -> Nat]
    BY <1>1 DEF TypeOK
  <1>3. /\ refund_age'[owner] =
             IF delta["net"] + delta["cpu"] < 0 \/ ~Pending(owner)' THEN 0
             ELSE refund_age[owner]
        /\ \A a \in Account \ {owner} : refund_age'[a] = refund_age[a]
    BY <1>1, <1>2, UpdateRefundTimes
  <1>4. ~Pending(owner)' <=> Returning(owner)' = 0
    <2>1. /\ refund_amount'[<<owner, "net">>] \in Nat
          /\ refund_amount'[<<owner, "cpu">>] \in Nat
      BY <1>1, <1>2 DEF Kind
    <2> QED
      BY <2>1 DEF Returning, Pending, Kind
  <1> QED
    BY <1>3, <1>4

\* A delegation is a stake of the abstract lock.
LEMMA DelegateIsStake ==
  ASSUME StakingInv, StakingInv',
         NEW p \in Account, NEW r \in Account, NEW q \in Offers, NEW t \in BOOLEAN,
         DelegateBw(p, r, q, t)
  PROVE  Lock!Next
  <1> DEFINE o == IF t THEN r ELSE p
             n == q["net"] + q["cpu"]
  <1>1. /\ o \in Account /\ OneDirection(q) /\ q["net"] \in Nat /\ q["cpu"] \in Nat
        /\ n \in Nat /\ n > 0
        /\ ChangeBw(p, r, q, t) /\ (t => p # r)
    <2>1. q \in [Kind -> Nat] /\ n > 0
      BY StakingAssumption DEF Offers
    <2>2. q["net"] \in Nat /\ q["cpu"] \in Nat
      BY <2>1 DEF Kind
    <2>3. OneDirection(q)
      BY OffersGoOneWay
    <2>4. ChangeBw(p, r, q, t) /\ (t => p # r)
      BY DEF DelegateBw
    <2> QED
      BY <2>1, <2>2, <2>3, <2>4
  <1>2. TypeOK /\ TypeOK'
    BY DEF StakingInv
  <1>3. o = IF t THEN r ELSE p
    OBVIOUS
  <1>4. n = q["net"] + q["cpu"]
    OBVIOUS
  <1> HIDE DEF o, n
  <1>5. PICK due \in Nat :
          /\ Liquid[p] >= due
          /\ Liquid' = [Liquid EXCEPT ![p] = @ - due]
          /\ n > 0 => due <= n
          /\ n < 0 => due = 0
          /\ p # o => due = n
          /\ Returning(o)' = Returning(o) - n + due
          /\ \A a \in Account \ {o} : Returning(a)' = Returning(a)
    BY <1>1, <1>3, <1>4, ChangeBwView
  <1>6. /\ refund_age'[o] = IF Returning(o)' = 0 THEN 0 ELSE refund_age[o]
        /\ \A a \in Account \ {o} : refund_age'[a] = refund_age[a]
    BY <1>1, <1>3, <1>4, ChangeBwWaits
  <1>7. staked' = [staked EXCEPT ![o] = @ + n]
    <2>1. \A a \in Account :
            staked'[a] = staked[a] + (IF a = o THEN q["net"] + q["cpu"] ELSE 0)
      BY <1>1, <1>2, <1>3, ChangeBwTables
    <2>2. staked \in [Account -> Nat] /\ staked' \in [Account -> Nat]
      BY <1>2 DEF TypeOK
    <2>3. \A a \in Account : staked'[a] = IF a = o THEN staked[a] + n ELSE staked[a]
      BY <1>1, <1>4, <2>1, <2>2
    <2> QED
      BY <1>1, <2>2, <2>3
  <1>8. /\ \A a \in Account : Returning(a) \in Nat
        /\ Returning(o)' \in Nat
    <2>1. \A a \in Account : Returning(a) \in Nat
      BY <1>2, PendingMeansReturning
    <2>2. refund_amount'[<<o, "net">>] \in Nat /\ refund_amount'[<<o, "cpu">>] \in Nat
      BY <1>1, <1>2 DEF TypeOK, Kind
    <2> QED
      BY <2>1, <2>2 DEF Returning
  <1>9. Liquid[p] \in Nat
    BY <1>2 DEF Liquid, TypeOK, Holder
  <1> DEFINE reused == n - due
  <1>10. /\ reused \in 0 .. (IF p = o THEN OnTheWay[o] ELSE 0)
         /\ reused <= n /\ n - reused = due
    <2>1. OnTheWay[o] = Returning(o)
      BY <1>1 DEF OnTheWay
    <2> QED
      BY <1>1, <1>5, <1>8, <2>1
  <1>11. OnTheWay' = [OnTheWay EXCEPT ![o] = @ - reused]
    <2>1. Returning(o)' = Returning(o) - reused
      BY <1>1, <1>5, <1>8
    <2> HIDE DEF reused
    <2> QED
      BY <1>1, <1>5, <2>1 DEF OnTheWay
  <1>12. refund_age' = [refund_age EXCEPT ![o] = IF OnTheWay'[o] = 0 THEN 0 ELSE @]
    <2>1. refund_age \in [Account -> 0 .. RefundDelay] /\ refund_age' \in [Account -> 0 .. RefundDelay]
      BY <1>2 DEF TypeOK
    <2>2. OnTheWay'[o] = Returning(o)'
      BY <1>1 DEF OnTheWay
    <2> QED
      BY <1>1, <1>6, <2>1, <2>2
  <1>13. n \in 1 .. Liquid[p] + OnTheWay[p]
    <2>1. OnTheWay[p] = Returning(p) /\ Returning(p) \in Nat
      BY <1>8 DEF OnTheWay
    <2>2. p = o => OnTheWay[p] >= reused
      BY <1>10
    <2>3. p # o => reused = 0
      BY <1>5, <1>1
    <2> QED
      BY <1>1, <1>5, <1>9, <1>10, <2>1, <2>2, <2>3
  <1> HIDE DEF reused
  <1>14. Lock!Stake(p, o, n)
    <2>1. Liquid[p] >= n - reused /\ Liquid' = [Liquid EXCEPT ![p] = @ - (n - reused)]
      BY <1>5, <1>10
    <2> QED
      BY <1>7, <1>10, <1>11, <1>12, <2>1 DEF Lock!Stake, Liquid, OnTheWay, Returning
  <1> QED
    BY <1>1, <1>13, <1>14 DEF Lock!Next, Liquid, OnTheWay, Returning

\* An undelegation is an unstaking of the abstract lock.
LEMMA UndelegateIsUnstake ==
  ASSUME StakingInv, StakingInv',
         NEW p \in Account, NEW r \in Account, NEW q \in Offers, UndelegateBw(p, r, q)
  PROVE  Lock!Next
  <1> DEFINE delta == [k \in Kind |-> -q[k]]
             n == q["net"] + q["cpu"]
             m == delta["net"] + delta["cpu"]
  <1>1. /\ OneDirection(delta) /\ ChangeBw(p, r, delta, FALSE)
        /\ n \in Nat /\ n > 0 /\ m = -n
    <2>1. q \in [Kind -> Nat] /\ n > 0
      BY StakingAssumption DEF Offers
    <2>2. q["net"] \in Nat /\ q["cpu"] \in Nat
      BY <2>1 DEF Kind
    <2>3. delta["net"] = -q["net"] /\ delta["cpu"] = -q["cpu"]
      BY DEF Kind
    <2>4. OneDirection(delta)
      BY OffersGoOneWay
    <2>5. ChangeBw(p, r, delta, FALSE)
      BY DEF UndelegateBw
    <2>6. m = -n /\ n \in Nat
      BY <2>2, <2>3
    <2> HIDE DEF delta, n, m
    <2> QED
      BY <2>1, <2>4, <2>5, <2>6 DEF n
  <1>2. TypeOK /\ TypeOK'
    BY DEF StakingInv
  <1>t. PICK t \in BOOLEAN : t = FALSE
    OBVIOUS
  <1>3. /\ m = delta["net"] + delta["cpu"]
        /\ p = IF t THEN r ELSE p
        /\ ~t
        /\ ChangeBw(p, r, delta, t)
    BY <1>1, <1>t
  <1> HIDE DEF delta, n, m
  <1>4. PICK due \in Nat :
          /\ Liquid' = [Liquid EXCEPT ![p] = @ - due]
          /\ m < 0 => due = 0
          /\ Returning(p)' = Returning(p) - m + due
          /\ \A a \in Account \ {p} : Returning(a)' = Returning(a)
    BY <1>1, <1>3, ChangeBwView
  <1>5. m < 0 /\ due = 0
    BY <1>1, <1>4
  <1>6. /\ refund_age'[p] = 0
        /\ \A a \in Account \ {p} : refund_age'[a] = refund_age[a]
    BY <1>1, <1>3, <1>5, ChangeBwWaits
  <1>7. /\ \A a \in Account : staked[a] \in Nat /\ staked'[a] \in Nat
        /\ staked'[p] = staked[p] - n
        /\ \A a \in Account \ {p} : staked'[a] = staked[a]
    <2>1. \A a \in Account : staked'[a] = staked[a] + (IF a = p THEN m ELSE 0)
      BY <1>1, <1>2, <1>3, ChangeBwTables
    <2>2. \A a \in Account : staked[a] \in Nat /\ staked'[a] \in Nat
      BY <1>2 DEF TypeOK
    <2>3. staked'[p] = staked[p] - n
      BY <1>1, <2>1, <2>2
    <2>4. \A a \in Account \ {p} : staked'[a] = staked[a]
      BY <2>1, <2>2
    <2> QED
      BY <2>2, <2>3, <2>4
  <1>8. staked' = [staked EXCEPT ![p] = @ - n] /\ n \in 1 .. staked[p]
    <2>1. staked \in [Account -> Nat] /\ staked' \in [Account -> Nat]
      BY <1>2 DEF TypeOK
    <2>2. n \in 1 .. staked[p]
      BY <1>1, <1>7
    <2> QED
      BY <1>7, <2>1, <2>2
  <1>9. OnTheWay' = [OnTheWay EXCEPT ![p] = @ + n]
    <2>1. Returning(p) \in Nat
      BY <1>2, PendingMeansReturning
    <2>2. Returning(p)' = Returning(p) + n
      BY <1>1, <1>4, <1>5, <2>1
    <2> QED
      BY <1>4, <2>2 DEF OnTheWay
  <1>10. refund_age' = [refund_age EXCEPT ![p] = 0]
    <2>1. refund_age \in [Account -> 0 .. RefundDelay] /\ refund_age' \in [Account -> 0 .. RefundDelay]
      BY <1>2 DEF TypeOK
    <2> QED
      BY <1>6, <2>1
  <1>11. Liquid' = Liquid
    <2>1. \A a \in Account : Liquid[a] \in Nat
      BY <1>2 DEF Liquid, TypeOK, Holder
    <2>2. Liquid = [a \in Account |-> Liquid[a]]
      BY DEF Liquid
    <2>3. Liquid' = [Liquid EXCEPT ![p] = @ - 0]
      BY <1>4, <1>5
    <2> QED
      BY <2>1, <2>2, <2>3
  <1>12. Lock!Unstake(p, n)
    BY <1>7, <1>8, <1>9, <1>10, <1>11 DEF Lock!Unstake, Liquid, OnTheWay, Returning
  <1> QED
    BY <1>8, <1>12 DEF Lock!Next

\* A refund paid out is a withdrawal of the abstract lock.
LEMMA RefundIsWithdrawal ==
  ASSUME StakingInv, NEW o \in Account, PayRefund(o)
  PROVE  Lock!Next
  <1>1. TypeOK
    BY DEF StakingInv
  <1>2. Returning(o) \in Nat /\ Returning(o) > 0
    BY <1>1, PendingMeansReturning DEF PayRefund
  <1>3. refund_age[o] = RefundDelay
    <2>1. refund_age[o] \in 0 .. RefundDelay /\ refund_age[o] >= RefundDelay
      BY <1>1 DEF PayRefund, TypeOK
    <2> QED
      BY <2>1, StakingAssumption
  <1>4. Liquid' = [Liquid EXCEPT ![o] = @ + OnTheWay[o]]
    <2>1. o # "eosio.stake" /\ balance \in [Holder -> Nat] /\ "eosio.stake" \notin Account
      BY <1>1, StakingAssumption DEF TypeOK
    <2>2. \A a \in Account : a \in Holder
      BY DEF Holder
    <2>3. balance' = Paid(balance, "eosio.stake", o, Returning(o))
      BY DEF PayRefund, Returning
    <2>4. \A a \in Account :
            balance'[a] = IF a = o THEN balance[a] + Returning(o) ELSE balance[a]
      BY <2>1, <2>2, <2>3 DEF Paid
    <2> QED
      BY <2>4 DEF Liquid, OnTheWay
  <1>5. OnTheWay' = [OnTheWay EXCEPT ![o] = 0]
    <2>1. /\ Returning(o)' = 0
          /\ \A a \in Account \ {o} : Returning(a)' = Returning(a)
      BY DEF PayRefund, Returning, Kind
    <2> QED
      BY <2>1 DEF OnTheWay
  <1>6. refund_age' = [refund_age EXCEPT ![o] = 0] /\ staked' = staked
    BY DEF PayRefund, weights
  <1>7. OnTheWay[o] > 0
    BY <1>2 DEF OnTheWay
  <1>8. Lock!Withdraw(o)
    BY <1>3, <1>4, <1>5, <1>6, <1>7 DEF Lock!Withdraw, Liquid, OnTheWay, Returning
  <1> QED
    BY <1>8 DEF Lock!Next

\* Time passing is the lock's waiting.
LEMMA TickIsWait ==
  ASSUME StakingInv, Tick
  PROVE  Lock!Next
  <1>1. TypeOK
    BY DEF StakingInv
  <1>2. \A a \in Account : Pending(a) <=> OnTheWay[a] > 0
    BY <1>1, PendingMeansReturning DEF OnTheWay
  <1>3. refund_age' = [a \in Account |-> IF OnTheWay[a] > 0 /\ refund_age[a] < RefundDelay
                                         THEN refund_age[a] + 1 ELSE refund_age[a]]
    BY <1>2 DEF Tick
  <1>4. Liquid' = Liquid /\ OnTheWay' = OnTheWay /\ staked' = staked
    BY DEF Tick, weights, Liquid, OnTheWay, Returning
  <1>5. Lock!Wait
    BY <1>3, <1>4 DEF Lock!Wait, Liquid, OnTheWay, Returning
  <1> QED
    BY <1>5 DEF Lock!Next

\* Every step of staking is a step of the lock, or none of its business.
LEMMA StepIsLockStep == StakingInv /\ StakingInv' /\ [Next]_vars => [Lock!Next]_(Lock!vars)
  <1> SUFFICES ASSUME StakingInv, StakingInv', [Next]_vars
               PROVE  Lock!Next \/ UNCHANGED Lock!vars
    OBVIOUS
  <1>1. ASSUME NEW p \in Account, NEW r \in Account, NEW q \in Offers, NEW t \in BOOLEAN,
               DelegateBw(p, r, q, t)
        PROVE  Lock!Next
    BY <1>1, DelegateIsStake
  <1>2. ASSUME NEW p \in Account, NEW r \in Account, NEW q \in Offers,
               UndelegateBw(p, r, q)
        PROVE  Lock!Next
    BY <1>2, UndelegateIsUnstake
  <1>3. ASSUME UNCHANGED <<staked, refund_amount, refund_age, balance>>
        PROVE  UNCHANGED Lock!vars
    BY <1>3 DEF Lock!vars
  <1>4. ASSUME NEW a \in Account, Refund(a)
        PROVE  Lock!Next
    BY <1>4, RefundIsWithdrawal DEF Refund
  <1>5. ASSUME NEW a \in Account, RunDeferred(a) \/ LoseDeferred(a)
        PROVE  Lock!Next \/ UNCHANGED Lock!vars
    BY <1>3, <1>5, RefundIsWithdrawal DEF RunDeferred, LoseDeferred, weights
  <1>6. ASSUME NEW a \in Account, NEW k \in Kind, UnmanageLimit(a, k)
        PROVE  UNCHANGED Lock!vars
    BY <1>3, <1>6 DEF UnmanageLimit, weights, refunds
  <1>7. ASSUME NEW a \in Account, NEW k \in Kind, NEW l \in LimitValues, ManageLimit(a, k, l)
        PROVE  UNCHANGED Lock!vars
    BY <1>3, <1>7 DEF ManageLimit, weights, refunds
  <1>8. CASE Tick
    BY <1>8, TickIsWait
  <1>9. CASE UNCHANGED vars
    BY <1>3, <1>9 DEF vars, weights, refunds
  <1> QED
    BY <1>1, <1>2, <1>4, <1>5, <1>6, <1>7, <1>8, <1>9 DEF Next

\* Staking starts where the lock starts: nothing staked, all funds liquid.
LEMMA InitIsLockInit == Init => Lock!Init
  <1> SUFFICES ASSUME Init
               PROVE  Lock!Init
    OBVIOUS
  <1>1. [a \in Account |-> balance[a]] = InitialFunds
    BY StakingAssumption DEF Init, Holder
  <1>2. [a \in Account |-> refund_amount[<<a, "net">>] + refund_amount[<<a, "cpu">>]]
          = [a \in Account |-> 0]
    BY DEF Init, Kind
  <1>3. staked = [a \in Account |-> 0] /\ refund_age = [a \in Account |-> 0]
    BY DEF Init
  <1> QED
    BY <1>1, <1>2, <1>3 DEF Lock!Init

\* No row of the staking tables ever goes negative, however delegations,
\* refunds and restakes follow each other.
THEOREM StakingTypeCorrect == Spec => []TypeOK
  BY InvHolds, PTL DEF StakingInv

\* Every token in eosio.stake is delegated or being refunded, and every
\* delegated or refunded token is there.
THEOREM StakingBacked == Spec => []StakeIsBacked
  BY InvHolds, PTL DEF StakingInv

\* The automatic refund is never attempted before the refund may be paid.
THEOREM StakingDeferredNotEarly == Spec => []DeferredNotEarly
  BY InvHolds, PTL DEF StakingInv

\* Rows, totals, limits and votes change by the same amounts in whatever order
\* delegations and undelegations come, and what has not vested stays staked.
THEOREM StakingAddsUp == Spec => []StakesAddUp
  BY InvHolds, InitAddsUp, StepAddsUp, PTL DEF Spec

\* Staking implements the abstract lock: nothing unstaked is liquid before the
\* owner has waited out the whole delay, and it goes to nobody else.
THEOREM StakingIsLock == Spec => LockSpec
  <1>1. Init => Lock!Init
    BY InitIsLockInit
  <1>2. StakingInv /\ StakingInv' /\ [Next]_vars => [Lock!Next]_(Lock!vars)
    BY StepIsLockStep
  <1> QED
    BY <1>1, <1>2, InvHolds, PTL DEF Spec, LockSpec, Lock!Spec

-----------------------------------------------------------------------------
(* The limits of one account (ResourceLimits).                             *)

CONSTANTS Resource, MaxWeight, MaxRam, ram_gift_bytes, HandWeights, HandBytes

VARIABLES granted, bought, row, flags, kernel_limits, ram_limit

Limits == INSTANCE ResourceLimits WITH managed <- flags, limits <- kernel_limits

\* A row that was erased held nothing: only then does setalimits find an
\* account unlimited.
LimitsInv ==
  /\ Limits!LimitsAreSound
  /\ ~row.exists => row = Limits!NoRow

\* Granting changes what was granted in all by as much.
LEMMA GrantsAddUp ==
  ASSUME Limits!TypeOK, NEW part \in Limits!Part, NEW delta \in Limits!Deltas,
         Limits!Grant(part, delta), NEW r \in Resource
  PROVE  /\ granted' \in [Limits!Part -> [Resource -> 0 .. MaxWeight]]
         /\ Limits!GrantedOf(r) \in Nat /\ Limits!GrantedOf(r)' \in Nat
         /\ Limits!GrantedOf(r)' = Limits!GrantedOf(r) + delta[r]
  <1> DEFINE f == [p \in Limits!Part |-> granted[p][r]]
             new == [granted EXCEPT ![part] = [x \in Resource |-> granted[part][x] + delta[x]]]
             g == [p \in Limits!Part |-> new[p][r]]
  <1>1. /\ granted \in [Limits!Part -> [Resource -> 0 .. MaxWeight]]
        /\ granted' = new
        /\ \A x \in Resource : granted[part][x] + delta[x] \in 0 .. MaxWeight
    BY DEF Limits!TypeOK, Limits!Grant
  <1>2. new \in [Limits!Part -> [Resource -> 0 .. MaxWeight]]
    BY <1>1
  <1>3. f \in [Limits!Part -> Nat] /\ g \in [Limits!Part -> Nat]
    BY <1>1, <1>2
  <1>4. IsFiniteSet(Limits!Part)
    <2>1. IsFiniteSet({"delegated"})
      BY FS_Singleton
    <2>2. IsFiniteSet({"delegated"} \union {"lent"})
      BY <2>1, FS_AddElement
    <2>3. IsFiniteSet(({"delegated"} \union {"lent"}) \union {"powered"})
      BY <2>2, FS_AddElement
    <2>4. Limits!Part = ({"delegated"} \union {"lent"}) \union {"powered"}
      BY DEF Limits!Part
    <2> QED
      BY <2>3, <2>4
  <1>5. IsFiniteSet(Units(f)) /\ IsFiniteSet(Units(g))
    BY <1>3, <1>4, SumIsFinite
  <1>6. /\ f[part] = granted[part][r] /\ g[part] = granted[part][r] + delta[r]
        /\ \A p \in Limits!Part \ {part} : g[p] = f[p]
    BY <1>1
  <1>7. Limits!GrantedOf(r) = SumOf(f) /\ Limits!GrantedOf(r)' = SumOf(g)
    <2>1. Limits!GrantedOf(r) = SumOf(f)
      BY Zenon DEF Limits!GrantedOf, Limits!SumOf, Limits!Units, Limits!Cardinality, SumOf, Units,
                   Cardinality
    <2>2. Limits!GrantedOf(r)' = SumOf([p \in Limits!Part |-> granted'[p][r]])
      BY Zenon DEF Limits!GrantedOf, Limits!SumOf, Limits!Units, Limits!Cardinality, SumOf, Units,
                   Cardinality
    <2> QED
      BY <1>1, <2>1, <2>2
  <1> HIDE DEF f, g
  <1>8. SumOf(g) = SumOf(f) - f[part] + g[part]
    BY ONLY <1>3, <1>5, <1>6, part \in Limits!Part, SumOneEntry
  <1>9. SumOf(f) \in Nat /\ SumOf(g) \in Nat /\ f[part] \in Nat /\ g[part] \in Nat
    BY <1>3, <1>5, SumBoundsEntry
  <1>10. delta[r] \in Int
    BY DEF Limits!Deltas
  <1> QED
    BY <1>1, <1>2, <1>6, <1>7, <1>8, <1>9, <1>10

\* What the row becomes when a part has granted or taken back.
LEMMA RowFollowsGrants ==
  ASSUME Limits!ResourceLimitsConstants, LimitsInv, NEW part \in Limits!Part,
         NEW delta \in Limits!Deltas, Limits!Grant(part, delta),
         row' = Limits!Erased(Limits!Changed(delta)),
         Limits!SetWeights(Limits!Changed(delta)), bought' = bought, flags' = flags
  PROVE  /\ granted' \in [Limits!Part -> [Resource -> 0 .. MaxWeight]]
         /\ row' \in [exists : BOOLEAN, weight : [Resource -> Nat], ram_bytes : Nat]
         /\ Limits!Changed(delta).ram_bytes = bought
         /\ kernel_limits' \in [Resource -> Nat \union {-1}]
         /\ ~row'.exists => row' = Limits!NoRow
         /\ Limits!RowHoldsGrants'
         /\ Limits!LimitsFollowGrants'
  <1> DEFINE new == Limits!Changed(delta)
             w == [r \in Resource |-> row.weight[r] + delta[r]]
  <1>1. /\ Limits!TypeOK /\ Limits!RowHoldsGrants /\ Limits!LimitsFollowGrants
        /\ row \in [exists : BOOLEAN, weight : [Resource -> Nat], ram_bytes : Nat]
        /\ row.ram_bytes = bought /\ bought \in Nat
        /\ kernel_limits \in [Resource -> Nat \union {-1}]
    BY DEF LimitsInv, Limits!LimitsAreSound, Limits!GrantsAreHonoured, Limits!TypeOK,
           Limits!RowHoldsGrants
  <1>2. new = [exists |-> TRUE, weight |-> w, ram_bytes |-> bought]
    <2>1. new = [row EXCEPT !.exists = TRUE, !.weight = w]
      BY <1>1 DEF Limits!Changed
    <2> HIDE DEF w, new
    <2>2. /\ DOMAIN new = {"exists", "weight", "ram_bytes"}
          /\ new["exists"] = TRUE /\ new["weight"] = w /\ new["ram_bytes"] = bought
          /\ new = [x \in DOMAIN new |-> new[x]]
      BY <1>1, <2>1
    <2> QED
      BY <2>2
  <1>3. \A r \in Resource : /\ Limits!GrantedOf(r)' \in Nat
                            /\ Limits!GrantedOf(r)' = Limits!GrantedOf(r) + delta[r]
                            /\ w[r] = Limits!GrantedOf(r)'
    <2> TAKE r \in Resource
    <2>1. /\ Limits!GrantedOf(r)' \in Nat
          /\ Limits!GrantedOf(r)' = Limits!GrantedOf(r) + delta[r]
      BY <1>1, GrantsAddUp
    <2>2. row.weight[r] = Limits!GrantedOf(r)
      BY <1>1 DEF Limits!RowHoldsGrants
    <2> QED
      BY <2>1, <2>2
  <1>4. w \in [Resource -> Nat]
    BY <1>3
  <1> HIDE DEF w, new
  <1>5. granted' \in [Limits!Part -> [Resource -> 0 .. MaxWeight]]
    BY <1>1 DEF Limits!TypeOK, Limits!Grant
  <1>6. kernel_limits' = [r \in Resource |-> IF r \in flags THEN kernel_limits[r] ELSE w[r]]
    BY <1>2 DEF Limits!SetWeights, new
  <1>7. kernel_limits' \in [Resource -> Nat \union {-1}]
    BY <1>1, <1>4, <1>6
  <1>8. Limits!LimitsFollowGrants'
    BY <1>3, <1>6 DEF Limits!LimitsFollowGrants
  <1>9. CASE w = Limits!Nothing /\ bought = 0
    <2>1. row' = Limits!NoRow
      BY <1>2, <1>9 DEF Limits!Erased, new
    <2>2. /\ row' \in [exists : BOOLEAN, weight : [Resource -> Nat], ram_bytes : Nat]
          /\ row'.weight = w /\ row'.ram_bytes = bought
      BY <1>4, <1>9, <2>1 DEF Limits!NoRow, Limits!Nothing
    <2>3. Limits!RowHoldsGrants'
      <3>1. row'.ram_bytes = bought'
        BY <2>2
      <3>2. \A r \in Resource : row'.weight[r] = Limits!GrantedOf(r)'
        BY ONLY <1>3, <2>2
      <3> QED
        BY ONLY <3>1, <3>2 DEF Limits!RowHoldsGrants
    <2>4. new.ram_bytes = bought
      BY <1>2
    <2> QED
      BY ONLY <1>5, <1>7, <1>8, <2>1, <2>2, <2>3, <2>4 DEF new
  <1>10. CASE ~(w = Limits!Nothing /\ bought = 0)
    <2>1. row' = new
      BY <1>2, <1>10 DEF Limits!Erased, new
    <2>2. /\ row' \in [exists : BOOLEAN, weight : [Resource -> Nat], ram_bytes : Nat]
          /\ row'.exists /\ row'.weight = w /\ row'.ram_bytes = bought
      BY <1>1, <1>2, <1>4, <2>1
    <2>3. Limits!RowHoldsGrants'
      BY <1>3, <2>2 DEF Limits!RowHoldsGrants
    <2>4. new.ram_bytes = bought
      BY <1>2
    <2> QED
      BY ONLY <1>5, <1>7, <1>8, <2>2, <2>3, <2>4 DEF new
  <1> QED
    BY <1>9, <1>10

\* What the parts of the invariant say, of this state and the next.
LEMMA LimitsParts ==
  /\ LimitsInv =>
       /\ Limits!TypeOK /\ Limits!RowHoldsGrants /\ Limits!LimitsFollowGrants
       /\ Limits!BoughtRamIsUsable /\ (~row.exists => row = Limits!NoRow)
  /\ /\ granted' \in [Limits!Part -> [Resource -> 0 .. MaxWeight]]
     /\ bought' \in 0 .. MaxRam
     /\ row' \in [exists : BOOLEAN, weight : [Resource -> Nat], ram_bytes : Nat]
     /\ flags' \subseteq Resource \union {Limits!RAM}
     /\ kernel_limits' \in [Resource -> Nat \union {-1}]
     /\ ram_limit' \in Nat \union {-1}
     /\ Limits!RowHoldsGrants' /\ Limits!LimitsFollowGrants' /\ Limits!BoughtRamIsUsable'
     /\ ~row'.exists => row' = Limits!NoRow
     => LimitsInv'
  <1>1. LimitsInv =>
          /\ Limits!TypeOK /\ Limits!RowHoldsGrants /\ Limits!LimitsFollowGrants
          /\ Limits!BoughtRamIsUsable /\ (~row.exists => row = Limits!NoRow)
    BY DEF LimitsInv, Limits!LimitsAreSound, Limits!GrantsAreHonoured
  <1>2. ASSUME /\ granted' \in [Limits!Part -> [Resource -> 0 .. MaxWeight]]
               /\ bought' \in 0 .. MaxRam
               /\ row' \in [exists : BOOLEAN, weight : [Resource -> Nat], ram_bytes : Nat]
               /\ flags' \subseteq Resource \union {Limits!RAM}
               /\ kernel_limits' \in [Resource -> Nat \union {-1}]
               /\ ram_limit' \in Nat \union {-1}
        PROVE  Limits!TypeOK'
    BY <1>2 DEF Limits!TypeOK
  <1>3. Limits!NoRow' = Limits!NoRow
    BY DEF Limits!NoRow, Limits!Nothing
  <1> QED
    BY <1>1, <1>2, <1>3 DEF LimitsInv, Limits!LimitsAreSound, Limits!GrantsAreHonoured

\* Delegations and power-ups.
LEMMA RaisingKeepsLimits ==
  ASSUME Limits!ResourceLimitsConstants, LimitsInv, NEW part \in Limits!Part,
         NEW delta \in Limits!Deltas, Limits!Grant(part, delta),
         row' = Limits!Erased(Limits!Changed(delta)),
         Limits!SetWeights(Limits!Changed(delta)), bought' = bought, flags' = flags,
         Limits!RaiseRam(Limits!Changed(delta)) \/ ram_limit' = ram_limit
  PROVE  LimitsInv'
  <1>1. /\ granted' \in [Limits!Part -> [Resource -> 0 .. MaxWeight]]
        /\ row' \in [exists : BOOLEAN, weight : [Resource -> Nat], ram_bytes : Nat]
        /\ Limits!Changed(delta).ram_bytes = bought
        /\ kernel_limits' \in [Resource -> Nat \union {-1}]
        /\ ~row'.exists => row' = Limits!NoRow
        /\ Limits!RowHoldsGrants' /\ Limits!LimitsFollowGrants'
    BY RowFollowsGrants
  <1>2. /\ bought \in Nat /\ bought \in 0 .. MaxRam /\ ram_gift_bytes \in Nat
        /\ ram_limit \in Nat \union {-1} /\ flags \subseteq Resource \union {Limits!RAM}
        /\ Limits!BoughtRamIsUsable
    BY LimitsParts DEF Limits!TypeOK, Limits!ResourceLimitsConstants
  <1>3. ram_limit' = ram_limit \/ ram_limit' = Limits!Larger(bought + ram_gift_bytes, ram_limit)
    BY <1>1 DEF Limits!RaiseRam
  <1>4. ram_limit' \in Nat \union {-1} /\ Limits!BoughtRamIsUsable'
    BY <1>2, <1>3 DEF Limits!BoughtRamIsUsable, Limits!Larger
  <1> QED
    BY <1>1, <1>2, <1>4, LimitsParts

LEMMA TradeRamKeepsLimits ==
  ASSUME Limits!ResourceLimitsConstants, LimitsInv, NEW bytes \in Int, Limits!TradeRam(bytes)
  PROVE  LimitsInv'
  <1> DEFINE left == row.ram_bytes + bytes
             new == [row EXCEPT !.exists = TRUE, !.ram_bytes = row.ram_bytes + bytes]
  <1>1. /\ Limits!TypeOK /\ Limits!RowHoldsGrants /\ Limits!LimitsFollowGrants
        /\ row \in [exists : BOOLEAN, weight : [Resource -> Nat], ram_bytes : Nat]
        /\ bought \in 0 .. MaxRam /\ MaxRam \in Nat /\ ram_gift_bytes \in Nat
        /\ row.ram_bytes = bought /\ ram_limit \in Nat \union {-1}
    BY LimitsParts DEF Limits!TypeOK, Limits!RowHoldsGrants, Limits!ResourceLimitsConstants
  <1>2. /\ bytes < 0 => row.exists /\ row.ram_bytes >= -bytes
        /\ bought + bytes <= MaxRam
        /\ bought' = bought + bytes /\ row' = new
        /\ ram_limit' = IF Limits!RAM \in flags THEN ram_limit ELSE new.ram_bytes + ram_gift_bytes
        /\ granted' = granted /\ flags' = flags /\ kernel_limits' = kernel_limits
    BY <1>1 DEF Limits!TradeRam
  <1>3. left \in Nat /\ left = bought'
    BY <1>1, <1>2
  <1> HIDE DEF left
  <1>4. row' = [exists |-> TRUE, weight |-> row.weight, ram_bytes |-> left]
    <2>1. row' = [row EXCEPT !.exists = TRUE, !.ram_bytes = left]
      BY <1>2 DEF left
    <2> DEFINE after == row'
    <2>2. after = [row EXCEPT !.exists = TRUE, !.ram_bytes = left]
      BY <2>1
    <2> HIDE DEF after
    <2>3. /\ DOMAIN after = {"exists", "weight", "ram_bytes"}
          /\ after["exists"] = TRUE /\ after["weight"] = row.weight /\ after["ram_bytes"] = left
          /\ after = [x \in DOMAIN after |-> after[x]]
      BY <1>1, <2>2
    <2>4. after = [exists |-> TRUE, weight |-> row.weight, ram_bytes |-> left]
      BY <2>3
    <2> QED
      BY <2>4 DEF after
  <1> HIDE DEF new
  <1>5. new.ram_bytes = left
    <2>1. row' = new
      BY <1>2
    <2> QED
      BY ONLY <2>1, <1>4
  <1>6. bought' \in 0 .. MaxRam
    BY <1>1, <1>2, <1>3
  <1>7. /\ row' \in [exists : BOOLEAN, weight : [Resource -> Nat], ram_bytes : Nat]
        /\ row'.exists /\ row'.weight = row.weight /\ row'.ram_bytes = bought'
    BY <1>1, <1>3, <1>4
  <1>8. \A r \in Resource : Limits!GrantedOf(r)' = Limits!GrantedOf(r)
    BY <1>2 DEF Limits!GrantedOf
  <1>9. Limits!RowHoldsGrants'
    BY <1>1, <1>7, <1>8 DEF Limits!RowHoldsGrants
  <1>10. Limits!LimitsFollowGrants'
    BY <1>1, <1>2, <1>8 DEF Limits!LimitsFollowGrants
  <1>11. ram_limit' \in Nat \union {-1} /\ Limits!BoughtRamIsUsable'
    BY <1>1, <1>2, <1>3, <1>5 DEF Limits!BoughtRamIsUsable
  <1>12. /\ granted' \in [Limits!Part -> [Resource -> 0 .. MaxWeight]]
         /\ flags' \subseteq Resource \union {Limits!RAM}
         /\ kernel_limits' \in [Resource -> Nat \union {-1}]
    BY <1>1, <1>2 DEF Limits!TypeOK
  <1> QED
    BY <1>6, <1>7, <1>9, <1>10, <1>11, <1>12, LimitsParts

\* Limits set by hand leave the row alone.
LEMMA HandKeepsLimits ==
  ASSUME Limits!ResourceLimitsConstants, LimitsInv, UNCHANGED <<granted, bought, row>>,
         flags' \subseteq Resource \union {Limits!RAM},
         kernel_limits' \in [Resource -> Nat \union {-1}], ram_limit' \in Nat \union {-1},
         \A r \in Resource \ flags' :
           (kernel_limits'[r] = kernel_limits[r] /\ r \notin flags) \/ kernel_limits'[r] = row.weight[r],
         Limits!RAM \notin flags' =>
           \/ ram_limit' = ram_limit /\ Limits!RAM \notin flags
           \/ ram_limit' = Limits!OwnedRam
  PROVE  LimitsInv'
  <1>1. /\ Limits!TypeOK /\ Limits!RowHoldsGrants /\ Limits!LimitsFollowGrants
        /\ Limits!BoughtRamIsUsable /\ (~row.exists => row = Limits!NoRow)
        /\ bought \in Nat /\ ram_gift_bytes \in Nat
    BY LimitsParts DEF Limits!TypeOK, Limits!ResourceLimitsConstants
  <1>2. \A r \in Resource : Limits!GrantedOf(r)' = Limits!GrantedOf(r)
    BY DEF Limits!GrantedOf
  <1>3. Limits!RowHoldsGrants'
    BY <1>1, <1>2 DEF Limits!RowHoldsGrants
  <1>4. Limits!LimitsFollowGrants'
    <2>1. \A r \in Resource : row.weight[r] = Limits!GrantedOf(r)
      BY <1>1 DEF Limits!RowHoldsGrants
    <2> QED
      BY <1>1, <1>2, <2>1 DEF Limits!LimitsFollowGrants
  <1>5. Limits!BoughtRamIsUsable'
    <2>1. Limits!OwnedRam = ram_gift_bytes + bought
      BY <1>1 DEF Limits!OwnedRam, Limits!RowHoldsGrants
    <2> QED
      BY <1>1, <2>1 DEF Limits!BoughtRamIsUsable
  <1> QED
    BY <1>1, <1>3, <1>4, <1>5, LimitsParts DEF Limits!TypeOK

LEMMA LimitsStep ==
  ASSUME Limits!ResourceLimitsConstants, LimitsInv, [Limits!Next]_(Limits!vars)
  PROVE  LimitsInv'
  <1>1. /\ Limits!TypeOK /\ Limits!RowHoldsGrants
        /\ (~row.exists => row = Limits!NoRow)
        /\ row \in [exists : BOOLEAN, weight : [Resource -> Nat], ram_bytes : Nat]
        /\ flags \subseteq Resource \union {Limits!RAM}
        /\ kernel_limits \in [Resource -> Nat \union {-1}] /\ ram_limit \in Nat \union {-1}
        /\ Limits!RAM \notin Resource /\ ram_gift_bytes \in Nat
        /\ HandWeights \subseteq Nat \union {-1} /\ HandBytes \subseteq Nat \union {-1}
    BY LimitsParts DEF Limits!TypeOK, Limits!ResourceLimitsConstants
  <1>2. CASE UNCHANGED Limits!vars
    <2>1. UNCHANGED <<granted, bought, row, flags, kernel_limits, ram_limit>>
      BY <1>2 DEF Limits!vars
    <2> QED
      BY <1>1, <2>1, HandKeepsLimits
  <1>3. ASSUME NEW d \in Limits!Deltas,
               \/ Limits!ChangeBw(d) \/ Limits!AdjustResources(d)
               \/ Limits!ChangeLoans(d) \/ Limits!UnstakeToRex(d)
        PROVE  LimitsInv'
    <2>1. CASE Limits!ChangeBw(d)
      BY <2>1, RaisingKeepsLimits DEF Limits!ChangeBw, Limits!Part
    <2>2. CASE Limits!AdjustResources(d)
      BY <2>2, RaisingKeepsLimits DEF Limits!AdjustResources, Limits!Part
    <2>3. CASE Limits!ChangeLoans(d)
      BY <2>3, RaisingKeepsLimits
      DEF Limits!ChangeLoans, Limits!UpdateResourceLimits, Limits!Part
    <2>4. CASE Limits!UnstakeToRex(d)
      BY <2>4, RaisingKeepsLimits
      DEF Limits!UnstakeToRex, Limits!UpdateResourceLimits, Limits!Part
    <2> QED
      BY <1>3, <2>1, <2>2, <2>3, <2>4
  <1>4. ASSUME NEW b \in ((-MaxRam) .. MaxRam) \ {0}, Limits!TradeRam(b)
        PROVE  LimitsInv'
    BY <1>4, TradeRamKeepsLimits
  <1>5. ASSUME NEW w \in [Resource -> HandWeights], NEW b \in HandBytes, Limits!SetALimits(w, b)
        PROVE  LimitsInv'
    <2>1. /\ ~row.exists /\ flags = {} /\ kernel_limits' = w /\ ram_limit' = b
          /\ granted' = granted /\ bought' = bought /\ row' = row /\ flags' = flags
      BY <1>5 DEF Limits!SetALimits, Limits!IsUnlimited
    <2>2. /\ row = Limits!NoRow /\ bought = 0
          /\ \A r \in Resource : Limits!GrantedOf(r) = 0
      BY <1>1, <2>1 DEF Limits!RowHoldsGrants, Limits!NoRow, Limits!Nothing
    <2>3. \A r \in Resource : Limits!GrantedOf(r)' = 0
      BY <2>1, <2>2 DEF Limits!GrantedOf
    <2>4. Limits!RowHoldsGrants' /\ Limits!LimitsFollowGrants' /\ Limits!BoughtRamIsUsable'
      BY <1>1, <2>1, <2>2, <2>3
      DEF Limits!RowHoldsGrants, Limits!LimitsFollowGrants, Limits!BoughtRamIsUsable
    <2>5. kernel_limits' \in [Resource -> Nat \union {-1}] /\ ram_limit' \in Nat \union {-1}
      BY <1>1, <2>1
    <2> QED
      BY <1>1, <2>1, <2>4, <2>5, LimitsParts DEF Limits!TypeOK
  <1>6. ASSUME NEW r \in Resource, NEW w \in HandWeights, Limits!SetAcctWeight(r, w)
        PROVE  LimitsInv'
    <2>1. /\ flags' = flags \union {r} /\ kernel_limits' = [kernel_limits EXCEPT ![r] = w]
          /\ UNCHANGED <<granted, bought, row>> /\ ram_limit' = ram_limit
      BY <1>6 DEF Limits!SetAcctWeight
    <2>2. kernel_limits' \in [Resource -> Nat \union {-1}] /\ flags' \subseteq Resource \union {Limits!RAM}
      BY <1>1, <2>1
    <2>3. \A x \in Resource \ flags' : kernel_limits'[x] = kernel_limits[x] /\ x \notin flags
      BY <1>1, <2>1
    <2>4. Limits!RAM \notin flags' => Limits!RAM \notin flags
      BY <2>1
    <2> QED
      BY <1>1, <2>1, <2>2, <2>3, <2>4, HandKeepsLimits
  <1>7. ASSUME NEW r \in Resource, Limits!ReleaseWeight(r)
        PROVE  LimitsInv'
    <2>1. /\ flags' = flags \ {r} /\ kernel_limits' = [kernel_limits EXCEPT ![r] = row.weight[r]]
          /\ UNCHANGED <<granted, bought, row>> /\ ram_limit' = ram_limit
      BY <1>7 DEF Limits!ReleaseWeight
    <2>2. kernel_limits' \in [Resource -> Nat \union {-1}] /\ flags' \subseteq Resource \union {Limits!RAM}
      BY <1>1, <2>1
    <2>3. \A x \in Resource \ flags' :
            (kernel_limits'[x] = kernel_limits[x] /\ x \notin flags) \/ kernel_limits'[x] = row.weight[x]
      BY <1>1, <2>1
    <2>4. Limits!RAM \notin flags' => Limits!RAM \notin flags
      BY <1>1, <2>1
    <2> QED
      BY <1>1, <2>1, <2>2, <2>3, <2>4, HandKeepsLimits
  <1>8. ASSUME NEW b \in HandBytes, Limits!SetAcctRam(b)
        PROVE  LimitsInv'
    <2>1. /\ flags' = flags \union {Limits!RAM} /\ ram_limit' = b
          /\ UNCHANGED <<granted, bought, row>> /\ kernel_limits' = kernel_limits
      BY <1>8 DEF Limits!SetAcctRam
    <2>2. ram_limit' \in Nat \union {-1} /\ flags' \subseteq Resource \union {Limits!RAM}
      BY <1>1, <2>1
    <2>3. \A x \in Resource \ flags' : kernel_limits'[x] = kernel_limits[x] /\ x \notin flags
      BY <2>1
    <2> QED
      BY <1>1, <2>1, <2>2, <2>3, HandKeepsLimits
  <1>9. CASE Limits!ReleaseRam
    <2>1. /\ flags' = flags \ {Limits!RAM} /\ ram_limit' = Limits!OwnedRam
          /\ UNCHANGED <<granted, bought, row>> /\ kernel_limits' = kernel_limits
      BY <1>9 DEF Limits!ReleaseRam
    <2>2. ram_limit' \in Nat \union {-1} /\ flags' \subseteq Resource \union {Limits!RAM}
      BY <1>1, <2>1 DEF Limits!OwnedRam
    <2>3. \A x \in Resource \ flags' : kernel_limits'[x] = kernel_limits[x] /\ x \notin flags
      BY <1>1, <2>1
    <2> QED
      BY <1>1, <2>1, <2>2, <2>3, HandKeepsLimits
  <1> QED
    BY <1>2, <1>3, <1>4, <1>5, <1>6, <1>7, <1>8, <1>9 DEF Limits!Next

\* At first nothing is granted, whether the account has a row or not.
LEMMA LimitsInit ==
  ASSUME Limits!ResourceLimitsConstants, Limits!Init
  PROVE  LimitsInv
  <1>1. /\ MaxWeight \in Nat /\ MaxRam \in Nat
    BY DEF Limits!ResourceLimitsConstants
  <1>2. /\ granted = [p \in Limits!Part |-> [r \in Resource |-> 0]] /\ bought = 0 /\ flags = {}
        /\ row.weight = [r \in Resource |-> 0] /\ row.ram_bytes = 0
        /\ row \in [exists : BOOLEAN, weight : [Resource -> Nat], ram_bytes : Nat]
        /\ kernel_limits \in [Resource -> Nat \union {-1}] /\ ram_limit \in Nat \union {-1}
        /\ ~row.exists => row = Limits!NoRow
    <2>1. /\ granted = [p \in Limits!Part |-> [r \in Resource |-> 0]] /\ bought = 0 /\ flags = {}
          /\ kernel_limits \in [Resource -> Nat \union {-1}] /\ ram_limit \in Nat \union {-1}
      BY DEF Limits!Init, Limits!Nothing
    <2>2. row = Limits!NoRow \/ row = [Limits!NoRow EXCEPT !.exists = TRUE]
      BY DEF Limits!Init
    <2>3. row = Limits!NoRow \/ row = [exists |-> TRUE, weight |-> [r \in Resource |-> 0], ram_bytes |-> 0]
      BY <2>2 DEF Limits!NoRow, Limits!Nothing
    <2>4. CASE row = Limits!NoRow
      BY <2>1, <2>4 DEF Limits!NoRow, Limits!Nothing
    <2>5. CASE row = [exists |-> TRUE, weight |-> [r \in Resource |-> 0], ram_bytes |-> 0]
      BY <2>1, <2>5
    <2> QED
      BY <2>3, <2>4, <2>5
  <1>3. ASSUME NEW r \in Resource
        PROVE  Limits!GrantedOf(r) = 0
    <2>1. [p \in Limits!Part |-> granted[p][r]] = [p \in Limits!Part |-> 0]
      BY <1>2
    <2>2. SumOf([p \in Limits!Part |-> 0]) = 0
      BY SumOfZeros
    <2>3. Limits!GrantedOf(r) = SumOf([p \in Limits!Part |-> granted[p][r]])
      BY Zenon DEF Limits!GrantedOf, Limits!SumOf, Limits!Units, Limits!Cardinality, SumOf, Units,
                   Cardinality
    <2> QED
      BY <2>1, <2>2, <2>3
  <1>4. Limits!TypeOK
    BY <1>1, <1>2 DEF Limits!TypeOK
  <1>5. Limits!RowHoldsGrants /\ Limits!LimitsFollowGrants /\ Limits!BoughtRamIsUsable
    BY <1>2, <1>3 DEF Limits!RowHoldsGrants, Limits!LimitsFollowGrants, Limits!BoughtRamIsUsable
  <1> QED
    BY <1>2, <1>4, <1>5 DEF LimitsInv, Limits!LimitsAreSound, Limits!GrantsAreHonoured

\* However delegations, loans, power-ups, the RAM market and limits set by hand
\* follow each other, and whichever of them creates or erases the row: it holds
\* exactly what was granted, and the kernel grants that unless told otherwise.
THEOREM LimitsFollowWhatIsGranted ==
  ASSUME Limits!ResourceLimitsConstants PROVE Limits!Spec => []Limits!LimitsAreSound
  <1>1. Limits!Init => LimitsInv
    BY LimitsInit
  <1>2. LimitsInv /\ [Limits!Next]_(Limits!vars) => LimitsInv'
    BY LimitsStep
  <1>3. LimitsInv => Limits!LimitsAreSound
    BY DEF LimitsInv
  <1> QED
    BY <1>1, <1>2, <1>3, PTL DEF Limits!Spec
==============================================================================
