------------------------------ MODULE PoolProofs ------------------------------
(***************************************************************************)
(* The staking pools' books agree, an owner's stake never loses value by   *)
(* what others do, no action brings a claim nearer, pool ballots stay      *)
(* valid, and votes are counted with the shares behind them at every proxy *)
(* and producer, for any accounts, pools, periods, amounts and fees.       *)
(***************************************************************************)
EXTENDS StakingPool

-----------------------------------------------------------------------------
(* Prices.                                                                 *)

\* What some shares are worth, rounded down, does not fall when the price of a
\* share does not.
LEMMA DearerShares ==
  ASSUME NEW s \in Nat, NEW b \in Nat, NEW t \in Nat \ {0}, NEW c \in Nat, NEW u \in Nat \ {0},
         b * u <= c * t
  PROVE  (s * b) \div t <= (s * c) \div u
  <1> DEFINE n == s * b
             q == n \div t
             m == s * c
  <1>1. n \in Nat /\ m \in Nat
    BY ProductIsNat
  <1> HIDE DEF n
  <1>2. q \in Nat /\ t * q <= n
    BY <1>1, DivisionBounds
  <1> HIDE DEF q
  <1>3. t * (u * q) <= t * m
    <2>1. u * (t * q) <= u * n
      <3>1. t * q \in Nat
        BY <1>2, ProductIsNat
      <3> QED
        BY <1>1, <1>2, <3>1, ProductMonotonic
    <2>2. u * n <= s * (c * t)
      <3>1. s * (b * u) <= s * (c * t)
        <4>1. b * u \in Nat /\ c * t \in Nat
          BY ProductIsNat
        <4> QED
          BY <4>1, ProductMonotonic
      <3>2. s * (b * u) = u * n
        BY DEF n
      <3> QED
        BY <3>1, <3>2
    <2>3. s * (c * t) = t * m /\ u * (t * q) = t * (u * q)
      BY <1>2
    <2>4. u * (t * q) \in Nat /\ u * n \in Nat /\ t * m \in Nat
      <3>1. t * q \in Nat
        BY <1>2, ProductIsNat
      <3> QED
        BY <1>1, <3>1, ProductIsNat
    <2> QED
      BY <2>1, <2>2, <2>3, <2>4
  <1>4. u * q \in Nat
    BY <1>2, ProductIsNat
  <1>5. u * q <= m
    <2> HIDE DEF m
    <2> QED
      BY <1>1, <1>3, <1>4, FactorCancels
  <1>6. q <= m \div u
    <2> HIDE DEF m
    <2> QED
      BY <1>1, <1>2, <1>5, QuotientAtLeast
  <1> QED
    BY <1>6 DEF q, n

\* Buying shares at a price, rounded down, does not lower it.
LEMMA BuyingPrice ==
  ASSUME NEW b \in Nat \ {0}, NEW s \in Nat, NEW a \in Nat
  PROVE  LET new == (a * s) \div b
         IN  new \in Nat /\ b * (s + new) <= (b + a) * s
  <1> DEFINE n == a * s
             new == n \div b
  <1>1. n \in Nat
    BY ProductIsNat
  <1> HIDE DEF n
  <1>2. new \in Nat /\ b * new <= n
    BY <1>1, DivisionBounds
  <1> HIDE DEF new
  <1>3. b * (s + new) = b * s + b * new /\ (b + a) * s = b * s + n
    BY <1>2 DEF n
  <1>4. b * s \in Nat /\ b * new \in Nat
    BY <1>2, ProductIsNat
  <1>5. b * (s + new) <= (b + a) * s
    BY <1>1, <1>2, <1>3, <1>4
  <1> QED
    BY <1>2, <1>5 DEF new, n

\* Selling shares at a price, rounded down, does not lower it, and raises it
\* by less than a token for all shares together.
LEMMA SellingPrice ==
  ASSUME NEW b \in Nat, NEW s \in Nat \ {0}, NEW x \in Nat, x <= s
  PROVE  LET v == (x * b) \div s
         IN  /\ v \in Nat /\ v <= b
             /\ x < s /\ b > 0 => v < b
             /\ b * (s - x) <= (b - v) * s
             /\ (b - v) * s < b * (s - x) + s
  <1> DEFINE n == x * b
             v == n \div s
  <1>1. n \in Nat /\ n = b * x
    BY ProductIsNat
  <1> HIDE DEF n
  <1>2. v \in Nat /\ s * v <= n /\ n < s * v + s
    BY <1>1, DivisionBounds
  <1> HIDE DEF v
  <1>3. b * x <= b * s
    BY ProductMonotonic
  <1>4. s * v <= s * b
    <2>1. s * v \in Nat /\ b * x \in Nat /\ b * s \in Nat /\ b * s = s * b
      BY <1>2, ProductIsNat
    <2> QED
      BY <1>1, <1>2, <1>3, <2>1
  <1>5. v <= b
    BY <1>2, <1>4, FactorCancels
  <1>6. ASSUME x < s, b > 0 PROVE v < b
    <2>1. ~(v >= b)
      <3> SUFFICES ASSUME v >= b PROVE FALSE
        OBVIOUS
      <3>1. v = b
        BY <1>2, <1>5
      <3>2. s * b <= b * x
        BY <1>1, <1>2, <3>1
      <3>3. b * (x + 1) <= b * s
        BY <1>6, ProductMonotonic
      <3>4. b * (x + 1) = b * x + b /\ s * b = b * s /\ b * x \in Nat /\ b * s \in Nat
        BY ProductIsNat
      <3> QED
        BY <1>6, <3>2, <3>3, <3>4
    <2> QED
      BY <1>2, <2>1
  <1>7. b * (s - x) = b * s - b * x /\ (b - v) * s = b * s - s * v
    BY <1>2
  <1>8. b * s \in Nat /\ b * x \in Nat /\ s * v \in Nat
    BY <1>2, ProductIsNat
  <1>9. b * (s - x) <= (b - v) * s /\ (b - v) * s < b * (s - x) + s
    BY <1>1, <1>2, <1>7, <1>8
  <1> QED
    BY <1>2, <1>5, <1>6, <1>9 DEF v, n

-----------------------------------------------------------------------------
(* The class pool.                                                         *)

\* A pool has shares if and only if it has a balance.
Even(pool) ==
  /\ pool \in [balance : Nat, shares : Nat]
  /\ pool.shares = 0 <=> pool.balance = 0

\* What shares of a pool are worth: their part of its balance, rounded down.
LEMMA ValueOfShares ==
  ASSUME NEW pool, Even(pool), NEW s \in 0 .. pool.shares
  PROVE  /\ pool.shares > 0 => Value(pool, s) = (s * pool.balance) \div pool.shares
         /\ Value(pool, s) \in 0 .. pool.balance
         /\ s = 0 => Value(pool, s) = 0
         /\ s = pool.shares => Value(pool, s) = pool.balance
  <1> DEFINE b == pool.balance
             t == pool.shares
  <1>1. b \in Nat /\ t \in Nat /\ s \in Nat /\ s <= t /\ (t = 0 <=> b = 0)
    BY DEF Even
  <1>2. Value(pool, s) = IF s = 0 THEN 0 ELSE IF s >= t THEN b ELSE (s * b) \div t
    BY DEF Value
  <1> HIDE DEF b, t
  <1>3. CASE t = 0
    BY <1>1, <1>2, <1>3 DEF b, t
  <1>4. CASE t > 0
    <2> DEFINE q == (s * b) \div t
    <2>1. q \in Nat /\ q <= b
      BY <1>1, <1>4, SellingPrice, SMTT(60)
    <2>2. s = 0 => q = 0
      <3>1. 0 * b = 0 /\ 0 \div t = 0
        BY <1>1, <1>4
      <3> QED
        BY <3>1
    <2>3. s = t => q = b
      <3>1. t * b <= s * b /\ s * b \in Nat => b <= q
        BY <1>1, <1>4, QuotientAtLeast
      <3>2. s = t => t * b <= s * b /\ s * b \in Nat
        <4>1. t * b \in Nat
          BY <1>1, ProductIsNat
        <4> QED
          BY <4>1
      <3> QED
        BY <1>1, <2>1, <3>1, <3>2
    <2> HIDE DEF q
    <2>4. Value(pool, s) = q
      <3>1. CASE s < t
        BY <1>1, <1>2, <2>2, <3>1 DEF q
      <3>2. CASE s = t
        BY <1>1, <1>2, <1>4, <2>3, <3>2
      <3> QED
        BY <1>1, <3>1, <3>2
    <2> QED
      BY <1>1, <1>4, <2>1, <2>2, <2>3, <2>4 DEF q, b, t
  <1> QED
    BY <1>1, <1>3, <1>4

\* A pool that gains balance without shares gains value for all.
LEMMA DearerPool ==
  ASSUME NEW pool, Even(pool), NEW after, Even(after), NEW s \in Nat,
         s <= pool.shares, s <= after.shares,
         pool.balance * after.shares <= after.balance * pool.shares
  PROVE  Value(pool, s) <= Value(after, s)
  <1>1. /\ pool.balance \in Nat /\ pool.shares \in Nat /\ after.balance \in Nat
        /\ after.shares \in Nat
    BY DEF Even
  <1>2. s \in 0 .. pool.shares /\ s \in 0 .. after.shares
    BY <1>1
  <1>3. CASE s = 0
    BY <1>1, <1>2, <1>3, ValueOfShares
  <1>4. CASE s > 0
    <2>1. pool.shares \in Nat \ {0} /\ after.shares \in Nat \ {0}
      BY <1>1, <1>4
    <2>2. (s * pool.balance) \div pool.shares <= (s * after.balance) \div after.shares
      BY <1>1, <2>1, DearerShares
    <2>3. Value(pool, s) = (s * pool.balance) \div pool.shares
      BY <1>2, <2>1, ValueOfShares
    <2>4. Value(after, s) = (s * after.balance) \div after.shares
      BY <1>2, <2>1, ValueOfShares
    <2> QED
      BY <2>2, <2>3, <2>4
  <1> QED
    BY <1>3, <1>4

\* buy: nobody's shares lose value.
LEMMA BuyingKeepsValue ==
  ASSUME NEW pool, Even(pool), NEW amount \in Nat \ {0},
         SharesFor(pool, amount) > 0, Unit \in Nat \ {0}
  PROVE  LET new == SharesFor(pool, amount)
             after == Bought(pool, amount, new)
         IN  /\ new \in Nat \ {0}
             /\ Even(after)
             /\ after.balance = pool.balance + amount /\ after.shares = pool.shares + new
             /\ pool.balance * after.shares <= after.balance * pool.shares
             /\ \A s \in 0 .. pool.shares : Value(pool, s) <= Value(after, s)
  <1> DEFINE b == pool.balance
             t == pool.shares
             new == SharesFor(pool, amount)
             after == Bought(pool, amount, new)
  <1>1. b \in Nat /\ t \in Nat /\ (t = 0 <=> b = 0)
    BY DEF Even
  <1>2. new = IF t = 0 THEN amount * Unit ELSE (amount * t) \div b
    BY DEF SharesFor
  <1>3. new > 0
    OBVIOUS
  <1>4. after = [balance |-> b + amount, shares |-> t + new]
    BY DEF Bought
  <1> HIDE DEF b, t, new, after
  <1>5. new \in Nat /\ b * (t + new) <= (b + amount) * t
    <2>1. CASE t = 0
      <3>1. new \in Nat
        BY <1>2, <2>1, ProductIsNat
      <3>2. b * (t + new) = 0 /\ (b + amount) * t = 0
        BY <1>1, <2>1, <3>1
      <3> QED
        BY <3>1, <3>2
    <2>2. CASE t # 0
      <3>1. b \in Nat \ {0}
        BY <1>1, <2>2
      <3> QED
        BY <1>1, <1>2, <2>2, <3>1, BuyingPrice
    <2> QED
      BY <2>1, <2>2
  <1>6. after.balance = b + amount /\ after.shares = t + new /\ Even(after)
    BY <1>1, <1>3, <1>4, <1>5 DEF Even
  <1>7. \A s \in 0 .. t : Value(pool, s) <= Value(after, s)
    <2> TAKE s \in 0 .. t
    <2>1. s \in Nat /\ s <= t /\ s <= after.shares
      BY <1>1, <1>5, <1>6
    <2>2. pool.balance * after.shares <= after.balance * pool.shares
      BY <1>5, <1>6 DEF b, t
    <2> QED
      BY <1>6, <2>1, <2>2, DearerPool DEF t
  <1> QED
    BY <1>3, <1>5, <1>6, <1>7 DEF b, t, new, after

\* sell: nobody else's shares lose value, and they gain at most a token.
LEMMA SellingKeepsValue ==
  ASSUME NEW pool, Even(pool), NEW x \in 0 .. pool.shares
  PROVE  LET after == Sold(pool, x)
         IN  /\ Even(after)
             /\ after.balance = pool.balance - Value(pool, x) /\ after.shares = pool.shares - x
             /\ pool.balance * after.shares <= after.balance * pool.shares
             /\ \A s \in 0 .. after.shares :
                  Value(pool, s) <= Value(after, s) /\ Value(after, s) <= Value(pool, s) + 1
  <1> DEFINE b == pool.balance
             t == pool.shares
             v == Value(pool, x)
             after == Sold(pool, x)
  <1>1. b \in Nat /\ t \in Nat /\ (t = 0 <=> b = 0) /\ x \in Nat /\ x <= t
    BY DEF Even
  <1>2. /\ v \in Nat /\ v <= b /\ (x = t => v = b)
        /\ t > 0 => v = (x * b) \div t
    BY <1>1, ValueOfShares
  <1>3. after = [balance |-> b - v, shares |-> t - x]
    BY DEF Sold
  <1> HIDE DEF b, t, v, after
  <1>4. CASE t = 0
    <2>1. x = 0 /\ b = 0 /\ v = 0
      BY <1>1, <1>2, <1>4
    <2>2. after = [balance |-> 0, shares |-> 0]
      BY <1>3, <1>4, <2>1
    <2>3. Even(after) /\ after.balance = b - v /\ after.shares = t - x
      BY <1>4, <2>1, <2>2 DEF Even
    <2>4. pool.balance * after.shares <= after.balance * pool.shares
      BY <1>1, <1>4, <2>1, <2>2 DEF b, t
    <2>5. \A s \in 0 .. after.shares : s = 0 /\ s \in 0 .. pool.shares
      BY <1>1, <2>2 DEF t
    <2>6. \A s \in 0 .. after.shares :
            Value(pool, s) <= Value(after, s) /\ Value(after, s) <= Value(pool, s) + 1
      <3> TAKE s \in 0 .. after.shares
      <3>1. Value(pool, s) = 0 /\ Value(after, s) = 0
        BY <2>3, <2>5, ValueOfShares
      <3> QED
        BY <3>1
    <2> QED
      BY <2>3, <2>4, <2>6 DEF b, t, v, after
  <1>5. CASE t # 0
    <2>1. t \in Nat \ {0} /\ v = (x * b) \div t
      BY <1>1, <1>2, <1>5
    <2>2. /\ x < t /\ b > 0 => v < b
          /\ b * (t - x) <= (b - v) * t
          /\ (b - v) * t < b * (t - x) + t
      BY <1>1, <2>1, SellingPrice
    <2>3. t - x \in Nat /\ b - v \in Nat
      BY <1>1, <1>2, DifferenceIsNat
    <2>4. after.balance = b - v /\ after.shares = t - x
      BY <1>3
    <2>5. Even(after)
      <3>1. t - x = 0 <=> b - v = 0
        BY <1>1, <1>2, <1>5, <2>2
      <3> QED
        BY <1>3, <2>3, <3>1 DEF Even
    <2>6. pool.balance * after.shares <= after.balance * pool.shares
      BY <2>2, <2>4 DEF b, t
    <2>7. ASSUME NEW s \in 0 .. after.shares
          PROVE  Value(pool, s) <= Value(after, s) /\ Value(after, s) <= Value(pool, s) + 1
      <3> DEFINE c == b - v
                 u == t - x
      <3>0. c \in Nat /\ u \in Nat /\ c * t < b * u + t /\ after.balance = c /\ after.shares = u
        BY <2>2, <2>3, <2>4
      <3>1. s \in Nat /\ s <= u /\ s <= t
        BY <1>1, <2>4, <2>7
      <3> HIDE DEF c, u
      <3>2. Value(pool, s) <= Value(after, s)
        BY <2>5, <2>6, <3>0, <3>1, DearerPool DEF t
      <3>3. CASE s = 0
        <4>1. Value(pool, s) = 0 /\ Value(after, s) = 0
          BY <1>1, <2>5, <3>0, <3>1, <3>3, ValueOfShares DEF t
        <4> QED
          BY <4>1
      <3>4. CASE s # 0
        <4> DEFINE n == s * b
                   q == n \div t
                   m == s * c
                   r == m \div u
        <4>1. u \in Nat \ {0}
          BY <3>0, <3>1, <3>4
        <4>2. Value(pool, s) = q
          BY <2>1, <3>1, ValueOfShares DEF b, t
        <4>3. Value(after, s) = r
          BY <2>5, <3>0, <3>1, <4>1, ValueOfShares
        <4>4. n \in Nat /\ m \in Nat
          BY <1>1, <3>0, <3>1, ProductIsNat
        <4> HIDE DEF n, m
        <4>5. q \in Nat /\ n < t * q + t
          BY <2>1, <4>4, DivisionBounds
        <4> HIDE DEF q
        <4>6. m < (q + 1 + 1) * u
          <5>1. s * (c * t) <= s * (b * u + t)
            <6>1. c * t \in Nat /\ b * u + t \in Nat /\ c * t <= b * u + t
              <7>1. c * t \in Nat /\ b * u \in Nat
                BY <1>1, <3>0, ProductIsNat
              <7> QED
                BY <1>1, <3>0, <7>1
            <6> QED
              BY <3>1, <6>1, ProductMonotonic
          <5>2. s * (c * t) = t * m /\ s * (b * u + t) = u * n + s * t
            BY <1>1, <3>0, <3>1 DEF m, n
          <5>3. s * t <= u * t
            <6>1. t * s <= t * u /\ t * s = s * t /\ t * u = u * t
              BY <1>1, <3>0, <3>1, ProductMonotonic
            <6> QED
              BY <6>1
          <5>4. u * (n + 1) <= u * (t * q + t)
            <6>1. t * q \in Nat
              BY <1>1, <4>5, ProductIsNat
            <6> QED
              BY <1>1, <3>0, <4>4, <4>5, <6>1, ProductMonotonic
          <5>5. u * (n + 1) = u * n + u /\ u * (t * q + t) + u * t = t * ((q + 1 + 1) * u)
            BY <1>1, <3>0, <4>4, <4>5
          <5>6. t * m < t * ((q + 1 + 1) * u)
            <6>1. /\ u * n \in Nat /\ s * t \in Nat /\ u * t \in Nat /\ t * m \in Nat
                  /\ u * (t * q + t) \in Nat /\ t * ((q + 1 + 1) * u) \in Nat
              <7>1. t * q + t \in Nat /\ (q + 1 + 1) * u \in Nat
                <8>1. t * q \in Nat
                  BY <1>1, <4>5, ProductIsNat
                <8> QED
                  BY <1>1, <3>0, <4>5, <8>1, ProductIsNat
              <7> QED
                BY <1>1, <3>0, <3>1, <4>4, <7>1, ProductIsNat
            <6> HIDE DEF r
            <6> QED
              BY <4>1, <5>1, <5>2, <5>3, <5>4, <5>5, <6>1
          <5>7. ~(m >= (q + 1 + 1) * u)
            <6> DEFINE w == (q + 1 + 1) * u
            <6>1. w \in Nat
              BY <3>0, <4>5, ProductIsNat
            <6>2. t * m < t * w
              BY <5>6
            <6> HIDE DEF w
            <6>3. ~(w <= m)
              <7> SUFFICES ASSUME w <= m PROVE FALSE
                OBVIOUS
              <7>1. t * w <= t * m /\ t * w \in Nat /\ t * m \in Nat
                BY <1>1, <4>4, <6>1, ProductMonotonic, ProductIsNat
              <7> QED
                BY <6>2, <7>1
            <6> QED
              BY <4>4, <6>1, <6>3 DEF w
          <5>8. (q + 1 + 1) * u \in Nat
            BY <3>0, <4>5, ProductIsNat
          <5> QED
            BY <4>4, <5>7, <5>8
        <4>7. r <= q + 1
          <5> DEFINE k == q + 1
          <5>1. k \in Nat /\ m < (k + 1) * u
            BY <4>5, <4>6
          <5> HIDE DEF k
          <5>2. m \div u <= k
            BY ONLY <4>1, <4>4, <5>1, DivisionAtMost
          <5> QED
            BY <5>2 DEF k
        <4> QED
          BY <3>2, <4>2, <4>3, <4>7
      <3> QED
        BY <3>2, <3>3, <3>4
    <2> QED
      BY <2>4, <2>5, <2>6, <2>7 DEF b, t, v, after
  <1> QED
    BY <1>4, <1>5

-----------------------------------------------------------------------------
(* An amount divided between pools.                                        *)

\* Where the part of the pool with the given rank ends.
PartEnd(amount, k, n) == (amount * k) \div n

\* The ends of the parts grow with the ranks up to the amount.
LEMMA EndsGrow ==
  ASSUME NEW amount \in Nat, NEW n \in Nat \ {0}, NEW k \in 0 .. n, NEW l \in 0 .. n, k <= l
  PROVE  /\ PartEnd(amount, k, n) \in Nat /\ PartEnd(amount, l, n) \in Nat
         /\ PartEnd(amount, k, n) <= PartEnd(amount, l, n)
         /\ PartEnd(amount, l, n) <= amount
  <1>1. amount * k \in Nat /\ amount * l \in Nat /\ amount * k <= amount * l
    BY ProductIsNat, ProductMonotonic
  <1>2. /\ (amount * k) \div n \in Nat /\ (amount * l) \div n \in Nat
        /\ (amount * k) \div n <= (amount * l) \div n
    BY <1>1, DivisionBounds, DivisionMonotonic
  <1>3. (amount * l) \div n <= amount
    BY PartAtMost
  <1> QED
    BY <1>2, <1>3 DEF PartEnd

\* Every unit of the amount lies in the part of some rank.
LEMMA UnitsLieInParts ==
  ASSUME NEW amount \in Nat, NEW n \in Nat \ {0}, NEW v \in 1 .. amount
  PROVE  \E k \in 1 .. n : PartEnd(amount, k - 1, n) < v /\ v <= PartEnd(amount, k, n)
  <1> DEFINE m == n * v
             d == m + amount - 1
             k == d \div amount
  <1>1. amount \in Nat \ {0} /\ v \in Nat /\ v >= 1 /\ v <= amount
    OBVIOUS
  <1>2. m \in Nat /\ m <= n * amount /\ m >= n
    <2>1. n * v <= n * amount
      BY <1>1, ProductMonotonic
    <2>2. n * 1 <= n * v
      BY <1>1, ProductMonotonic
    <2>3. n * 1 = n
      OBVIOUS
    <2>4. n * v \in Nat /\ n * amount \in Nat
      BY <1>1, ProductIsNat
    <2> QED
      BY <2>1, <2>2, <2>3, <2>4
  <1> HIDE DEF m
  <1>3. d \in Nat /\ d >= amount /\ d < n * amount + amount
    <2>1. n * amount \in Nat
      BY ProductIsNat
    <2> QED
      BY <1>1, <1>2, <2>1
  <1>4. d = m + amount - 1
    OBVIOUS
  <1> HIDE DEF d
  <1>5. k \in Nat /\ amount * k <= d /\ d < amount * k + amount
    BY <1>1, <1>3, DivisionBounds
  <1>6. k >= 1
    <2>1. amount * 1 <= d
      BY <1>1, <1>3
    <2>2. 1 <= d \div amount
      BY <1>1, <1>3, <2>1, QuotientAtLeast
    <2> QED
      BY <2>2
  <1>7. k <= n
    <2>1. d < (n + 1) * amount
      <3>1. (n + 1) * amount = n * amount + amount
        OBVIOUS
      <3> QED
        BY <1>3, <3>1
    <2>2. d \div amount <= n
      BY <1>1, <1>3, <2>1, DivisionAtMost
    <2> QED
      BY <2>2
  <1> HIDE DEF k
  <1>8. v <= PartEnd(amount, k, n)
    <2> DEFINE w == amount * k
    <2>1. w \in Nat
      BY <1>5, ProductIsNat
    <2>2. m <= w
      <3> HIDE DEF w
      <3>1. d < w + amount
        BY <1>5 DEF w
      <3> QED
        BY <1>1, <1>2, <1>4, <2>1, <3>1
    <2> HIDE DEF w
    <2>3. n * v <= w
      BY <2>2 DEF m
    <2>4. v <= w \div n
      BY <1>1, <2>1, <2>3, QuotientAtLeast
    <2> QED
      BY <2>4 DEF PartEnd, w
  <1>9. PartEnd(amount, k - 1, n) < v
    <2> DEFINE w == amount * (k - 1)
               p == v - 1
    <2>1. k - 1 \in Nat /\ p \in Nat /\ v = p + 1
      BY <1>1, <1>5, <1>6
    <2>2. w \in Nat
      BY <2>1, ProductIsNat
    <2>3. w + amount = amount * k
      BY <1>5
    <2> HIDE DEF w, p
    <2>4. w < m
      BY <1>1, <1>2, <1>4, <1>5, <2>2, <2>3
    <2>5. (p + 1) * n = m
      BY <2>1 DEF m
    <2>6. w \div n <= p
      BY <2>1, <2>2, <2>4, <2>5, DivisionAtMost
    <2>7. w \div n \in Nat
      BY <2>2, DivisionBounds
    <2> QED
      BY <2>1, <2>6, <2>7 DEF PartEnd, w
  <1> QED
    BY <1>5, <1>6, <1>7, <1>8, <1>9

\* What the pools of a set get of an amount is all of it.
LEMMA PartsAddUp ==
  ASSUME NEW S \in SUBSET Nat, IsFiniteSet(S), S # {}, NEW amount \in Nat,
         NEW part \in [S -> Int],
         \A i \in S : part[i] = PartEnd(amount, Rank(S, i), Cardinality(S))
                                - PartEnd(amount, Rank(S, i) - 1, Cardinality(S))
  PROVE  part \in [S -> Nat] /\ SumOf(part) = amount
  <1> DEFINE n == Cardinality(S)
             from == [i \in S |-> PartEnd(amount, Rank(S, i) - 1, n)]
             to == [i \in S |-> PartEnd(amount, Rank(S, i), n)]
  <1>1. n \in Nat \ {0}
    BY FS_CardinalityType, FS_EmptySet
  <1>2. \A i \in S : /\ from[i] \in Nat /\ to[i] \in Nat
                     /\ from[i] <= to[i] /\ to[i] <= amount /\ part[i] = to[i] - from[i]
    <2> TAKE i \in S
    <2>1. Rank(S, i) \in 1 .. n
      BY RanksAreNumbers
    <2> DEFINE k == Rank(S, i) - 1
               l == Rank(S, i)
    <2>2. k \in 0 .. n /\ l \in 0 .. n /\ k <= l
      BY <1>1, <2>1
    <2> HIDE DEF k, l, n
    <2>3. /\ PartEnd(amount, k, n) \in Nat /\ PartEnd(amount, l, n) \in Nat
          /\ PartEnd(amount, k, n) <= PartEnd(amount, l, n)
          /\ PartEnd(amount, l, n) <= amount
      BY <1>1, <2>2, EndsGrow
    <2>4. /\ from[i] = PartEnd(amount, k, n) /\ to[i] = PartEnd(amount, l, n)
          /\ part[i] = PartEnd(amount, l, n) - PartEnd(amount, k, n)
      BY DEF k, l, n
    <2> QED
      BY <2>3, <2>4
  <1>3. \A i \in S : \A j \in S : i < j => to[i] <= from[j]
    <2> SUFFICES ASSUME NEW i \in S, NEW j \in S, i < j
                 PROVE  to[i] <= from[j]
      OBVIOUS
    <2> DEFINE k == Rank(S, i)
               l == Rank(S, j) - 1
    <2>1. k \in 1 .. n /\ Rank(S, j) \in 1 .. n /\ k <= l
      BY RanksAreNumbers
    <2>2. k \in 0 .. n /\ l \in 0 .. n
      BY <1>1, <2>1
    <2>3. to[i] = PartEnd(amount, k, n) /\ from[j] = PartEnd(amount, l, n)
      OBVIOUS
    <2> HIDE DEF k, l, n, to, from
    <2>4. PartEnd(amount, k, n) <= PartEnd(amount, l, n)
      BY <1>1, <2>1, <2>2, EndsGrow
    <2> QED
      BY <2>3, <2>4
  <1>4. \A v \in 1 .. amount : \E i \in S : from[i] < v /\ v <= to[i]
    <2> TAKE v \in 1 .. amount
    <2>1. PICK k \in 1 .. n : PartEnd(amount, k - 1, n) < v /\ v <= PartEnd(amount, k, n)
      BY <1>1, UnitsLieInParts
    <2>2. PICK i \in S : Rank(S, i) = k
      BY RanksAreNumbers
    <2> QED
      BY <2>1, <2>2
  <1> HIDE DEF from, to, n
  <1>5. part \in [S -> Nat]
    <2>1. \A i \in S : part[i] \in Nat
      BY <1>2
    <2> QED
      BY <2>1
  <1> DEFINE at == [u \in Units(part) |-> from[u[1]] + u[2]]
  <1>6. \A u \in Units(part) : u[1] \in S /\ u[2] \in 1 .. part[u[1]] /\ u = <<u[1], u[2]>>
    BY <1>5 DEF Units
  <1>7. \A i \in S : \A k \in 1 .. part[i] : <<i, k>> \in Units(part)
    BY <1>5 DEF Units
  <1>8. \A u \in Units(part) : at[u] \in 1 .. amount /\ from[u[1]] < at[u] /\ at[u] <= to[u[1]]
    BY <1>2, <1>6
  <1>9. at \in [Units(part) -> 1 .. amount]
    BY <1>8
  <1>10. \A u \in Units(part) : \A w \in Units(part) : at[u] = at[w] => u = w
    <2> SUFFICES ASSUME NEW u \in Units(part), NEW w \in Units(part), at[u] = at[w]
                 PROVE  u = w
      OBVIOUS
    <2>1. /\ u[1] \in S /\ w[1] \in S /\ u[1] \in Nat /\ w[1] \in Nat
          /\ u = <<u[1], u[2]>> /\ w = <<w[1], w[2]>>
          /\ u[2] \in 1 .. part[u[1]] /\ w[2] \in 1 .. part[w[1]]
      BY <1>6
    <2>2. /\ from[u[1]] \in Nat /\ from[w[1]] \in Nat /\ to[u[1]] \in Nat /\ to[w[1]] \in Nat
          /\ from[u[1]] < at[u] /\ at[u] <= to[u[1]]
          /\ from[w[1]] < at[w] /\ at[w] <= to[w[1]]
          /\ at[u] \in Int /\ at[w] \in Int
      BY <1>2, <1>8, <2>1
    <2>3. u[1] = w[1]
      <3>1. ~(u[1] < w[1])
        BY <1>3, <2>1, <2>2
      <3>2. ~(w[1] < u[1])
        BY <1>3, <2>1, <2>2
      <3> QED
        BY <2>1, <3>1, <3>2
    <2>4. from[u[1]] + u[2] = from[w[1]] + w[2]
      OBVIOUS
    <2>5. u[2] \in Int /\ w[2] \in Int
      BY <2>1
    <2>6. u[2] = w[2]
      BY <2>2, <2>3, <2>4, <2>5
    <2> QED
      BY <2>1, <2>3, <2>6
  <1>11. \A v \in 1 .. amount : \E u \in Units(part) : at[u] = v
    <2> TAKE v \in 1 .. amount
    <2>1. PICK i \in S : from[i] < v /\ v <= to[i]
      BY <1>4
    <2> DEFINE k == v - from[i]
    <2>2. k \in 1 .. part[i] /\ from[i] + k = v
      BY <1>2, <2>1
    <2> HIDE DEF k
    <2>3. <<i, k>> \in Units(part) /\ at[<<i, k>>] = v
      BY <1>7, <2>2
    <2> QED
      BY <2>3
  <1> HIDE DEF at
  <1>12. at \in Injection(Units(part), 1 .. amount)
    BY <1>9, <1>10 DEF Injection, IsInjective
  <1>13. at \in Surjection(Units(part), 1 .. amount)
    BY <1>9, <1>11 DEF Surjection
  <1>14. IsFiniteSet(1 .. amount) /\ Cardinality(1 .. amount) = amount
    <2>1. 1 \in Int /\ amount \in Int
      OBVIOUS
    <2>2. IsFiniteSet(1 .. amount)
          /\ Cardinality(1 .. amount) = IF 1 > amount THEN 0 ELSE amount - 1 + 1
      BY <2>1, FS_Interval
    <2> QED
      BY <2>2
  <1>15. Cardinality(Units(part)) = amount
    BY <1>12, <1>13, <1>14, FS_Injection
  <1> QED
    BY <1>5, <1>15 DEF SumOf

-----------------------------------------------------------------------------
(* Claims and withdrawals.                                                 *)

\* When an owner may claim after a deposit: not before it could, within a
\* period, and not before half of it when the deposit doubles the stake.
LEMMA DepositTimes ==
  ASSUME NEW next \in Nat, NEW t \in Nat, NEW p \in Nat \ {0}, NEW c \in Nat,
         NEW a \in Nat \ {0}, next <= t + p
  PROVE  LET claim == (Larger(next, t) * c + (t + p) * a) \div (c + a)
         IN  /\ claim \in Nat
             /\ next <= claim /\ claim <= t + p
             /\ c <= a => claim >= t + p \div 2
  <1> DEFINE m == Larger(next, t)
             e == t + p
             n == m * c + e * a
             d == c + a
             claim == n \div d
             h == p \div 2
  <1>1. m \in Nat /\ next <= m /\ t <= m /\ m <= e /\ e \in Nat
    BY DEF Larger
  <1>2. d \in Nat \ {0} /\ h \in Nat /\ 2 * h <= p
    BY DivisionBounds
  <1>3. /\ m * c \in Nat /\ e * a \in Nat /\ next * c \in Nat /\ next * a \in Nat /\ e * c \in Nat
        /\ t * c \in Nat /\ t * a \in Nat /\ h * c \in Nat /\ h * a \in Nat /\ p * a \in Nat
    BY <1>1, <1>2, ProductIsNat
  <1>4. e * a = t * a + p * a
    OBVIOUS
  <1> HIDE DEF m, e, h
  <1>5. n \in Nat
    BY <1>3
  <1>6. claim \in Nat
    BY <1>2, <1>5, DivisionBounds
  <1>7. next <= claim
    <2>1. next * c <= m * c
      <3>1. c * next <= c * m /\ c * next = next * c /\ c * m = m * c
        BY <1>1, ProductMonotonic
      <3> QED
        BY <3>1
    <2>2. next * a <= e * a
      <3>1. next <= e
        BY <1>1
      <3>2. a * next <= a * e /\ a * next = next * a /\ a * e = e * a
        BY <1>1, <3>1, ProductMonotonic
      <3> QED
        BY <3>2
    <2>3. d * next = next * c + next * a
      OBVIOUS
    <2>4. d * next <= n
      BY <1>3, <2>1, <2>2, <2>3
    <2> HIDE DEF n, d
    <2> QED
      BY <1>2, <1>5, <2>4, QuotientAtLeast
  <1>8. claim <= e
    <2>1. m * c <= e * c
      <3>1. c * m <= c * e /\ c * e = e * c /\ c * m = m * c
        BY <1>1, ProductMonotonic
      <3> QED
        BY <3>1
    <2>2. (e + 1) * d = e * c + e * a + c + a
      BY <1>1
    <2>3. n < (e + 1) * d
      BY <1>3, <2>1, <2>2
    <2> HIDE DEF n, d
    <2> QED
      BY <1>1, <1>2, <1>5, <2>3, DivisionAtMost
  <1>9. ASSUME c <= a PROVE claim >= t + h
    <2>1. t * c <= m * c
      <3>1. c * t <= c * m /\ c * t = t * c /\ c * m = m * c
        BY <1>1, ProductMonotonic
      <3> QED
        BY <3>1
    <2>2. h * c <= h * a
      BY <1>2, <1>9, ProductMonotonic
    <2>3. h * a + h * a <= p * a
      <3>1. a * (2 * h) <= a * p /\ a * (2 * h) = h * a + h * a /\ a * p = p * a
        <4>1. 2 * h \in Nat
          BY <1>2
        <4> QED
          BY <1>2, <4>1, ProductMonotonic
      <3> QED
        BY <3>1
    <2>4. d * (t + h) = t * c + t * a + h * c + h * a
      BY <1>2
    <2>5. d * (t + h) <= n
      BY <1>3, <1>4, <2>1, <2>2, <2>3, <2>4
    <2>6. t + h \in Nat
      BY <1>2
    <2> HIDE DEF n, d
    <2>7. t + h <= claim
      BY <1>2, <1>5, <2>5, <2>6, QuotientAtLeast
    <2> QED
      BY <1>6, <2>6, <2>7
  <1> QED
    BY <1>6, <1>7, <1>8, <1>9 DEF m, e, n, d, claim, h

\* What an owner has after a deposit is what it had and the deposit at most.
LEMMA DepositAddsAtMost ==
  ASSUME NEW pool, Even(pool), NEW amount \in Nat \ {0}, NEW s \in 0 .. pool.shares,
         SharesFor(pool, amount) > 0, Unit \in Nat \ {0}
  PROVE  LET new == SharesFor(pool, amount)
         IN  Value(Bought(pool, amount, new), s + new) <= Value(pool, s) + amount
  <1> DEFINE b == pool.balance
             t == pool.shares
             new == SharesFor(pool, amount)
             after == Bought(pool, amount, new)
             c == Value(pool, s) + 1
  <1>1. b \in Nat /\ t \in Nat /\ (t = 0 <=> b = 0) /\ s \in Nat /\ s <= t
    BY DEF Even
  <1>2. /\ new \in Nat \ {0} /\ Even(after)
        /\ after.balance = b + amount /\ after.shares = t + new
        /\ b * (t + new) <= (b + amount) * t
    BY BuyingKeepsValue
  <1>3. Value(pool, s) \in Nat
    <2>1. Value(pool, s) \in 0 .. b
      BY ValueOfShares
    <2> HIDE DEF b
    <2> QED
      BY <1>1, <2>1
  <1>4. s + new \in 0 .. after.shares
    <2> HIDE DEF b, t, new, after
    <2> QED
      BY <1>1, <1>2
  <1>5. CASE t = 0
    <2>1. s + new = after.shares /\ b = 0
      BY <1>1, <1>2, <1>5
    <2>2. Value(after, s + new) = after.balance
      BY <1>2, <1>4, <2>1, ValueOfShares
    <2>3. Value(after, s + new) = amount
      BY <1>2, <2>1, <2>2
    <2> HIDE DEF b, t, new, after
    <2> QED
      BY <1>3, <2>3 DEF new, after
  <1>6. CASE t # 0
    <2>1. t \in Nat \ {0} /\ t + new \in Nat \ {0}
      BY <1>1, <1>2, <1>6
    <2>2. Value(pool, s) = (s * b) \div t
      BY <2>1, ValueOfShares
    <2>3. Value(after, s + new) = ((s + new) * (b + amount)) \div (t + new)
      BY <1>2, <1>4, <2>1, ValueOfShares
    <2>4. c \in Nat /\ c = Value(pool, s) + 1
      BY <1>3
    <2> HIDE DEF b, t, new, after, c
    <2>5. s * b < c * t
      <3>1. s * b \in Nat
        BY <1>1, ProductIsNat
      <3> DEFINE q == (s * b) \div t
      <3>2. s * b < t * q + t /\ q \in Nat
        BY <2>1, <3>1, DivisionBounds
      <3>3. c = q + 1
        BY <2>2, <2>4
      <3> HIDE DEF q
      <3>4. c * t = t * q + t
        BY <2>1, <3>2, <3>3
      <3> QED
        BY <3>2, <3>4
    <2>6. s * b <= c * t
      <3>1. s * b \in Nat /\ c * t \in Nat
        BY <1>1, <2>4, ProductIsNat
      <3> QED
        BY <2>5, <3>1
    <2>7. new * b <= amount * t
      <3>1. b * (t + new) = b * t + new * b /\ (b + amount) * t = b * t + amount * t
        BY <1>1, <1>2
      <3>2. b * t \in Nat /\ new * b \in Nat /\ amount * t \in Nat
        BY <1>1, <1>2, ProductIsNat
      <3> QED
        BY <1>2, <3>1, <3>2
    <2>8. new * b + amount * s <= amount * t + new * c
      <3> DEFINE r == t - s
                 x == new * b
                 y == amount * t
      <3>1. r \in Nat /\ t = s + r
        BY <1>1
      <3>2. x \in Nat /\ y \in Nat /\ x <= y
        BY <1>1, <1>2, <2>7, ProductIsNat
      <3> HIDE DEF r, x, y
      <3>3. r * x <= r * y
        BY <3>1, <3>2, ProductMonotonic
      <3>4. new * (s * b) <= new * (c * t)
        <4>1. s * b \in Nat /\ c * t \in Nat
          BY <1>1, <2>4, ProductIsNat
        <4> QED
          BY <1>2, <2>6, <4>1, ProductMonotonic
      <3>5. /\ r * x \in Nat /\ r * y \in Nat /\ new * (s * b) \in Nat /\ new * (c * t) \in Nat
            /\ t * (amount * s) \in Nat /\ x + amount * s \in Nat /\ y + new * c \in Nat
            /\ t * x \in Nat /\ t * y \in Nat /\ s * x \in Nat /\ s * y \in Nat
        <4>1. s * b \in Nat /\ c * t \in Nat /\ amount * s \in Nat /\ new * c \in Nat
          BY <1>1, <1>2, <2>4, ProductIsNat
        <4> QED
          BY <1>1, <1>2, <3>1, <3>2, <4>1, ProductIsNat
      <3>6. t * (x + amount * s) = r * x + new * (s * b) + t * (amount * s)
        <4>1. t * x = s * x + r * x
          BY <3>1, <3>2
        <4>2. s * x = new * (s * b)
          BY <1>1, <1>2 DEF x
        <4>3. t * (x + amount * s) = t * x + t * (amount * s)
          BY <1>1, <3>2
        <4> QED
          BY <3>5, <4>1, <4>2, <4>3
      <3>7. t * (y + new * c) = r * y + new * (c * t) + t * (amount * s)
        <4>1. t * y = s * y + r * y
          BY <3>1, <3>2
        <4>2. s * y = t * (amount * s)
          BY <1>1 DEF y
        <4>3. t * (y + new * c) = t * y + new * (c * t)
          BY <1>1, <1>2, <2>4, <3>2
        <4> QED
          BY <3>5, <4>1, <4>2, <4>3
      <3>8. t * (x + amount * s) <= t * (y + new * c)
        BY <3>3, <3>4, <3>5, <3>6, <3>7
      <3>9. x + amount * s <= y + new * c
        BY <2>1, <3>5, <3>8, FactorCancels
      <3> QED
        BY <3>9 DEF x, y
    <2> DEFINE n == (s + new) * (b + amount)
               d == t + new
               q == Value(pool, s) + amount
    <2>9. n < (q + 1) * d
      <3>1. n = s * b + s * amount + new * b + new * amount
        BY <1>1, <1>2
      <3>2. (q + 1) * d = c * t + amount * t + c * new + amount * new
        <4>1. q + 1 = c + amount
          BY <1>3, <2>4
        <4>2. (c + amount) * (t + new) = c * t + amount * t + c * new + amount * new
          BY <1>1, <1>2, <2>4
        <4> QED
          BY <4>1, <4>2
      <3>3. /\ s * b \in Nat /\ s * amount \in Nat /\ new * b \in Nat /\ new * amount \in Nat
            /\ c * t \in Nat /\ amount * t \in Nat /\ c * new \in Nat /\ amount * new \in Nat
            /\ s * amount = amount * s /\ new * amount = amount * new /\ c * new = new * c
        BY <1>1, <1>2, <2>4, ProductIsNat
      <3> QED
        BY <2>5, <2>8, <3>1, <3>2, <3>3
    <2>10. n \in Nat /\ q \in Nat
      <3>1. s + new \in Nat /\ b + amount \in Nat
        BY <1>1, <1>2
      <3> QED
        BY <1>3, <3>1, ProductIsNat
    <2> HIDE DEF n, q
    <2>11. n \div d <= q
      <3> HIDE DEF d
      <3>1. d \in Nat \ {0}
        BY <2>1 DEF d
      <3> QED
        BY <2>9, <2>10, <3>1, DivisionAtMost
    <2> QED
      BY <2>3, <2>11 DEF n, q, d, new, after
  <1> QED
    BY <1>5, <1>6

\* A withdrawal sells some of the owner's shares.
LEMMA SharesToSellAreOwned ==
  ASSUME StakingPoolConstants, NEW i \in Pool, NEW pool, Even(pool),
         NEW s \in 0 .. pool.shares, NEW requested \in Nat, NEW claiming \in BOOLEAN
  PROVE  SharesToSell(i, pool, s, requested, claiming) \in 0 .. s
  <1> DEFINE b == pool.balance
             v == Value(pool, s)
             available == Available(i, v, claiming)
             amount == Smaller(available, requested)
             worth == SharesWorth(pool, amount)
  <1>1. b \in Nat /\ pool.shares \in Nat /\ (pool.shares = 0 <=> b = 0) /\ s \in Nat
    BY DEF Even
  <1>2. v \in Nat /\ v <= b
    <2>1. v \in 0 .. b
      BY ValueOfShares
    <2> HIDE DEF v, b
    <2> QED
      BY <1>1, <2>1
  <1>3. Period[i] \in Nat /\ Duration[i] \in Nat \ {0}
    <2>1. Period[i] \in Nat /\ Duration[i] \in Nat /\ Period[i] < Duration[i]
      BY DEF StakingPoolConstants
    <2> QED
      BY <2>1
  <1> HIDE DEF b, v
  <1>4. available \in Nat /\ (b = 0 => available = 0)
    <2>1. CASE claiming
      <3> DEFINE n == v * Period[i]
      <3>1. n \in Nat
        BY <1>2, <1>3, ProductIsNat
      <3>2. b = 0 => n = 0
        BY <1>2, <1>3
      <3>3. available = n \div Duration[i]
        BY <2>1 DEF Available
      <3>4. 0 \div Duration[i] = 0
        BY <1>3
      <3> HIDE DEF n, available
      <3>5. n \div Duration[i] \in Nat
        BY <1>3, <3>1, DivisionBounds
      <3> QED
        BY <3>2, <3>3, <3>4, <3>5
    <2>2. CASE ~claiming
      BY <1>1, <1>2, <2>2 DEF Available
    <2> QED
      BY <2>1, <2>2
  <1> HIDE DEF available
  <1>5. amount \in Nat /\ (b = 0 => amount = 0)
    BY <1>4 DEF Smaller
  <1> HIDE DEF amount
  <1>6. worth \in Nat
    <2>1. CASE amount = b
      BY <1>1, <2>1 DEF SharesWorth, b
    <2>2. CASE amount # b
      <3>1. b \in Nat \ {0} /\ amount * pool.shares \in Nat
        BY <1>1, <1>5, <2>2, ProductIsNat
      <3>2. (amount * pool.shares) \div b \in Nat
        BY <3>1, DivisionBounds
      <3> QED
        BY <2>2, <3>2 DEF SharesWorth, b
    <2> QED
      BY <2>1, <2>2
  <1> HIDE DEF worth
  <1>7. Smaller(worth, s) \in 0 .. s /\ s \in 0 .. s
    BY <1>1, <1>6 DEF Smaller
  <1>8. SharesToSell(i, pool, s, requested, claiming)
          = IF ~claiming /\ requested >= v THEN s ELSE Smaller(worth, s)
    BY DEF SharesToSell, worth, amount, available, v
  <1> QED
    BY <1>7, <1>8

-----------------------------------------------------------------------------
(* The invariant.                                                          *)

\* Nobody waits for a claim longer than a period.
ClaimsAreNear == \A a \in Account, i \in Pool : next_claim[a][i] <= now + Period[i]

\* The invariant the proofs carry.  That no action brings a claim nearer needs
\* that every claim is at most a period away.
StakesInv ==
  /\ owned_shares \in [Account -> [Pool -> Nat]]
  /\ StakesAreSound
  /\ ClaimsAreNear

\* What no step does to owners.
StepIsFair == KeepsValue /\ NoSooner /\ NewStakeWaits

\* A pool's books in the invariant.
LEMMA PoolsAreEven ==
  ASSUME StakesInv, NEW i \in Pool
  PROVE  /\ Even(pools[i])
         /\ pools[i].balance \in Nat /\ pools[i].shares \in Nat
         /\ pools[i].shares = SumOf([a \in Account |-> owned_shares[a][i]])
  BY DEF StakesInv, StakesAreSound, MoneyTypeOK, PoolsAreSound, SharesAddUp, NoPoolIsStranded,
         Even

\* Two owners together have no more shares than there are.
LEMMA OwnersHaveShares ==
  ASSUME StakingPoolConstants, StakesInv, NEW i \in Pool, NEW a \in Account
  PROVE  /\ owned_shares[a][i] \in 0 .. pools[i].shares
         /\ \A b \in Account \ {a} : owned_shares[a][i] + owned_shares[b][i] <= pools[i].shares
  <1> DEFINE f == [x \in Account |-> owned_shares[x][i]]
             t == pools[i].shares
  <1>1. f \in [Account -> Nat]
    BY DEF StakesInv
  <1>2. IsFiniteSet(Units(f))
    BY <1>1, SumIsFinite DEF StakingPoolConstants, PoolVotesConstants
  <1>3. t = SumOf(f)
    BY PoolsAreEven
  <1>4. f[a] = owned_shares[a][i] /\ \A b \in Account : f[b] = owned_shares[b][i]
    OBVIOUS
  <1> HIDE DEF f, t
  <1>5. t \in Nat /\ f[a] \in Nat /\ f[a] <= t
    BY <1>1, <1>2, <1>3, SumBoundsEntry
  <1>6. ASSUME NEW b \in Account \ {a}
        PROVE  f[a] + f[b] <= t
    <2> DEFINE g == [f EXCEPT ![b] = 0]
    <2>1. IsFiniteSet(Units(g)) /\ SumOf(g) = SumOf(f) - f[b] + 0
      <3>1. 0 \in Nat /\ b \in Account
        OBVIOUS
      <3> QED
        BY ONLY <1>1, <1>2, <3>1, SumUpdate
    <2>2. g \in [Account -> Nat] /\ g[a] = f[a] /\ f[b] \in Nat
      BY <1>1
    <2> HIDE DEF g
    <2>3. g[a] <= SumOf(g)
      BY <2>1, <2>2, SumBoundsEntry
    <2> QED
      BY <1>3, <1>5, <2>1, <2>2, <2>3
  <1> QED
    BY <1>4, <1>5, <1>6 DEF t

\* The shares of a pool after one owner's changed.
LEMMA SharesOfOwner ==
  ASSUME StakingPoolConstants, StakesInv, NEW owned \in [Account -> [Pool -> Nat]],
         NEW i \in Pool, NEW a \in Account,
         \A b \in Account \ {a} : owned[b][i] = owned_shares[b][i]
  PROVE  SumOf([b \in Account |-> owned[b][i]])
           = pools[i].shares - owned_shares[a][i] + owned[a][i]
  <1> DEFINE f == [x \in Account |-> owned_shares[x][i]]
             g == [x \in Account |-> owned[x][i]]
  <1>1. f \in [Account -> Nat] /\ g \in [Account -> Nat]
    BY DEF StakesInv
  <1>2. IsFiniteSet(Units(f))
    BY <1>1, SumIsFinite DEF StakingPoolConstants, PoolVotesConstants
  <1>3. pools[i].shares = SumOf(f)
    BY PoolsAreEven
  <1>4. f[a] = owned_shares[a][i] /\ g[a] = owned[a][i] /\ \A b \in Account \ {a} : g[b] = f[b]
    <2>1. \A b \in Account : f[b] = owned_shares[b][i] /\ g[b] = owned[b][i]
      OBVIOUS
    <2> HIDE DEF f, g
    <2>2. \A b \in Account \ {a} : b \in Account /\ owned[b][i] = owned_shares[b][i]
      OBVIOUS
    <2> QED
      BY ONLY <2>1, <2>2, a \in Account
  <1> HIDE DEF f, g
  <1>5. SumOf(g) = SumOf(f) - f[a] + g[a]
    BY ONLY <1>1, <1>2, <1>4, a \in Account, SumOneEntry, SMTT(60)
  <1> QED
    BY <1>3, <1>4, <1>5 DEF g

\* The shares of a pool after two owners' changed.
LEMMA SharesOfOwners ==
  ASSUME StakingPoolConstants, StakesInv, NEW owned \in [Account -> [Pool -> Nat]],
         NEW i \in Pool, NEW a \in Account, NEW b \in Account, a # b,
         \A c \in Account \ {a, b} : owned[c][i] = owned_shares[c][i]
  PROVE  SumOf([c \in Account |-> owned[c][i]])
           = pools[i].shares - owned_shares[a][i] - owned_shares[b][i]
             + owned[a][i] + owned[b][i]
  <1> DEFINE f == [x \in Account |-> owned_shares[x][i]]
             g == [x \in Account |-> owned[x][i]]
  <1>1. f \in [Account -> Nat] /\ g \in [Account -> Nat]
    BY DEF StakesInv
  <1>2. IsFiniteSet(Units(f)) /\ IsFiniteSet(Units(g))
    BY <1>1, SumIsFinite DEF StakingPoolConstants, PoolVotesConstants
  <1>3. pools[i].shares = SumOf(f)
    BY PoolsAreEven
  <1>4. /\ f[a] = owned_shares[a][i] /\ g[a] = owned[a][i]
        /\ f[b] = owned_shares[b][i] /\ g[b] = owned[b][i]
        /\ \A c \in Account \ {a, b} : g[c] = f[c]
    <2>1. \A c \in Account : f[c] = owned_shares[c][i] /\ g[c] = owned[c][i]
      OBVIOUS
    <2> HIDE DEF f, g
    <2>2. \A c \in Account \ {a, b} : c \in Account /\ owned[c][i] = owned_shares[c][i]
      OBVIOUS
    <2> QED
      BY ONLY <2>1, <2>2, a \in Account, b \in Account
  <1> HIDE DEF f, g
  <1>5. SumOf(g) - g[a] - g[b] = SumOf(f) - f[a] - f[b]
    <2>1. a \in Account /\ b \in Account /\ a # b
      OBVIOUS
    <2>2. \A x \in Account \ {a, b} : g[x] = f[x]
      BY <1>4
    <2>3. f \in [Account -> Nat] /\ g \in [Account -> Nat] /\ IsFiniteSet(Units(f))
      BY <1>1, <1>2
    <2> DEFINE A == Account
    <2>4. /\ f \in [A -> Nat] /\ g \in [A -> Nat] /\ IsFiniteSet(Units(f))
          /\ a \in A /\ b \in A /\ a # b /\ \A x \in A \ {a, b} : g[x] = f[x]
      BY <2>1, <2>2, <2>3
    <2> HIDE DEF A
    <2>5. /\ IsFiniteSet(Units(g))
          /\ SumOf(g) - g[a] - g[b] = SumOf(f) - f[a] - f[b]
      BY ONLY <2>4, SumTwoEntries
    <2> QED
      BY <2>5
  <1>6. /\ SumOf(g) \in Nat /\ SumOf(f) \in Nat
        /\ f[a] \in Nat /\ f[b] \in Nat /\ g[a] \in Nat /\ g[b] \in Nat
    BY <1>1, <1>2, SumBoundsEntry
  <1>7. SumOf(g) = SumOf(f) - f[a] - f[b] + g[a] + g[b]
    BY <1>5, <1>6
  <1> QED
    BY <1>3, <1>4, <1>7 DEF g

\* The balances, and their sum after some changed.
BalancesOf(p) == [i \in Pool |-> p[i].balance]

Table(p) == p \in [Pool -> [balance : Nat, shares : Nat]]

\* One pool's balance changed.
LEMMA BalancesOfOne ==
  ASSUME StakingPoolConstants, NEW p, NEW q, Table(p), Table(q), NEW i \in Pool,
         \A j \in Pool \ {i} : q[j] = p[j]
  PROVE  /\ SumOf(BalancesOf(p)) \in Nat
         /\ SumOf(BalancesOf(q)) = SumOf(BalancesOf(p)) - p[i].balance + q[i].balance
  <1> DEFINE f == BalancesOf(p)
             g == BalancesOf(q)
  <1>1. f \in [Pool -> Nat] /\ g \in [Pool -> Nat]
    BY DEF BalancesOf, Table
  <1>2. IsFiniteSet(Units(f))
    BY <1>1, SumIsFinite DEF StakingPoolConstants, PoolVotesConstants
  <1>3. f[i] = p[i].balance /\ g[i] = q[i].balance /\ \A j \in Pool \ {i} : g[j] = f[j]
    BY DEF BalancesOf
  <1> HIDE DEF f, g
  <1>4. SumOf(g) = SumOf(f) - f[i] + g[i] /\ SumOf(f) \in Nat
    BY <1>1, <1>2, <1>3, SumOneEntry, SumBoundsEntry
  <1> QED
    BY <1>3, <1>4 DEF f, g

\* An amount moved from one pool to another.
LEMMA BalancesOfTwo ==
  ASSUME StakingPoolConstants, NEW p, NEW q, Table(p), Table(q), NEW i \in Pool, NEW j \in Pool,
         i # j, \A k \in Pool \ {i, j} : q[k] = p[k],
         q[i].balance + q[j].balance = p[i].balance + p[j].balance
  PROVE  SumOf(BalancesOf(q)) = SumOf(BalancesOf(p))
  <1> DEFINE f == BalancesOf(p)
             g == BalancesOf(q)
  <1>1. f \in [Pool -> Nat] /\ g \in [Pool -> Nat]
    BY DEF BalancesOf, Table
  <1>2. IsFiniteSet(Units(f)) /\ IsFiniteSet(Units(g))
    BY <1>1, SumIsFinite DEF StakingPoolConstants, PoolVotesConstants
  <1>3. /\ f[i] = p[i].balance /\ g[i] = q[i].balance
        /\ f[j] = p[j].balance /\ g[j] = q[j].balance
        /\ \A k \in Pool \ {i, j} : g[k] = f[k]
    BY DEF BalancesOf
  <1> HIDE DEF f, g
  <1>4. SumOf(g) - g[i] - g[j] = SumOf(f) - f[i] - f[j]
    BY <1>1, <1>2, <1>3, SumTwoEntries
  <1>5. /\ SumOf(g) \in Nat /\ SumOf(f) \in Nat /\ f[i] \in Nat /\ g[i] \in Nat
        /\ f[j] \in Nat /\ g[j] \in Nat
    BY <1>1, <1>2, SumBoundsEntry
  <1>6. g[i] + g[j] = f[i] + f[j]
    BY <1>3
  <1> QED
    BY <1>4, <1>5, <1>6 DEF f, g

\* Fees divided between the pools with shares reach them completely and make
\* all shares worth at least what they were.
LEMMA AdjustedPools ==
  ASSUME StakingPoolConstants, StakesInv, ActivePools # {}, NEW amount \in Nat
  PROVE  LET p == Adjusted(amount)
         IN  /\ Table(p)
             /\ SumOf(BalancesOf(p)) = srpool + amount
             /\ \A i \in Pool :
                  /\ Even(p[i]) /\ p[i].shares = pools[i].shares
                  /\ \A s \in 0 .. pools[i].shares : Value(pools[i], s) <= Value(p[i], s)
  <1> DEFINE S == ActivePools
             p == Adjusted(amount)
             part == [i \in S |-> PartOfPool(i, amount)]
             f == [i \in Pool |-> IF i \in S THEN part[i] ELSE 0]
  <1>1. S \in SUBSET Pool /\ S \in SUBSET Nat /\ IsFiniteSet(S) /\ IsFiniteSet(Pool)
    <2>1. S \in SUBSET Pool /\ Pool \subseteq Nat /\ IsFiniteSet(Pool)
      BY DEF ActivePools, StakingPoolConstants, PoolVotesConstants
    <2> HIDE DEF S
    <2>2. IsFiniteSet(S)
      BY <2>1, FS_Subset
    <2> QED
      BY <2>1, <2>2
  <1>2. part \in [S -> Nat] /\ SumOf(part) = amount
    <2>1. \A i \in S : part[i] = PartEnd(amount, Rank(S, i), Cardinality(S))
                                 - PartEnd(amount, Rank(S, i) - 1, Cardinality(S))
      BY DEF PartOfPool, PartEnd, Rank
    <2>2. Cardinality(S) \in Nat \ {0}
      <3> HIDE DEF S
      <3> QED
        BY <1>1, FS_CardinalityType, FS_EmptySet DEF S
    <2>3. \A i \in S : part[i] \in Int
      <3> TAKE i \in S
      <3> DEFINE n == Cardinality(S)
      <3>1. Rank(S, i) \in 1 .. n
        <4> HIDE DEF S
        <4> QED
          BY <1>1, RanksAreNumbers
      <3> DEFINE k == Rank(S, i) - 1
                 l == Rank(S, i)
      <3>2. k \in 0 .. n /\ l \in 0 .. n /\ k <= l
        <4> HIDE DEF n, S
        <4> QED
          BY <2>2, <3>1 DEF n
      <3>3. part[i] = PartEnd(amount, l, n) - PartEnd(amount, k, n)
        BY <2>1
      <3> HIDE DEF k, l, n, part
      <3>4. PartEnd(amount, k, n) \in Nat /\ PartEnd(amount, l, n) \in Nat
        BY <2>2, <3>2, EndsGrow DEF n
      <3> QED
        BY <3>3, <3>4
    <2>4. part \in [S -> Int]
      BY <2>3
    <2> HIDE DEF part, S
    <2> QED
      BY <1>1, <2>1, <2>4, PartsAddUp DEF S
  <1>3. f \in [Pool -> Nat] /\ SumOf(f) = amount /\ IsFiniteSet(Units(f))
    <2> HIDE DEF S, part
    <2>1. f \in [Pool -> Nat]
      BY <1>2
    <2>2. IsFiniteSet(Units(f))
      BY <1>1, <2>1, SumIsFinite
    <2>3. S \subseteq Pool /\ \A i \in Pool \ S : f[i] = 0
      BY <1>1
    <2>4. [i \in S |-> f[i]] = part
      BY <1>1, <1>2
    <2> HIDE DEF f
    <2>5. SumOf([i \in S |-> f[i]]) = SumOf(f)
      BY <2>1, <2>2, <2>3, SumOfSupport
    <2> QED
      BY <1>2, <2>1, <2>2, <2>4, <2>5
  <1>4. pools \in [Pool -> [balance : Nat, shares : Nat]] /\ srpool = SumOf(BalancesOf(pools))
    BY DEF StakesInv, StakesAreSound, MoneyTypeOK, PoolsAreSound, BalancesAreBacked, BalancesOf
  <1>5. \A i \in Pool : p[i] = [balance |-> pools[i].balance + f[i], shares |-> pools[i].shares]
    <2> TAKE i \in Pool
    <2>1. pools[i] \in [balance : Nat, shares : Nat]
      BY <1>4
    <2>2. CASE i \in S
      BY <2>1, <2>2 DEF Adjusted
    <2>3. CASE i \notin S
      <3>1. p[i] = pools[i] /\ f[i] = 0
        BY <2>3 DEF Adjusted
      <3>2. pools[i].balance + 0 = pools[i].balance
        BY <2>1
      <3> HIDE DEF p, f
      <3>3. pools[i] = [balance |-> pools[i].balance, shares |-> pools[i].shares]
        BY <2>1
      <3> QED
        BY <3>1, <3>2, <3>3
    <2> QED
      BY <2>2, <2>3
  <1>6. p = [i \in Pool |-> p[i]]
    BY DEF Adjusted
  <1>7. \A i \in Pool : f[i] = 0 \/ pools[i].shares > 0
    BY DEF ActivePools
  <1> HIDE DEF p, f, S, part
  <1>8. Table(p)
    BY <1>3, <1>4, <1>5, <1>6 DEF Table
  <1>9. SumOf(BalancesOf(p)) = srpool + amount
    <2> DEFINE g == BalancesOf(pools)
    <2>1. g \in [Pool -> Nat] /\ \A i \in Pool : g[i] = pools[i].balance
      BY <1>4 DEF BalancesOf
    <2> HIDE DEF g
    <2>2. BalancesOf(p) = [i \in Pool |-> g[i] + f[i]]
      <3>1. \A i \in Pool : p[i].balance = pools[i].balance + f[i]
        <4> TAKE i \in Pool
        <4>1. p[i] = [balance |-> pools[i].balance + f[i], shares |-> pools[i].shares]
          BY <1>5
        <4> QED
          BY ONLY <4>1
      <3>2. \A i \in Pool : p[i].balance = g[i] + f[i]
        BY <3>1, <2>1
      <3> QED
        BY ONLY <3>2 DEF BalancesOf
    <2>3. SumOf([i \in Pool |-> g[i] + f[i]]) = SumOf(g) + SumOf(f)
      BY <1>1, <1>3, <2>1, SumIsFinite, SumOfBoth
    <2> QED
      BY <1>3, <1>4, <2>2, <2>3 DEF g
  <1>10. ASSUME NEW i \in Pool
         PROVE  /\ Even(p[i]) /\ p[i].shares = pools[i].shares
                /\ \A s \in 0 .. pools[i].shares : Value(pools[i], s) <= Value(p[i], s)
    <2> DEFINE b == pools[i].balance
               t == pools[i].shares
               x == f[i]
    <2>1. b \in Nat /\ t \in Nat /\ x \in Nat /\ (t = 0 <=> b = 0) /\ (x = 0 \/ t > 0)
      BY <1>3, <1>7, PoolsAreEven DEF Even
    <2>2. p[i] = [balance |-> b + x, shares |-> t]
      BY <1>5
    <2> HIDE DEF b, t, x
    <2>3. Even(p[i]) /\ p[i].shares = t /\ p[i].balance = b + x
      BY <2>1, <2>2 DEF Even
    <2>4. b * t <= (b + x) * t
      <3>1. b * t \in Nat /\ x * t \in Nat /\ (b + x) * t = b * t + x * t
        BY <2>1, ProductIsNat
      <3> QED
        BY <3>1
    <2>5. ASSUME NEW s \in 0 .. t
          PROVE  Value(pools[i], s) <= Value(p[i], s)
      <3>1. s \in Nat /\ s <= t
        BY <2>1
      <3>2. Even(pools[i])
        BY PoolsAreEven
      <3>3. pools[i].balance * p[i].shares <= p[i].balance * pools[i].shares
        BY <2>3, <2>4 DEF b, t
      <3> QED
        BY <2>3, <3>1, <3>2, <3>3, DearerPool DEF t
    <2> QED
      BY <2>3, <2>5 DEF t
  <1> QED
    BY <1>8, <1>9, <1>10 DEF p

-----------------------------------------------------------------------------
(* Parts of steps.                                                         *)

\* What the invariant needs of a step.
LEMMA StakesKept ==
  ASSUME StakesInv,
         owned_shares' \in [Account -> [Pool -> Nat]],
         Table(pools'),
         \A i \in Pool :
           /\ Even(pools'[i])
           /\ pools'[i].shares = SumOf([a \in Account |-> owned_shares'[a][i]]),
         srpool' \in Nat, srpool' = SumOf(BalancesOf(pools')),
         next_claim' \in [Account -> [Pool -> Nat]],
         \A a \in Account, i \in Pool : next_claim'[a][i] <= now' + Period[i],
         tokens' \in [Account -> Nat], namebid_proceeds' \in Nat, now' \in 0 .. LastSlot
  PROVE  StakesInv'
  <1>1. MoneyTypeOK'
    BY DEF MoneyTypeOK, Table
  <1>2. SharesAddUp' /\ NoPoolIsStranded'
    BY DEF SharesAddUp, NoPoolIsStranded, Even
  <1>3. BalancesAreBacked'
    BY DEF BalancesAreBacked, BalancesOf
  <1>4. ClaimsAreNear'
    BY DEF ClaimsAreNear
  <1> QED
    BY <1>1, <1>2, <1>3, <1>4 DEF StakesInv, StakesAreSound, PoolsAreSound

\* The types of what a step may change, and of the constants.
LEMMA StakeTypes ==
  ASSUME StakingPoolConstants, StakesInv
  PROVE  /\ Table(pools) /\ srpool = SumOf(BalancesOf(pools)) /\ srpool \in Nat
         /\ owned_shares \in [Account -> [Pool -> Nat]]
         /\ next_claim \in [Account -> [Pool -> Nat]]
         /\ tokens \in [Account -> Nat] /\ namebid_proceeds \in Nat
         /\ now \in 0 .. LastSlot /\ now \in Nat
         /\ Unit \in Nat \ {0} /\ Period \in [Pool -> Nat \ {0}]
         /\ Pool \subseteq Nat
         /\ \A a \in Account, i \in Pool : next_claim[a][i] <= now + Period[i]
  BY DEF StakesInv, StakesAreSound, MoneyTypeOK, PoolsAreSound, BalancesAreBacked, BalancesOf,
         Table, StakingPoolConstants, PoolVotesConstants, ClaimsAreNear

\* A deposit lets its owner claim no sooner than before and after a period at
\* most; one that doubles the stake, after half a period at least.
LEMMA DepositWaits ==
  ASSUME StakingPoolConstants, StakesInv, NEW a \in Account, NEW i \in Pool,
         NEW pool, Even(pool), NEW s \in 0 .. pool.shares, NEW amount \in Nat \ {0},
         SharesFor(pool, amount) > 0, NEW before \in Nat, Value(pool, s) <= before + 1
  PROVE  LET new == SharesFor(pool, amount)
             claim == ClaimAfterDeposit(i, pool, s, next_claim[a][i], amount)
             after == Value(Bought(pool, amount, new), s + new)
         IN  /\ claim \in Nat
             /\ next_claim[a][i] <= claim /\ claim <= now + Period[i]
             /\ after >= 2 * (before + 1) => claim >= now + Period[i] \div 2
  <1> DEFINE c == Value(pool, s)
             next == next_claim[a][i]
             p == Period[i]
             new == SharesFor(pool, amount)
             claim == ClaimAfterDeposit(i, pool, s, next, amount)
             after == Value(Bought(pool, amount, new), s + new)
  <1>1. next \in Nat /\ now \in Nat /\ p \in Nat \ {0} /\ next <= now + p /\ Unit \in Nat \ {0}
    BY StakeTypes
  <1>2. c \in Nat
    <2>1. c \in 0 .. pool.balance /\ pool.balance \in Nat
      BY ValueOfShares DEF Even
    <2> QED
      BY <2>1
  <1>3. after <= c + amount /\ after \in Int
    <2>1. after <= c + amount
      BY <1>1, DepositAddsAtMost
    <2>2. Even(Bought(pool, amount, new)) /\ new \in Nat
          /\ Bought(pool, amount, new).shares = pool.shares + new
      BY <1>1, BuyingKeepsValue
    <2>3. s + new \in 0 .. pool.shares + new
      BY <2>2 DEF Even
    <2>4. after \in 0 .. Bought(pool, amount, new).balance
      <3> HIDE DEF new
      <3> QED
        BY <2>2, <2>3, ValueOfShares
    <2> QED
      BY <2>1, <2>4
  <1>4. claim = (Larger(next, now) * c + (now + p) * amount) \div (c + amount)
    BY DEF ClaimAfterDeposit
  <1> HIDE DEF c, next, p, new, after, claim
  <1>5. /\ claim \in Nat
        /\ next <= claim /\ claim <= now + p
        /\ c <= amount => claim >= now + p \div 2
    BY <1>1, <1>2, <1>4, DepositTimes
  <1>6. after >= 2 * (before + 1) => c <= amount
    BY <1>2, <1>3 DEF c
  <1> QED
    BY <1>5, <1>6 DEF c, next, p, new, after, claim

\* One deposit in a step: all claims stay near, none comes sooner, and stake
\* that doubles waits.
LEMMA OneDeposit ==
  ASSUME StakingPoolConstants, StakesInv, NEW a \in Account, NEW i \in Pool, NEW claim \in Nat,
         next_claim' = [next_claim EXCEPT ![a][i] = claim], now' = now,
         next_claim[a][i] <= claim, claim <= now + Period[i],
         owned_shares' \in [Account -> [Pool -> Nat]],
         \A b \in Account, j \in Pool :
           b # a \/ j # i => owned_shares'[b][j] <= owned_shares[b][j],
         Value(pools'[i], owned_shares'[a][i]) >= 2 * (Value(pools[i], owned_shares[a][i]) + 1) =>
           claim >= now + Period[i] \div 2
  PROVE  /\ next_claim' \in [Account -> [Pool -> Nat]]
         /\ \A b \in Account, j \in Pool : next_claim'[b][j] <= now' + Period[j]
         /\ NoSooner /\ NewStakeWaits
  <1>1. next_claim \in [Account -> [Pool -> Nat]] /\ owned_shares \in [Account -> [Pool -> Nat]]
    BY StakeTypes
  <1>2. next_claim' \in [Account -> [Pool -> Nat]] /\ next_claim'[a][i] = claim
    BY <1>1
  <1>3. \A b \in Account, j \in Pool : b # a \/ j # i => next_claim'[b][j] = next_claim[b][j]
    BY <1>1
  <1>4. \A b \in Account, j \in Pool : next_claim[b][j] \in Nat /\ next_claim[b][j] <= now + Period[j]
    BY StakeTypes
  <1>5. ASSUME NEW b \in Account, NEW j \in Pool
        PROVE  next_claim'[b][j] <= now' + Period[j] /\ next_claim'[b][j] >= next_claim[b][j]
    <2>1. CASE b = a /\ j = i
      BY <1>2, <2>1
    <2>2. CASE b # a \/ j # i
      BY <1>3, <1>4, <2>2
    <2> QED
      BY <2>1, <2>2
  <1>6. NewStakeWaits
    <2>1. ASSUME NEW b \in Account, NEW j \in Pool, owned_shares'[b][j] > owned_shares[b][j]
          PROVE  b = a /\ j = i
      <3>1. owned_shares'[b][j] \in Nat /\ owned_shares[b][j] \in Nat
        BY <1>1
      <3> QED
        BY <2>1, <3>1
    <2> QED
      BY <1>2, <2>1 DEF NewStakeWaits
  <1> QED
    BY <1>2, <1>5, <1>6 DEF NoSooner

\* A step in which one pool changes.
LEMMA OnePoolChanges ==
  ASSUME StakingPoolConstants, NEW p, Table(p), NEW i \in Pool, NEW after, Even(after)
  PROVE  LET q == [p EXCEPT ![i] = after]
         IN  /\ Table(q) /\ q[i] = after /\ \A j \in Pool \ {i} : q[j] = p[j]
             /\ SumOf(BalancesOf(q)) \in Nat
             /\ SumOf(BalancesOf(q)) = SumOf(BalancesOf(p)) - p[i].balance + after.balance
  <1> DEFINE q == [p EXCEPT ![i] = after]
  <1>1. Table(q) /\ q[i] = after /\ \A j \in Pool \ {i} : q[j] = p[j]
    BY DEF Table, Even
  <1> HIDE DEF q
  <1>2. /\ SumOf(BalancesOf(p)) \in Nat
        /\ SumOf(BalancesOf(q)) = SumOf(BalancesOf(p)) - p[i].balance + q[i].balance
    BY <1>1, BalancesOfOne
  <1>3. SumOf(BalancesOf(q)) \in Nat
    BY <1>1, BalancesOfOne
  <1> QED
    BY <1>1, <1>2, <1>3 DEF q

-----------------------------------------------------------------------------
(* The actions.                                                            *)

LEMMA Stake2PoolIsFair ==
  ASSUME StakingPoolConstants, StakesInv, NEW a \in Account, NEW i \in Pool,
         NEW amount \in Amounts, Stake2Pool(a, i, amount)
  PROVE  StakesInv' /\ StepIsFair
  <1> DEFINE new == SharesFor(pools[i], amount)
             s == owned_shares[a][i]
             after == Bought(pools[i], amount, new)
             claim == ClaimAfterDeposit(i, pools[i], s, next_claim[a][i], amount)
             q == [pools EXCEPT ![i] = after]
             owned == [owned_shares EXCEPT ![a][i] = s + new]
  <1>1. amount \in Nat \ {0}
    BY DEF StakingPoolConstants
  <1>2. /\ Table(pools) /\ srpool = SumOf(BalancesOf(pools)) /\ srpool \in Nat
        /\ owned_shares \in [Account -> [Pool -> Nat]]
        /\ tokens \in [Account -> Nat] /\ namebid_proceeds \in Nat
        /\ now \in 0 .. LastSlot /\ Unit \in Nat \ {0}
        /\ next_claim \in [Account -> [Pool -> Nat]]
    BY StakeTypes
  <1>3. Even(pools[i]) /\ pools[i].balance \in Nat /\ pools[i].shares \in Nat
    BY PoolsAreEven
  <1>4. s \in 0 .. pools[i].shares
    BY OwnersHaveShares
  <1>5. new > 0
    BY Zenon DEF Stake2Pool
  <1>6. /\ new \in Nat \ {0} /\ Even(after)
        /\ after.balance = pools[i].balance + amount /\ after.shares = pools[i].shares + new
        /\ \A x \in 0 .. pools[i].shares : Value(pools[i], x) <= Value(after, x)
    BY <1>1, <1>2, <1>3, <1>5, BuyingKeepsValue
  <1>7. /\ claim \in Nat
        /\ next_claim[a][i] <= claim /\ claim <= now + Period[i]
        /\ Value(after, s + new) >= 2 * (Value(pools[i], s) + 1) =>
             claim >= now + Period[i] \div 2
    <2>1. Value(pools[i], s) \in 0 .. pools[i].balance
      BY <1>3, <1>4, ValueOfShares
    <2>2. Value(pools[i], s) \in Nat /\ Value(pools[i], s) <= Value(pools[i], s) + 1
      BY <1>3, <2>1
    <2> QED
      BY <1>1, <1>3, <1>4, <1>5, <2>2, DepositWaits
  <1>8. /\ pools' = q /\ owned_shares' = owned
        /\ next_claim' = [next_claim EXCEPT ![a][i] = claim]
        /\ srpool' = srpool + amount
        /\ tokens' = [tokens EXCEPT ![a] = @ - amount] /\ tokens[a] >= amount
        /\ namebid_proceeds' = namebid_proceeds /\ now' = now
    BY <1>2 DEF Stake2Pool, Table
  <1> HIDE DEF new, after, claim
  <1>9. /\ owned \in [Account -> [Pool -> Nat]]
        /\ owned[a][i] = s + new /\ s \in Nat
        /\ \A b \in Account, j \in Pool : b # a \/ j # i => owned[b][j] = owned_shares[b][j]
    BY <1>2, <1>6
  <1>10. /\ Table(q) /\ q[i] = after /\ \A j \in Pool \ {i} : q[j] = pools[j]
         /\ SumOf(BalancesOf(q)) \in Nat
         /\ SumOf(BalancesOf(q)) = SumOf(BalancesOf(pools)) - pools[i].balance + after.balance
    BY <1>2, <1>6, OnePoolChanges
  <1> HIDE DEF q, owned
  <1>11. \A j \in Pool :
           Even(q[j]) /\ q[j].shares = SumOf([b \in Account |-> owned[b][j]])
    <2> TAKE j \in Pool
    <2>1. SumOf([b \in Account |-> owned[b][j]])
            = pools[j].shares - owned_shares[a][j] + owned[a][j]
      <3>1. \A b \in Account \ {a} : owned[b][j] = owned_shares[b][j]
        BY <1>9
      <3> QED
        BY <1>9, <3>1, SharesOfOwner
    <2>2. CASE j = i
      BY <1>3, <1>6, <1>9, <1>10, <2>1, <2>2
    <2>3. CASE j # i
      <3>1. owned[a][j] = owned_shares[a][j] /\ owned_shares[a][j] \in Nat
        BY <1>2, <1>9, <2>3
      <3>2. q[j] = pools[j] /\ Even(pools[j]) /\ pools[j].shares \in Nat
        BY <1>10, <2>3, PoolsAreEven
      <3> QED
        BY <2>1, <3>1, <3>2
    <2> QED
      BY <2>2, <2>3
  <1>12. srpool' \in Nat /\ srpool' = SumOf(BalancesOf(pools'))
    BY <1>1, <1>2, <1>3, <1>6, <1>8, <1>10
  <1>13. tokens' \in [Account -> Nat]
    BY <1>1, <1>2, <1>8
  <1>14. /\ next_claim' \in [Account -> [Pool -> Nat]]
         /\ \A b \in Account, j \in Pool : next_claim'[b][j] <= now' + Period[j]
         /\ NoSooner /\ NewStakeWaits
    <2>1. \A b \in Account, j \in Pool :
            b # a \/ j # i => owned_shares'[b][j] <= owned_shares[b][j]
      BY <1>2, <1>8, <1>9
    <2>2. Value(pools'[i], owned_shares'[a][i]) >= 2 * (Value(pools[i], owned_shares[a][i]) + 1) =>
            claim >= now + Period[i] \div 2
      BY <1>7, <1>8, <1>9, <1>10
    <2>3. /\ claim \in Nat /\ now' = now
          /\ next_claim' = [next_claim EXCEPT ![a][i] = claim]
          /\ next_claim[a][i] <= claim /\ claim <= now + Period[i]
          /\ owned_shares' \in [Account -> [Pool -> Nat]]
      BY <1>7, <1>8, <1>9
    <2>4. a \in Account /\ i \in Pool
      OBVIOUS
    <2> QED
      BY ONLY StakingPoolConstants, StakesInv, <2>1, <2>2, <2>3, <2>4, OneDeposit
  <1>15. StakesInv'
    BY <1>2, <1>8, <1>9, <1>10, <1>11, <1>12, <1>13, <1>14, StakesKept
  <1>16. KeepsValue
    <2> SUFFICES ASSUME NEW b \in Account, NEW j \in Pool,
                        owned_shares'[b][j] = owned_shares[b][j]
                 PROVE  Value(pools'[j], owned_shares[b][j]) >= Value(pools[j], owned_shares[b][j])
      BY DEF KeepsValue
    <2>1. /\ owned_shares[b][j] \in 0 .. pools[j].shares /\ Even(pools[j])
          /\ pools[j].balance \in Nat
      BY OwnersHaveShares, PoolsAreEven
    <2>2. CASE j = i
      <3>1. Value(pools[i], owned_shares[b][i]) <= Value(after, owned_shares[b][i])
        BY <1>6, <2>1, <2>2
      <3>2. Value(pools[i], owned_shares[b][i]) \in 0 .. pools[i].balance
        BY <2>1, <2>2, ValueOfShares
      <3> QED
        BY <1>8, <1>10, <2>2, <3>1, <3>2
    <2>3. CASE j # i
      <3>1. Value(pools[j], owned_shares[b][j]) \in 0 .. pools[j].balance
        BY <2>1, ValueOfShares
      <3>2. pools'[j] = pools[j]
        BY <1>8, <1>10, <2>3
      <3> QED
        BY <2>1, <3>1, <3>2
    <2> QED
      BY <2>2, <2>3
  <1> QED
    BY <1>14, <1>15, <1>16 DEF StepIsFair

LEMMA ClaimStakeIsFair ==
  ASSUME StakingPoolConstants, StakesInv, NEW a \in Account, NEW i \in Pool,
         NEW requested \in Amounts, ClaimStake(a, i, requested)
  PROVE  StakesInv' /\ StepIsFair
  <1> DEFINE adjusted == Adjusted(Proceeds)
             s == owned_shares[a][i]
             pool == adjusted[i]
             shares == SharesToSell(i, pool, s, requested, TRUE)
             claimed == Value(pool, shares)
             left == Sold(pool, shares)
             claim == now + Period[i]
             q == [adjusted EXCEPT ![i] = left]
             owned == [owned_shares EXCEPT ![a][i] = s - shares]
  <1>1. requested \in Nat
    BY DEF StakingPoolConstants
  <1>2. /\ Table(pools) /\ srpool = SumOf(BalancesOf(pools)) /\ srpool \in Nat
        /\ owned_shares \in [Account -> [Pool -> Nat]]
        /\ tokens \in [Account -> Nat] /\ namebid_proceeds \in Nat
        /\ now \in 0 .. LastSlot /\ now \in Nat /\ Period[i] \in Nat \ {0}
        /\ next_claim \in [Account -> [Pool -> Nat]]
        /\ next_claim[a][i] <= now + Period[i]
    BY StakeTypes
  <1>3. /\ s \in 0 .. pools[i].shares /\ pools[i].shares \in Nat
        /\ \A b \in Account \ {a} : s + owned_shares[b][i] <= pools[i].shares
    BY OwnersHaveShares, PoolsAreEven
  <1>4. s > 0 /\ shares > 0 /\ claimed > 0
    BY Zenon DEF ClaimStake
  <1>5. ActivePools # {} /\ Proceeds = namebid_proceeds
    <2>1. i \in ActivePools
      BY <1>3, <1>4 DEF ActivePools
    <2> QED
      BY <2>1 DEF Proceeds
  <1>6. /\ Table(adjusted)
        /\ SumOf(BalancesOf(adjusted)) = srpool + namebid_proceeds
        /\ \A j \in Pool :
             /\ Even(adjusted[j]) /\ adjusted[j].shares = pools[j].shares
             /\ \A x \in 0 .. pools[j].shares : Value(pools[j], x) <= Value(adjusted[j], x)
    BY <1>2, <1>5, AdjustedPools
  <1>7. /\ pools' = q /\ owned_shares' = owned
        /\ next_claim' = [next_claim EXCEPT ![a][i] = claim]
        /\ srpool' = srpool + namebid_proceeds - claimed
        /\ tokens' = [tokens EXCEPT ![a] = @ + claimed]
        /\ namebid_proceeds' = namebid_proceeds - namebid_proceeds /\ now' = now
    BY <1>2, <1>5, <1>6 DEF ClaimStake, Table
  <1> HIDE DEF adjusted
  <1>8. Even(pool) /\ pool.shares = pools[i].shares
    BY <1>6
  <1> HIDE DEF pool
  <1>9. shares \in 0 .. s
    <2>1. s \in 0 .. pool.shares
      BY <1>3, <1>8
    <2> HIDE DEF s
    <2> QED
      BY <1>1, <1>8, <2>1, SharesToSellAreOwned
  <1> HIDE DEF shares, s
  <1>10. shares \in 0 .. pool.shares /\ s \in Nat /\ shares \in Nat /\ shares <= s /\ s - shares \in Nat
    BY <1>3, <1>8, <1>9
  <1>11. /\ Even(left)
         /\ left.balance = pool.balance - claimed /\ left.shares = pool.shares - shares
         /\ \A x \in 0 .. left.shares : Value(pool, x) <= Value(left, x)
    BY <1>8, <1>10, SellingKeepsValue
  <1>12. /\ claimed \in Nat /\ pool.balance \in Nat /\ pool.shares \in Nat
         /\ claimed <= pool.balance /\ left.shares \in Nat
    <2>1. claimed \in 0 .. pool.balance
      BY <1>8, <1>10, ValueOfShares
    <2> QED
      BY <1>8, <1>11, <2>1 DEF Even
  <1> HIDE DEF left, claimed
  <1>13. /\ owned \in [Account -> [Pool -> Nat]] /\ owned[a][i] = s - shares
         /\ \A b \in Account, j \in Pool : b # a \/ j # i => owned[b][j] = owned_shares[b][j]
    BY <1>2, <1>10
  <1>14. /\ Table(q) /\ q[i] = left /\ \A j \in Pool \ {i} : q[j] = adjusted[j]
         /\ SumOf(BalancesOf(q)) \in Nat
         /\ SumOf(BalancesOf(q)) = SumOf(BalancesOf(adjusted)) - pool.balance + left.balance
    BY <1>6, <1>11, OnePoolChanges DEF pool
  <1> HIDE DEF q, owned
  <1>15. \A j \in Pool :
           Even(q[j]) /\ q[j].shares = SumOf([b \in Account |-> owned[b][j]])
    <2> TAKE j \in Pool
    <2>1. SumOf([b \in Account |-> owned[b][j]])
            = pools[j].shares - owned_shares[a][j] + owned[a][j]
      <3>1. \A b \in Account \ {a} : owned[b][j] = owned_shares[b][j]
        BY <1>13
      <3> QED
        BY <1>13, <3>1, SharesOfOwner
    <2>2. CASE j = i
      <3>1. q[j] = left /\ owned[a][j] = s - shares /\ owned_shares[a][j] = s
        BY <1>13, <1>14, <2>2 DEF s
      <3>2. left.shares = pools[j].shares - shares /\ pools[j].shares \in Nat
        BY <1>3, <1>8, <1>11, <2>2
      <3> QED
        BY <1>10, <1>11, <2>1, <3>1, <3>2
    <2>3. CASE j # i
      <3>1. owned[a][j] = owned_shares[a][j] /\ owned_shares[a][j] \in Nat
        BY <1>2, <1>13, <2>3
      <3>2. q[j] = adjusted[j] /\ Even(q[j]) /\ q[j].shares = pools[j].shares
        BY <1>6, <1>14, <2>3
      <3>3. pools[j].shares \in Nat
        BY PoolsAreEven
      <3> QED
        BY <2>1, <3>1, <3>2, <3>3
    <2> QED
      BY <2>2, <2>3
  <1>16. /\ srpool' \in Nat /\ srpool' = SumOf(BalancesOf(pools'))
         /\ namebid_proceeds' \in Nat
    BY <1>2, <1>6, <1>7, <1>11, <1>12, <1>14
  <1>17. tokens' \in [Account -> Nat]
    BY <1>2, <1>7, <1>12
  <1>18. /\ next_claim' \in [Account -> [Pool -> Nat]]
         /\ \A b \in Account, j \in Pool : next_claim'[b][j] <= now' + Period[j]
         /\ NoSooner /\ NewStakeWaits
    <2>1. \A b \in Account, j \in Pool :
            b # a \/ j # i => owned_shares'[b][j] <= owned_shares[b][j]
      BY <1>2, <1>7, <1>13
    <2>2. claim \in Nat /\ claim <= now + Period[i] /\ claim >= now + Period[i] \div 2
      BY <1>2
    <2>3. /\ claim \in Nat /\ now' = now
          /\ next_claim' = [next_claim EXCEPT ![a][i] = claim]
          /\ next_claim[a][i] <= claim /\ claim <= now + Period[i]
          /\ owned_shares' \in [Account -> [Pool -> Nat]]
      BY <1>2, <1>7, <1>13, <2>2
    <2>4. a \in Account /\ i \in Pool
      OBVIOUS
    <2> HIDE DEF claim
    <2> QED
      BY ONLY StakingPoolConstants, StakesInv, <2>1, <2>2, <2>3, <2>4, OneDeposit
  <1>19. StakesInv'
    BY <1>2, <1>7, <1>13, <1>14, <1>15, <1>16, <1>17, <1>18, StakesKept
  <1>20. KeepsValue
    <2> SUFFICES ASSUME NEW b \in Account, NEW j \in Pool,
                        owned_shares'[b][j] = owned_shares[b][j]
                 PROVE  Value(q[j], owned_shares[b][j]) >= Value(pools[j], owned_shares[b][j])
      BY <1>7 DEF KeepsValue
    <2> DEFINE x == owned_shares[b][j]
    <2>1. x \in 0 .. pools[j].shares /\ Even(pools[j]) /\ pools[j].balance \in Nat
      BY OwnersHaveShares, PoolsAreEven
    <2>2. /\ Value(pools[j], x) \in Nat
          /\ Value(adjusted[j], x) \in Nat
          /\ Value(pools[j], x) <= Value(adjusted[j], x)
      <3>1. Even(adjusted[j]) /\ x \in 0 .. adjusted[j].shares /\ adjusted[j].balance \in Nat
        BY <1>6, <2>1 DEF Even
      <3>2. Value(pools[j], x) \in 0 .. pools[j].balance
        BY <2>1, ValueOfShares
      <3>3. Value(adjusted[j], x) \in 0 .. adjusted[j].balance
        BY <3>1, ValueOfShares
      <3> QED
        BY <1>6, <2>1, <3>1, <3>2, <3>3
    <2>3. CASE j = i
      <3>1. b # a
        <4> SUFFICES ASSUME b = a PROVE FALSE
          OBVIOUS
        <4>1. s - shares = s
          BY <1>7, <1>13, <2>3 DEF s
        <4> QED
          BY <1>4, <1>10, <4>1
      <3>2. x \in 0 .. left.shares
        BY <1>3, <1>8, <1>10, <1>11, <1>12, <2>1, <2>3, <3>1
      <3>3. Value(pool, x) <= Value(left, x)
        BY <1>11, <3>2
      <3>4. Value(left, x) \in 0 .. left.balance /\ left.balance \in Nat
        BY <1>11, <3>2, ValueOfShares DEF Even
      <3>5. q[j] = left /\ adjusted[j] = pool
        BY <1>14, <2>3 DEF pool
      <3> QED
        BY <2>2, <3>3, <3>4, <3>5
    <2>4. CASE j # i
      <3>1. q[j] = adjusted[j]
        BY <1>14, <2>4
      <3> QED
        BY <2>2, <3>1
    <2> QED
      BY <2>3, <2>4
  <1> QED
    BY <1>18, <1>19, <1>20 DEF StepIsFair

LEMMA TransferStakeIsFair ==
  ASSUME StakingPoolConstants, StakesInv, NEW from \in Account, NEW to \in Account,
         NEW i \in Pool, NEW requested \in Amounts, TransferStake(from, to, i, requested)
  PROVE  StakesInv' /\ StepIsFair
  <1> DEFINE pool == pools[i]
             s == owned_shares[from][i]
             t == owned_shares[to][i]
             shares == SharesToSell(i, pool, s, requested, FALSE)
             amount == Value(pool, shares)
             left == Sold(pool, shares)
             new == SharesFor(left, amount)
             after == Bought(left, amount, new)
             claim == ClaimAfterDeposit(i, left, t, next_claim[to][i], amount)
             q == [pools EXCEPT ![i] = after]
             owned == [owned_shares EXCEPT ![from][i] = s - shares, ![to][i] = t + new]
  <1>1. requested \in Nat
    BY DEF StakingPoolConstants
  <1>2. /\ Table(pools) /\ srpool = SumOf(BalancesOf(pools)) /\ srpool \in Nat
        /\ owned_shares \in [Account -> [Pool -> Nat]]
        /\ tokens \in [Account -> Nat] /\ namebid_proceeds \in Nat
        /\ now \in 0 .. LastSlot /\ Unit \in Nat \ {0}
        /\ next_claim \in [Account -> [Pool -> Nat]]
    BY StakeTypes
  <1>3. Even(pool) /\ pool.balance \in Nat /\ pool.shares \in Nat
    BY PoolsAreEven
  <1>4. from # to /\ amount > 0 /\ new > 0
    BY Zenon DEF TransferStake
  <1>5. /\ s \in 0 .. pool.shares /\ t \in 0 .. pool.shares /\ s \in Nat /\ t \in Nat
        /\ s + t <= pool.shares
        /\ \A b \in Account \ {from} : s + owned_shares[b][i] <= pool.shares
    <2>1. /\ s \in 0 .. pool.shares
          /\ \A b \in Account \ {from} : s + owned_shares[b][i] <= pool.shares
      BY OwnersHaveShares
    <2>2. t \in 0 .. pool.shares
      BY OwnersHaveShares
    <2> QED
      BY <1>3, <1>4, <2>1, <2>2
  <1>6. /\ pools' = q /\ owned_shares' = owned
        /\ next_claim' = [next_claim EXCEPT ![to][i] = claim]
        /\ srpool' = srpool /\ tokens' = tokens
        /\ namebid_proceeds' = namebid_proceeds /\ now' = now
    <2>1. /\ pools' = q
          /\ owned_shares' = [owned_shares EXCEPT ![from][i] = @ - shares, ![to][i] = @ + new]
          /\ next_claim' = [next_claim EXCEPT
               ![to][i] = ClaimAfterDeposit(i, left, t, @, amount)]
          /\ srpool' = srpool /\ tokens' = tokens
          /\ namebid_proceeds' = namebid_proceeds /\ now' = now
      BY Zenon DEF TransferStake
    <2> HIDE DEF shares, left, amount, new, q, after
    <2>2. [owned_shares EXCEPT ![from][i] = @ - shares, ![to][i] = @ + new] = owned
      BY <1>2, <1>4
    <2>3. [next_claim EXCEPT ![to][i] = ClaimAfterDeposit(i, left, t, @, amount)]
            = [next_claim EXCEPT ![to][i] = claim]
      BY <1>2
    <2> QED
      BY <2>1, <2>2, <2>3
  <1>7. shares \in 0 .. s
    <2> HIDE DEF s, pool
    <2> QED
      BY <1>1, <1>3, <1>5, SharesToSellAreOwned
  <1> HIDE DEF shares
  <1>8. shares \in 0 .. pool.shares /\ shares \in Nat /\ shares <= s /\ s - shares \in Nat
    BY <1>3, <1>5, <1>7
  <1>9. /\ Even(left)
        /\ left.balance = pool.balance - amount /\ left.shares = pool.shares - shares
        /\ \A x \in 0 .. left.shares :
             Value(pool, x) <= Value(left, x) /\ Value(left, x) <= Value(pool, x) + 1
    BY <1>3, <1>8, SellingKeepsValue
  <1>10. /\ amount \in Nat \ {0} /\ amount <= pool.balance
         /\ left.shares \in Nat /\ left.balance \in Nat /\ shares > 0
    <2>1. amount \in 0 .. pool.balance /\ (shares = 0 => amount = 0)
      BY <1>3, <1>8, ValueOfShares
    <2> QED
      BY <1>3, <1>4, <1>8, <1>9, <2>1 DEF Even
  <1>11. t \in 0 .. left.shares
    BY <1>3, <1>5, <1>8, <1>9, <1>10
  <1> HIDE DEF left, amount
  <1>12. /\ new \in Nat \ {0} /\ Even(after)
         /\ after.balance = left.balance + amount /\ after.shares = left.shares + new
         /\ \A x \in 0 .. left.shares : Value(left, x) <= Value(after, x)
    BY <1>2, <1>4, <1>9, <1>10, BuyingKeepsValue
  <1>13. /\ claim \in Nat
         /\ next_claim[to][i] <= claim /\ claim <= now + Period[i]
         /\ Value(after, t + new) >= 2 * (Value(pool, t) + 1) =>
              claim >= now + Period[i] \div 2
    <2>1. Value(pool, t) \in 0 .. pool.balance
      BY <1>3, <1>5, ValueOfShares
    <2>2. Value(pool, t) \in Nat /\ Value(left, t) <= Value(pool, t) + 1
      BY <1>3, <1>9, <1>11, <2>1
    <2> HIDE DEF pool, t
    <2> QED
      BY <1>4, <1>9, <1>10, <1>11, <2>2, DepositWaits
  <1> HIDE DEF new, after, claim
  <1>14. /\ owned \in [Account -> [Pool -> Nat]]
         /\ owned[from][i] = s - shares /\ owned[to][i] = t + new
         /\ \A b \in Account, j \in Pool :
              b \notin {from, to} \/ j # i => owned[b][j] = owned_shares[b][j]
    <2> DEFINE m == s - shares
               n == t + new
               o == [owned_shares EXCEPT ![from][i] = m]
    <2>1. m \in Nat /\ n \in Nat
      BY <1>5, <1>8, <1>12
    <2> HIDE DEF m, n
    <2>2. /\ o \in [Account -> [Pool -> Nat]] /\ o[from][i] = m
          /\ \A b \in Account, j \in Pool : b # from \/ j # i => o[b][j] = owned_shares[b][j]
      BY <1>2, <2>1
    <2>3. owned = [o EXCEPT ![to][i] = n]
      BY <1>2, <1>4 DEF m, n
    <2> HIDE DEF o, owned
    <2>4. /\ owned \in [Account -> [Pool -> Nat]] /\ owned[to][i] = n
          /\ \A b \in Account, j \in Pool : b # to \/ j # i => owned[b][j] = o[b][j]
      BY <2>1, <2>2, <2>3
    <2>5. owned[from][i] = m
      BY <1>4, <2>2, <2>4
    <2>6. \A b \in Account, j \in Pool :
            b \notin {from, to} \/ j # i => owned[b][j] = owned_shares[b][j]
      BY <2>2, <2>4
    <2> QED
      BY <2>4, <2>5, <2>6 DEF m, n
  <1>15. /\ Table(q) /\ q[i] = after /\ \A j \in Pool \ {i} : q[j] = pools[j]
         /\ SumOf(BalancesOf(q)) \in Nat
         /\ SumOf(BalancesOf(q)) = SumOf(BalancesOf(pools)) - pool.balance + after.balance
    BY <1>2, <1>12, OnePoolChanges
  <1> HIDE DEF q, owned
  <1>16. \A j \in Pool :
           Even(q[j]) /\ q[j].shares = SumOf([b \in Account |-> owned[b][j]])
    <2> TAKE j \in Pool
    <2>1. SumOf([b \in Account |-> owned[b][j]])
            = pools[j].shares - owned_shares[from][j] - owned_shares[to][j]
              + owned[from][j] + owned[to][j]
      <3>1. \A b \in Account \ {from, to} : owned[b][j] = owned_shares[b][j]
        BY <1>14
      <3> QED
        BY <1>4, <1>14, <3>1, SharesOfOwners
    <2>2. CASE j = i
      <3>1. /\ q[j] = after /\ owned[from][j] = s - shares /\ owned_shares[from][j] = s
            /\ owned[to][j] = t + new /\ owned_shares[to][j] = t /\ pools[j] = pool
        BY <1>14, <1>15, <2>2
      <3>2. after.shares = pool.shares - shares + new
        BY <1>9, <1>12
      <3> HIDE DEF pool, s, t
      <3> QED
        BY <1>3, <1>5, <1>8, <1>12, <2>1, <3>1, <3>2
    <2>3. CASE j # i
      <3>1. /\ owned[from][j] = owned_shares[from][j] /\ owned_shares[from][j] \in Nat
            /\ owned[to][j] = owned_shares[to][j] /\ owned_shares[to][j] \in Nat
        BY <1>2, <1>14, <2>3
      <3>2. q[j] = pools[j] /\ Even(pools[j]) /\ pools[j].shares \in Nat
        BY <1>15, <2>3, PoolsAreEven
      <3> QED
        BY <2>1, <3>1, <3>2
    <2> QED
      BY <2>2, <2>3
  <1>17. srpool' \in Nat /\ srpool' = SumOf(BalancesOf(pools'))
    BY <1>2, <1>3, <1>6, <1>9, <1>10, <1>12, <1>15
  <1>18. /\ next_claim' \in [Account -> [Pool -> Nat]]
         /\ \A b \in Account, j \in Pool : next_claim'[b][j] <= now' + Period[j]
         /\ NoSooner /\ NewStakeWaits
    <2>1. \A b \in Account, j \in Pool :
            b # to \/ j # i => owned_shares'[b][j] <= owned_shares[b][j]
      <3> SUFFICES ASSUME NEW b \in Account, NEW j \in Pool, b # to \/ j # i
                   PROVE  owned[b][j] <= owned_shares[b][j]
        BY <1>6
      <3>1. CASE b = from /\ j = i
        BY <1>5, <1>8, <1>14, <3>1
      <3>2. CASE b # from \/ j # i
        <4>1. owned[b][j] = owned_shares[b][j] /\ owned_shares[b][j] \in Nat
          BY <1>2, <1>14, <3>2
        <4> QED
          BY <4>1
      <3> QED
        BY <3>1, <3>2
    <2>2. Value(pools'[i], owned_shares'[to][i]) >= 2 * (Value(pools[i], owned_shares[to][i]) + 1) =>
            claim >= now + Period[i] \div 2
      BY <1>6, <1>13, <1>14, <1>15
    <2>3. /\ claim \in Nat /\ now' = now
          /\ next_claim' = [next_claim EXCEPT ![to][i] = claim]
          /\ next_claim[to][i] <= claim /\ claim <= now + Period[i]
          /\ owned_shares' \in [Account -> [Pool -> Nat]]
      BY <1>6, <1>13, <1>14
    <2>4. to \in Account /\ i \in Pool
      OBVIOUS
    <2> QED
      BY ONLY StakingPoolConstants, StakesInv, <2>1, <2>2, <2>3, <2>4, OneDeposit
  <1>19. StakesInv'
    BY <1>2, <1>6, <1>14, <1>15, <1>16, <1>17, <1>18, StakesKept
  <1>20. KeepsValue
    <2> SUFFICES ASSUME NEW b \in Account, NEW j \in Pool,
                        owned_shares'[b][j] = owned_shares[b][j]
                 PROVE  Value(q[j], owned_shares[b][j]) >= Value(pools[j], owned_shares[b][j])
      BY <1>6 DEF KeepsValue
    <2> DEFINE x == owned_shares[b][j]
    <2>1. x \in 0 .. pools[j].shares /\ Even(pools[j]) /\ pools[j].balance \in Nat
      BY OwnersHaveShares, PoolsAreEven
    <2>2. Value(pools[j], x) \in Nat
      <3>1. Value(pools[j], x) \in 0 .. pools[j].balance
        BY <2>1, ValueOfShares
      <3> QED
        BY <2>1, <3>1
    <2>3. CASE j = i
      <3>1. b \notin {from, to}
        <4> SUFFICES ASSUME b \in {from, to} PROVE FALSE
          OBVIOUS
        <4>1. s - shares = s \/ t + new = t
          BY <1>6, <1>14, <2>3
        <4> QED
          BY <1>5, <1>8, <1>10, <1>12, <4>1
      <3>2. x \in 0 .. left.shares
        BY <1>3, <1>5, <1>8, <1>9, <1>10, <2>1, <2>3, <3>1
      <3>3. Value(pool, x) <= Value(left, x) /\ Value(left, x) <= Value(after, x)
        BY <1>9, <1>12, <3>2
      <3>4. Value(left, x) \in 0 .. left.balance
        BY <1>9, <3>2, ValueOfShares
      <3>5. Value(after, x) \in 0 .. after.balance /\ after.balance \in Nat
        <4>1. x \in 0 .. after.shares
          BY <1>10, <1>12, <3>2
        <4> HIDE DEF x
        <4> QED
          BY <1>12, <4>1, ValueOfShares DEF Even
      <3>6. q[j] = after /\ pools[j] = pool
        BY <1>15, <2>3
      <3>7. Value(pools[j], x) <= Value(q[j], x)
        <4> HIDE DEF pool, x
        <4> QED
          BY <1>10, <2>2, <3>3, <3>4, <3>5, <3>6
      <3>8. Value(q[j], x) \in Nat
        BY <3>5, <3>6
      <3> QED
        BY <2>2, <3>7, <3>8
    <2>4. CASE j # i
      <3>1. q[j] = pools[j]
        BY <1>15, <2>4
      <3> QED
        BY <2>2, <3>1
    <2> QED
      BY <2>3, <2>4
  <1> QED
    BY <1>18, <1>19, <1>20 DEF StepIsFair

LEMMA UpgradeStakeIsFair ==
  ASSUME StakingPoolConstants, StakesInv, NEW a \in Account, NEW i \in Pool, NEW j \in Pool,
         NEW requested \in Amounts, UpgradeStake(a, i, j, requested)
  PROVE  StakesInv' /\ StepIsFair
  <1> DEFINE pool == pools[i]
             s == owned_shares[a][i]
             t == owned_shares[a][j]
             shares == SharesToSell(i, pool, s, requested, FALSE)
             amount == Value(pool, shares)
             left == Sold(pool, shares)
             new == SharesFor(pools[j], amount)
             after == Bought(pools[j], amount, new)
             claim == ClaimAfterDeposit(j, pools[j], t, next_claim[a][j], amount)
             q == [pools EXCEPT ![i] = left, ![j] = after]
             owned == [owned_shares EXCEPT ![a][i] = s - shares, ![a][j] = t + new]
  <1>1. requested \in Nat
    BY DEF StakingPoolConstants
  <1>2. /\ Table(pools) /\ srpool = SumOf(BalancesOf(pools)) /\ srpool \in Nat
        /\ owned_shares \in [Account -> [Pool -> Nat]]
        /\ tokens \in [Account -> Nat] /\ namebid_proceeds \in Nat
        /\ now \in 0 .. LastSlot /\ Unit \in Nat \ {0} /\ Pool \subseteq Nat
        /\ next_claim \in [Account -> [Pool -> Nat]]
    BY StakeTypes
  <1>3. /\ Even(pool) /\ pool.balance \in Nat /\ pool.shares \in Nat
        /\ Even(pools[j]) /\ pools[j].balance \in Nat /\ pools[j].shares \in Nat
    BY PoolsAreEven
  <1>4. i # j /\ amount > 0 /\ new > 0
    <2>1. i < j /\ amount > 0 /\ new > 0
      BY Zenon DEF UpgradeStake
    <2>2. i \in Nat /\ j \in Nat
      BY <1>2
    <2> HIDE DEF amount, new
    <2> QED
      BY <2>1, <2>2
  <1>5. /\ s \in 0 .. pool.shares /\ t \in 0 .. pools[j].shares /\ s \in Nat /\ t \in Nat
        /\ \A b \in Account \ {a} : s + owned_shares[b][i] <= pool.shares
    <2>1. /\ s \in 0 .. pool.shares
          /\ \A b \in Account \ {a} : s + owned_shares[b][i] <= pool.shares
      BY OwnersHaveShares
    <2>2. t \in 0 .. pools[j].shares
      BY OwnersHaveShares
    <2> QED
      BY <1>3, <2>1, <2>2
  <1>6. /\ pools' = q /\ owned_shares' = owned
        /\ next_claim' = [next_claim EXCEPT ![a][j] = claim]
        /\ srpool' = srpool /\ tokens' = tokens
        /\ namebid_proceeds' = namebid_proceeds /\ now' = now
    <2>1. /\ pools' = [pools EXCEPT ![i] = Sold(@, shares), ![j] = Bought(@, amount, new)]
          /\ owned_shares' = [owned_shares EXCEPT ![a][i] = @ - shares, ![a][j] = @ + new]
          /\ next_claim' = [next_claim EXCEPT
               ![a][j] = ClaimAfterDeposit(j, pools[j], t, @, amount)]
          /\ srpool' = srpool /\ tokens' = tokens
          /\ namebid_proceeds' = namebid_proceeds /\ now' = now
      BY Zenon DEF UpgradeStake
    <2> HIDE DEF shares, amount, new
    <2>2. [owned_shares EXCEPT ![a][i] = @ - shares, ![a][j] = @ + new] = owned
      BY <1>2, <1>4
    <2>3. [next_claim EXCEPT ![a][j] = ClaimAfterDeposit(j, pools[j], t, @, amount)]
            = [next_claim EXCEPT ![a][j] = claim]
      BY <1>2
    <2>4. [pools EXCEPT ![i] = Sold(@, shares), ![j] = Bought(@, amount, new)] = q
      BY <1>2, <1>4 DEF Table
    <2> QED
      BY <2>1, <2>2, <2>3, <2>4
  <1>7. shares \in 0 .. s
    <2> HIDE DEF s, pool
    <2> QED
      BY <1>1, <1>3, <1>5, SharesToSellAreOwned
  <1> HIDE DEF shares
  <1>8. shares \in 0 .. pool.shares /\ shares \in Nat /\ shares <= s /\ s - shares \in Nat
    BY <1>3, <1>5, <1>7
  <1>9. /\ Even(left)
        /\ left.balance = pool.balance - amount /\ left.shares = pool.shares - shares
        /\ \A x \in 0 .. left.shares : Value(pool, x) <= Value(left, x)
    BY <1>3, <1>8, SellingKeepsValue
  <1>10. /\ amount \in Nat \ {0} /\ amount <= pool.balance
         /\ left.shares \in Nat /\ left.balance \in Nat /\ shares > 0
    <2>1. amount \in 0 .. pool.balance /\ (shares = 0 => amount = 0)
      BY <1>3, <1>8, ValueOfShares
    <2> QED
      BY <1>3, <1>4, <1>8, <1>9, <2>1 DEF Even
  <1> HIDE DEF left, amount
  <1>11. /\ new \in Nat \ {0} /\ Even(after)
         /\ after.balance = pools[j].balance + amount /\ after.shares = pools[j].shares + new
         /\ \A x \in 0 .. pools[j].shares : Value(pools[j], x) <= Value(after, x)
    BY <1>2, <1>3, <1>4, <1>10, BuyingKeepsValue
  <1>12. /\ claim \in Nat
         /\ next_claim[a][j] <= claim /\ claim <= now + Period[j]
         /\ Value(after, t + new) >= 2 * (Value(pools[j], t) + 1) =>
              claim >= now + Period[j] \div 2
    <2>1. Value(pools[j], t) \in 0 .. pools[j].balance
      BY <1>3, <1>5, ValueOfShares
    <2>2. Value(pools[j], t) \in Nat /\ Value(pools[j], t) <= Value(pools[j], t) + 1
      BY <1>3, <2>1
    <2> HIDE DEF t
    <2> QED
      BY <1>3, <1>4, <1>5, <1>10, <2>2, DepositWaits
  <1> HIDE DEF new, after, claim
  <1>13. /\ owned \in [Account -> [Pool -> Nat]]
         /\ owned[a][i] = s - shares /\ owned[a][j] = t + new
         /\ \A b \in Account, k \in Pool :
              b # a \/ k \notin {i, j} => owned[b][k] = owned_shares[b][k]
    <2> DEFINE m == s - shares
               n == t + new
               o == [owned_shares EXCEPT ![a][i] = m]
    <2>1. m \in Nat /\ n \in Nat
      BY <1>5, <1>8, <1>11
    <2> HIDE DEF m, n
    <2>2. /\ o \in [Account -> [Pool -> Nat]] /\ o[a][i] = m
          /\ \A b \in Account, k \in Pool : b # a \/ k # i => o[b][k] = owned_shares[b][k]
      BY <1>2, <2>1
    <2>3. owned = [o EXCEPT ![a][j] = n]
      BY <1>2, <1>4 DEF m, n
    <2> HIDE DEF o, owned
    <2>4. /\ owned \in [Account -> [Pool -> Nat]] /\ owned[a][j] = n
          /\ \A b \in Account, k \in Pool : b # a \/ k # j => owned[b][k] = o[b][k]
      BY <2>1, <2>2, <2>3
    <2>5. owned[a][i] = m
      BY <1>4, <2>2, <2>4
    <2>6. \A b \in Account, k \in Pool :
            b # a \/ k \notin {i, j} => owned[b][k] = owned_shares[b][k]
      BY <2>2, <2>4
    <2> QED
      BY <2>4, <2>5, <2>6 DEF m, n
  <1>14. /\ Table(q) /\ q[i] = left /\ q[j] = after
         /\ \A k \in Pool \ {i, j} : q[k] = pools[k]
    BY <1>2, <1>4, <1>9, <1>11 DEF Table, Even
  <1> HIDE DEF q, owned
  <1>15. SumOf(BalancesOf(q)) = SumOf(BalancesOf(pools))
    <2>1. q[i].balance + q[j].balance = pools[i].balance + pools[j].balance
      BY <1>3, <1>9, <1>10, <1>11, <1>14
    <2>2. \A k \in Pool \ {i, j} : q[k] = pools[k]
      BY <1>14
    <2> HIDE DEF pool
    <2> QED
      BY <1>2, <1>4, <1>14, <2>1, <2>2, BalancesOfTwo
  <1>16. \A k \in Pool :
           Even(q[k]) /\ q[k].shares = SumOf([b \in Account |-> owned[b][k]])
    <2> TAKE k \in Pool
    <2>1. SumOf([b \in Account |-> owned[b][k]])
            = pools[k].shares - owned_shares[a][k] + owned[a][k]
      <3>1. \A b \in Account \ {a} : owned[b][k] = owned_shares[b][k]
        BY <1>13
      <3> QED
        BY <1>13, <3>1, SharesOfOwner
    <2>2. CASE k = i
      <3>1. /\ q[k] = left /\ owned[a][k] = s - shares /\ owned_shares[a][k] = s
            /\ pools[k] = pool
        BY <1>13, <1>14, <2>2
      <3> HIDE DEF pool, s
      <3> QED
        BY <1>3, <1>5, <1>8, <1>9, <2>1, <3>1
    <2>3. CASE k = j
      <3>1. q[k] = after /\ owned[a][k] = t + new /\ owned_shares[a][k] = t
        BY <1>13, <1>14, <2>3
      <3> HIDE DEF t
      <3> QED
        BY <1>3, <1>5, <1>11, <2>1, <2>3, <3>1
    <2>4. CASE k \notin {i, j}
      <3>1. owned[a][k] = owned_shares[a][k] /\ owned_shares[a][k] \in Nat
        BY <1>2, <1>13, <2>4
      <3>2. q[k] = pools[k] /\ Even(pools[k]) /\ pools[k].shares \in Nat
        BY <1>14, <2>4, PoolsAreEven
      <3> QED
        BY <2>1, <3>1, <3>2
    <2> QED
      BY <2>2, <2>3, <2>4
  <1>17. srpool' \in Nat /\ srpool' = SumOf(BalancesOf(pools'))
    BY <1>2, <1>6, <1>15
  <1>18. /\ next_claim' \in [Account -> [Pool -> Nat]]
         /\ \A b \in Account, k \in Pool : next_claim'[b][k] <= now' + Period[k]
         /\ NoSooner /\ NewStakeWaits
    <2>1. \A b \in Account, k \in Pool :
            b # a \/ k # j => owned_shares'[b][k] <= owned_shares[b][k]
      <3> SUFFICES ASSUME NEW b \in Account, NEW k \in Pool, b # a \/ k # j
                   PROVE  owned[b][k] <= owned_shares[b][k]
        BY <1>6
      <3>1. CASE b = a /\ k = i
        BY <1>5, <1>8, <1>13, <3>1
      <3>2. CASE b # a \/ k # i
        <4>1. owned[b][k] = owned_shares[b][k] /\ owned_shares[b][k] \in Nat
          BY <1>2, <1>13, <3>2
        <4> QED
          BY <4>1
      <3> QED
        BY <3>1, <3>2
    <2>2. Value(pools'[j], owned_shares'[a][j]) >= 2 * (Value(pools[j], owned_shares[a][j]) + 1) =>
            claim >= now + Period[j] \div 2
      BY <1>6, <1>12, <1>13, <1>14
    <2>3. /\ claim \in Nat /\ now' = now
          /\ next_claim' = [next_claim EXCEPT ![a][j] = claim]
          /\ next_claim[a][j] <= claim /\ claim <= now + Period[j]
          /\ owned_shares' \in [Account -> [Pool -> Nat]]
      BY <1>6, <1>12, <1>13
    <2>4. a \in Account /\ j \in Pool
      OBVIOUS
    <2> QED
      BY ONLY StakingPoolConstants, StakesInv, <2>1, <2>2, <2>3, <2>4, OneDeposit
  <1>19. StakesInv'
    BY <1>2, <1>6, <1>13, <1>14, <1>16, <1>17, <1>18, StakesKept
  <1>20. KeepsValue
    <2> SUFFICES ASSUME NEW b \in Account, NEW k \in Pool,
                        owned_shares'[b][k] = owned_shares[b][k]
                 PROVE  Value(q[k], owned_shares[b][k]) >= Value(pools[k], owned_shares[b][k])
      BY <1>6 DEF KeepsValue
    <2> DEFINE x == owned_shares[b][k]
    <2>1. x \in 0 .. pools[k].shares /\ Even(pools[k]) /\ pools[k].balance \in Nat
      BY OwnersHaveShares, PoolsAreEven
    <2>2. Value(pools[k], x) \in Nat
      <3>1. Value(pools[k], x) \in 0 .. pools[k].balance
        BY <2>1, ValueOfShares
      <3> QED
        BY <2>1, <3>1
    <2>3. CASE k = i
      <3>1. b # a
        <4> SUFFICES ASSUME b = a PROVE FALSE
          OBVIOUS
        <4>1. s - shares = s
          BY <1>6, <1>13, <2>3
        <4> QED
          BY <1>5, <1>8, <1>10, <4>1
      <3>2. x \in 0 .. left.shares
        BY <1>3, <1>5, <1>8, <1>9, <1>10, <2>1, <2>3, <3>1
      <3>3. Value(pool, x) <= Value(left, x)
        BY <1>9, <3>2
      <3>4. Value(left, x) \in 0 .. left.balance
        BY <1>9, <3>2, ValueOfShares
      <3>5. q[k] = left /\ pools[k] = pool
        BY <1>14, <2>3
      <3>6. Value(q[k], x) \in Nat
        BY <1>10, <3>4, <3>5
      <3>7. Value(pools[k], x) <= Value(q[k], x)
        BY <3>3, <3>5
      <3> QED
        BY <2>2, <3>6, <3>7
    <2>4. CASE k = j
      <3>1. Value(pools[k], x) <= Value(after, x)
        BY <1>11, <2>1, <2>4
      <3>2. Value(after, x) \in Nat
        <4>1. x \in 0 .. after.shares
          BY <1>3, <1>11, <2>1, <2>4
        <4>2. Value(after, x) \in 0 .. after.balance /\ after.balance \in Nat
          <5> HIDE DEF x
          <5> QED
            BY <1>11, <4>1, ValueOfShares DEF Even
        <4> QED
          BY <4>2
      <3>3. q[k] = after
        BY <1>14, <2>4
      <3> QED
        BY <2>2, <3>1, <3>2, <3>3
    <2>5. CASE k \notin {i, j}
      <3>1. q[k] = pools[k]
        BY <1>14, <2>5
      <3> QED
        BY <2>2, <3>1
    <2> QED
      BY <2>3, <2>4, <2>5
  <1> QED
    BY <1>18, <1>19, <1>20 DEF StepIsFair

\* A step that changes neither shares nor the pools nor claims.
LEMMA QuietStepIsFair ==
  ASSUME StakingPoolConstants, StakesInv, UNCHANGED <<owned_shares, pools, next_claim, tokens, srpool>>,
         namebid_proceeds' \in Nat, now' \in 0 .. LastSlot, now' >= now
  PROVE  StakesInv' /\ StepIsFair
  <1>1. /\ Table(pools) /\ srpool = SumOf(BalancesOf(pools)) /\ srpool \in Nat
        /\ owned_shares \in [Account -> [Pool -> Nat]]
        /\ next_claim \in [Account -> [Pool -> Nat]]
        /\ tokens \in [Account -> Nat] /\ now \in Nat /\ Period \in [Pool -> Nat \ {0}]
        /\ \A a \in Account, i \in Pool : next_claim[a][i] <= now + Period[i]
    BY StakeTypes
  <1>2. \A i \in Pool :
          /\ Even(pools[i])
          /\ pools[i].shares = SumOf([a \in Account |-> owned_shares[a][i]])
    BY PoolsAreEven
  <1>3. \A a \in Account, i \in Pool : next_claim'[a][i] <= now' + Period[i]
    <2> TAKE a \in Account, i \in Pool
    <2>1. next_claim[a][i] \in Nat /\ next_claim[a][i] <= now + Period[i] /\ Period[i] \in Nat
      BY <1>1
    <2>2. now' \in Nat
      OBVIOUS
    <2> QED
      BY <1>1, <2>1, <2>2
  <1>4. StakesInv'
    BY <1>1, <1>2, <1>3, StakesKept
  <1>5. KeepsValue
    <2> SUFFICES ASSUME NEW a \in Account, NEW i \in Pool
                 PROVE  Value(pools[i], owned_shares[a][i]) >= Value(pools[i], owned_shares[a][i])
      BY DEF KeepsValue
    <2>1. /\ owned_shares[a][i] \in 0 .. pools[i].shares /\ Even(pools[i])
          /\ pools[i].balance \in Nat
      BY OwnersHaveShares, PoolsAreEven
    <2>2. Value(pools[i], owned_shares[a][i]) \in 0 .. pools[i].balance
      BY <2>1, ValueOfShares
    <2> QED
      BY <2>1, <2>2
  <1>6. NoSooner
    BY <1>1 DEF NoSooner
  <1>7. NewStakeWaits
    <2>1. \A a \in Account, i \in Pool : ~(owned_shares'[a][i] > owned_shares[a][i])
      BY <1>1
    <2> QED
      BY <2>1 DEF NewStakeWaits
  <1> QED
    BY <1>4, <1>5, <1>6, <1>7 DEF StepIsFair

LEMMA TransitionIsFair ==
  ASSUME StakingPoolConstants, StakesInv, NEW n \in Nat, NEW k \in 1 .. MaxPooled,
         TransitionChannelToPools(n, k)
  PROVE  StakesInv' /\ StepIsFair
  <1> DEFINE q == Adjusted(k)
  <1>1. /\ srpool \in Nat /\ owned_shares \in [Account -> [Pool -> Nat]]
        /\ next_claim \in [Account -> [Pool -> Nat]]
        /\ tokens \in [Account -> Nat] /\ now \in 0 .. LastSlot /\ namebid_proceeds \in Nat
        /\ \A a \in Account, i \in Pool : next_claim[a][i] <= now + Period[i]
    BY StakeTypes
  <1>2. k \in Nat
    OBVIOUS
  <1>3. /\ ActivePools # {} /\ pools' = q /\ srpool' = srpool + k
        /\ owned_shares' = owned_shares /\ next_claim' = next_claim /\ tokens' = tokens
        /\ namebid_proceeds' = namebid_proceeds /\ now' = now
    BY DEF TransitionChannelToPools, votingVars
  <1>4. /\ Table(q)
        /\ SumOf(BalancesOf(q)) = srpool + k
        /\ \A i \in Pool :
             /\ Even(q[i]) /\ q[i].shares = pools[i].shares
             /\ \A s \in 0 .. pools[i].shares : Value(pools[i], s) <= Value(q[i], s)
    BY <1>2, <1>3, AdjustedPools
  <1> HIDE DEF q
  <1>5. \A i \in Pool : q[i].shares = SumOf([a \in Account |-> owned_shares[a][i]])
    BY <1>4, PoolsAreEven
  <1>6. srpool' \in Nat /\ srpool' = SumOf(BalancesOf(pools'))
    BY <1>1, <1>2, <1>3, <1>4
  <1>7. StakesInv'
    BY <1>1, <1>3, <1>4, <1>5, <1>6, StakesKept
  <1>8. KeepsValue
    <2> SUFFICES ASSUME NEW a \in Account, NEW i \in Pool
                 PROVE  Value(q[i], owned_shares[a][i]) >= Value(pools[i], owned_shares[a][i])
      BY <1>3 DEF KeepsValue
    <2> DEFINE x == owned_shares[a][i]
    <2>1. x \in 0 .. pools[i].shares /\ Even(pools[i]) /\ pools[i].balance \in Nat
      BY OwnersHaveShares, PoolsAreEven
    <2>2. Even(q[i]) /\ x \in 0 .. q[i].shares /\ q[i].balance \in Nat
      BY <1>4, <2>1 DEF Even
    <2>3. Value(pools[i], x) \in 0 .. pools[i].balance
      BY <2>1, ValueOfShares
    <2>4. Value(q[i], x) \in 0 .. q[i].balance
      BY <2>2, ValueOfShares
    <2>5. Value(pools[i], x) <= Value(q[i], x)
      BY <1>4, <2>1
    <2> QED
      BY <2>1, <2>2, <2>3, <2>4, <2>5
  <1>9. NoSooner
    BY <1>1, <1>3 DEF NoSooner
  <1>10. NewStakeWaits
    <2>1. \A a \in Account, i \in Pool : ~(owned_shares'[a][i] > owned_shares[a][i])
      BY <1>1, <1>3
    <2> QED
      BY <2>1 DEF NewStakeWaits
  <1> QED
    BY <1>7, <1>8, <1>9, <1>10 DEF StepIsFair

\* Every step keeps the books and is fair to owners.
LEMMA StakesNext ==
  ASSUME StakingPoolConstants, StakesInv, [Next]_vars
  PROVE  StakesInv' /\ StepIsFair
  <1>1. namebid_proceeds \in Nat /\ now \in Nat /\ now \in 0 .. LastSlot /\ LastSlot \in Nat
    BY StakeTypes DEF StakingPoolConstants
  <1>2. ASSUME UNCHANGED owned_shares, UNCHANGED <<money, now>>
        PROVE  StakesInv' /\ StepIsFair
    BY <1>1, <1>2, QuietStepIsFair DEF money
  <1>3. CASE UNCHANGED vars
    BY <1>2, <1>3 DEF vars, votingVars
  <1>4. CASE VotingNext /\ UNCHANGED <<money, now>>
    <2>1. UNCHANGED owned_shares
      <3>1. ASSUME NEW a \in Account, NEW p, NEW ps, VoteWithPool(a, p, ps)
            PROVE  UNCHANGED owned_shares
        BY <3>1 DEF VoteWithPool
      <3>2. ASSUME NEW a \in Account, NEW b, RegPoolProxy(a, b)
            PROVE  UNCHANGED owned_shares
        BY <3>2 DEF RegPoolProxy
      <3>3. ASSUME NEW p, RegProducer(p)
            PROVE  UNCHANGED owned_shares
        BY <3>3 DEF RegProducer
      <3>4. ASSUME NEW p, Deactivate(p)
            PROVE  UNCHANGED owned_shares
        BY <3>4 DEF Deactivate
      <3> QED
        BY ONLY <1>4, <3>1, <3>2, <3>3, <3>4 DEF VotingNext
    <2> QED
      BY <1>2, <1>4, <2>1
  <1>5. ASSUME NEW a \in Account, SetPoolNotif(a)
        PROVE  StakesInv' /\ StepIsFair
    BY <1>2, <1>5 DEF SetPoolNotif
  <1>6. ASSUME NEW n, NEW k \in 1 .. MaxPooled, ChannelNamebid(n, k)
        PROVE  StakesInv' /\ StepIsFair
    <2>1. /\ UNCHANGED <<owned_shares, pools, next_claim, tokens, srpool>>
          /\ namebid_proceeds' = namebid_proceeds + k /\ now' = now /\ k \in Nat
      BY <1>6 DEF ChannelNamebid, votingVars
    <2> QED
      BY <1>1, <2>1, QuietStepIsFair
  <1>7. CASE NextSlot
    <2>1. /\ UNCHANGED <<owned_shares, pools, next_claim, tokens, srpool>>
          /\ namebid_proceeds' = namebid_proceeds /\ now' = now + 1 /\ now < LastSlot
      BY <1>7 DEF NextSlot, votingVars, money
    <2> QED
      BY <1>1, <2>1, QuietStepIsFair
  <1>8. CASE StakeNext
    <2>1. ASSUME NEW n \in Fees, NEW k \in 1 .. MaxPooled, TransitionChannelToPools(n, k)
          PROVE  StakesInv' /\ StepIsFair
      <3>1. n \in Nat
        BY DEF StakingPoolConstants
      <3> QED
        BY <2>1, <3>1, TransitionIsFair
    <2> QED
      BY <1>5, <1>6, <1>7, <1>8, <2>1, Stake2PoolIsFair, ClaimStakeIsFair, TransferStakeIsFair,
         UpgradeStakeIsFair DEF StakeNext
  <1> QED
    BY <1>3, <1>4, <1>8 DEF Next

\* Nothing is staked at first.
LEMMA StakesInit ==
  ASSUME StakingPoolConstants, Init
  PROVE  StakesInv
  <1>1. /\ Pool \subseteq Nat /\ IsFiniteSet(Pool) /\ IsFiniteSet(Account)
        /\ Wealth \in Nat /\ LastSlot \in Nat /\ Period \in [Pool -> Nat \ {0}]
    BY DEF StakingPoolConstants, PoolVotesConstants
  <1>2. /\ pools = [i \in Pool |-> [balance |-> 0, shares |-> 0]]
        /\ next_claim = [a \in Account |-> [i \in Pool |-> 0]]
        /\ tokens = [a \in Account |-> Wealth]
        /\ srpool = 0 /\ namebid_proceeds = 0 /\ now = 0
        /\ owned_shares = [a \in Account |-> [i \in Pool |-> 0]]
    BY DEF Init, VotingInit, NoShares
  <1>3. MoneyTypeOK /\ owned_shares \in [Account -> [Pool -> Nat]]
    BY <1>1, <1>2 DEF MoneyTypeOK
  <1>4. SharesAddUp
    <2> SUFFICES ASSUME NEW i \in Pool
                 PROVE  pools[i].shares = SumOf([a \in Account |-> owned_shares[a][i]])
      BY DEF SharesAddUp
    <2>1. [a \in Account |-> owned_shares[a][i]] = [a \in Account |-> 0]
      BY <1>2
    <2>2. SumOf([a \in Account |-> 0]) = 0
      BY SumOfZeros
    <2> QED
      BY <1>2, <2>1, <2>2
  <1>5. BalancesAreBacked
    <2>1. [i \in Pool |-> pools[i].balance] = [i \in Pool |-> 0]
      BY <1>2
    <2>2. SumOf([i \in Pool |-> 0]) = 0
      BY SumOfZeros
    <2> QED
      BY <1>2, <2>1, <2>2 DEF BalancesAreBacked
  <1>6. NoPoolIsStranded
    BY <1>2 DEF NoPoolIsStranded
  <1>7. ClaimsAreNear
    BY <1>1, <1>2 DEF ClaimsAreNear
  <1> QED
    BY <1>3, <1>4, <1>5, <1>6, <1>7 DEF StakesInv, StakesAreSound, PoolsAreSound

-----------------------------------------------------------------------------

\* The pools' books agree, however stake2pool, claimstake, transferstake,
\* upgradestake and the fees round what they move: each pool has given out the
\* shares that accounts own, eosio.srpool holds the pools' balances, and a pool
\* has a balance if and only if somebody owns a share of it.
THEOREM PoolStakesAreSound == ASSUME StakingPoolConstants PROVE Spec => []StakesAreSound
  <1>1. Init => StakesInv
    BY StakesInit
  <1>2. StakesInv /\ [Next]_vars => StakesInv'
    BY StakesNext
  <1>3. StakesInv => StakesAreSound
    BY DEF StakesInv
  <1> QED
    BY <1>1, <1>2, <1>3, PTL DEF Spec

\* Whatever others stake, claim, transfer or upgrade, and whatever fees reach
\* the pools, what an owner has staked never loses value.
THEOREM PoolStakeKeepsValue == ASSUME StakingPoolConstants PROVE Spec => [][KeepsValue]_vars
  <1>1. Init => StakesInv
    BY StakesInit
  <1>2. StakesInv /\ [Next]_vars => StakesInv' /\ KeepsValue
    BY StakesNext DEF StepIsFair
  <1> QED
    BY <1>1, <1>2, PTL DEF Spec

\* No action brings an owner's next claim nearer, and one that doubles its
\* stake in a pool makes it wait half the pool's period at least.
THEOREM PoolClaimsComeNoSooner ==
  ASSUME StakingPoolConstants PROVE Spec => [][NoSooner /\ NewStakeWaits]_vars
  <1>1. Init => StakesInv
    BY StakesInit
  <1>2. StakesInv /\ [Next]_vars => StakesInv' /\ NoSooner /\ NewStakeWaits
    BY StakesNext DEF StepIsFair
  <1> QED
    BY <1>1, <1>2, PTL DEF Spec

-----------------------------------------------------------------------------
(* The ballots.                                                            *)

PoolBallotTypeOK ==
  /\ pool_voters \subseteq Account
  /\ is_proxy \in [Account -> BOOLEAN]
  /\ proxy \in [Account -> Account \union {None}]
  /\ producers \in [Account -> SUBSET Producer]
  /\ active \subseteq upgraded

\* As with the votes of voteproducer: that no circle forms needs that a proxy
\* votes itself, so that a new link leads to the end of a chain.
PoolBallotInv == PoolBallotTypeOK /\ PoolBallotsStayValid /\ NoProxyCircle

\* Voting through a proxy that votes itself closes no circle.
LEMMA NewLinkMakesNoCircle ==
  ASSUME PoolBallotTypeOK, NoProxyCircle, None \notin Account, NEW a \in Account,
         NEW q \in Account \union {None}, q # a, q # None => proxy[q] = None
  PROVE  \A S \in SUBSET Account :
           S # {} => \E x \in S : [proxy EXCEPT ![a] = q][x] \notin S
  <1> DEFINE new == [proxy EXCEPT ![a] = q]
  <1> SUFFICES ASSUME NEW S \in SUBSET Account, S # {}
               PROVE  \E x \in S : new[x] \notin S
    OBVIOUS
  <1>1. new[a] = q /\ \A x \in Account \ {a} : new[x] = proxy[x]
    BY DEF PoolBallotTypeOK
  <1> HIDE DEF new
  <1>2. CASE q \in S
    <2>1. q # None /\ q # a /\ proxy[q] = None /\ None \notin S
      BY <1>2
    <2> QED
      BY <1>1, <1>2, <2>1
  <1>3. CASE q \notin S /\ a \in S
    BY <1>1, <1>3
  <1>4. CASE a \notin S
    <2>1. PICK x \in S : proxy[x] \notin S
      BY DEF NoProxyCircle
    <2> QED
      BY <1>1, <1>4, <2>1
  <1> QED
    BY <1>2, <1>3, <1>4

\* A step that leaves the ballots alone and takes no voter and no upgraded
\* producer away.
LEMMA SameBallotsStay ==
  ASSUME PoolBallotInv, UNCHANGED <<is_proxy, ballots>>,
         pool_voters \subseteq pool_voters', pool_voters' \subseteq Account,
         upgraded \subseteq upgraded', active' \subseteq upgraded'
  PROVE  PoolBallotInv'
  <1>1. PoolBallotTypeOK'
    BY DEF PoolBallotInv, PoolBallotTypeOK, ballots
  <1>2. PoolBallotsStayValid'
    BY DEF PoolBallotInv, PoolBallotsStayValid, MayBeRecounted, ValidPoolBallot, ballots
  <1>3. NoProxyCircle'
    BY DEF PoolBallotInv, NoProxyCircle, ballots
  <1> QED
    BY <1>1, <1>2, <1>3 DEF PoolBallotInv

LEMMA VoteKeepsBallots ==
  ASSUME StakingPoolConstants, PoolBallotInv, NEW a \in Account,
         NEW q \in Account \union {None}, NEW ps \in SUBSET Producer, VoteWithPool(a, q, ps)
  PROVE  PoolBallotInv'
  <1>1. /\ ValidPoolBallot(a, q, ps, TRUE)
        /\ pool_voters' = pool_voters \union {a}
        /\ proxy' = [proxy EXCEPT ![a] = q] /\ producers' = [producers EXCEPT ![a] = ps]
        /\ is_proxy' = is_proxy /\ upgraded' = upgraded /\ active' = active
    BY DEF VoteWithPool, roster
  <1>2. PoolBallotTypeOK /\ PoolBallotsStayValid /\ NoProxyCircle /\ None \notin Account
    BY DEF PoolBallotInv, StakingPoolConstants, PoolVotesConstants
  <1>3. PoolBallotTypeOK'
    BY <1>1, <1>2 DEF PoolBallotTypeOK
  <1>4. /\ proxy'[a] = q /\ producers'[a] = ps
        /\ \A b \in Account \ {a} : proxy'[b] = proxy[b] /\ producers'[b] = producers[b]
    BY <1>1, <1>2 DEF PoolBallotTypeOK
  <1>5. PoolBallotsStayValid'
    <2> SUFFICES ASSUME NEW b \in Account
                 PROVE  ~(is_proxy[b] /\ proxy'[b] # None) /\ MayBeRecounted(b)'
      BY <1>1 DEF PoolBallotsStayValid
    <2>1. CASE b = a
      BY <1>1, <1>2, <1>4, <2>1 DEF MayBeRecounted, ValidPoolBallot, PoolBallotTypeOK
    <2>2. CASE b # a
      <3>1. ~(is_proxy[b] /\ proxy[b] # None) /\ MayBeRecounted(b)
        BY <1>2 DEF PoolBallotsStayValid
      <3> QED
        BY <1>1, <1>4, <2>2, <3>1 DEF MayBeRecounted, ValidPoolBallot
    <2> QED
      BY <2>1, <2>2
  <1>6. NoProxyCircle'
    <2>1. q # a /\ (q # None => proxy[q] = None)
      BY <1>1, <1>2 DEF ValidPoolBallot, PoolBallotsStayValid
    <2>2. \A S \in SUBSET Account :
            S # {} => \E x \in S : [proxy EXCEPT ![a] = q][x] \notin S
      BY <1>2, <2>1, NewLinkMakesNoCircle
    <2> QED
      BY <1>1, <2>2 DEF NoProxyCircle
  <1> QED
    BY <1>3, <1>5, <1>6 DEF PoolBallotInv

LEMMA RegPoolProxyKeepsBallots ==
  ASSUME PoolBallotInv, NEW a \in Account, NEW b \in BOOLEAN, RegPoolProxy(a, b)
  PROVE  PoolBallotInv'
  <1>1. /\ b => proxy[a] = None
        /\ pool_voters' = pool_voters \union {a}
        /\ is_proxy' = [is_proxy EXCEPT ![a] = b]
        /\ proxy' = proxy /\ producers' = producers /\ upgraded' = upgraded /\ active' = active
    BY DEF RegPoolProxy, MayBeProxy, ballots, roster
  <1>2. PoolBallotTypeOK /\ PoolBallotsStayValid /\ NoProxyCircle
    BY DEF PoolBallotInv
  <1>3. PoolBallotTypeOK'
    BY <1>1, <1>2 DEF PoolBallotTypeOK
  <1>4. \A c \in Account : is_proxy'[c] => is_proxy[c] \/ proxy[c] = None
    BY <1>1, <1>2 DEF PoolBallotTypeOK
  <1>5. PoolBallotsStayValid'
    <2> SUFFICES ASSUME NEW c \in Account
                 PROVE  ~(is_proxy'[c] /\ proxy[c] # None) /\ MayBeRecounted(c)'
      BY <1>1 DEF PoolBallotsStayValid
    <2>1. ~(is_proxy[c] /\ proxy[c] # None) /\ MayBeRecounted(c)
      BY <1>2 DEF PoolBallotsStayValid
    <2> QED
      BY <1>1, <1>4, <2>1 DEF MayBeRecounted, ValidPoolBallot
  <1>6. NoProxyCircle'
    BY <1>1, <1>2 DEF NoProxyCircle
  <1> QED
    BY <1>3, <1>5, <1>6 DEF PoolBallotInv

LEMMA BallotsInit ==
  ASSUME StakingPoolConstants, Init
  PROVE  PoolBallotInv
  <1>1. None \notin Account /\ MaxBallot \in Nat
    BY DEF StakingPoolConstants, PoolVotesConstants
  <1>2. PoolBallotTypeOK
    BY DEF Init, VotingInit, PoolBallotTypeOK
  <1>3. PoolBallotsStayValid
    BY <1>1, FS_EmptySet DEF Init, VotingInit, PoolBallotsStayValid, MayBeRecounted, ValidPoolBallot
  <1>4. NoProxyCircle
    BY <1>1 DEF Init, VotingInit, NoProxyCircle
  <1> QED
    BY <1>2, <1>3, <1>4 DEF PoolBallotInv

LEMMA BallotsNext ==
  ASSUME StakingPoolConstants, PoolBallotInv, [Next]_vars
  PROVE  PoolBallotInv'
  <1>1. /\ pool_voters \subseteq Account /\ active \subseteq upgraded
    BY DEF PoolBallotInv, PoolBallotTypeOK
  <1>2. CASE UNCHANGED votingVars
    BY <1>1, <1>2, SameBallotsStay DEF votingVars, roster
  <1>3. ASSUME NEW a \in Account, UNCHANGED <<is_proxy, ballots, roster>>,
               pool_voters' = pool_voters \union {a} \/ pool_voters' = pool_voters
        PROVE  PoolBallotInv'
    BY <1>1, <1>3, SameBallotsStay DEF roster
  <1>4. CASE VotingNext
    <2>1. ASSUME NEW p, RegProducer(p)
          PROVE  PoolBallotInv'
      BY <1>1, <2>1, SameBallotsStay DEF RegProducer
    <2>2. ASSUME NEW p, Deactivate(p)
          PROVE  PoolBallotInv'
      <3>1. /\ UNCHANGED <<is_proxy, ballots>> /\ pool_voters' = pool_voters
            /\ upgraded' = upgraded /\ active' = active \ {p}
        BY <2>2 DEF Deactivate
      <3> QED
        BY <1>1, <3>1, SameBallotsStay
    <2> QED
      BY <1>4, <2>1, <2>2, VoteKeepsBallots, RegPoolProxyKeepsBallots DEF VotingNext
  <1>5. CASE StakeNext
    <2>1. ASSUME NEW a \in Account, SetPoolNotif(a)
          PROVE  PoolBallotInv'
      BY <1>3, <2>1 DEF SetPoolNotif
    <2>2. ASSUME NEW a \in Account, NEW i \in Pool, NEW n \in Amounts, Stake2Pool(a, i, n)
          PROVE  PoolBallotInv'
      <3>1. pool_voters' = pool_voters \union {a} /\ UNCHANGED <<is_proxy, ballots, roster>>
        BY Zenon, <2>2 DEF Stake2Pool
      <3> QED
        BY <1>3, <3>1
    <2>3. ASSUME NEW a \in Account, NEW i \in Pool, NEW n \in Amounts, ClaimStake(a, i, n)
          PROVE  PoolBallotInv'
      <3>1. UNCHANGED <<pool_voters, is_proxy, ballots, roster>>
        BY Zenon, <2>3 DEF ClaimStake
      <3> QED
        BY <1>3, <3>1
    <2>4. ASSUME NEW a \in Account, NEW b \in Account, NEW i \in Pool, NEW n \in Amounts,
                 TransferStake(a, b, i, n)
          PROVE  PoolBallotInv'
      <3>1. pool_voters' = pool_voters \union {b} /\ UNCHANGED <<is_proxy, ballots, roster>>
        BY Zenon, <2>4 DEF TransferStake
      <3> QED
        BY <1>3, <3>1
    <2>5. ASSUME NEW a \in Account, NEW i \in Pool, NEW j \in Pool, NEW n \in Amounts,
                 UpgradeStake(a, i, j, n)
          PROVE  PoolBallotInv'
      <3>1. UNCHANGED <<pool_voters, is_proxy, ballots, roster>>
        BY Zenon, <2>5 DEF UpgradeStake
      <3> QED
        BY <1>3, <3>1
    <2>6. ASSUME NEW n, NEW k, TransitionChannelToPools(n, k) \/ ChannelNamebid(n, k)
          PROVE  PoolBallotInv'
      BY <1>2, <2>6 DEF TransitionChannelToPools, ChannelNamebid
    <2>7. CASE NextSlot
      BY <1>2, <2>7 DEF NextSlot
    <2> QED
      BY <1>5, <2>1, <2>2, <2>3, <2>4, <2>5, <2>6, <2>7 DEF StakeNext
  <1>6. CASE UNCHANGED vars
    BY <1>2, <1>6 DEF vars
  <1> QED
    BY <1>4, <1>5, <1>6 DEF Next

-----------------------------------------------------------------------------

\* Whoever registers as a proxy, unregisters or votes through another: no
\* circle of proxies forms along which update_pool_proxy would call itself for
\* ever, and no cast ballot keeps its voter from moving stake, since
\* update_pool_votes would accept it again.
THEOREM PoolBallotsAreSound ==
  ASSUME StakingPoolConstants PROVE Spec => [](NoProxyCircle /\ PoolBallotsStayValid)
  <1>1. Init => PoolBallotInv
    BY BallotsInit
  <1>2. PoolBallotInv /\ [Next]_vars => PoolBallotInv'
    BY BallotsNext
  <1>3. PoolBallotInv => NoProxyCircle /\ PoolBallotsStayValid
    BY DEF PoolBallotInv
  <1> QED
    BY <1>1, <1>2, <1>3, PTL DEF Spec

-----------------------------------------------------------------------------
(* Passing votes on.                                                       *)

\* The numbers of shares that accounts are counted with.
Tally == [Account -> [Pool -> Nat]]

\* What the calls of update_pool_proxy need to end.
MayPass(shares, proxies) ==
  /\ IsFiniteSet(Account) /\ IsFiniteSet(Producer) /\ None \notin Account
  /\ proxy \in [Account -> Account \union {None}]
  /\ producers \in [Account -> SUBSET Producer]
  /\ \A b \in Account : proxy[b] # None => producers[b] = {}
  /\ NoProxyCircle
  /\ shares \in Tally /\ proxies \in [Account -> BOOLEAN]

\* v is w after a proxy was given new shares for old ones.
GivesProxy(w, q, old, new, v) ==
  /\ v \in Books
  /\ v.last_votes = w.last_votes /\ v.pool_votes = w.pool_votes /\ v.total_votes = w.total_votes
  /\ \A b \in Account : b # q => v.proxied_shares[b] = w.proxied_shares[b]
  /\ \A i \in Pool : v.proxied_shares[q][i] = w.proxied_shares[q][i] + (new[i] - old[i])

\* v is w after the producers of a ballot were given new shares for old ones.
GivesProducers(w, voted, old, new, v) ==
  /\ v \in Books
  /\ v.last_votes = w.last_votes /\ v.proxied_shares = w.proxied_shares
  /\ \A p \in Producer, i \in Pool :
       v.pool_votes[p][i] = IF p \in voted THEN w.pool_votes[p][i] + (new[i] - old[i])
                            ELSE w.pool_votes[p][i]
  /\ \A i \in Pool : v.total_votes[i] = w.total_votes[i] + Cardinality(voted) * (new[i] - old[i])

\* Shares are added and taken pool by pool.
LEMMA SharesByPool ==
  ASSUME NEW x \in Shares, NEW y \in Shares
  PROVE  /\ Plus(x, y) \in Shares /\ Minus(x, y) \in Shares /\ NoShares \in Shares
         /\ \A i \in Pool : /\ x[i] \in Int /\ y[i] \in Int /\ NoShares[i] = 0
                            /\ Plus(x, y)[i] = x[i] + y[i] /\ Minus(x, y)[i] = x[i] - y[i]
  BY DEF Shares, Plus, Minus, NoShares

\* add_proxied_shares and sub_proxied_shares change one entry.
LEMMA ProxyEntry ==
  ASSUME NEW w \in Books, NEW q \in Account, NEW d \in Shares
  PROVE  /\ GivesProxy(w, q, NoShares, d, AddProxied(w, q, d))
         /\ GivesProxy(w, q, d, NoShares, SubProxied(w, q, d))
  <1>0. /\ w.proxied_shares \in [Account -> Shares] /\ w.proxied_shares[q] \in Shares
        /\ Plus(w.proxied_shares[q], d) \in Shares /\ Minus(w.proxied_shares[q], d) \in Shares
    <2>1. w.proxied_shares \in [Account -> Shares]
      BY DEF Books
    <2> QED
      BY <2>1, SharesByPool
  <1>1. ASSUME NEW e \in Shares, NEW v, v = [w EXCEPT !.proxied_shares[q] = e]
        PROVE  /\ v \in Books
               /\ v.last_votes = w.last_votes /\ v.pool_votes = w.pool_votes
               /\ v.total_votes = w.total_votes
               /\ \A b \in Account : b # q => v.proxied_shares[b] = w.proxied_shares[b]
               /\ v.proxied_shares[q] = e
    BY <1>0, <1>1 DEF Books
  <1>2. \A i \in Pool :
          /\ Plus(w.proxied_shares[q], d)[i] = w.proxied_shares[q][i] + (d[i] - NoShares[i])
          /\ Minus(w.proxied_shares[q], d)[i] = w.proxied_shares[q][i] + (NoShares[i] - d[i])
    BY <1>0, SharesByPool
  <1> QED
    BY <1>0, <1>1, <1>2 DEF GivesProxy, AddProxied, SubProxied

\* What a proxy had from an account is replaced.
LEMMA ProxyReplaced ==
  ASSUME NEW w \in Books, NEW q \in Account, NEW old \in Shares, NEW new \in Shares
  PROVE  GivesProxy(w, q, old, new, AddProxied(SubProxied(w, q, old), q, new))
  <1> DEFINE u == SubProxied(w, q, old)
             v == AddProxied(u, q, new)
  <1>1. GivesProxy(w, q, old, NoShares, u)
    BY ProxyEntry
  <1> HIDE DEF u
  <1>2. GivesProxy(u, q, NoShares, new, v)
    BY <1>1, ProxyEntry DEF GivesProxy
  <1> HIDE DEF v
  <1>3. \A i \in Pool : /\ w.proxied_shares[q][i] \in Int /\ NoShares[i] = 0
                        /\ old[i] \in Int /\ new[i] \in Int
    <2>1. w.proxied_shares[q] \in Shares
      BY DEF Books
    <2> QED
      BY <2>1 DEF Shares, NoShares
  <1>4. \A i \in Pool : v.proxied_shares[q][i] = w.proxied_shares[q][i] + (new[i] - old[i])
    BY <1>1, <1>2, <1>3 DEF GivesProxy
  <1>5. GivesProxy(w, q, old, new, v)
    BY <1>1, <1>2, <1>4 DEF GivesProxy
  <1> QED
    BY <1>5 DEF u, v

\* add_pool_votes and sub_pool_votes change the entries of a ballot's producers.
LEMMA ProducersEntries ==
  ASSUME NEW w \in Books, NEW voted \in SUBSET Producer, NEW d \in Shares, IsFiniteSet(Producer)
  PROVE  /\ GivesProducers(w, voted, NoShares, d, AddPoolVotes(w, voted, d))
         /\ GivesProducers(w, voted, d, NoShares, SubPoolVotes(w, voted, d))
  <1>0. /\ w.pool_votes \in [Producer -> Shares] /\ w.total_votes \in Shares
        /\ Cardinality(voted) \in Nat
    BY FS_Subset, FS_CardinalityType DEF Books
  <1> DEFINE n == Cardinality(voted)
             plus == [p \in Producer |-> IF p \in voted THEN Plus(w.pool_votes[p], d) ELSE w.pool_votes[p]]
             minus == [p \in Producer |-> IF p \in voted THEN Minus(w.pool_votes[p], d) ELSE w.pool_votes[p]]
             more == [i \in Pool |-> w.total_votes[i] + n * d[i]]
             less == [i \in Pool |-> w.total_votes[i] - n * d[i]]
  <1>1. \A i \in Pool : /\ d[i] \in Int /\ w.total_votes[i] \in Int /\ n * d[i] \in Int
                        /\ n * (d[i] - NoShares[i]) = n * d[i]
                        /\ n * (NoShares[i] - d[i]) = -(n * d[i])
                        /\ NoShares[i] = 0
    <2> TAKE i \in Pool
    <2>1. d[i] \in Int /\ w.total_votes[i] \in Int /\ NoShares[i] = 0 /\ n \in Nat
      BY <1>0, SharesByPool
    <2> HIDE DEF n
    <2> QED
      BY <2>1
  <1>2. more \in Shares /\ less \in Shares
    <2> HIDE DEF n
    <2> QED
      BY <1>1 DEF Shares
  <1>3. plus \in [Producer -> Shares] /\ minus \in [Producer -> Shares]
    BY <1>0, SharesByPool
  <1>4. ASSUME NEW p \in Producer, NEW i \in Pool
        PROVE  /\ plus[p][i] = IF p \in voted THEN w.pool_votes[p][i] + (d[i] - NoShares[i])
                               ELSE w.pool_votes[p][i]
               /\ minus[p][i] = IF p \in voted THEN w.pool_votes[p][i] + (NoShares[i] - d[i])
                                ELSE w.pool_votes[p][i]
    <2>1. /\ Plus(w.pool_votes[p], d)[i] = w.pool_votes[p][i] + d[i]
          /\ Minus(w.pool_votes[p], d)[i] = w.pool_votes[p][i] - d[i]
          /\ w.pool_votes[p][i] \in Int
      BY <1>0, SharesByPool
    <2> QED
      BY <1>1, <2>1
  <1>5. /\ \A i \in Pool : more[i] = w.total_votes[i] + n * (d[i] - NoShares[i])
        /\ \A i \in Pool : less[i] = w.total_votes[i] + n * (NoShares[i] - d[i])
    <2> HIDE DEF n
    <2> QED
      BY <1>1
  <1>6. /\ AddPoolVotes(w, voted, d) = [w EXCEPT !.pool_votes = plus, !.total_votes = more]
        /\ SubPoolVotes(w, voted, d) = [w EXCEPT !.pool_votes = minus, !.total_votes = less]
    BY DEF AddPoolVotes, SubPoolVotes
  <1> HIDE DEF plus, minus, more, less
  <1>8. GivesProducers(w, voted, NoShares, d, AddPoolVotes(w, voted, d))
    <2> DEFINE v == AddPoolVotes(w, voted, d)
    <2>0. v = [w EXCEPT !.pool_votes = plus, !.total_votes = more]
      BY <1>6
    <2> HIDE DEF v
    <2>1. /\ v \in Books /\ v.pool_votes = plus /\ v.total_votes = more
          /\ v.last_votes = w.last_votes /\ v.proxied_shares = w.proxied_shares
      BY <1>2, <1>3, <2>0 DEF Books
    <2>2. GivesProducers(w, voted, NoShares, d, v)
      BY <1>4, <1>5, <2>1 DEF GivesProducers
    <2> QED
      BY <2>2 DEF v
  <1>9. GivesProducers(w, voted, d, NoShares, SubPoolVotes(w, voted, d))
    <2> DEFINE v == SubPoolVotes(w, voted, d)
    <2>0. v = [w EXCEPT !.pool_votes = minus, !.total_votes = less]
      BY <1>6
    <2> HIDE DEF v
    <2>1. /\ v \in Books /\ v.pool_votes = minus /\ v.total_votes = less
          /\ v.last_votes = w.last_votes /\ v.proxied_shares = w.proxied_shares
      BY <1>2, <1>3, <2>0 DEF Books
    <2>2. GivesProducers(w, voted, d, NoShares, v)
      BY <1>4, <1>5, <2>1 DEF GivesProducers
    <2> QED
      BY <2>2 DEF v
  <1> QED
    BY <1>8, <1>9

\* What producers had from an account is replaced.
LEMMA ProducersReplaced ==
  ASSUME NEW w \in Books, NEW voted \in SUBSET Producer, IsFiniteSet(Producer),
         NEW old \in Shares, NEW new \in Shares
  PROVE  GivesProducers(w, voted, old, new, AddPoolVotes(SubPoolVotes(w, voted, old), voted, new))
  <1> DEFINE u == SubPoolVotes(w, voted, old)
             v == AddPoolVotes(u, voted, new)
             n == Cardinality(voted)
  <1>1. GivesProducers(w, voted, old, NoShares, u)
    BY ProducersEntries
  <1> HIDE DEF u
  <1>2. GivesProducers(u, voted, NoShares, new, v)
    BY <1>1, ProducersEntries DEF GivesProducers
  <1> HIDE DEF v
  <1>3. /\ \A i \in Pool : /\ w.total_votes[i] \in Int /\ NoShares[i] = 0
                           /\ old[i] \in Int /\ new[i] \in Int
        /\ \A p \in Producer, i \in Pool : w.pool_votes[p][i] \in Int
    <2>1. w.pool_votes \in [Producer -> Shares] /\ w.total_votes \in Shares
      BY DEF Books
    <2> QED
      BY <2>1 DEF Shares, NoShares
  <1>4. ASSUME NEW i \in Pool
        PROVE  v.total_votes[i] = w.total_votes[i] + n * (new[i] - old[i])
    <2>1. n \in Nat
      BY FS_Subset, FS_CardinalityType
    <2>2. /\ u.total_votes[i] = w.total_votes[i] + n * (NoShares[i] - old[i])
          /\ v.total_votes[i] = u.total_votes[i] + n * (new[i] - NoShares[i])
      BY <1>1, <1>2 DEF GivesProducers
    <2> HIDE DEF n
    <2>3. /\ n * (NoShares[i] - old[i]) = -(n * old[i]) /\ n * (new[i] - NoShares[i]) = n * new[i]
          /\ n * (new[i] - old[i]) = n * new[i] - n * old[i]
          /\ n * old[i] \in Int /\ n * new[i] \in Int
      BY <1>3, <2>1
    <2> QED
      BY <1>3, <2>2, <2>3
  <1>5. ASSUME NEW p \in Producer, NEW i \in Pool
        PROVE  v.pool_votes[p][i] = IF p \in voted THEN w.pool_votes[p][i] + (new[i] - old[i])
                                    ELSE w.pool_votes[p][i]
    BY <1>1, <1>2, <1>3 DEF GivesProducers
  <1>6. GivesProducers(w, voted, old, new, v)
    BY <1>1, <1>2, <1>4, <1>5 DEF GivesProducers
  <1> QED
    BY <1>6 DEF u, v

\* What a vote was last counted with is its owner's only.
LEMMA SetLastVotes ==
  ASSUME NEW w \in Books, NEW a \in Account, NEW new \in Shares
  PROVE  LET r == [w EXCEPT !.last_votes[a] = new]
         IN  /\ r \in Books
             /\ r.last_votes = [w.last_votes EXCEPT ![a] = new]
             /\ r.proxied_shares = w.proxied_shares
             /\ r.pool_votes = w.pool_votes
             /\ r.total_votes = w.total_votes
  BY DEF Books

\* What an account votes with are shares.
LEMMA VotesOfTypes ==
  ASSUME NEW shares, NEW proxies, MayPass(shares, proxies), NEW w \in Books, NEW a \in Account
  PROVE  /\ PoolVotesOf(w, a, shares, proxies) \in Shares
         /\ w.last_votes \in [Account -> Shares] /\ w.last_votes[a] \in Shares
         /\ w.proxied_shares \in [Account -> Shares] /\ w.proxied_shares[a] \in Shares
  <1>1. shares[a] \in Shares
    BY DEF MayPass, Tally, Shares
  <1>2. w.last_votes \in [Account -> Shares] /\ w.proxied_shares \in [Account -> Shares]
    BY DEF Books
  <1>3. Plus(shares[a], w.proxied_shares[a]) \in Shares
    BY <1>1, <1>2, SharesByPool
  <1> QED
    BY <1>1, <1>2, <1>3 DEF PoolVotesOf

\* One call of update_pool_proxy; pass is what the next one makes.
PassOn(pass, w, a, shares, proxies) ==
  LET new == PoolVotesOf(w, a, shares, proxies)
      old == w.last_votes[a]
      passed == IF proxy[a] # None
                THEN pass[<<AddProxied(SubProxied(w, proxy[a], old), proxy[a], new), proxy[a]>>]
                ELSE AddPoolVotes(SubPoolVotes(w, producers[a], old), producers[a], new)
  IN  [passed EXCEPT !.last_votes[a] = new]

\* pass is what the calls of update_pool_proxy make.
Passes(pass, shares, proxies) ==
  /\ pass \in [Books \X Account -> Books]
  /\ \A w \in Books : \A a \in Account : pass[<<w, a>>] = PassOn(pass, w, a, shares, proxies)
  /\ \A w \in Books : \A a \in Account : UpdatePoolProxy(w, a, shares, proxies) = pass[<<w, a>>]

\* The recursion of update_pool_proxy ends.
LEMMA UpdatePoolProxyEnds ==
  ASSUME NEW shares, NEW proxies, MayPass(shares, proxies)
  PROVE  \E pass : Passes(pass, shares, proxies)
  <1> DEFINE D == Books
             New(w, a) == PoolVotesOf(w, a, shares, proxies)
             stop == { x \in D \X Account : proxy[x[2]] = None }
             Moved(w, a) == AddProxied(SubProxied(w, proxy[a], w.last_votes[a]), proxy[a], New(w, a))
             Cast(w, a) == AddPoolVotes(SubPoolVotes(w, producers[a], w.last_votes[a]),
                                        producers[a], New(w, a))
             Ended(w, a) == [Cast(w, a) EXCEPT !.last_votes[a] = New(w, a)]
             base == [x \in D \X Account |-> Ended(x[1], x[2])]
             step == [x \in D \X Account |->
                        IF proxy[x[2]] = None THEN x[1] ELSE Moved(x[1], x[2])]
             finish == [x \in D \X Account \X D |->
                          [x[3] EXCEPT !.last_votes[x[2]] = New(x[1], x[2])]]
  <1>0. /\ NoCircle(Account, proxy) /\ IsFiniteSet(Producer)
        /\ \A a \in Account : /\ proxy[a] \in Account \union {None}
                              /\ producers[a] \in SUBSET Producer
    BY DEF MayPass, NoProxyCircle, NoCircle
  <1>1. \A w \in D : \A a \in Account : New(w, a) \in Shares /\ w.last_votes[a] \in Shares
    BY VotesOfTypes
  <1>2. ASSUME NEW w \in D, NEW a \in Account
        PROVE  Ended(w, a) \in D
    <2>1. New(w, a) \in Shares /\ w.last_votes[a] \in Shares /\ producers[a] \in SUBSET Producer
      BY <1>0, <1>1
    <2> HIDE DEF New
    <2>2. Cast(w, a) \in D
      <3>1. GivesProducers(w, producers[a], w.last_votes[a], New(w, a), Cast(w, a))
        BY <1>0, <2>1, ProducersReplaced
      <3> HIDE DEF Cast
      <3> QED
        BY <3>1 DEF GivesProducers
    <2> HIDE DEF Cast
    <2> QED
      BY <2>1, <2>2, SetLastVotes
  <1>3. ASSUME NEW w \in D, NEW a \in Account, proxy[a] # None
        PROVE  Moved(w, a) \in D
    <2>1. New(w, a) \in Shares /\ w.last_votes[a] \in Shares /\ proxy[a] \in Account
      BY <1>0, <1>1, <1>3
    <2> HIDE DEF New
    <2> QED
      BY <2>1, ProxyReplaced DEF GivesProxy
  <1> HIDE DEF New, Moved, Ended, Cast
  <1>4. base \in [D \X Account -> D]
    BY <1>2
  <1>5. step \in [D \X Account -> D]
    <2>1. ASSUME NEW x \in D \X Account, proxy[x[2]] # None
          PROVE  Moved(x[1], x[2]) \in D
      <3>1. x[1] \in D /\ x[2] \in Account
        OBVIOUS
      <3> QED
        BY <1>3, <2>1, <3>1
    <2> HIDE DEF D
    <2> QED
      BY <2>1
  <1>6. finish \in [D \X Account \X D -> D]
    <2>1. ASSUME NEW x \in D \X Account \X D
          PROVE  [x[3] EXCEPT !.last_votes[x[2]] = New(x[1], x[2])] \in D
      <3>1. x[1] \in D /\ x[2] \in Account /\ x[3] \in D
        OBVIOUS
      <3>2. New(x[1], x[2]) \in Shares
        BY <1>1, <3>1
      <3> QED
        BY <3>1, <3>2, SetLastVotes
    <2> QED
      BY <2>1
  <1>7. \A d \in D : \A a \in Account : <<d, a>> \notin stop => proxy[a] \in Account
    BY <1>0
  <1> HIDE DEF base, step, finish, stop
  <1>8. PICK f : Defines(Account, D, proxy, stop, base, step, finish, f)
    <2>1. Recursion(Account, D, proxy, stop, base, step, finish)
      BY <1>0, <1>4, <1>5, <1>6, <1>7 DEF Recursion
    <2> HIDE DEF D
    <2> QED
      BY <2>1, ChainRecursion
  <1>8a. /\ f \in [D \X Account -> D]
         /\ \A d \in D : \A a \in Account :
              f[<<d, a>>] = IF <<d, a>> \in stop THEN base[<<d, a>>]
                            ELSE finish[<<d, a, f[<<step[<<d, a>>], proxy[a]>>]>>]
    BY <1>8 DEF Defines
  <1>9. \A d \in D : \A a \in Account : f[<<d, a>>] = PassOn(f, d, a, shares, proxies)
    <2> SUFFICES ASSUME NEW d \in D, NEW a \in Account
                 PROVE  f[<<d, a>>] = PassOn(f, d, a, shares, proxies)
      OBVIOUS
    <2>1. CASE proxy[a] = None
      <3>1. f[<<d, a>>] = Ended(d, a)
        BY <1>8a, <2>1 DEF stop, base
      <3> QED
        BY <2>1, <3>1 DEF PassOn, Ended, Cast, New
    <2>2. CASE proxy[a] # None
      <3>1. step[<<d, a>>] = Moved(d, a) /\ step[<<d, a>>] \in D
        BY <1>5, <2>2 DEF step
      <3>2. <<d, a>> \notin stop /\ proxy[a] \in Account
        BY <1>7, <2>2 DEF stop
      <3> DEFINE r == f[<<step[<<d, a>>], proxy[a]>>]
      <3>3. r \in D
        BY <1>8a, <3>1, <3>2
      <3>4. f[<<d, a>>] = finish[<<d, a, r>>]
        BY <1>8a, <3>2
      <3>5. finish[<<d, a, r>>] = [r EXCEPT !.last_votes[a] = New(d, a)]
        BY <3>3 DEF finish
      <3> QED
        BY <2>2, <3>1, <3>4, <3>5 DEF PassOn, Moved, New
    <2> QED
      BY <2>1, <2>2
  <1> DEFINE pass == CHOOSE g : g = [x \in D \X Account |-> PassOn(g, x[1], x[2], shares, proxies)]
  <1>10. f = [x \in D \X Account |-> PassOn(f, x[1], x[2], shares, proxies)]
    <2>1. \A x \in D \X Account : f[x] = PassOn(f, x[1], x[2], shares, proxies)
      BY <1>9
    <2> HIDE DEF D
    <2> QED
      BY <1>8a, <2>1
  <1>11. pass = [x \in D \X Account |-> PassOn(pass, x[1], x[2], shares, proxies)]
    BY <1>10
  <1>12. \A w \in D : \A a \in Account :
           /\ UpdatePoolProxy(w, a, shares, proxies) = pass[<<w, a>>]
           /\ pass[<<w, a>>] = PassOn(pass, w, a, shares, proxies)
    <2>1. \A w, a : UpdatePoolProxy(w, a, shares, proxies) = pass[<<w, a>>]
      BY DEF UpdatePoolProxy, PassOn
    <2> HIDE DEF pass
    <2> QED
      BY <1>11, <2>1
  <1> HIDE DEF pass
  <1>13. \A a \in Account : \A w \in D : pass[<<w, a>>] = f[<<w, a>>]
    <2> DEFINE S == { a \in Account : \E w \in D : pass[<<w, a>>] # f[<<w, a>>] }
    <2>1. SUFFICES ASSUME S # {} PROVE FALSE
      OBVIOUS
    <2>2. PICK a \in S : proxy[a] \notin S
      BY <2>1, <1>0 DEF NoCircle
    <2>3. PICK w \in D : pass[<<w, a>>] # f[<<w, a>>]
      OBVIOUS
    <2>4. a \in Account
      OBVIOUS
    <2>5. proxy[a] # None => pass[<<Moved(w, a), proxy[a]>>] = f[<<Moved(w, a), proxy[a]>>]
      <3> SUFFICES ASSUME proxy[a] # None
                   PROVE  pass[<<Moved(w, a), proxy[a]>>] = f[<<Moved(w, a), proxy[a]>>]
        OBVIOUS
      <3>1. proxy[a] \in Account /\ Moved(w, a) \in D
        BY <1>0, <1>3, <2>4
      <3> QED
        BY <2>2, <3>1
    <2>6. PassOn(pass, w, a, shares, proxies) = PassOn(f, w, a, shares, proxies)
      BY <2>5 DEF PassOn, Moved, New
    <2> QED
      BY <1>9, <1>12, <2>3, <2>4, <2>6
  <1> QED
    BY <1>8a, <1>9, <1>12, <1>13 DEF Passes

\* The accounts that a change of an account's votes is passed on to.
Reach(x) == Reached(Account, proxy, x)

\* One call finds the books w, counts x with new shares for old ones, passes
\* this on, which leaves passed, and leaves r.
OnePass(pass, w, x, old, new, passed, r) ==
  /\ old \in Shares /\ new \in Shares
  /\ passed \in Books /\ r \in Books
  /\ r.last_votes[x] = new
  /\ \A b \in Account : b # x => r.last_votes[b] = passed.last_votes[b]
  /\ r.proxied_shares = passed.proxied_shares
  /\ r.pool_votes = passed.pool_votes
  /\ r.total_votes = passed.total_votes
  /\ \/ proxy[x] = None /\ GivesProducers(w, producers[x], old, new, passed)
     \/ /\ proxy[x] \in Account
        /\ \E v : GivesProxy(w, proxy[x], old, new, v) /\ passed = pass[<<v, proxy[x]>>]

\* What one call does to the books.
LEMMA PassEffect ==
  ASSUME NEW shares, NEW proxies, MayPass(shares, proxies),
         NEW pass, Passes(pass, shares, proxies), NEW w \in Books, NEW x \in Account
  PROVE  \E passed : OnePass(pass, w, x, w.last_votes[x], PoolVotesOf(w, x, shares, proxies),
                             passed, pass[<<w, x>>])
  <1> DEFINE new == PoolVotesOf(w, x, shares, proxies)
             old == w.last_votes[x]
             v == AddProxied(SubProxied(w, proxy[x], old), proxy[x], new)
             cast == AddPoolVotes(SubPoolVotes(w, producers[x], old), producers[x], new)
             passed == IF proxy[x] # None THEN pass[<<v, proxy[x]>>] ELSE cast
             r == pass[<<w, x>>]
  <1>1. new \in Shares /\ old \in Shares
    BY VotesOfTypes
  <1>2. /\ proxy[x] \in Account \union {None} /\ producers[x] \in SUBSET Producer
        /\ IsFiniteSet(Producer) /\ None \notin Account
    BY DEF MayPass
  <1>3. r = [passed EXCEPT !.last_votes[x] = new]
    BY DEF Passes, PassOn
  <1> HIDE DEF new, old
  <1>4. proxy[x] # None => proxy[x] \in Account /\ GivesProxy(w, proxy[x], old, new, v)
    BY <1>1, <1>2, ProxyReplaced
  <1>5. GivesProducers(w, producers[x], old, new, cast)
    BY <1>1, <1>2, ProducersReplaced
  <1> HIDE DEF v, cast
  <1>6. passed \in Books
    BY <1>4, <1>5 DEF Passes, GivesProxy, GivesProducers
  <1>7. /\ r \in Books
        /\ r.last_votes = [passed.last_votes EXCEPT ![x] = new]
        /\ r.proxied_shares = passed.proxied_shares
        /\ r.pool_votes = passed.pool_votes
        /\ r.total_votes = passed.total_votes
    <2> HIDE DEF passed, r
    <2> QED
      BY <1>1, <1>3, <1>6, SetLastVotes
  <1>8. \/ proxy[x] = None /\ GivesProducers(w, producers[x], old, new, passed)
        \/ /\ proxy[x] \in Account
           /\ GivesProxy(w, proxy[x], old, new, v) /\ passed = pass[<<v, proxy[x]>>]
    BY <1>2, <1>4, <1>5
  <1> HIDE DEF passed, r
  <1>9. passed.last_votes \in [Account -> Shares]
    BY <1>6 DEF Books
  <1>10. OnePass(pass, w, x, old, new, passed, r)
    BY <1>1, <1>6, <1>7, <1>8, <1>9 DEF OnePass
  <1> QED
    BY <1>10 DEF old, new, r

\* In one pool, what the accounts in a set are counted with.
Column(c, i, S) == [b \in Account |-> IF b \in S THEN c[b][i] ELSE 0]

\* The books hold the sums of what each account is counted with, given by c,
\* at the proxy and the producers it votes for.
Tallied(w, c, prx, prods) ==
  /\ \A q \in Account, i \in Pool :
       w.proxied_shares[q][i] = SumOf(Column(c, i, {b \in Account : prx[b] = q}))
  /\ \A p \in Producer, i \in Pool :
       w.pool_votes[p][i] = SumOf(Column(c, i, {b \in Account : p \in prods[b]}))
  /\ \A i \in Pool : w.total_votes[i] = SumOf([p \in Producer |-> w.pool_votes[p][i]])

\* Changing one account's shares changes the sums they are part of.
LEMMA ColumnWithEntry ==
  ASSUME IsFiniteSet(Account), NEW c \in Tally, NEW d \in Tally, NEW i \in Pool,
         NEW x \in Account, \A b \in Account : b # x => d[b] = c[b], NEW S
  PROVE  /\ SumOf(Column(c, i, S)) \in Nat /\ SumOf(Column(d, i, S)) \in Nat
         /\ SumOf(Column(d, i, S))
              = SumOf(Column(c, i, S)) + IF x \in S THEN d[x][i] - c[x][i] ELSE 0
  <1> DEFINE f == Column(c, i, S)
             g == Column(d, i, S)
  <1>1. f \in [Account -> Nat] /\ g \in [Account -> Nat] /\ c[x][i] \in Nat /\ d[x][i] \in Nat
    BY DEF Column, Tally
  <1>2. /\ \A b \in Account \ {x} : g[b] = f[b]
        /\ f[x] = IF x \in S THEN c[x][i] ELSE 0
        /\ g[x] = IF x \in S THEN d[x][i] ELSE 0
    BY DEF Column
  <1> HIDE DEF f, g
  <1>3. IsFiniteSet(Units(f))
    BY <1>1, SumIsFinite
  <1>4. SumOf(f) \in Nat /\ SumOf(g) \in Nat
    BY <1>1, SumIsFinite, SumBoundsEntry
  <1>5. SumOf(g) = SumOf(f) - f[x] + g[x]
    BY <1>1, <1>2, <1>3, SumOneEntry
  <1>6. SumOf(g) = SumOf(f) + IF x \in S THEN d[x][i] - c[x][i] ELSE 0
    BY <1>1, <1>2, <1>4, <1>5
  <1> QED
    BY <1>4, <1>6 DEF f, g

\* Sums of shares are natural numbers.
LEMMA TalliedTypes ==
  ASSUME IsFiniteSet(Account), NEW w \in Books, NEW c \in Tally, NEW prx, NEW prods,
         Tallied(w, c, prx, prods)
  PROVE  /\ w.proxied_shares \in Tally
         /\ w.pool_votes \in [Producer -> [Pool -> Nat]]
  <1>1. ASSUME NEW i \in Pool, NEW S
        PROVE  SumOf(Column(c, i, S)) \in Nat
    <2> DEFINE f == Column(c, i, S)
    <2>1. f \in [Account -> Nat]
      BY DEF Column, Tally
    <2> HIDE DEF f
    <2>2. SumOf(f) \in Nat
      BY <2>1, SumIsFinite, FS_CardinalityType DEF SumOf
    <2> QED
      BY <2>2 DEF f
  <1>2. \A q \in Account, i \in Pool : w.proxied_shares[q][i] \in Nat
    BY <1>1 DEF Tallied
  <1>3. \A p \in Producer, i \in Pool : w.pool_votes[p][i] \in Nat
    BY <1>1 DEF Tallied
  <1>4. /\ w.proxied_shares \in [Account -> [Pool -> Int]]
        /\ w.pool_votes \in [Producer -> [Pool -> Int]]
    BY DEF Books, Shares
  <1>5. w.proxied_shares \in Tally
    <2> DEFINE f == w.proxied_shares
    <2>1. f \in [Account -> [Pool -> Int]] /\ \A q \in Account, i \in Pool : f[q][i] \in Nat
      BY <1>2, <1>4
    <2> HIDE DEF f
    <2>2. \A q \in Account : f[q] \in [Pool -> Nat]
      BY <2>1
    <2> QED
      BY <2>1, <2>2 DEF Tally, f
  <1>6. w.pool_votes \in [Producer -> [Pool -> Nat]]
    <2> DEFINE f == w.pool_votes
    <2>1. f \in [Producer -> [Pool -> Int]] /\ \A p \in Producer, i \in Pool : f[p][i] \in Nat
      BY <1>3, <1>4
    <2> HIDE DEF f
    <2>2. \A p \in Producer : f[p] \in [Pool -> Nat]
      BY <2>1
    <2> QED
      BY <2>1, <2>2 DEF f
  <1> QED
    BY <1>5, <1>6

\* The entry of an account changes with what its proxy has.
LEMMA TalliedAtProxy ==
  ASSUME IsFiniteSet(Account), NEW w \in Books, NEW c \in Tally, NEW prx, NEW prods,
         Tallied(w, c, prx, prods), NEW x \in Account, NEW new \in [Pool -> Nat],
         prx[x] \in Account, prods[x] = {}, NEW v, GivesProxy(w, prx[x], c[x], new, v)
  PROVE  Tallied(v, [c EXCEPT ![x] = new], prx, prods)
  <1> DEFINE d == [c EXCEPT ![x] = new]
             q == prx[x]
  <1>1. d \in Tally /\ d[x] = new /\ \A b \in Account : b # x => d[b] = c[b]
    BY DEF Tally
  <1> HIDE DEF d
  <1>2. ASSUME NEW r \in Account, NEW i \in Pool
        PROVE  v.proxied_shares[r][i] = SumOf(Column(d, i, {b \in Account : prx[b] = r}))
    <2> DEFINE S == {b \in Account : prx[b] = r}
    <2>1. w.proxied_shares[r][i] = SumOf(Column(c, i, S)) /\ (x \in S <=> r = q)
      BY DEF Tallied
    <2>2. v.proxied_shares[r][i]
            = w.proxied_shares[r][i] + IF r = q THEN new[i] - c[x][i] ELSE 0
      <3>1. w.proxied_shares[r][i] \in Int
        BY DEF Books, Shares
      <3> QED
        BY <3>1 DEF GivesProxy
    <2> HIDE DEF S, q
    <2>3. SumOf(Column(d, i, S)) = SumOf(Column(c, i, S)) + IF x \in S THEN new[i] - c[x][i] ELSE 0
      BY <1>1, ColumnWithEntry
    <2>4. v.proxied_shares[r][i] = SumOf(Column(d, i, S))
      BY <2>1, <2>2, <2>3
    <2> QED
      BY <2>4 DEF S
  <1>3. ASSUME NEW p \in Producer, NEW i \in Pool
        PROVE  v.pool_votes[p][i] = SumOf(Column(d, i, {b \in Account : p \in prods[b]}))
    <2> DEFINE S == {b \in Account : p \in prods[b]}
    <2>1. /\ w.pool_votes[p][i] = SumOf(Column(c, i, S)) /\ x \notin S
          /\ v.pool_votes = w.pool_votes
      BY DEF Tallied, GivesProxy
    <2> HIDE DEF S
    <2>2. /\ SumOf(Column(c, i, S)) \in Nat
          /\ SumOf(Column(d, i, S)) = SumOf(Column(c, i, S)) + IF x \in S THEN new[i] - c[x][i] ELSE 0
      BY <1>1, ColumnWithEntry
    <2>3. v.pool_votes[p][i] = SumOf(Column(d, i, S))
      BY <2>1, <2>2
    <2> QED
      BY <2>3 DEF S
  <1>4. \A i \in Pool : v.total_votes[i] = SumOf([p \in Producer |-> v.pool_votes[p][i]])
    BY DEF Tallied, GivesProxy
  <1>5. Tallied(v, d, prx, prods)
    BY <1>2, <1>3, <1>4 DEF Tallied
  <1> QED
    BY <1>5 DEF d

\* The entry of an account changes with what the producers it votes for have.
LEMMA TalliedAtProducers ==
  ASSUME IsFiniteSet(Account), IsFiniteSet(Producer),
         NEW w \in Books, NEW c \in Tally, NEW prx, NEW prods,
         Tallied(w, c, prx, prods), NEW x \in Account, NEW new \in [Pool -> Nat],
         prx[x] \notin Account, NEW V \in SUBSET Producer, V = prods[x],
         NEW v, GivesProducers(w, V, c[x], new, v)
  PROVE  Tallied(v, [c EXCEPT ![x] = new], prx, prods)
  <1> DEFINE d == [c EXCEPT ![x] = new]
  <1>1. d \in Tally /\ d[x] = new /\ \A b \in Account : b # x => d[b] = c[b]
    BY DEF Tally
  <1>a. c[x] \in [Pool -> Nat] /\ v \in Books
    BY DEF Tally, GivesProducers
  <1> HIDE DEF d
  <1>2. ASSUME NEW r \in Account, NEW i \in Pool
        PROVE  v.proxied_shares[r][i] = SumOf(Column(d, i, {b \in Account : prx[b] = r}))
    <2> DEFINE S == {b \in Account : prx[b] = r}
    <2>1. /\ w.proxied_shares[r][i] = SumOf(Column(c, i, S)) /\ x \notin S
          /\ v.proxied_shares = w.proxied_shares
      BY DEF Tallied, GivesProducers
    <2> HIDE DEF S
    <2>2. /\ SumOf(Column(c, i, S)) \in Nat
          /\ SumOf(Column(d, i, S)) = SumOf(Column(c, i, S)) + IF x \in S THEN new[i] - c[x][i] ELSE 0
      BY <1>1, ColumnWithEntry
    <2>3. v.proxied_shares[r][i] = SumOf(Column(d, i, S))
      BY <2>1, <2>2
    <2> QED
      BY <2>3 DEF S
  <1>3. ASSUME NEW p \in Producer, NEW i \in Pool
        PROVE  v.pool_votes[p][i] = SumOf(Column(d, i, {b \in Account : p \in prods[b]}))
    <2> DEFINE S == {b \in Account : p \in prods[b]}
    <2>1. w.pool_votes[p][i] = SumOf(Column(c, i, S)) /\ (x \in S <=> p \in V)
      BY DEF Tallied
    <2>2. v.pool_votes[p][i] = IF p \in V THEN w.pool_votes[p][i] + (new[i] - c[x][i])
                               ELSE w.pool_votes[p][i]
      BY DEF GivesProducers
    <2> HIDE DEF S
    <2>3. /\ SumOf(Column(c, i, S)) \in Nat
          /\ SumOf(Column(d, i, S)) = SumOf(Column(c, i, S)) + IF x \in S THEN new[i] - c[x][i] ELSE 0
      BY <1>1, ColumnWithEntry
    <2>4. v.pool_votes[p][i] = SumOf(Column(d, i, S))
      BY <2>1, <2>2, <2>3
    <2> QED
      BY <2>4 DEF S
  <1>4. ASSUME NEW i \in Pool
        PROVE  v.total_votes[i] = SumOf([p \in Producer |-> v.pool_votes[p][i]])
    <2> DEFINE f == [p \in Producer |-> w.pool_votes[p][i]]
               g == [p \in Producer |-> v.pool_votes[p][i]]
               m == c[x][i]
               n == new[i]
    <2>1. f \in [Producer -> Nat] /\ w.total_votes[i] = SumOf(f)
      <3>1. w.pool_votes \in [Producer -> [Pool -> Nat]]
        BY TalliedTypes
      <3> QED
        BY <3>1 DEF Tallied
    <2>2. g \in [Producer -> Nat]
      <3>1. ASSUME NEW p \in Producer
            PROVE  v.pool_votes[p][i] \in Nat
        <4>1. v.pool_votes[p][i] = SumOf(Column(d, i, {b \in Account : p \in prods[b]}))
          BY <1>3
        <4> QED
          BY <1>1, <4>1, ColumnWithEntry
      <3> QED
        BY <3>1
    <2>3. /\ \A p \in Producer : g[p] = IF p \in V THEN f[p] + (n - m) ELSE f[p]
          /\ m \in Nat /\ n \in Nat
      BY <1>a DEF GivesProducers
    <2>4. v.total_votes[i] = w.total_votes[i] + Cardinality(V) * (n - m)
      BY DEF GivesProducers
    <2> HIDE DEF f, g, m, n
    <2>5. SumOf(g) = SumOf(f) + Cardinality(V) * (n - m)
      BY SMTT(60), <2>1, <2>2, <2>3, SumOfShifted
    <2>6. v.total_votes[i] = SumOf(g)
      BY <2>1, <2>4, <2>5
    <2> QED
      BY <2>6 DEF g
  <1>5. Tallied(v, d, prx, prods)
    BY <1>2, <1>3, <1>4 DEF Tallied
  <1> QED
    BY <1>5 DEF d

\* An account's vote is counted with the shares it owns and speaks for.
Current(w, b, shares, proxies) == w.last_votes[b] = PoolVotesOf(w, b, shares, proxies)

\* The books w can pass on a change of x: they hold the sums of c, which has
\* for those ahead what they were last counted with.
Ready(w, c, x, prx, prods) ==
  /\ w \in Books /\ c \in Tally /\ Tallied(w, c, prx, prods)
  /\ \A b \in Reach(x) : c[b] = w.last_votes[b] /\ prx[b] = proxy[b] /\ prods[b] = producers[b]

\* What accounts are counted with after a change of x was passed on.
After(c, r, x) == [b \in Account |-> IF b \in Reach(x) THEN r.last_votes[b] ELSE c[b]]

\* In the books r this was done: all ahead of x are counted with what they have
\* now, x itself speaks for as much as before, nobody else is touched, and the
\* sums hold again.
PassedOn(w, c, r, x, shares, proxies, prx, prods) ==
  /\ r \in Books
  /\ r.proxied_shares[x] = w.proxied_shares[x]
  /\ \A b \in Account : b \notin Reach(x) => /\ r.last_votes[b] = w.last_votes[b]
                                             /\ r.proxied_shares[b] = w.proxied_shares[b]
  /\ \A b \in Reach(x) : Current(r, b, shares, proxies)
  /\ After(c, r, x) \in Tally /\ Tallied(r, After(c, r, x), prx, prods)

\* Votes depend on what their owner speaks for only.
LEMMA SameVotes ==
  ASSUME NEW w, NEW r, NEW b, NEW shares, NEW proxies,
         r.proxied_shares[b] = w.proxied_shares[b]
  PROVE  PoolVotesOf(r, b, shares, proxies) = PoolVotesOf(w, b, shares, proxies)
  BY DEF PoolVotesOf

\* What an account votes with is a number of shares in each pool.
LEMMA VotesAreCounted ==
  ASSUME NEW shares, NEW proxies, MayPass(shares, proxies), NEW w \in Books, NEW c \in Tally,
         NEW prx, NEW prods, Tallied(w, c, prx, prods), NEW x \in Account
  PROVE  PoolVotesOf(w, x, shares, proxies) \in [Pool -> Nat]
  <1>1. shares[x] \in [Pool -> Nat]
    BY DEF MayPass, Tally
  <1>2. w.proxied_shares[x] \in [Pool -> Nat]
    BY TalliedTypes DEF MayPass, Tally
  <1>3. Plus(shares[x], w.proxied_shares[x]) \in [Pool -> Nat]
    BY <1>1, <1>2 DEF Plus
  <1> QED
    BY <1>1, <1>3 DEF PoolVotesOf

\* However far a change is passed on, every proxy and producer on the way is
\* counted with what it has then.
LEMMA PassingKeepsTally ==
  ASSUME NEW shares, NEW proxies, MayPass(shares, proxies),
         NEW pass, Passes(pass, shares, proxies), NEW prx, NEW prods
  PROVE  \A x \in Account : \A w, c : Ready(w, c, x, prx, prods)
           => PassedOn(w, c, pass[<<w, x>>], x, shares, proxies, prx, prods)
  <1> DEFINE Good(x) == \A w, c : Ready(w, c, x, prx, prods)
                          => PassedOn(w, c, pass[<<w, x>>], x, shares, proxies, prx, prods)
             G == { x \in Account : Good(x) }
  <1>0. /\ NoCircle(Account, proxy) /\ proxy \in [Account -> Account \union {None}]
        /\ None \notin Account /\ IsFiniteSet(Account) /\ IsFiniteSet(Producer)
        /\ producers \in [Account -> SUBSET Producer]
        /\ \A b \in Account : proxy[b] # None => producers[b] = {}
    BY DEF MayPass, NoProxyCircle, NoCircle
  <1>1. ASSUME NEW x \in Account, proxy[x] \in Account => proxy[x] \in G
        PROVE  x \in G
    <2> SUFFICES ASSUME NEW w, NEW c, Ready(w, c, x, prx, prods)
                 PROVE  PassedOn(w, c, pass[<<w, x>>], x, shares, proxies, prx, prods)
      OBVIOUS
    <2> DEFINE old == w.last_votes[x]
               new == PoolVotesOf(w, x, shares, proxies)
               r == pass[<<w, x>>]
               d == [c EXCEPT ![x] = new]
    <2>0. w \in Books /\ c \in Tally /\ Tallied(w, c, prx, prods)
      BY DEF Ready
    <2>1. PICK passed : OnePass(pass, w, x, old, new, passed, r)
      BY <2>0, PassEffect
    <2>2. new \in [Pool -> Nat]
      BY <2>0, VotesAreCounted
    <2>3. x \in Reach(x) /\ Reach(x) \subseteq Account
      BY ReachedIsClosed DEF Reach
    <2>4. c[x] = old /\ prx[x] = proxy[x] /\ prods[x] = producers[x]
      BY <2>3 DEF Ready
    <2>5. d \in Tally /\ d[x] = new /\ \A b \in Account : b # x => d[b] = c[b]
      BY <2>0, <2>2 DEF Tally
    <2>6. /\ passed \in Books /\ r \in Books
          /\ r.last_votes[x] = new
          /\ \A b \in Account : b # x => r.last_votes[b] = passed.last_votes[b]
          /\ r.proxied_shares = passed.proxied_shares
          /\ r.pool_votes = passed.pool_votes
          /\ r.total_votes = passed.total_votes
      BY <2>1 DEF OnePass
    <2>7. ASSUME NEW e \in Tally, Tallied(passed, e, prx, prods),
                 \A b \in Account : e[b] = After(c, r, x)[b],
                 passed.proxied_shares[x] = w.proxied_shares[x],
                 \A b \in Account : b \notin Reach(x) =>
                   /\ passed.last_votes[b] = w.last_votes[b]
                   /\ passed.proxied_shares[b] = w.proxied_shares[b],
                 \A b \in Reach(x) : b # x => Current(passed, b, shares, proxies)
          PROVE  PassedOn(w, c, r, x, shares, proxies, prx, prods)
      <3> HIDE DEF r, d
      <3>1. After(c, r, x) = e
        BY <2>7 DEF After, Tally
      <3>2. Tallied(r, e, prx, prods)
        BY <2>6, <2>7 DEF Tallied
      <3>3. Current(r, x, shares, proxies)
        <4>1. PoolVotesOf(r, x, shares, proxies) = PoolVotesOf(w, x, shares, proxies)
          BY <2>6, <2>7, SameVotes
        <4> QED
          BY <2>6, <4>1 DEF Current
      <3>4. ASSUME NEW b \in Reach(x), b # x
            PROVE  Current(r, b, shares, proxies)
        <4>1. PoolVotesOf(r, b, shares, proxies) = PoolVotesOf(passed, b, shares, proxies)
          BY <2>6, SameVotes
        <4>2. Current(passed, b, shares, proxies) /\ b \in Account
          BY <2>3, <2>7, <3>4
        <4> QED
          BY <2>6, <3>4, <4>1, <4>2 DEF Current
      <3>5. \A b \in Account : b \notin Reach(x) => /\ r.last_votes[b] = w.last_votes[b]
                                                    /\ r.proxied_shares[b] = w.proxied_shares[b]
        BY <2>3, <2>6, <2>7
      <3> QED
        BY <2>6, <2>7, <3>1, <3>2, <3>3, <3>4, <3>5 DEF PassedOn
    <2>8. CASE proxy[x] = None
      <3>1. GivesProducers(w, producers[x], old, new, passed)
        BY <1>0, <2>1, <2>8 DEF OnePass
      <3> HIDE DEF r, new, old, d
      <3>2. Reach(x) = {x}
        BY <1>0, <2>8, ReachedFromNext DEF Reach
      <3>3. Tallied(passed, d, prx, prods)
        <4>1. /\ prx[x] \notin Account /\ producers[x] \in SUBSET Producer /\ producers[x] = prods[x]
              /\ GivesProducers(w, producers[x], c[x], new, passed)
          BY <1>0, <2>4, <2>8, <3>1
        <4> USE DEF d
        <4> QED
          BY <1>0, <2>0, <2>2, <4>1, TalliedAtProducers
      <3>4. \A b \in Account : d[b] = After(c, r, x)[b]
        BY <2>5, <2>6, <3>2 DEF After
      <3>5. passed.last_votes = w.last_votes /\ passed.proxied_shares = w.proxied_shares
        BY <3>1 DEF GivesProducers
      <3>6. \A b \in Reach(x) : b # x => Current(passed, b, shares, proxies)
        BY <3>2
      <3> USE DEF r
      <3> QED
        BY <2>5, <2>7, <3>3, <3>4, <3>5, <3>6
    <2>9. CASE proxy[x] \in Account
      <3> DEFINE q == proxy[x]
      <3>1. PICK v : GivesProxy(w, q, old, new, v) /\ passed = pass[<<v, q>>]
        BY <1>0, <2>1, <2>9 DEF OnePass
      <3> HIDE DEF r, new, old, d
      <3>2. /\ Reach(q) \subseteq Reach(x) /\ Reach(x) \subseteq {x} \cup Reach(q)
            /\ x \notin Reach(q) /\ q \in Reach(q)
        BY <1>0, <2>9, ReachedFromNext, ReachedIsAhead, ReachedIsClosed DEF Reach
      <3>3. Tallied(v, d, prx, prods)
        <4>1. prx[x] \in Account /\ prods[x] = {} /\ GivesProxy(w, prx[x], c[x], new, v)
          BY <1>0, <2>4, <2>9, <3>1
        <4> USE DEF d
        <4> QED
          BY <1>0, <2>0, <2>2, <4>1, TalliedAtProxy
      <3>4. /\ v \in Books /\ v.last_votes = w.last_votes
            /\ \A b \in Account : b # q => v.proxied_shares[b] = w.proxied_shares[b]
        BY <3>1 DEF GivesProxy
      <3>5. Ready(v, d, q, prx, prods)
        <4>1. ASSUME NEW b \in Reach(q)
              PROVE  d[b] = v.last_votes[b] /\ prx[b] = proxy[b] /\ prods[b] = producers[b]
          <5>1. b \in Reach(x) /\ b \in Account /\ b # x
            BY <2>3, <3>2
          <5> QED
            BY <2>5, <3>4, <5>1 DEF Ready
        <4> QED
          BY <2>5, <3>3, <3>4, <4>1 DEF Ready
      <3>6. PassedOn(v, d, passed, q, shares, proxies, prx, prods)
        BY <1>1, <2>9, <3>1, <3>5
      <3> DEFINE e == After(d, passed, q)
      <3>7. /\ e \in Tally /\ Tallied(passed, e, prx, prods)
            /\ \A b \in Account : b \notin Reach(q) =>
                 /\ passed.last_votes[b] = v.last_votes[b]
                 /\ passed.proxied_shares[b] = v.proxied_shares[b]
            /\ \A b \in Reach(q) : Current(passed, b, shares, proxies)
        BY <3>6 DEF PassedOn
      <3>8. \A b \in Account : e[b] = After(c, r, x)[b]
        <4> TAKE b \in Account
        <4>1. e[b] = IF b \in Reach(q) THEN passed.last_votes[b] ELSE d[b]
          BY DEF After
        <4>2. After(c, r, x)[b] = IF b \in Reach(x) THEN r.last_votes[b] ELSE c[b]
          BY DEF After
        <4> QED
          BY <2>3, <2>5, <2>6, <3>2, <4>1, <4>2
      <3> HIDE DEF e
      <3>9. passed.proxied_shares[x] = w.proxied_shares[x]
        BY <3>2, <3>4, <3>7
      <3>10. \A b \in Account : b \notin Reach(x) =>
               /\ passed.last_votes[b] = w.last_votes[b]
               /\ passed.proxied_shares[b] = w.proxied_shares[b]
        BY <3>2, <3>4, <3>7
      <3>11. \A b \in Reach(x) : b # x => Current(passed, b, shares, proxies)
        BY <3>2, <3>7
      <3> USE DEF r
      <3> QED
        BY <2>7, <3>7, <3>8, <3>9, <3>10, <3>11
    <2> QED
      BY <1>0, <2>8, <2>9
  <1> HIDE DEF G
  <1>2. \A x \in Account : x \in G
    BY <1>0, <1>1, ChainInduction
  <1> QED
    BY <1>2 DEF G

\* The same for update_pool_proxy.
LEMMA UpdatePoolProxyKeepsTally ==
  ASSUME NEW shares, NEW proxies, MayPass(shares, proxies), NEW x \in Account,
         NEW w, NEW c, NEW prx, NEW prods, Ready(w, c, x, prx, prods)
  PROVE  PassedOn(w, c, UpdatePoolProxy(w, x, shares, proxies), x, shares, proxies, prx, prods)
  <1>1. PICK pass : Passes(pass, shares, proxies)
    BY UpdatePoolProxyEnds
  <1>2. UpdatePoolProxy(w, x, shares, proxies) = pass[<<w, x>>]
    BY <1>1 DEF Passes, Ready
  <1> QED
    BY <1>1, <1>2, PassingKeepsTally

\* The books hold the sums of what the accounts were last counted with, but for
\* one, which they count with n.
CountedBut(w, a, n, prx, prods) ==
  \E c \in Tally : /\ c[a] = n /\ \A b \in Account : b # a => c[b] = w.last_votes[b]
                   /\ Tallied(w, c, prx, prods)

\* The books r count a with n, and everybody else as well as w does.
Counts(w, r, a, n, shares, prx, prods) ==
  /\ r \in Books
  /\ r.proxied_shares[a] = w.proxied_shares[a]
  /\ \A b \in Account : b # a /\ Current(w, b, shares, is_proxy) => Current(r, b, shares, is_proxy)
  /\ CountedBut(r, a, n, prx, prods)

\* Ballots that differ from the present ones for one account at most.
BallotsBut(a, prx, prods) ==
  \A b \in Account : b # a => prx[b] = proxy[b] /\ prods[b] = producers[b]

\* An account that votes through a proxy is counted with m instead of n.
LEMMA CountThroughProxy ==
  ASSUME NEW shares, MayPass(shares, is_proxy), NEW prx, NEW prods, NEW a \in Account,
         BallotsBut(a, prx, prods), prods[a] = {}, NEW q \in Account, q = prx[a], a \notin Reach(q),
         NEW w \in Books, NEW n, NEW m \in [Pool -> Nat], CountedBut(w, a, n, prx, prods),
         NEW v, GivesProxy(w, q, n, m, v)
  PROVE  Counts(w, UpdatePoolProxy(v, q, shares, is_proxy), a, m, shares, prx, prods)
  <1> DEFINE r == UpdatePoolProxy(v, q, shares, is_proxy)
  <1>1. PICK c \in Tally : /\ c[a] = n /\ \A b \in Account : b # a => c[b] = w.last_votes[b]
                           /\ Tallied(w, c, prx, prods)
    BY DEF CountedBut
  <1> DEFINE d == [c EXCEPT ![a] = m]
  <1>2. d \in Tally /\ d[a] = m /\ \A b \in Account : b # a => d[b] = w.last_votes[b]
    BY <1>1 DEF Tally
  <1>3. Tallied(v, d, prx, prods)
    <2>1. GivesProxy(w, prx[a], c[a], m, v) /\ IsFiniteSet(Account) /\ prx[a] \in Account
      BY <1>1 DEF MayPass
    <2> QED
      BY <1>1, <2>1, TalliedAtProxy
  <1> HIDE DEF d, r
  <1>4. /\ v \in Books /\ v.last_votes = w.last_votes
        /\ \A b \in Account : b # q => v.proxied_shares[b] = w.proxied_shares[b]
    BY DEF GivesProxy
  <1>5. Reach(q) \subseteq Account /\ q \in Reach(q)
    BY ReachedIsClosed DEF Reach
  <1>6. Ready(v, d, q, prx, prods)
    BY <1>2, <1>3, <1>4, <1>5 DEF Ready, BallotsBut
  <1>7. PassedOn(v, d, r, q, shares, is_proxy, prx, prods)
    BY <1>6, UpdatePoolProxyKeepsTally DEF r
  <1> DEFINE e == After(d, r, q)
  <1>8. /\ r \in Books /\ e \in Tally /\ Tallied(r, e, prx, prods)
        /\ \A b \in Account : b \notin Reach(q) => /\ r.last_votes[b] = v.last_votes[b]
                                                   /\ r.proxied_shares[b] = v.proxied_shares[b]
        /\ \A b \in Reach(q) : Current(r, b, shares, is_proxy)
    BY <1>7 DEF PassedOn
  <1>9. e[a] = m /\ \A b \in Account : b # a => e[b] = r.last_votes[b]
    <2>1. \A b \in Account : e[b] = IF b \in Reach(q) THEN r.last_votes[b] ELSE d[b]
      BY DEF After
    <2> HIDE DEF e
    <2> QED
      BY <1>2, <1>4, <1>8, <2>1
  <1> HIDE DEF e
  <1>10. CountedBut(r, a, m, prx, prods)
    BY <1>8, <1>9 DEF CountedBut
  <1>11. ASSUME NEW b \in Account, b # a, Current(w, b, shares, is_proxy)
         PROVE  Current(r, b, shares, is_proxy)
    <2>1. CASE b \in Reach(q)
      BY <1>8, <2>1
    <2>2. CASE b \notin Reach(q)
      <3>1. r.last_votes[b] = w.last_votes[b] /\ r.proxied_shares[b] = w.proxied_shares[b]
        BY <1>4, <1>5, <1>8, <2>2
      <3>2. PoolVotesOf(r, b, shares, is_proxy) = PoolVotesOf(w, b, shares, is_proxy)
        BY <3>1, SameVotes
      <3> QED
        BY <1>11, <3>1, <3>2 DEF Current
    <2> QED
      BY <2>1, <2>2
  <1>12. r.proxied_shares[a] = w.proxied_shares[a]
    BY <1>4, <1>5, <1>8
  <1>13. Counts(w, r, a, m, shares, prx, prods)
    BY <1>8, <1>10, <1>11, <1>12 DEF Counts
  <1> QED
    BY <1>13 DEF r

\* The same for an account that votes for producers.
LEMMA CountAtProducers ==
  ASSUME NEW shares, MayPass(shares, is_proxy), NEW prx, NEW prods, NEW a \in Account,
         prx[a] \notin Account, NEW ps \in SUBSET Producer, ps = prods[a],
         NEW w \in Books, NEW n, NEW m \in [Pool -> Nat], CountedBut(w, a, n, prx, prods),
         NEW r, GivesProducers(w, ps, n, m, r)
  PROVE  Counts(w, r, a, m, shares, prx, prods)
  <1>1. PICK c \in Tally : /\ c[a] = n /\ \A b \in Account : b # a => c[b] = w.last_votes[b]
                           /\ Tallied(w, c, prx, prods)
    BY DEF CountedBut
  <1> DEFINE d == [c EXCEPT ![a] = m]
  <1>2. d \in Tally /\ d[a] = m /\ \A b \in Account : b # a => d[b] = w.last_votes[b]
    BY <1>1 DEF Tally
  <1>3. Tallied(r, d, prx, prods)
    <2>1. GivesProducers(w, ps, c[a], m, r) /\ IsFiniteSet(Account) /\ IsFiniteSet(Producer)
      BY <1>1 DEF MayPass
    <2> QED
      BY <1>1, <2>1, TalliedAtProducers
  <1> HIDE DEF d
  <1>4. r \in Books /\ r.last_votes = w.last_votes /\ r.proxied_shares = w.proxied_shares
    BY DEF GivesProducers
  <1>5. CountedBut(r, a, m, prx, prods)
    BY <1>2, <1>3, <1>4 DEF CountedBut
  <1>6. ASSUME NEW b \in Account, Current(w, b, shares, is_proxy)
        PROVE  Current(r, b, shares, is_proxy)
    <2>1. PoolVotesOf(r, b, shares, is_proxy) = PoolVotesOf(w, b, shares, is_proxy)
      BY <1>4, SameVotes
    <2> QED
      BY <1>4, <1>6, <2>1 DEF Current
  <1> QED
    BY <1>4, <1>5, <1>6 DEF Counts

\* The books hold the sums of what everybody was last counted with.
Tallies(w, prx, prods) ==
  /\ w \in Books /\ w.last_votes \in Tally /\ Tallied(w, w.last_votes, prx, prods)

\* A ballot of a goes elsewhere than to a itself.
MayGoTo(a, q, ps) ==
  /\ q \in Account \union {None} /\ ps \in SUBSET Producer
  /\ q # None => ps = {} /\ a \notin Reach(q)

\* A new ballot of a is counted: r is w with it instead of the present one.
Recounts(w, r, a, shares, prx, prods) ==
  /\ Tallies(r, prx, prods)
  /\ Current(r, a, shares, is_proxy)
  /\ \A b \in Account : Current(w, b, shares, is_proxy) => Current(r, b, shares, is_proxy)

\* After update_pool_votes an account is counted with what it has, at the proxy
\* or the producers it votes for now, and everybody else as well as before.
LEMMA UpdatePoolVotesRecounts ==
  ASSUME NEW shares, MayPass(shares, is_proxy), NEW w, Tallies(w, proxy, producers),
         NEW a \in Account, NEW q, NEW ps, MayGoTo(a, q, ps),
         NEW prx, NEW prods, BallotsBut(a, prx, prods), prx[a] = q, prods[a] = ps
  PROVE  Recounts(w, UpdatePoolVotes(w, a, q, ps, shares), a, shares, prx, prods)
  <1> DEFINE old == w.last_votes[a]
             new == PoolVotesOf(w, a, shares, is_proxy)
             u == TakenBack(w, a, shares)
             c == IF q # None
                  THEN UpdatePoolProxy(AddProxied(u, q, new), q, shares, is_proxy)
                  ELSE AddPoolVotes(u, ps, new)
             r == UpdatePoolVotes(w, a, q, ps, shares)
  <1>0. /\ w \in Books /\ w.last_votes \in Tally /\ Tallied(w, w.last_votes, proxy, producers)
        /\ NoCircle(Account, proxy) /\ None \notin Account
        /\ IsFiniteSet(Account) /\ IsFiniteSet(Producer)
        /\ proxy[a] \in Account \union {None} /\ producers[a] \in SUBSET Producer
        /\ proxy[a] # None => producers[a] = {}
        /\ q \in Account \union {None} /\ ps \in SUBSET Producer
        /\ q # None => ps = {} /\ a \notin Reach(q)
        /\ BallotsBut(a, proxy, producers)
    BY DEF MayPass, Tallies, NoProxyCircle, NoCircle, MayGoTo, BallotsBut
  <1>1. r = [c EXCEPT !.last_votes[a] = new]
    BY DEF UpdatePoolVotes
  <1>2. new \in [Pool -> Nat] /\ old \in [Pool -> Nat] /\ NoShares \in [Pool -> Nat]
    BY <1>0, VotesAreCounted DEF Tally, NoShares
  <1>2a. new \in Shares /\ old \in Shares
    BY <1>2 DEF Shares
  <1>3. CountedBut(w, a, old, proxy, producers)
    BY <1>0 DEF CountedBut
  <1> HIDE DEF r, new
  <1>4. Counts(w, u, a, NoShares, shares, proxy, producers)
    <2>1. CASE proxy[a] # None
      <3> DEFINE v == SubProxied(w, proxy[a], old)
      <3>1. /\ proxy[a] \in Account /\ a \notin Reach(proxy[a]) /\ producers[a] = {}
        BY <1>0, <2>1, ReachedIsAhead DEF Reach
      <3>2. GivesProxy(w, proxy[a], old, NoShares, v)
        BY <1>0, <1>2a, <3>1, ProxyEntry
      <3>3. u = UpdatePoolProxy(v, proxy[a], shares, is_proxy)
        BY <2>1 DEF TakenBack
      <3> HIDE DEF u, v, old
      <3> QED
        BY <1>0, <1>2, <1>3, <3>1, <3>2, <3>3, CountThroughProxy
    <2>2. CASE proxy[a] = None
      <3>1. u = SubPoolVotes(w, producers[a], old)
        BY <2>2 DEF TakenBack
      <3>2. GivesProducers(w, producers[a], old, NoShares, u)
        BY <1>0, <1>2a, <3>1, ProducersEntries
      <3> HIDE DEF u, old
      <3> QED
        BY <1>0, <1>2, <1>3, <2>2, <3>2, CountAtProducers
    <2> QED
      BY <2>1, <2>2
  <1> HIDE DEF u, old
  <1>5. CountedBut(u, a, NoShares, prx, prods) /\ u \in Books
    <2>1. PICK e \in Tally : /\ e[a] = NoShares
                             /\ \A b \in Account : b # a => e[b] = u.last_votes[b]
                             /\ Tallied(u, e, proxy, producers)
      BY <1>4 DEF Counts, CountedBut
    <2>2. e[a] = NoShares /\ \A i \in Pool : e[a][i] = 0
      BY <2>1 DEF NoShares
    <2>3. ASSUME NEW S, NEW T, \A b \in Account : b # a => (b \in S <=> b \in T), NEW i \in Pool
          PROVE  Column(e, i, S) = Column(e, i, T)
      BY <2>2, <2>3 DEF Column
    <2>4. ASSUME NEW x, NEW i \in Pool
          PROVE  Column(e, i, {b \in Account : prx[b] = x}) = Column(e, i, {b \in Account : proxy[b] = x})
      BY <2>3 DEF BallotsBut
    <2>5. ASSUME NEW p, NEW i \in Pool
          PROVE  Column(e, i, {b \in Account : p \in prods[b]})
                   = Column(e, i, {b \in Account : p \in producers[b]})
      BY <2>3 DEF BallotsBut
    <2>6. Tallied(u, e, prx, prods)
      <3>1. ASSUME NEW x \in Account, NEW i \in Pool
            PROVE  u.proxied_shares[x][i] = SumOf(Column(e, i, {b \in Account : prx[b] = x}))
        <4>1. u.proxied_shares[x][i] = SumOf(Column(e, i, {b \in Account : proxy[b] = x}))
          BY <2>1 DEF Tallied
        <4> QED
          BY <2>4, <4>1
      <3>2. ASSUME NEW p \in Producer, NEW i \in Pool
            PROVE  u.pool_votes[p][i] = SumOf(Column(e, i, {b \in Account : p \in prods[b]}))
        <4>1. u.pool_votes[p][i] = SumOf(Column(e, i, {b \in Account : p \in producers[b]}))
          BY <2>1 DEF Tallied
        <4> QED
          BY <2>5, <4>1
      <3> QED
        BY <2>1, <3>1, <3>2 DEF Tallied
    <2> QED
      BY <1>4, <2>1, <2>6 DEF Counts, CountedBut
  <1>6. Counts(u, c, a, new, shares, prx, prods)
    <2>1. CASE q # None
      <3> DEFINE v == AddProxied(u, q, new)
      <3>1. GivesProxy(u, q, NoShares, new, v)
        BY <1>0, <1>2a, <1>5, <2>1, ProxyEntry
      <3>2. c = UpdatePoolProxy(v, q, shares, is_proxy)
        BY <2>1
      <3> HIDE DEF c, v
      <3>3. prods[a] = {} /\ q \in Account /\ a \notin Reach(q) /\ q = prx[a]
        BY <1>0, <2>1
      <3> QED
        BY <1>2, <1>5, <3>1, <3>2, <3>3, CountThroughProxy
    <2>2. CASE q = None
      <3>1. c = AddPoolVotes(u, ps, new)
        BY <2>2
      <3> HIDE DEF c
      <3>2. GivesProducers(u, ps, NoShares, new, c)
        BY <1>0, <1>2a, <1>5, <3>1, ProducersEntries
      <3>3. prx[a] \notin Account /\ ps \in SUBSET Producer /\ ps = prods[a]
        BY <1>0, <2>2
      <3> QED
        BY <1>2, <1>5, <3>2, <3>3, CountAtProducers
    <2> QED
      BY <2>1, <2>2
  <1> HIDE DEF c
  <1>7. /\ r \in Books
        /\ r.last_votes = [c.last_votes EXCEPT ![a] = new]
        /\ r.proxied_shares = c.proxied_shares
        /\ r.pool_votes = c.pool_votes
        /\ r.total_votes = c.total_votes
    BY <1>1, <1>2a, <1>6, SetLastVotes DEF Counts
  <1>8. PICK e \in Tally : /\ e[a] = new /\ \A b \in Account : b # a => e[b] = c.last_votes[b]
                           /\ Tallied(c, e, prx, prods)
    BY <1>6 DEF Counts, CountedBut
  <1>9. c.last_votes \in [Account -> Shares]
    BY <1>6 DEF Counts, Books
  <1>10. r.last_votes = e
    BY <1>7, <1>8, <1>9 DEF Tally
  <1>11. Tallies(r, prx, prods)
    <2>1. Tallied(r, e, prx, prods)
      BY <1>7, <1>8 DEF Tallied
    <2> QED
      BY <1>7, <1>8, <1>10, <2>1 DEF Tallies
  <1>12. Current(r, a, shares, is_proxy)
    <2>1. r.proxied_shares[a] = w.proxied_shares[a]
      BY <1>4, <1>6, <1>7 DEF Counts
    <2>2. PoolVotesOf(r, a, shares, is_proxy) = new
      BY <2>1, SameVotes DEF new
    <2>3. r.last_votes[a] = new
      BY <1>8, <1>10
    <2> QED
      BY <2>2, <2>3 DEF Current
  <1>13. ASSUME NEW b \in Account, Current(w, b, shares, is_proxy)
         PROVE  Current(r, b, shares, is_proxy)
    <2>1. CASE b = a
      BY <1>12, <2>1
    <2>2. CASE b # a
      <3>1. Current(c, b, shares, is_proxy)
        BY <1>4, <1>6, <1>13, <2>2 DEF Counts
      <3>2. PoolVotesOf(r, b, shares, is_proxy) = PoolVotesOf(c, b, shares, is_proxy)
        BY <1>7, SameVotes
      <3>3. r.last_votes[b] = c.last_votes[b]
        BY <1>7, <1>9, <2>2
      <3> QED
        BY <3>1, <3>2, <3>3 DEF Current
    <2> QED
      BY <2>1, <2>2
  <1>14. Recounts(w, r, a, shares, prx, prods)
    BY <1>11, <1>12, <1>13 DEF Recounts
  <1> QED
    BY <1>14 DEF r

-----------------------------------------------------------------------------
(* The votes.                                                              *)

\* The invariant for PoolVotesAreSound.  Votes can be counted again, and the
\* calls of update_pool_proxy end, since the ballots stay valid.
PoolVotesInv ==
  /\ StakesInv /\ PoolBallotInv /\ upgraded \subseteq Producer
  /\ Tallies(books, proxy, producers)
  /\ VotesAreShares

\* Votes can always be passed on.
LEMMA VotesMayPass ==
  ASSUME StakingPoolConstants, PoolBallotInv, NEW shares \in Tally
  PROVE  MayPass(shares, is_proxy)
  BY DEF StakingPoolConstants, PoolVotesConstants, PoolBallotInv, PoolBallotTypeOK,
         PoolBallotsStayValid, MayBeRecounted, ValidPoolBallot, MayPass

\* No ballot leads back to its owner, be it cast or kept.
LEMMA BallotsLeadAway ==
  ASSUME StakingPoolConstants, PoolBallotInv, NEW a \in Account
  PROVE  /\ MayGoTo(a, proxy[a], producers[a])
         /\ \A q \in Account \union {None}, ps \in SUBSET Producer :
              ValidPoolBallot(a, q, ps, TRUE) => MayGoTo(a, q, ps)
  <1>1. /\ PoolBallotTypeOK /\ PoolBallotsStayValid /\ NoCircle(Account, proxy)
        /\ None \notin Account
    BY DEF StakingPoolConstants, PoolVotesConstants, PoolBallotInv, NoProxyCircle, NoCircle
  <1>2. MayGoTo(a, proxy[a], producers[a])
    <2>1. proxy[a] # None => producers[a] = {} /\ proxy[a] \in Account
      BY <1>1 DEF PoolBallotTypeOK, PoolBallotsStayValid, MayBeRecounted, ValidPoolBallot
    <2>2. proxy[a] # None => a \notin Reach(proxy[a])
      BY <1>1, <2>1, ReachedIsAhead DEF Reach
    <2> QED
      BY <1>1, <2>1, <2>2 DEF MayGoTo, PoolBallotTypeOK
  <1>3. ASSUME NEW q \in Account \union {None}, NEW ps \in SUBSET Producer,
               ValidPoolBallot(a, q, ps, TRUE)
        PROVE  MayGoTo(a, q, ps)
    <2>1. q # None => ps = {} /\ q # a /\ q \in Account /\ proxy[q] = None
      BY <1>1, <1>3 DEF ValidPoolBallot, PoolBallotsStayValid
    <2>2. q # None => a \notin Reach(q)
      BY <1>1, <2>1, ReachedFromNext DEF Reach
    <2> QED
      BY <2>1, <2>2 DEF MayGoTo
  <1> QED
    BY <1>2, <1>3

\* An account's ballot stays, and is counted with the shares it has now.
LEMMA RecountedRecounts ==
  ASSUME StakingPoolConstants, PoolBallotInv, NEW shares \in Tally,
         NEW w, Tallies(w, proxy, producers), NEW a \in Account
  PROVE  Recounts(w, Recounted(w, a, shares), a, shares, proxy, producers)
  <1>1. MayPass(shares, is_proxy) /\ MayGoTo(a, proxy[a], producers[a])
    BY VotesMayPass, BallotsLeadAway
  <1>2. BallotsBut(a, proxy, producers)
    BY DEF BallotsBut
  <1>3. Recounts(w, UpdatePoolVotes(w, a, proxy[a], producers[a], shares), a, shares, proxy, producers)
    BY <1>1, <1>2, UpdatePoolVotesRecounts
  <1> QED
    BY <1>3 DEF Recounted

\* Shares change for some accounts only.
LEMMA OthersStayCurrent ==
  ASSUME NEW w, NEW shares, NEW b, shares[b] = owned_shares[b],
         Current(w, b, owned_shares, is_proxy)
  PROVE  Current(w, b, shares, is_proxy)
  BY DEF Current, PoolVotesOf

\* Whoever's shares change is counted again.
LEMMA RecountKeepsVotes ==
  ASSUME StakingPoolConstants, PoolVotesInv, StakesInv', PoolBallotInv', NEW a \in Account,
         Recount(a), UNCHANGED <<is_proxy, ballots, roster>>,
         \A b \in Account : b # a => owned_shares'[b] = owned_shares[b]
  PROVE  PoolVotesInv'
  <1>1. /\ PoolBallotInv /\ Tallies(books, proxy, producers) /\ upgraded \subseteq Producer
        /\ \A b \in Account : Current(books, b, owned_shares, is_proxy)
    BY DEF PoolVotesInv, VotesAreShares, Current
  <1>2. owned_shares' \in Tally
    BY DEF StakesInv, Tally
  <1>3. books' = Recounted(books, a, owned_shares')
    BY DEF Recount
  <1>4. UNCHANGED <<is_proxy, proxy, producers, upgraded>>
    BY DEF ballots, roster
  <1>5. Recounts(books, books', a, owned_shares', proxy, producers)
    BY <1>1, <1>2, <1>3, RecountedRecounts
  <1>6. \A b \in Account : Current(books', b, owned_shares', is_proxy)
    BY <1>1, <1>5, OthersStayCurrent DEF Recounts
  <1>7. VotesAreShares'
    BY <1>4, <1>6 DEF VotesAreShares, Current
  <1>8. Tallies(books, proxy, producers)'
    BY <1>4, <1>5 DEF Recounts, Tallies, Tallied
  <1> QED
    BY <1>1, <1>4, <1>7, <1>8 DEF PoolVotesInv

\* transferstake counts both accounts again, one after the other.
LEMMA TransferKeepsVotes ==
  ASSUME StakingPoolConstants, PoolVotesInv, StakesInv', PoolBallotInv',
         NEW from \in Account, NEW to \in Account,
         books' = Recounted(Recounted(books, from, owned_shares'), to, owned_shares'),
         UNCHANGED <<is_proxy, ballots, roster>>,
         \A b \in Account : b # from /\ b # to => owned_shares'[b] = owned_shares[b]
  PROVE  PoolVotesInv'
  <1> DEFINE w == Recounted(books, from, owned_shares')
  <1>1. /\ PoolBallotInv /\ Tallies(books, proxy, producers) /\ upgraded \subseteq Producer
        /\ \A b \in Account : Current(books, b, owned_shares, is_proxy)
    BY DEF PoolVotesInv, VotesAreShares, Current
  <1>2. owned_shares' \in Tally
    BY DEF StakesInv, Tally
  <1>4. UNCHANGED <<is_proxy, proxy, producers, upgraded>>
    BY DEF ballots, roster
  <1>5. Recounts(books, w, from, owned_shares', proxy, producers)
    BY <1>1, <1>2, RecountedRecounts
  <1> HIDE DEF w
  <1>6. Tallies(w, proxy, producers)
    BY <1>5 DEF Recounts
  <1>7. Recounts(w, books', to, owned_shares', proxy, producers)
    <2>1. books' = Recounted(w, to, owned_shares')
      BY DEF w
    <2> QED
      BY <1>1, <1>2, <1>6, <2>1, RecountedRecounts
  <1>8. \A b \in Account : Current(books', b, owned_shares', is_proxy)
    <2>1. \A b \in Account : b # to => Current(w, b, owned_shares', is_proxy)
      BY <1>1, <1>5, OthersStayCurrent DEF Recounts
    <2> QED
      BY <1>7, <2>1 DEF Recounts
  <1>9. VotesAreShares'
    BY <1>4, <1>8 DEF VotesAreShares, Current
  <1>10. Tallies(books, proxy, producers)'
    BY <1>4, <1>7 DEF Recounts, Tallies, Tallied
  <1> QED
    BY <1>1, <1>4, <1>9, <1>10 DEF PoolVotesInv

\* A ballot that is cast counts at once.
LEMMA VoteKeepsVotes ==
  ASSUME StakingPoolConstants, PoolVotesInv, StakesInv', PoolBallotInv', NEW a \in Account,
         NEW q \in Account \union {None}, NEW ps \in SUBSET Producer, VoteWithPool(a, q, ps)
  PROVE  PoolVotesInv'
  <1>1. /\ PoolBallotInv /\ Tallies(books, proxy, producers) /\ upgraded \subseteq Producer
        /\ \A b \in Account : Current(books, b, owned_shares, is_proxy)
        /\ owned_shares \in Tally
    BY DEF PoolVotesInv, VotesAreShares, Current, StakesInv, Tally
  <1>2. /\ ValidPoolBallot(a, q, ps, TRUE)
        /\ books' = UpdatePoolVotes(books, a, q, ps, owned_shares)
        /\ proxy' = [proxy EXCEPT ![a] = q] /\ producers' = [producers EXCEPT ![a] = ps]
        /\ owned_shares' = owned_shares /\ is_proxy' = is_proxy /\ upgraded' = upgraded
    BY DEF VoteWithPool, roster
  <1> DEFINE prx == proxy'
             prods == producers'
             r == books'
  <1>3. MayPass(owned_shares, is_proxy) /\ MayGoTo(a, q, ps)
    BY <1>1, <1>2, VotesMayPass, BallotsLeadAway
  <1>4. prx[a] = q /\ prods[a] = ps /\ BallotsBut(a, prx, prods)
    <2>1. proxy \in [Account -> Account \union {None}] /\ producers \in [Account -> SUBSET Producer]
      BY <1>1 DEF PoolBallotInv, PoolBallotTypeOK
    <2> QED
      BY <1>2, <2>1 DEF BallotsBut
  <1>a. r = UpdatePoolVotes(books, a, q, ps, owned_shares)
    BY <1>2
  <1> HIDE DEF prx, prods, r
  <1>5. Recounts(books, r, a, owned_shares, prx, prods)
    BY <1>1, <1>a, <1>3, <1>4, UpdatePoolVotesRecounts
  <1>6. VotesAreShares'
    BY <1>1, <1>2, <1>5 DEF Recounts, VotesAreShares, Current, r
  <1>7. Tallies(books, proxy, producers)'
    BY <1>5 DEF Recounts, Tallies, Tallied, prx, prods, r
  <1> QED
    BY <1>1, <1>2, <1>6, <1>7 DEF PoolVotesInv

\* Whoever becomes a proxy, or is none any more, is counted with the shares it
\* speaks for from then on.
LEMMA RegPoolProxyKeepsVotes ==
  ASSUME StakingPoolConstants, PoolVotesInv, StakesInv', PoolBallotInv', NEW a \in Account,
         NEW isproxy \in BOOLEAN, RegPoolProxy(a, isproxy)
  PROVE  PoolVotesInv'
  <1>1. /\ PoolBallotInv /\ Tallies(books, proxy, producers) /\ upgraded \subseteq Producer
        /\ \A b \in Account : Current(books, b, owned_shares, is_proxy)
        /\ owned_shares \in Tally
    BY DEF PoolVotesInv, VotesAreShares, Current, StakesInv, Tally
  <1>2. /\ is_proxy' = [is_proxy EXCEPT ![a] = isproxy]
        /\ books' = UpdatePoolProxy(books, a, owned_shares, is_proxy')
        /\ UNCHANGED <<owned_shares, proxy, producers, upgraded>>
    BY DEF RegPoolProxy, ballots, roster
  <1>3. /\ is_proxy' \in [Account -> BOOLEAN]
        /\ \A b \in Account : b # a => is_proxy'[b] = is_proxy[b]
    BY <1>1, <1>2 DEF PoolBallotInv, PoolBallotTypeOK
  <1>4. MayPass(owned_shares, is_proxy')
    BY <1>1, <1>3, VotesMayPass DEF MayPass
  <1> DEFINE c == books.last_votes
             r == books'
  <1>5. Ready(books, c, a, proxy, producers)
    BY <1>1 DEF Ready, Tallies
  <1>6. PassedOn(books, c, r, a, owned_shares, is_proxy', proxy, producers)
    BY <1>2, <1>4, <1>5, UpdatePoolProxyKeepsTally
  <1>7. a \in Reach(a)
    BY ReachedIsClosed DEF Reach
  <1> HIDE DEF r
  <1>8. /\ r \in Books
        /\ \A b \in Account : b \notin Reach(a) => /\ r.last_votes[b] = books.last_votes[b]
                                                   /\ r.proxied_shares[b] = books.proxied_shares[b]
        /\ \A b \in Reach(a) : Current(r, b, owned_shares, is_proxy')
        /\ After(c, r, a) \in Tally /\ Tallied(r, After(c, r, a), proxy, producers)
    BY <1>6 DEF PassedOn
  <1>9. After(c, r, a) = r.last_votes
    <2>1. r.last_votes \in [Account -> Shares]
      BY <1>8 DEF Books
    <2> QED
      BY <1>8, <2>1 DEF After
  <1>10. Tallies(r, proxy, producers)
    BY <1>8, <1>9 DEF Tallies
  <1>11. ASSUME NEW b \in Account
         PROVE  Current(r, b, owned_shares, is_proxy')
    <2>1. CASE b \in Reach(a)
      BY <1>8, <2>1
    <2>2. CASE b \notin Reach(a)
      <3>1. b # a /\ is_proxy'[b] = is_proxy[b]
        BY <1>3, <1>7, <2>2
      <3>2. Current(books, b, owned_shares, is_proxy)
        BY <1>1
      <3> QED
        BY <1>8, <2>2, <3>1, <3>2 DEF Current, PoolVotesOf
    <2> QED
      BY <2>1, <2>2
  <1>12. VotesAreShares'
    BY <1>2, <1>11 DEF VotesAreShares, Current, r
  <1>13. Tallies(books, proxy, producers)'
    <2>1. proxy' = proxy /\ producers' = producers
      BY <1>2
    <2>2. Tallies(books', proxy, producers)
      BY <1>10 DEF r
    <2> QED
      BY <2>1, <2>2 DEF Tallies, Tallied
  <1> QED
    BY <1>1, <1>2, <1>12, <1>13 DEF PoolVotesInv

\* Nobody votes at first.
LEMMA PoolVotesInit ==
  ASSUME StakingPoolConstants, Init
  PROVE  PoolVotesInv
  <1> DEFINE z == [a \in Account |-> NoShares]
             t == [p \in Producer |-> NoShares]
  <1>1. /\ books.last_votes = z /\ books.proxied_shares = z
        /\ books.pool_votes = t /\ books.total_votes = NoShares
        /\ upgraded = {} /\ owned_shares = z /\ is_proxy = [a \in Account |-> FALSE]
        /\ books = [last_votes |-> z, proxied_shares |-> z, pool_votes |-> t,
                    total_votes |-> NoShares]
    BY DEF Init, VotingInit
  <1>2. /\ \A i \in Pool : NoShares[i] = 0
        /\ NoShares \in [Pool -> Nat] /\ NoShares \in Shares
    BY DEF NoShares, Shares
  <1>3. z \in Tally /\ z \in [Account -> Shares] /\ t \in [Producer -> Shares]
    BY <1>2 DEF Tally
  <1>4. books \in Books
    <2> HIDE DEF z, t
    <2> QED
      BY <1>1, <1>2, <1>3 DEF Books
  <1>5. ASSUME NEW i \in Pool, NEW S
        PROVE  SumOf(Column(z, i, S)) = 0
    <2>1. Column(z, i, S) = [b \in Account |-> 0]
      BY <1>2 DEF Column
    <2> QED
      BY <2>1, SumOfZeros
  <1>6. \A i \in Pool : SumOf([p \in Producer |-> t[p][i]]) = 0
    <2> TAKE i \in Pool
    <2>1. [p \in Producer |-> t[p][i]] = [p \in Producer |-> 0]
      BY <1>2
    <2> QED
      BY <2>1, SumOfZeros
  <1>7. /\ \A q \in Account, i \in Pool : z[q][i] = 0
        /\ \A p \in Producer, i \in Pool : t[p][i] = 0
    BY <1>2
  <1>8. VotesAreShares
    BY <1>1 DEF VotesAreShares, PoolVotesOf
  <1> HIDE DEF z, t
  <1>9. Tallied(books, z, proxy, producers)
    BY <1>1, <1>2, <1>5, <1>6, <1>7 DEF Tallied
  <1>10. Tallies(books, proxy, producers)
    BY <1>1, <1>3, <1>4, <1>9 DEF Tallies
  <1> QED
    BY <1>1, <1>8, <1>10, StakesInit, BallotsInit DEF PoolVotesInv

\* Every step keeps the votes.
LEMMA PoolVotesNext ==
  ASSUME StakingPoolConstants, PoolVotesInv, [Next]_vars
  PROVE  PoolVotesInv'
  <1>1. StakesInv /\ PoolBallotInv /\ upgraded \subseteq Producer
    BY DEF PoolVotesInv
  <1>2. StakesInv' /\ PoolBallotInv'
    BY <1>1, StakesNext, BallotsNext
  <1>a. owned_shares \in [Account -> [Pool -> Nat]]
    BY <1>1 DEF StakesInv
  <1>3. ASSUME UNCHANGED <<owned_shares, is_proxy, ballots, books>>, upgraded' \subseteq Producer
        PROVE  PoolVotesInv'
    <2>1. UNCHANGED <<owned_shares, is_proxy, proxy, producers, books>>
      BY <1>3 DEF ballots
    <2>2. VotesAreShares' /\ Tallies(books, proxy, producers)'
      BY <2>1 DEF PoolVotesInv, VotesAreShares, PoolVotesOf, Tallies, Tallied
    <2> QED
      BY <1>2, <1>3, <2>2 DEF PoolVotesInv
  <1>4. CASE UNCHANGED votingVars
    BY <1>1, <1>3, <1>4 DEF votingVars, roster
  <1>5. CASE VotingNext
    <2>1. ASSUME NEW p \in Producer, RegProducer(p)
          PROVE  PoolVotesInv'
      BY <1>1, <1>3, <2>1 DEF RegProducer
    <2>2. ASSUME NEW p, Deactivate(p)
          PROVE  PoolVotesInv'
      BY <1>1, <1>3, <2>2 DEF Deactivate
    <2> QED
      BY <1>2, <1>5, <2>1, <2>2, VoteKeepsVotes, RegPoolProxyKeepsVotes DEF VotingNext
  <1>6. CASE StakeNext
    <2>1. ASSUME NEW a \in Account, SetPoolNotif(a)
          PROVE  PoolVotesInv'
      <3>1. UNCHANGED <<owned_shares, is_proxy, ballots, books, roster>>
        BY Zenon, <2>1 DEF SetPoolNotif
      <3> QED
        BY <1>1, <1>3, <3>1 DEF roster
    <2>2. ASSUME NEW a \in Account, NEW i \in Pool, NEW n \in Amounts, Stake2Pool(a, i, n)
          PROVE  PoolVotesInv'
      <3>1. /\ Recount(a) /\ UNCHANGED <<is_proxy, ballots, roster>>
            /\ \E k : owned_shares' = [owned_shares EXCEPT ![a][i] = k]
        BY Zenon, <2>2 DEF Stake2Pool
      <3>2. \A b \in Account : b # a => owned_shares'[b] = owned_shares[b]
        BY <1>a, <3>1
      <3> QED
        BY <1>2, <3>1, <3>2, RecountKeepsVotes
    <2>3. ASSUME NEW a \in Account, NEW i \in Pool, NEW n \in Amounts, ClaimStake(a, i, n)
          PROVE  PoolVotesInv'
      <3>1. /\ Recount(a) /\ UNCHANGED <<is_proxy, ballots, roster>>
            /\ \E k : owned_shares' = [owned_shares EXCEPT ![a][i] = k]
        BY Zenon, <2>3 DEF ClaimStake
      <3>2. \A b \in Account : b # a => owned_shares'[b] = owned_shares[b]
        BY <1>a, <3>1
      <3> QED
        BY <1>2, <3>1, <3>2, RecountKeepsVotes
    <2>4. ASSUME NEW a \in Account, NEW b \in Account, NEW i \in Pool, NEW n \in Amounts,
                 TransferStake(a, b, i, n)
          PROVE  PoolVotesInv'
      <3>1. /\ books' = Recounted(Recounted(books, a, owned_shares'), b, owned_shares')
            /\ UNCHANGED <<is_proxy, ballots, roster>>
            /\ \E k, m : owned_shares' = [owned_shares EXCEPT ![a][i] = k, ![b][i] = m]
        BY Zenon, <2>4 DEF TransferStake
      <3>2. \A d \in Account : d # a /\ d # b => owned_shares'[d] = owned_shares[d]
        BY <1>a, <3>1
      <3> QED
        BY <1>2, <3>1, <3>2, TransferKeepsVotes
    <2>5. ASSUME NEW a \in Account, NEW i \in Pool, NEW j \in Pool, NEW n \in Amounts,
                 UpgradeStake(a, i, j, n)
          PROVE  PoolVotesInv'
      <3>1. /\ Recount(a) /\ UNCHANGED <<is_proxy, ballots, roster>>
            /\ \E k, m : owned_shares' = [owned_shares EXCEPT ![a][i] = k, ![a][j] = m]
        BY Zenon, <2>5 DEF UpgradeStake
      <3>2. \A b \in Account : b # a => owned_shares'[b] = owned_shares[b]
        BY <1>a, <3>1
      <3> QED
        BY <1>2, <3>1, <3>2, RecountKeepsVotes
    <2>6. ASSUME NEW n, NEW k, TransitionChannelToPools(n, k) \/ ChannelNamebid(n, k)
          PROVE  PoolVotesInv'
      BY <1>4, <2>6 DEF TransitionChannelToPools, ChannelNamebid
    <2>7. CASE NextSlot
      BY <1>4, <2>7 DEF NextSlot
    <2> QED
      BY <1>6, <2>1, <2>2, <2>3, <2>4, <2>5, <2>6, <2>7 DEF StakeNext
  <1>7. CASE UNCHANGED vars
    BY <1>4, <1>7 DEF vars
  <1> QED
    BY <1>5, <1>6, <1>7 DEF Next

\* What the invariant says of the votes is what the runs check.
LEMMA PoolVotesInvIsSound ==
  ASSUME StakingPoolConstants, PoolVotesInv
  PROVE  VotingTypeOK /\ PoolVotesAreSound
  <1>1. /\ books \in Books /\ books.last_votes \in Tally
        /\ Tallied(books, books.last_votes, proxy, producers)
        /\ IsFiniteSet(Account) /\ IsFiniteSet(Producer)
    BY DEF PoolVotesInv, Tallies, StakingPoolConstants, PoolVotesConstants
  <1>2. \A S, i : LastVotesOf(S, i) = Column(books.last_votes, i, S)
    BY DEF LastVotesOf, Column
  <1>3. ProxiedSharesAddUp /\ PoolVotesAddUp /\ TotalVotesAddUp
    BY <1>1, <1>2 DEF ProxiedSharesAddUp, PoolVotesAddUp, TotalVotesAddUp, Tallied
  <1>4. books.proxied_shares \in Tally /\ books.pool_votes \in [Producer -> [Pool -> Nat]]
    BY <1>1, TalliedTypes
  <1>5. books.total_votes \in [Pool -> Nat]
    <2>1. ASSUME NEW i \in Pool
          PROVE  books.total_votes[i] \in Nat
      <3> DEFINE f == [p \in Producer |-> books.pool_votes[p][i]]
      <3>1. f \in [Producer -> Nat] /\ books.total_votes[i] = SumOf(f)
        BY <1>1, <1>4 DEF Tallied
      <3> HIDE DEF f
      <3> QED
        BY <1>1, <3>1, SumIsFinite, FS_CardinalityType DEF SumOf
    <2>2. books.total_votes \in [Pool -> Int]
      BY <1>1 DEF Books, Shares
    <2> QED
      BY <2>1, <2>2
  <1>6. books \in [last_votes : Tally, proxied_shares : Tally,
                   pool_votes : [Producer -> [Pool -> Nat]], total_votes : [Pool -> Nat]]
    BY <1>1, <1>4, <1>5 DEF Books
  <1>7. VotingTypeOK
    BY <1>6 DEF VotingTypeOK, PoolVotesInv, StakesInv, PoolBallotInv, PoolBallotTypeOK, Tally
  <1> QED
    BY <1>3, <1>7 DEF PoolVotesAreSound, PoolVotesInv, PoolBallotInv

\* Whatever is staked, claimed, transferred or upgraded, voted, registered or
\* left, and however far a change is passed on along the proxies: everybody is
\* counted with the shares it has and speaks for now, each proxy speaks for
\* the votes cast through it, each producer has those cast for it, and the
\* totals are their sums.
THEOREM PoolVotesStaySound ==
  ASSUME StakingPoolConstants PROVE Spec => [](VotingTypeOK /\ PoolVotesAreSound)
  <1>1. Init => PoolVotesInv
    BY PoolVotesInit
  <1>2. PoolVotesInv /\ [Next]_vars => PoolVotesInv'
    BY PoolVotesNext
  <1>3. PoolVotesInv => VotingTypeOK /\ PoolVotesAreSound
    BY PoolVotesInvIsSound
  <1> QED
    BY <1>1, <1>2, <1>3, PTL DEF Spec
==============================================================================
