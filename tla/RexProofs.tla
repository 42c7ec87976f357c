------------------------------- MODULE RexProofs -------------------------------
(***************************************************************************)
(* Theorems about the three parts of REX that keep their own books, for    *)
(* any parameters: the balance of an owner, whose days pass by themselves  *)
(* (RexBalance), the pool that returns what REX earns (RexReturns), and    *)
(* the pool whose tokens are lent and sold by way of a queue (RexPool).    *)
(***************************************************************************)
EXTENDS RexPool, WellFoundedInduction, SequenceTheorems

CONSTANTS MaturityDays, Amounts, MaxRex   \* of RexBalance

VARIABLES rb, acquired, sold

Balance == INSTANCE RexBalance

-----------------------------------------------------------------------------
(* Sums over days.                                                         *)

\* The operators of that module are those of this one.
LEMMA SameInBalance ==
  /\ \A f : Balance!SumOf(f) = SumOf(f)
  /\ \A S : Balance!Min(S) = Min(S) /\ Balance!Max(S) = Max(S)
  <1>1. ASSUME NEW f
        PROVE  Balance!SumOf(f) = SumOf(f)
    BY Zenon DEF Balance!SumOf, Balance!Units, Balance!Cardinality, SumOf, Units, Cardinality
  <1>2. ASSUME NEW S
        PROVE  Balance!Min(S) = Min(S) /\ Balance!Max(S) = Max(S)
    BY DEF Balance!Min, Min, Balance!Max, Max
  <1> QED
    BY <1>1, <1>2

\* What the entries up to a day add up to.
UpTo(f, k) == SumOf([day \in 0 .. k |-> f[day]])

\* A table by the days that are left instead of those that have passed.
Reversed(f) == [day \in Balance!Days |-> f[MaturityDays - day]]

\* Sums over days are natural numbers, and that up to the last day is the
\* whole sum.
LEMMA DaySums ==
  ASSUME Balance!RexBalanceConstants, NEW f \in [Balance!Days -> Nat]
  PROVE  /\ IsFiniteSet(Units(f)) /\ SumOf(f) \in Nat
         /\ \A k \in Balance!Days : /\ [day \in 0 .. k |-> f[day]] \in [0 .. k -> Nat]
                            /\ IsFiniteSet(Units([day \in 0 .. k |-> f[day]]))
                            /\ UpTo(f, k) \in Nat
                            /\ f[k] <= UpTo(f, k)
         /\ UpTo(f, MaturityDays) = SumOf(f)
  <1>1. MaturityDays \in Nat
    BY DEF Balance!RexBalanceConstants
  <1>2. \A k \in Balance!Days : k \in Nat /\ k \in 0 .. k /\ 0 .. k \subseteq Balance!Days /\ IsFiniteSet(0 .. k)
    <2> SUFFICES ASSUME NEW k \in Balance!Days
                 PROVE  k \in Nat /\ k \in 0 .. k /\ 0 .. k \subseteq Balance!Days /\ IsFiniteSet(0 .. k)
      OBVIOUS
    <2>1. k \in Nat /\ k <= MaturityDays
      BY <1>1 DEF Balance!Days
    <2>2. IsFiniteSet(0 .. k)
      BY <2>1, FS_Interval
    <2> QED
      BY <1>1, <2>1, <2>2 DEF Balance!Days
  <1>3. IsFiniteSet(Balance!Days)
    BY <1>1, FS_Interval DEF Balance!Days
  <1>4. IsFiniteSet(Units(f)) /\ SumOf(f) \in Nat
    BY <1>3, SumIsFinite, FS_CardinalityType DEF SumOf
  <1>5. ASSUME NEW k \in Balance!Days
        PROVE  /\ [day \in 0 .. k |-> f[day]] \in [0 .. k -> Nat]
               /\ IsFiniteSet(Units([day \in 0 .. k |-> f[day]]))
               /\ UpTo(f, k) \in Nat
               /\ f[k] <= UpTo(f, k)
    <2> DEFINE g == [day \in 0 .. k |-> f[day]]
    <2>1. g \in [0 .. k -> Nat] /\ k \in 0 .. k /\ g[k] = f[k]
      BY <1>2
    <2> HIDE DEF g
    <2>2. IsFiniteSet(Units(g))
      BY <1>2, <2>1, SumIsFinite
    <2>3. SumOf(g) \in Nat /\ g[k] <= SumOf(g)
      BY <2>1, <2>2, SumBoundsEntry
    <2> QED
      BY <2>1, <2>2, <2>3 DEF UpTo, g
  <1>6. UpTo(f, MaturityDays) = SumOf(f)
    <2>1. f = [day \in 0 .. MaturityDays |-> f[day]]
      BY DEF Balance!Days
    <2> QED
      BY <2>1 DEF UpTo
  <1> QED
    BY <1>4, <1>5, <1>6

\* A change of one day shows in the sums from that day on.
LEMMA DayChanged ==
  ASSUME Balance!RexBalanceConstants, NEW f \in [Balance!Days -> Nat], NEW g \in [Balance!Days -> Nat],
         NEW j \in Balance!Days, \A day \in Balance!Days \ {j} : g[day] = f[day], NEW k \in Balance!Days
  PROVE  /\ SumOf(g) = SumOf(f) - f[j] + g[j]
         /\ j <= k => UpTo(g, k) = UpTo(f, k) - f[j] + g[j]
         /\ ~(j <= k) => UpTo(g, k) = UpTo(f, k)
  <1>1. MaturityDays \in Nat /\ j \in 0 .. MaturityDays /\ k \in 0 .. MaturityDays
    BY DEF Balance!RexBalanceConstants, Balance!Days
  <1>2. SumOf(g) = SumOf(f) - f[j] + g[j]
    <2>1. IsFiniteSet(Units(f))
      BY DaySums
    <2> QED
      BY <2>1, SumOneEntry
  <1>3. ASSUME j <= k
        PROVE  UpTo(g, k) = UpTo(f, k) - f[j] + g[j]
    <2> DEFINE F == [day \in 0 .. k |-> f[day]]
               G == [day \in 0 .. k |-> g[day]]
               S == 0 .. k
    <2>1. F \in [S -> Nat] /\ G \in [S -> Nat] /\ IsFiniteSet(Units(F))
      BY DaySums
    <2>2. j \in S /\ F[j] = f[j] /\ G[j] = g[j]
      BY <1>1, <1>3
    <2>3. \A day \in S \ {j} : G[day] = F[day]
      BY <1>1 DEF Balance!Days
    <2> HIDE DEF F, G, S
    <2>4. SumOf(G) = SumOf(F) - F[j] + G[j]
      BY ONLY <2>1, <2>2, <2>3, SumOneEntry
    <2> QED
      BY <2>2, <2>4 DEF UpTo, F, G
  <1>4. ASSUME ~(j <= k)
        PROVE  UpTo(g, k) = UpTo(f, k)
    <2>1. \A day \in 0 .. k : day \in Balance!Days \ {j}
      BY <1>1, <1>4 DEF Balance!Days
    <2>2. [day \in 0 .. k |-> g[day]] = [day \in 0 .. k |-> f[day]]
      BY <2>1
    <2> QED
      BY <2>2 DEF UpTo
  <1> QED
    BY <1>2, <1>3, <1>4

\* A day later each sum is the one up to the day after it.
LEMMA DaysShifted ==
  ASSUME Balance!RexBalanceConstants, NEW f \in [Balance!Days -> Nat], NEW g \in [Balance!Days -> Nat],
         g[0] = f[0] + f[1], g[MaturityDays] = 0,
         \A day \in Balance!Days \ {0, MaturityDays} : g[day] = f[day + 1]
  PROVE  /\ SumOf(g) = SumOf(f)
         /\ \A k \in 0 .. MaturityDays - 1 : UpTo(g, k) = UpTo(f, k + 1)
  <1>1. MaturityDays \in Nat /\ MaturityDays >= 1 /\ Balance!Days = 0 .. MaturityDays
    BY DEF Balance!RexBalanceConstants, Balance!Days
  <1>2. ASSUME NEW k \in 0 .. MaturityDays - 1
        PROVE  UpTo(g, k) = UpTo(f, k + 1)
    <2> DEFINE A == 0 .. k + 1
               B == 1 .. k + 1
               Z == {0}
               F == [day \in A |-> f[day]]
               E == [day \in A |-> IF day = 0 THEN 0 ELSE IF day = 1 THEN f[0] + f[1] ELSE f[day]]
               EB == [day \in B |-> E[day]]
               EZ == [day \in Z |-> E[day]]
               S == 0 .. k
               G == [day \in S |-> g[day]]
               at == [day \in S |-> day + 1]
               back == [day \in B |-> day - 1]
    <2>1. /\ k \in Nat /\ k + 1 \in Balance!Days /\ k \in Balance!Days /\ A \subseteq Balance!Days
          /\ 0 \in A /\ 1 \in A /\ 0 \in Balance!Days /\ 1 \in Balance!Days
      BY <1>1
    <2>2. F \in [A -> Nat] /\ IsFiniteSet(Units(F)) /\ UpTo(f, k + 1) = SumOf(F)
      BY <2>1, DaySums DEF UpTo
    <2>3. G \in [S -> Nat] /\ IsFiniteSet(Units(G)) /\ UpTo(g, k) = SumOf(G)
      BY <2>1, DaySums DEF UpTo
    <2>4. E \in [A -> Nat]
      <3>1. f[0] + f[1] \in Nat
        BY <2>1
      <3> QED
        BY <2>1, <3>1
    <2>5. /\ F[0] = f[0] /\ F[1] = f[1] /\ E[0] = 0 /\ E[1] = f[0] + f[1]
          /\ \A day \in A \ {0, 1} : E[day] = F[day]
      BY <2>1
    <2>6. f[0] \in Nat /\ f[1] \in Nat
      BY <2>1
    <2>7. B \union Z = A /\ B \intersect Z = {} /\ 0 \in Z /\ \A day \in Z : day = 0
      BY <2>1
    <2>8. /\ EB \in [B -> Nat] /\ EZ \in [Z -> Nat]
          /\ EZ[0] = 0 /\ \A day \in Z \ {0} : EZ[day] = 0
      <3>1. B \subseteq A /\ Z \subseteq A
        BY <2>7
      <3> QED
        BY <2>4, <2>5, <3>1
    <2>9. /\ at \in [S -> B] /\ back \in [B -> S]
          /\ \A day \in B : at[back[day]] = day
          /\ \A day \in S : back[at[day]] = day
      BY <2>1
    <2>10. \A day \in S : G[day] = EB[at[day]]
      <3> SUFFICES ASSUME NEW day \in S
                   PROVE  G[day] = EB[at[day]]
        OBVIOUS
      <3>1. at[day] = day + 1 /\ day + 1 \in B /\ G[day] = g[day] /\ day \in 0 .. MaturityDays - 1
        BY <1>1, <2>1
      <3>2. CASE day = 0
        BY <2>5, <2>6, <3>1, <3>2
      <3>3. CASE day # 0
        <4>1. day \in Balance!Days \ {0, MaturityDays} /\ day + 1 \in A \ {0, 1}
          BY <1>1, <2>1, <3>1, <3>3
        <4>2. g[day] = f[day + 1] /\ E[day + 1] = f[day + 1]
          BY <2>5, <4>1
        <4> QED
          BY <3>1, <4>2
      <3> QED
        BY <3>2, <3>3
    <2>11. 0 \in A /\ 1 \in A /\ 0 # 1
      BY <2>1
    <2> HIDE DEF A, B, Z, F, E, EB, EZ, S, G, at, back
    <2>12. IsFiniteSet(Units(E)) /\ SumOf(E) - E[0] - E[1] = SumOf(F) - F[0] - F[1]
      BY ONLY <2>2, <2>4, <2>5, <2>11, SumTwoEntries, SMTT(60)
    <2>13. SumOf(E) \in Nat /\ SumOf(F) \in Nat
      BY <2>2, <2>12, FS_CardinalityType DEF SumOf
    <2>14. SumOf(E) = SumOf(F)
      BY <2>5, <2>6, <2>12, <2>13
    <2>15. /\ IsFiniteSet(Units(EB)) /\ IsFiniteSet(Units(EZ))
           /\ SumOf(E) = SumOf(EB) + SumOf(EZ)
      <3>1. IsFiniteSet(Units(E))
        BY <2>12
      <3>2. B \union Z = A /\ B \intersect Z = {}
        BY <2>7
      <3>3. /\ IsFiniteSet(Units([day \in B |-> E[day]])) /\ IsFiniteSet(Units([day \in Z |-> E[day]]))
            /\ SumOf(E) = SumOf([day \in B |-> E[day]]) + SumOf([day \in Z |-> E[day]])
        BY ONLY <2>4, <3>1, <3>2, SumOfParts
      <3> QED
        BY <3>3 DEF EB, EZ
    <2>16. SumOf(EZ) = 0
      BY <2>7, <2>8, SumOfOneEntry
    <2>17. SumOf(EB) \in Nat
      BY <2>15, FS_CardinalityType DEF SumOf
    <2>18. SumOf(G) = SumOf(EB)
      BY ONLY <2>3, <2>8, <2>9, <2>10, <2>15, SumOfRenamed
    <2> QED
      BY <2>2, <2>3, <2>14, <2>15, <2>16, <2>17, <2>18
  <1>3. SumOf(g) = SumOf(f)
    <2> DEFINE last == MaturityDays - 1
    <2>1. last \in 0 .. MaturityDays - 1 /\ last + 1 = MaturityDays /\ last \in Balance!Days
          /\ MaturityDays \in Balance!Days
      BY <1>1
    <2>2. UpTo(g, last) = SumOf(f)
      BY <1>2, <2>1, DaySums
    <2>3. UpTo(g, MaturityDays) = UpTo(g, last) + g[MaturityDays]
      <3> DEFINE A == 0 .. MaturityDays
                 B == 0 .. last
                 C == {MaturityDays}
                 G == [day \in A |-> g[day]]
                 GB == [day \in B |-> G[day]]
                 GC == [day \in C |-> G[day]]
      <3>1. G \in [A -> Nat] /\ IsFiniteSet(Units(G)) /\ UpTo(g, MaturityDays) = SumOf(G)
        BY <2>1, DaySums DEF UpTo
      <3>2. B \union C = A /\ B \intersect C = {} /\ MaturityDays \in C
        <4>1. \A day \in A : day \in B \/ day \in C
          BY <1>1, <2>1
        <4>2. ~(MaturityDays \in B) /\ B \subseteq A /\ MaturityDays \in A
          BY <1>1, <2>1
        <4> HIDE DEF A, B
        <4> QED
          BY <4>1, <4>2
      <3>3. UpTo(g, last) = SumOf(GB)
        <4>1. GB = [day \in 0 .. last |-> g[day]]
          BY <3>2
        <4> QED
          BY <4>1 DEF UpTo
      <3>4. /\ GC \in [C -> Nat] /\ GC[MaturityDays] = g[MaturityDays]
            /\ \A day \in C \ {MaturityDays} : GC[day] = 0
        BY <1>1, <3>2
      <3> HIDE DEF A, B, C, G
      <3>5. SumOf(G) = SumOf(GB) + SumOf(GC)
        BY <3>1, <3>2, SumOfParts
      <3> HIDE DEF GB, GC
      <3>6. SumOf(GC) = g[MaturityDays]
        BY <3>2, <3>4, SumOfOneEntry
      <3> QED
        BY <3>1, <3>3, <3>5, <3>6
    <2> QED
      BY <2>2, <2>3, DaySums
  <1> QED
    BY <1>2, <1>3

-----------------------------------------------------------------------------
(* What a move to savings takes from the days.                             *)

\* The smaller and the larger of two numbers.
LEMMA MinMaxOfTwo ==
  ASSUME NEW m \in Int, NEW n \in Int
  PROVE  /\ Min({m, n}) = IF m <= n THEN m ELSE n
         /\ Max({m, n}) = IF m >= n THEN m ELSE n
  <1>1. ASSUME NEW x \in {m, n}, \A y \in {m, n} : x <= y
        PROVE  x = IF m <= n THEN m ELSE n
    BY <1>1
  <1>2. ASSUME NEW x \in {m, n}, \A y \in {m, n} : x >= y
        PROVE  x = IF m >= n THEN m ELSE n
    BY <1>2
  <1>3. \E x \in {m, n} : \A y \in {m, n} : x <= y
    OBVIOUS
  <1>4. \E x \in {m, n} : \A y \in {m, n} : x >= y
    OBVIOUS
  <1> QED
    BY <1>1, <1>2, <1>3, <1>4 DEF Min, Max

\* What matures after a day.
LaterThan(f, day) == SumOf([d \in day + 1 .. MaturityDays |-> f[d]])

\* What matures after a day is a part of the whole, and contains each later
\* day and what matures after it.
LEMMA AfterDay ==
  ASSUME Balance!RexBalanceConstants, NEW f \in [Balance!Days -> Nat]
  PROVE  \A day \in Balance!Days :
           /\ LaterThan(f, day) \in Nat
           /\ LaterThan(f, day) + f[day] <= SumOf(f)
           /\ \A late \in Balance!Days : day < late => LaterThan(f, late) + f[late] <= LaterThan(f, day)
  <1>1. MaturityDays \in Nat /\ Balance!Days = 0 .. MaturityDays
    BY DEF Balance!RexBalanceConstants, Balance!Days
  <1>2. ASSUME NEW B, B \subseteq Balance!Days
        PROVE  /\ [d \in B |-> f[d]] \in [B -> Nat]
               /\ IsFiniteSet(Units([d \in B |-> f[d]]))
               /\ SumOf([d \in B |-> f[d]]) \in Nat
    <2> DEFINE g == [d \in B |-> f[d]]
    <2>1. g \in [B -> Nat]
      BY <1>2
    <2>2. IsFiniteSet(B)
      <3>1. IsFiniteSet(Balance!Days)
        BY <1>1, FS_Interval
      <3> QED
        BY <1>2, <3>1, FS_Subset
    <2> HIDE DEF g
    <2>3. IsFiniteSet(Units(g)) /\ SumOf(g) \in Nat
      BY <2>1, <2>2, SumIsFinite, FS_CardinalityType DEF SumOf
    <2> QED
      BY <2>1, <2>3 DEF g
  <1>3. ASSUME NEW B, NEW C, C \subseteq B, B \subseteq Balance!Days
        PROVE  SumOf([d \in C |-> f[d]]) <= SumOf([d \in B |-> f[d]])
    <2> DEFINE g == [d \in B |-> f[d]]
               h == [d \in C |-> f[d]]
               at == [d \in C |-> d]
    <2>1. g \in [B -> Nat] /\ IsFiniteSet(Units(g)) /\ h \in [C -> Nat]
      BY <1>2, <1>3
    <2>2. /\ at \in [C -> B]
          /\ \A x \in C : \A y \in C : at[x] = at[y] => x = y
          /\ \A x \in C : h[x] <= g[at[x]]
      <3>1. \A x \in C : x \in B /\ x \in Balance!Days /\ f[x] \in Nat
        BY <1>3
      <3> QED
        BY <1>3, <3>1
    <2> HIDE DEF g, h, at
    <2> QED
      BY <2>1, <2>2, SumOfSelection DEF g, h
  <1>4. ASSUME NEW day \in Balance!Days
        PROVE  /\ LaterThan(f, day) \in Nat
               /\ SumOf([d \in day .. MaturityDays |-> f[d]]) = LaterThan(f, day) + f[day]
    <2> DEFINE A == day .. MaturityDays
               B == day + 1 .. MaturityDays
               Z == {day}
               g == [d \in A |-> f[d]]
               gb == [d \in B |-> g[d]]
               gz == [d \in Z |-> g[d]]
    <2>1. day \in Nat /\ day <= MaturityDays /\ A \subseteq Balance!Days /\ B \subseteq Balance!Days
          /\ B \subseteq A /\ day \in A
      BY <1>1
    <2>2. B \union Z = A /\ B \intersect Z = {}
      <3>1. \A d \in A : d \in B \/ d = day
        BY <2>1
      <3>2. day \notin B
        BY <2>1
      <3> HIDE DEF A, B
      <3> QED
        BY <2>1, <3>1, <3>2
    <2>3. g \in [A -> Nat] /\ IsFiniteSet(Units(g)) /\ LaterThan(f, day) \in Nat
      BY <1>2, <2>1 DEF LaterThan
    <2>4. gb = [d \in B |-> f[d]]
      BY <2>1
    <2>5. gz \in [Z -> Nat] /\ gz[day] = f[day] /\ day \in Z /\ \A x \in Z \ {day} : gz[x] = 0
      BY <2>1, <2>3
    <2> HIDE DEF A, Z, g
    <2>6. SumOf(g) = SumOf(gb) + SumOf(gz)
      <3>1. IsFiniteSet(Units(g)) /\ g \in [A -> Nat]
        BY <2>3
      <3>2. SumOf(g) = SumOf([d \in B |-> g[d]]) + SumOf([d \in Z |-> g[d]])
        <4> HIDE DEF B
        <4> QED
          BY ONLY <2>2, <3>1, SumOfParts
      <3> QED
        BY <3>2
    <2>7. SumOf(gz) = f[day]
      <3> HIDE DEF gz
      <3> QED
        BY <2>5, SumOfOneEntry
    <2> QED
      BY <2>3, <2>4, <2>6, <2>7 DEF LaterThan, A, g
  <1>5. ASSUME NEW day \in Balance!Days
        PROVE  LaterThan(f, day) + f[day] <= SumOf(f)
    <2>1. SumOf([d \in day .. MaturityDays |-> f[d]]) <= SumOf([d \in Balance!Days |-> f[d]])
      <3>1. day .. MaturityDays \subseteq Balance!Days /\ Balance!Days \subseteq Balance!Days
        BY <1>1
      <3> QED
        BY <1>3, <3>1
    <2>2. [d \in Balance!Days |-> f[d]] = f
      OBVIOUS
    <2> QED
      BY <1>4, <2>1, <2>2
  <1>6. ASSUME NEW day \in Balance!Days, NEW late \in Balance!Days, day < late
        PROVE  LaterThan(f, late) + f[late] <= LaterThan(f, day)
    <2>1. late .. MaturityDays \subseteq day + 1 .. MaturityDays
          /\ day + 1 .. MaturityDays \subseteq Balance!Days
      BY <1>1, <1>6
    <2>2. SumOf([d \in late .. MaturityDays |-> f[d]]) <= LaterThan(f, day)
      BY <1>3, <2>1 DEF LaterThan
    <2> QED
      BY <1>4, <2>2
  <1> QED
    BY <1>4, <1>5, <1>6

\* The units of all days in the order in which a move to savings takes them:
\* from the last day to the first.
Place(f, unit) == LaterThan(f, unit[1]) + unit[2]

\* Each unit has a place of its own, and every place up to the sum is one's.
LEMMA UnitsHavePlaces ==
  ASSUME Balance!RexBalanceConstants, NEW f \in [Balance!Days -> Nat]
  PROVE  [u \in Units(f) |-> Place(f, u)] \in Bijection(Units(f), 1 .. SumOf(f))
  <1> DEFINE place == [u \in Units(f) |-> Place(f, u)]
             P == 1 .. SumOf(f)
  <1>1. IsFiniteSet(Units(f)) /\ SumOf(f) \in Nat
    BY DaySums
  <1>2. MaturityDays \in Nat /\ Balance!Days = 0 .. MaturityDays
    BY DEF Balance!RexBalanceConstants, Balance!Days
  <1>3. ASSUME NEW u \in Units(f)
        PROVE  /\ u[1] \in Balance!Days /\ f[u[1]] \in Nat /\ u[2] \in 1 .. f[u[1]] /\ u = <<u[1], u[2]>>
               /\ u[1] \in Int /\ u[2] \in Int /\ u[2] >= 1 /\ u[2] <= f[u[1]]
               /\ LaterThan(f, u[1]) \in Nat
               /\ LaterThan(f, u[1]) + f[u[1]] <= SumOf(f)
    <2>1. u[1] \in Balance!Days /\ u[2] \in 1 .. f[u[1]] /\ u = <<u[1], u[2]>>
      BY DEF Units
    <2>2. f[u[1]] \in Nat
      BY <2>1
    <2>3. u[1] \in Int /\ u[2] \in Int /\ u[2] >= 1 /\ u[2] <= f[u[1]]
      BY <1>2, <2>1, <2>2
    <2> QED
      BY <2>1, <2>2, <2>3, AfterDay
  <1>4. place \in [Units(f) -> P]
    <2> SUFFICES ASSUME NEW u \in Units(f)
                 PROVE  Place(f, u) \in P
      OBVIOUS
    <2> QED
      BY <1>1, <1>3 DEF Place
  <1>5. ASSUME NEW u \in Units(f), NEW w \in Units(f), u[1] < w[1]
        PROVE  Place(f, w) < Place(f, u)
    <2>1. LaterThan(f, w[1]) + f[w[1]] <= LaterThan(f, u[1])
      BY <1>3, <1>5, AfterDay
    <2> DEFINE au == LaterThan(f, u[1])
               aw == LaterThan(f, w[1])
               fw == f[w[1]]
               nu == u[2]
               nw == w[2]
    <2>2. au \in Nat /\ aw \in Nat /\ fw \in Nat /\ nu \in Int /\ nw \in Int /\ nu >= 1 /\ nw <= fw
      BY <1>3
    <2>3. aw + fw <= au
      BY <2>1
    <2> HIDE DEF au, aw, fw, nu, nw
    <2>4. aw + nw < au + nu
      BY <2>2, <2>3
    <2> QED
      BY <2>4 DEF Place, au, aw, nu, nw
  <1>6. ASSUME NEW u \in Units(f), NEW w \in Units(f), place[u] = place[w]
        PROVE  u = w
    <2>1. Place(f, u) = Place(f, w) /\ Place(f, u) \in Int
      BY <1>1, <1>4, <1>6
    <2>2. ~(u[1] < w[1]) /\ ~(w[1] < u[1])
      BY <1>1, <1>4, <1>5, <2>1
    <2>3. u[1] = w[1]
      BY <1>3, <2>2
    <2>4. u[2] = w[2]
      BY <1>3, <2>1, <2>3 DEF Place
    <2> QED
      BY <1>3, <2>3, <2>4
  <1> HIDE DEF place, P
  <1>7. place \in Injection(Units(f), P)
    BY <1>4, <1>6 DEF Injection, IsInjective
  <1>8. IsFiniteSet(P) /\ Cardinality(P) = SumOf(f)
    <2>1. IsFiniteSet(1 .. SumOf(f)) /\ Cardinality(1 .. SumOf(f)) = IF 1 > SumOf(f) THEN 0 ELSE SumOf(f) - 1 + 1
      BY <1>1, FS_Interval
    <2> QED
      BY <1>1, <2>1 DEF P
  <1>9. place \in Surjection(Units(f), P)
    BY <1>7, <1>8, FS_Injection DEF SumOf
  <1> QED
    BY <1>7, <1>9 DEF Bijection, place, P

\* A move to savings takes all it needs from the days, or all they have.
LEMMA SavedAddsUp ==
  ASSUME Balance!RexBalanceConstants, NEW b, b.maturing \in [Balance!Days -> Nat], NEW amount \in Nat
  PROVE  LET saved == [day \in Balance!Days |-> Balance!Saved(b, amount, day)]
         IN  /\ saved \in [Balance!Days -> Nat]
             /\ \A day \in Balance!Days : saved[day] <= b.maturing[day]
             /\ SumOf(saved) = IF amount <= SumOf(b.maturing) THEN amount ELSE SumOf(b.maturing)
  <1> DEFINE f == b.maturing
             saved == [day \in Balance!Days |-> Balance!Saved(b, amount, day)]
             limit == IF amount <= SumOf(f) THEN amount ELSE SumOf(f)
             place == [u \in Units(f) |-> Place(f, u)]
             moved == [u \in Units(saved) |-> Place(f, u)]
             P == 1 .. limit
  <1>1. SumOf(f) \in Nat /\ limit \in Nat /\ limit <= SumOf(f) /\ limit <= amount
        /\ \A n \in Int : n <= amount /\ n <= SumOf(f) => n <= limit
    BY DaySums
  <1>2. \A day \in Balance!Days : f[day] \in Nat /\ LaterThan(f, day) \in Nat
    BY AfterDay
  <1>3. ASSUME NEW day \in Balance!Days
        PROVE  /\ saved[day] \in Nat /\ saved[day] <= f[day]
               /\ \A n \in Int : n >= 1 => (n <= saved[day] <=> n <= f[day] /\ LaterThan(f, day) + n <= amount)
    <2> DEFINE due == amount - LaterThan(f, day)
               most == Max({0, due})
    <2>1. due \in Int /\ f[day] \in Nat
      BY <1>2
    <2>2. saved[day] = Min({f[day], most})
      BY SameInBalance DEF Balance!Saved, LaterThan
    <2> HIDE DEF due
    <2>3. most = IF 0 >= due THEN 0 ELSE due
      <3>1. 0 \in Int
        OBVIOUS
      <3> QED
        BY <2>1, <3>1, MinMaxOfTwo
    <2>4. most \in Nat
      BY <2>1, <2>3
    <2> HIDE DEF most
    <2>5. saved[day] = IF f[day] <= most THEN f[day] ELSE most
      BY <2>1, <2>2, <2>4, MinMaxOfTwo
    <2>6. saved[day] \in Nat /\ saved[day] <= f[day]
      BY <2>1, <2>4, <2>5
    <2>7. ASSUME NEW n \in Int, n >= 1
          PROVE  n <= saved[day] <=> n <= f[day] /\ n <= due
      BY <2>1, <2>3, <2>5, <2>7
    <2>8. ASSUME NEW n \in Int
          PROVE  n <= due <=> LaterThan(f, day) + n <= amount
      BY <1>2 DEF due
    <2> QED
      BY <2>6, <2>7, <2>8
  <1>4. saved \in [Balance!Days -> Nat]
    BY <1>3
  <1> HIDE DEF f, saved, limit, place, moved, P
  <1>5. f \in [Balance!Days -> Nat]
    BY DEF f
  <1>6. ASSUME NEW u
        PROVE  u \in Units(saved) <=> u \in Units(f) /\ Place(f, u) <= amount
    <2>1. ASSUME NEW g \in [Balance!Days -> Nat]
          PROVE  u \in Units(g) <=> /\ u = <<u[1], u[2]>> /\ u[1] \in Balance!Days
                                    /\ u[2] \in Int /\ u[2] >= 1 /\ u[2] <= g[u[1]]
      <3>1. ASSUME u \in Units(g)
            PROVE  /\ u = <<u[1], u[2]>> /\ u[1] \in Balance!Days
                   /\ u[2] \in Int /\ u[2] >= 1 /\ u[2] <= g[u[1]]
        <4>1. u = <<u[1], u[2]>> /\ u[1] \in Balance!Days /\ u[2] \in 1 .. g[u[1]]
          BY <3>1 DEF Units
        <4>2. g[u[1]] \in Nat
          BY <4>1
        <4> QED
          BY <4>1, <4>2
      <3>2. ASSUME u = <<u[1], u[2]>>, u[1] \in Balance!Days,
                   u[2] \in Int, u[2] >= 1, u[2] <= g[u[1]]
            PROVE  u \in Units(g)
        <4>1. g[u[1]] \in Nat
          BY <3>2
        <4>2. u[2] \in 1 .. g[u[1]]
          BY <3>2, <4>1
        <4> QED
          BY <3>2, <4>2 DEF Units
      <3> QED
        BY <3>1, <3>2
    <2> QED
      BY <1>3, <1>4, <1>5, <2>1 DEF Place
  <1>7. place \in Bijection(Units(f), 1 .. SumOf(f))
    BY <1>5, UnitsHavePlaces DEF place
  <1>8. /\ \A u \in Units(f) : place[u] = Place(f, u) /\ place[u] \in 1 .. SumOf(f)
        /\ \A u \in Units(f) : \A w \in Units(f) : place[u] = place[w] => u = w
        /\ \A n \in 1 .. SumOf(f) : \E u \in Units(f) : place[u] = n
    <2>1. place \in Injection(Units(f), 1 .. SumOf(f)) /\ place \in Surjection(Units(f), 1 .. SumOf(f))
      BY <1>7 DEF Bijection
    <2>2. place \in [Units(f) -> 1 .. SumOf(f)]
      BY <2>1 DEF Injection
    <2> QED
      BY <2>1, <2>2 DEF Injection, IsInjective, Surjection, place
  <1>9. moved \in Bijection(Units(saved), P)
    <2>1. ASSUME NEW u \in Units(saved)
          PROVE  u \in Units(f) /\ moved[u] = place[u] /\ moved[u] \in P
      <3>1. u \in Units(f) /\ Place(f, u) <= amount /\ moved[u] = Place(f, u)
        BY <1>6 DEF moved
      <3>2. Place(f, u) = place[u] /\ place[u] \in 1 .. SumOf(f)
        BY <1>8, <3>1
      <3> QED
        BY <1>1, <3>1, <3>2 DEF P
    <2>2. ASSUME NEW n \in P
          PROVE  \E u \in Units(saved) : moved[u] = n
      <3>1. n \in 1 .. SumOf(f) /\ n <= amount
        BY <1>1 DEF P
      <3>2. PICK u \in Units(f) : place[u] = n
        BY <1>8, <3>1
      <3>3. u \in Units(saved) /\ moved[u] = n
        BY <1>6, <1>8, <3>1, <3>2 DEF moved
      <3> QED
        BY <3>3
    <2>3. moved \in [Units(saved) -> P]
      BY <2>1 DEF moved
    <2>4. \A u \in Units(saved) : \A w \in Units(saved) : moved[u] = moved[w] => u = w
      BY <1>8, <2>1
    <2> QED
      BY <2>2, <2>3, <2>4 DEF Bijection, Injection, Surjection, IsInjective
  <1>10. IsFiniteSet(Units(saved))
    BY <1>4, DaySums
  <1>11. Cardinality(P) = Cardinality(Units(saved))
    BY <1>9, <1>10, FS_Bijection DEF ExistsBijection
  <1>12. Cardinality(P) = limit
    <2>1. Cardinality(1 .. limit) = IF 1 > limit THEN 0 ELSE limit - 1 + 1
      BY <1>1, FS_Interval
    <2> QED
      BY <1>1, <2>1 DEF P
  <1>13. SumOf(saved) = limit
    BY <1>11, <1>12 DEF SumOf
  <1> QED
    BY <1>3, <1>4, <1>13 DEF saved, limit, f

-----------------------------------------------------------------------------
(* The invariant.                                                          *)

\* What matures within some days and what was sold was acquired that many
\* days less than the time it takes to mature ago, or earlier.  SoldIsOld is
\* the case of no days, but whether it survives a midnight depends on the REX
\* that matures next, and that on the next, to the last.
AgesAreKept(b, s, a) ==
  \A k \in Balance!Days : b.matured_rex + UpTo(b.maturing, k) + s <= UpTo(Reversed(a), k)

\* A balance of which s was sold, of REX acquired as a says.
BalanceSound(b, s, a) ==
  /\ b \in [rex_balance : Nat, matured_rex : Nat, maturing : [Balance!Days -> Nat],
            savings : Nat, order : Nat]
  /\ s \in Nat /\ a \in [Balance!Days -> Nat]
  /\ b.rex_balance = b.matured_rex + SumOf(b.maturing) + b.savings
  /\ b.order <= b.matured_rex
  /\ b.rex_balance + s = SumOf(a)
  /\ AgesAreKept(b, s, a)

BalanceInv == BalanceSound(rb, sold, acquired)

\* Counting the days from the other end keeps the sum.
LEMMA ReversedSum ==
  ASSUME Balance!RexBalanceConstants, NEW a \in [Balance!Days -> Nat]
  PROVE  Reversed(a) \in [Balance!Days -> Nat] /\ SumOf(Reversed(a)) = SumOf(a)
  <1>1. MaturityDays \in Nat \ {0} /\ Balance!Days = 0 .. MaturityDays
    BY DEF Balance!RexBalanceConstants, Balance!Days
  <1>2. a \in [Balance!Days -> Nat]
    OBVIOUS
  <1>3. \A day \in Balance!Days : MaturityDays - day \in Balance!Days /\ MaturityDays - (MaturityDays - day) = day
    BY <1>1
  <1>4. Reversed(a) \in [Balance!Days -> Nat] /\ SumOf(Reversed(a)) = SumOf(a)
    <2> DEFINE g == Reversed(a)
               at == [day \in Balance!Days |-> MaturityDays - day]
    <2>1. g \in [Balance!Days -> Nat] /\ at \in [Balance!Days -> Balance!Days]
      BY <1>2, <1>3 DEF Reversed
    <2>2. \A day \in Balance!Days : at[at[day]] = day /\ g[day] = a[at[day]]
      BY <1>3 DEF Reversed
    <2>3. IsFiniteSet(Units(a))
      BY <1>2, DaySums
    <2> HIDE DEF g, at
    <2>4. SumOf(g) = SumOf(a)
      BY ONLY <1>2, <2>1, <2>2, <2>3, SumOfRenamed
    <2> QED
      BY <2>1, <2>4 DEF g
  <1> QED
    BY <1>4

\* What the parts of a sound balance are.
LEMMA SoundParts ==
  ASSUME Balance!RexBalanceConstants, NEW b, NEW s, NEW a, BalanceSound(b, s, a)
  PROVE  /\ b = [rex_balance |-> b.rex_balance, matured_rex |-> b.matured_rex,
                 maturing |-> b.maturing, savings |-> b.savings, order |-> b.order]
         /\ b.rex_balance \in Nat /\ b.matured_rex \in Nat /\ b.savings \in Nat /\ b.order \in Nat
         /\ b.maturing \in [Balance!Days -> Nat] /\ s \in Nat /\ a \in [Balance!Days -> Nat]
         /\ Reversed(a) \in [Balance!Days -> Nat]
         /\ SumOf(Reversed(a)) = SumOf(a)
         /\ SumOf(b.maturing) \in Nat /\ SumOf(a) \in Nat
         /\ MaturityDays \in Balance!Days /\ 0 \in Balance!Days /\ 1 \in Balance!Days /\ MaturityDays \in Nat \ {0}
  <1>1. MaturityDays \in Nat \ {0} /\ Balance!Days = 0 .. MaturityDays
    BY DEF Balance!RexBalanceConstants, Balance!Days
  <1>2. a \in [Balance!Days -> Nat] /\ b.maturing \in [Balance!Days -> Nat]
    BY DEF BalanceSound
  <1>4. Reversed(a) \in [Balance!Days -> Nat] /\ SumOf(Reversed(a)) = SumOf(a)
    BY <1>2, ReversedSum
  <1>5. SumOf(b.maturing) \in Nat /\ SumOf(a) \in Nat
    BY <1>2, DaySums
  <1>6. MaturityDays \in Balance!Days /\ 0 \in Balance!Days /\ 1 \in Balance!Days
    BY <1>1
  <1> QED
    BY <1>1, <1>2, <1>4, <1>5, <1>6 DEF BalanceSound

\* To notice what has matured keeps a balance sound.
LEMMA MaturedIsSound ==
  ASSUME Balance!RexBalanceConstants, NEW b, NEW s, NEW a, BalanceSound(b, s, a)
  PROVE  BalanceSound(Balance!Matured(b), s, a) /\ Balance!Matured(b).rex_balance = b.rex_balance
  <1> DEFINE c == Balance!Matured(b)
             f == b.maturing
             g == [f EXCEPT ![0] = 0]
  <1>1. /\ b.rex_balance \in Nat /\ b.matured_rex \in Nat /\ b.savings \in Nat /\ b.order \in Nat
        /\ f \in [Balance!Days -> Nat] /\ 0 \in Balance!Days /\ s \in Nat /\ SumOf(f) \in Nat
        /\ b = [rex_balance |-> b.rex_balance, matured_rex |-> b.matured_rex,
                maturing |-> f, savings |-> b.savings, order |-> b.order]
    BY SoundParts
  <1>2. c = [rex_balance |-> b.rex_balance, matured_rex |-> b.matured_rex + f[0],
             maturing |-> g, savings |-> b.savings, order |-> b.order]
    <2>1. b \in [rex_balance : Nat, matured_rex : Nat, maturing : [Balance!Days -> Nat],
                 savings : Nat, order : Nat]
      BY DEF BalanceSound
    <2>2. c = [[b EXCEPT !.matured_rex = @ + b.maturing[0]] EXCEPT !.maturing = [b.maturing EXCEPT ![0] = 0]]
      BY <2>1 DEF Balance!Matured
    <2> QED
      BY <2>1, <2>2
  <1>3. g \in [Balance!Days -> Nat] /\ g[0] = 0 /\ f[0] \in Nat /\ \A day \in Balance!Days \ {0} : g[day] = f[day]
    BY <1>1
  <1> HIDE DEF f, g
  <1>4. SumOf(g) = SumOf(f) - f[0] + g[0]
    BY <1>1, <1>3, DayChanged
  <1>5. ASSUME NEW k \in Balance!Days
        PROVE  UpTo(g, k) = UpTo(f, k) - f[0] + g[0] /\ UpTo(f, k) \in Nat
    <2>1. 0 <= k
      BY DEF Balance!Days
    <2> QED
      BY <1>1, <1>3, <2>1, DayChanged, DaySums
  <1>6. AgesAreKept(c, s, a)
    <2> SUFFICES ASSUME NEW k \in Balance!Days
                 PROVE  c.matured_rex + UpTo(c.maturing, k) + s <= UpTo(Reversed(a), k)
      BY DEF AgesAreKept
    <2>1. b.matured_rex + UpTo(f, k) + s <= UpTo(Reversed(a), k)
      BY DEF BalanceSound, AgesAreKept, f
    <2>2. (b.matured_rex + f[0]) + UpTo(g, k) + s = b.matured_rex + UpTo(f, k) + s
      BY <1>1, <1>3, <1>5
    <2> QED
      BY <1>2, <2>1, <2>2
  <1>7. /\ c.rex_balance = c.matured_rex + SumOf(c.maturing) + c.savings
        /\ c.order <= c.matured_rex
    BY <1>1, <1>2, <1>3, <1>4 DEF BalanceSound, f
  <1> QED
    BY <1>1, <1>2, <1>3, <1>6, <1>7 DEF BalanceSound

\* A part of the matured REX that no order needs may be sold, and so may that
\* of the order.
LEMMA SaleIsSound ==
  ASSUME Balance!RexBalanceConstants, NEW b, NEW s, NEW a, BalanceSound(b, s, a),
         NEW n \in Nat, n <= b.matured_rex, NEW order \in Nat, order + n <= b.matured_rex,
         NEW c, c = [rex_balance |-> b.rex_balance - n, matured_rex |-> b.matured_rex - n,
                     maturing |-> b.maturing, savings |-> b.savings, order |-> order]
  PROVE  BalanceSound(c, s + n, a)
  <1>1. /\ b.rex_balance \in Nat /\ b.matured_rex \in Nat /\ b.savings \in Nat /\ b.order \in Nat
        /\ b.maturing \in [Balance!Days -> Nat] /\ s \in Nat /\ SumOf(b.maturing) \in Nat /\ SumOf(a) \in Nat
    BY SoundParts
  <1>2. /\ b.rex_balance = b.matured_rex + SumOf(b.maturing) + b.savings
        /\ b.rex_balance + s = SumOf(a) /\ a \in [Balance!Days -> Nat]
    BY DEF BalanceSound
  <1>3. /\ b.rex_balance - n \in Nat /\ b.matured_rex - n \in Nat /\ s + n \in Nat
        /\ b.rex_balance - n = (b.matured_rex - n) + SumOf(b.maturing) + b.savings
        /\ order <= b.matured_rex - n
        /\ (b.rex_balance - n) + (s + n) = SumOf(a)
    BY <1>1, <1>2
  <1>4. AgesAreKept(c, s + n, a)
    <2> SUFFICES ASSUME NEW k \in Balance!Days
                 PROVE  c.matured_rex + UpTo(c.maturing, k) + (s + n) <= UpTo(Reversed(a), k)
      BY DEF AgesAreKept
    <2>1. b.matured_rex + UpTo(b.maturing, k) + s <= UpTo(Reversed(a), k)
      BY DEF BalanceSound, AgesAreKept
    <2>2. UpTo(b.maturing, k) \in Nat
      BY <1>1, DaySums
    <2>3. (b.matured_rex - n) + UpTo(b.maturing, k) + (s + n) = b.matured_rex + UpTo(b.maturing, k) + s
      BY <1>1, <2>2
    <2> QED
      BY <2>1, <2>3
  <1> QED
    BY <1>1, <1>2, <1>3, <1>4 DEF BalanceSound

\* Whatever runrex makes of a balance is sound.
LEMMA RunIsSound ==
  ASSUME Balance!RexBalanceConstants, NEW b, NEW s, NEW a, BalanceSound(b, s, a), NEW c \in Balance!RunRex(b)
  PROVE  BalanceSound(c, s + (b.rex_balance - c.rex_balance), a)
  <1>1. /\ b.rex_balance \in Nat /\ b.matured_rex \in Nat /\ b.order \in Nat /\ s \in Nat
        /\ b = [rex_balance |-> b.rex_balance, matured_rex |-> b.matured_rex,
                maturing |-> b.maturing, savings |-> b.savings, order |-> b.order]
    BY SoundParts
  <1>2. CASE c = b
    BY <1>1, <1>2
  <1>3. CASE c = Balance!Filled(b)
    <2>1. c = [rex_balance |-> b.rex_balance - b.order, matured_rex |-> b.matured_rex - b.order,
               maturing |-> b.maturing, savings |-> b.savings, order |-> 0]
      BY <1>1, <1>3 DEF Balance!Filled
    <2>2. b.order <= b.matured_rex /\ 0 + b.order <= b.matured_rex
      BY <1>1 DEF BalanceSound
    <2>3. BalanceSound(c, s + b.order, a)
      BY <1>1, <2>1, <2>2, SaleIsSound
    <2>4. b.rex_balance - c.rex_balance = b.order
      BY <1>1, <2>1
    <2> QED
      BY <2>3, <2>4
  <1> QED
    BY <1>2, <1>3 DEF Balance!RunRex

-----------------------------------------------------------------------------
(* The steps.                                                              *)

\* Moving REX from one part to another keeps a balance sound, when what it
\* puts on a day matures in the end and it takes nothing from the order.
LEMMA MoveIsSound ==
  ASSUME Balance!RexBalanceConstants, NEW b, NEW s, NEW a, BalanceSound(b, s, a),
         NEW matured \in Nat, NEW g \in [Balance!Days -> Nat], NEW savings \in Nat,
         matured <= b.matured_rex, b.order <= matured,
         matured + SumOf(g) + savings = b.matured_rex + SumOf(b.maturing) + b.savings,
         \A k \in Balance!Days : k # MaturityDays => UpTo(g, k) <= UpTo(b.maturing, k),
         NEW c, c = [rex_balance |-> b.rex_balance, matured_rex |-> matured,
                     maturing |-> g, savings |-> savings, order |-> b.order]
  PROVE  BalanceSound(c, s, a)
  <1>1. /\ b.rex_balance \in Nat /\ b.matured_rex \in Nat /\ b.savings \in Nat /\ b.order \in Nat
        /\ b.maturing \in [Balance!Days -> Nat] /\ s \in Nat /\ SumOf(b.maturing) \in Nat
        /\ a \in [Balance!Days -> Nat] /\ SumOf(a) \in Nat
        /\ Reversed(a) \in [Balance!Days -> Nat] /\ SumOf(Reversed(a)) = SumOf(a)
    BY SoundParts
  <1>2. SumOf(g) \in Nat /\ UpTo(g, MaturityDays) = SumOf(g)
    BY DaySums
  <1>3. UpTo(Reversed(a), MaturityDays) = SumOf(a)
    BY <1>1, DaySums
  <1>4. AgesAreKept(c, s, a)
    <2> SUFFICES ASSUME NEW k \in Balance!Days
                 PROVE  matured + UpTo(g, k) + s <= UpTo(Reversed(a), k)
      BY DEF AgesAreKept
    <2>1. CASE k = MaturityDays
      <3>1. matured + SumOf(g) + s <= SumOf(a)
        BY <1>1, <1>2 DEF BalanceSound
      <3> QED
        BY <1>2, <1>3, <2>1, <3>1
    <2>2. CASE k # MaturityDays
      <3>1. /\ UpTo(g, k) \in Nat /\ UpTo(b.maturing, k) \in Nat /\ UpTo(Reversed(a), k) \in Nat
        BY <1>1, DaySums
      <3>2. b.matured_rex + UpTo(b.maturing, k) + s <= UpTo(Reversed(a), k)
        BY DEF BalanceSound, AgesAreKept
      <3>3. UpTo(g, k) <= UpTo(b.maturing, k)
        BY <2>2
      <3> QED
        BY <1>1, <3>1, <3>2, <3>3
    <2> QED
      BY <2>1, <2>2
  <1> QED
    BY <1>1, <1>4 DEF BalanceSound

\* What is put on the last day shows in no sum up to an earlier one.
LEMMA OnLastDay ==
  ASSUME Balance!RexBalanceConstants, NEW f \in [Balance!Days -> Nat], NEW n \in Nat,
         NEW g \in [Balance!Days -> Nat], g[MaturityDays] = f[MaturityDays] + n,
         \A day \in Balance!Days \ {MaturityDays} : g[day] = f[day]
  PROVE  /\ SumOf(g) = SumOf(f) + n
         /\ \A k \in Balance!Days : k # MaturityDays => UpTo(g, k) = UpTo(f, k)
         /\ UpTo(g, MaturityDays) = UpTo(f, MaturityDays) + n
  <1>1. MaturityDays \in Nat /\ Balance!Days = 0 .. MaturityDays /\ MaturityDays \in Balance!Days
    BY DEF Balance!RexBalanceConstants, Balance!Days
  <1>2. f[MaturityDays] \in Nat
    BY <1>1
  <1>3. SumOf(f) \in Nat /\ SumOf(g) = SumOf(f) - f[MaturityDays] + g[MaturityDays]
    <2>1. SumOf(g) = SumOf(f) - f[MaturityDays] + g[MaturityDays]
      BY <1>1, DayChanged, ZenonT(60)
    <2> QED
      BY <2>1, DaySums
  <1>4. ASSUME NEW k \in Balance!Days, k # MaturityDays
        PROVE  UpTo(g, k) = UpTo(f, k)
    <2> DEFINE j == MaturityDays
    <2>1. /\ Balance!RexBalanceConstants /\ f \in [Balance!Days -> Nat] /\ g \in [Balance!Days -> Nat]
          /\ j \in Balance!Days /\ \A day \in Balance!Days \ {j} : g[day] = f[day]
          /\ k \in Balance!Days /\ ~(j <= k)
      BY <1>1, <1>4
    <2> HIDE DEF j
    <2> QED
      BY ONLY <2>1, DayChanged
  <1>5. UpTo(g, MaturityDays) = SumOf(g) /\ UpTo(f, MaturityDays) = SumOf(f)
    BY <1>2, DaySums
  <1> QED
    BY <1>2, <1>3, <1>4, <1>5

\* buyrex and unstaketorex: what is acquired matures on the last day.
LEMMA BuyRexStep ==
  ASSUME Balance!RexBalanceConstants, BalanceInv, NEW amount \in Nat, Balance!BuyRex(amount)
  PROVE  BalanceInv'
  <1> DEFINE m == Balance!Matured(rb)
             b == [m EXCEPT !.rex_balance = @ + amount, !.maturing[Balance!get_rex_maturity] = @ + amount]
             g == [m.maturing EXCEPT ![Balance!get_rex_maturity] = @ + amount]
             a == [acquired EXCEPT ![0] = @ + amount]
  <1>1. BalanceSound(m, sold, acquired) /\ m.rex_balance = rb.rex_balance
    BY MaturedIsSound DEF BalanceInv
  <1>2. PICK c \in Balance!RunRex(b) : rb' = c /\ sold' = sold + (rb.rex_balance + amount - c.rex_balance)
    BY DEF Balance!BuyRex
  <1>3. acquired' = a
    BY DEF Balance!BuyRex
  <1> HIDE DEF m
  <1>4. /\ m.rex_balance \in Nat /\ m.matured_rex \in Nat /\ m.savings \in Nat /\ m.order \in Nat
        /\ m.maturing \in [Balance!Days -> Nat] /\ sold \in Nat /\ acquired \in [Balance!Days -> Nat]
        /\ SumOf(m.maturing) \in Nat /\ SumOf(acquired) \in Nat
        /\ Reversed(acquired) \in [Balance!Days -> Nat] /\ SumOf(Reversed(acquired)) = SumOf(acquired)
        /\ 0 \in Balance!Days /\ MaturityDays \in Balance!Days /\ MaturityDays \in Nat
    BY <1>1, SoundParts
  <1>5. b = [rex_balance |-> m.rex_balance + amount, matured_rex |-> m.matured_rex,
             maturing |-> g, savings |-> m.savings, order |-> m.order]
    <2>1. m \in [rex_balance : Nat, matured_rex : Nat, maturing : [Balance!Days -> Nat],
                 savings : Nat, order : Nat]
      BY <1>1 DEF BalanceSound
    <2>2. b = [[m EXCEPT !.rex_balance = @ + amount] EXCEPT !.maturing = g]
      BY <2>1
    <2> HIDE DEF b, g
    <2> QED
      BY <2>1, <2>2
  <1>6. /\ g \in [Balance!Days -> Nat] /\ SumOf(g) = SumOf(m.maturing) + amount
        /\ \A k \in Balance!Days : k # MaturityDays => UpTo(g, k) = UpTo(m.maturing, k)
        /\ UpTo(g, MaturityDays) = UpTo(m.maturing, MaturityDays) + amount
    <2> DEFINE f == m.maturing
    <2>1. /\ f \in [Balance!Days -> Nat] /\ g \in [Balance!Days -> Nat] /\ g[MaturityDays] = f[MaturityDays] + amount
          /\ \A day \in Balance!Days \ {MaturityDays} : g[day] = f[day]
      BY <1>4 DEF Balance!get_rex_maturity
    <2> HIDE DEF f, g
    <2> QED
      BY <2>1, OnLastDay DEF f
  <1>7. /\ a \in [Balance!Days -> Nat] /\ SumOf(a) = SumOf(acquired) + amount
        /\ Reversed(a) \in [Balance!Days -> Nat]
        /\ Reversed(a)[MaturityDays] = Reversed(acquired)[MaturityDays] + amount
        /\ \A day \in Balance!Days \ {MaturityDays} : Reversed(a)[day] = Reversed(acquired)[day]
    <2>1. /\ a \in [Balance!Days -> Nat] /\ acquired[0] \in Nat /\ a[0] = acquired[0] + amount
          /\ \A day \in Balance!Days \ {0} : a[day] = acquired[day]
      BY <1>4
    <2> HIDE DEF a
    <2>2. SumOf(a) = SumOf(acquired) - acquired[0] + a[0]
      BY <1>4, <2>1, DayChanged
    <2>3. ASSUME NEW day \in Balance!Days
          PROVE  MaturityDays - day \in Balance!Days /\ (MaturityDays - day = 0 <=> day = MaturityDays)
      <3>1. MaturityDays \in Nat
        BY <1>4
      <3> QED
        BY ONLY <3>1, day \in Balance!Days DEF Balance!Days
    <2>4. /\ Reversed(a) \in [Balance!Days -> Nat]
          /\ Reversed(a)[MaturityDays] = Reversed(acquired)[MaturityDays] + amount
          /\ \A day \in Balance!Days \ {MaturityDays} : Reversed(a)[day] = Reversed(acquired)[day]
      BY <1>4, <2>1, <2>3 DEF Reversed
    <2> QED
      BY <1>4, <2>1, <2>2, <2>4
  <1>8. /\ \A k \in Balance!Days : k # MaturityDays => UpTo(Reversed(a), k) = UpTo(Reversed(acquired), k)
        /\ UpTo(Reversed(a), MaturityDays) = UpTo(Reversed(acquired), MaturityDays) + amount
    <2> DEFINE R == Reversed(acquired)
               Q == Reversed(a)
    <2>1. /\ R \in [Balance!Days -> Nat] /\ Q \in [Balance!Days -> Nat] /\ Q[MaturityDays] = R[MaturityDays] + amount
          /\ \A day \in Balance!Days \ {MaturityDays} : Q[day] = R[day]
      BY <1>4, <1>7
    <2> HIDE DEF R, Q
    <2>2. /\ \A k \in Balance!Days : k # MaturityDays => UpTo(Q, k) = UpTo(R, k)
          /\ UpTo(Q, MaturityDays) = UpTo(R, MaturityDays) + amount
      BY ONLY <2>1, amount \in Nat, Balance!RexBalanceConstants, OnLastDay
    <2> QED
      BY <2>2 DEF R, Q
  <1> HIDE DEF a, b, g
  <1>9. AgesAreKept(b, sold, a)
    <2> SUFFICES ASSUME NEW k \in Balance!Days
                 PROVE  b.matured_rex + UpTo(b.maturing, k) + sold <= UpTo(Reversed(a), k)
      BY DEF AgesAreKept
    <2>1. m.matured_rex + UpTo(m.maturing, k) + sold <= UpTo(Reversed(acquired), k)
      BY <1>1 DEF BalanceSound, AgesAreKept
    <2>2. UpTo(m.maturing, k) \in Nat /\ UpTo(Reversed(acquired), k) \in Nat
      BY <1>4, DaySums
    <2>3. CASE k = MaturityDays
      <3>1. /\ UpTo(g, k) = UpTo(m.maturing, k) + amount
            /\ UpTo(Reversed(a), k) = UpTo(Reversed(acquired), k) + amount
        BY <1>6, <1>8, <2>3
      <3> QED
        BY <1>4, <1>5, <2>1, <2>2, <3>1
    <2>4. CASE k # MaturityDays
      <3>1. /\ UpTo(g, k) = UpTo(m.maturing, k)
            /\ UpTo(Reversed(a), k) = UpTo(Reversed(acquired), k)
        BY <1>6, <1>8, <2>4
      <3> QED
        BY <1>5, <2>1, <3>1
    <2> QED
      BY <2>3, <2>4
  <1>10. BalanceSound(b, sold, a)
    <2>1. /\ m.rex_balance = m.matured_rex + SumOf(m.maturing) + m.savings
          /\ m.order <= m.matured_rex /\ m.rex_balance + sold = SumOf(acquired)
      BY <1>1 DEF BalanceSound
    <2>2. /\ m.rex_balance + amount \in Nat
          /\ m.rex_balance + amount = m.matured_rex + SumOf(g) + m.savings
          /\ (m.rex_balance + amount) + sold = SumOf(a)
      BY <1>4, <1>6, <1>7, <2>1
    <2> QED
      BY <1>4, <1>5, <1>6, <1>7, <1>9, <2>1, <2>2 DEF BalanceSound
  <1>11. BalanceSound(c, sold + (b.rex_balance - c.rex_balance), a)
    BY <1>2, <1>10, RunIsSound
  <1>12. sold' = sold + (b.rex_balance - c.rex_balance)
    <2>1. c.rex_balance \in Nat
      BY <1>11, SoundParts
    <2> QED
      BY <1>1, <1>2, <1>4, <1>5, <2>1
  <1> QED
    BY <1>2, <1>3, <1>11, <1>12 DEF BalanceInv

\* A step to a balance that is sound for what was sold in it.
LEMMA BecomesSound ==
  ASSUME Balance!RexBalanceConstants, BalanceInv, UNCHANGED acquired, NEW run \in Balance!RunRex(rb), NEW c,
         Balance!Becomes(c), NEW n \in Nat, run.rex_balance - c.rex_balance = n,
         ASSUME NEW s, BalanceSound(run, s, acquired)
         PROVE  c.rex_balance \in Nat /\ BalanceSound(c, s + n, acquired)
  PROVE  BalanceInv'
  <1> DEFINE s == sold + (rb.rex_balance - run.rex_balance)
  <1>1. BalanceSound(run, s, acquired)
    BY RunIsSound DEF BalanceInv
  <1>2. c.rex_balance \in Nat /\ BalanceSound(c, s + n, acquired)
    BY <1>1
  <1>3. rb.rex_balance \in Nat /\ run.rex_balance \in Nat /\ sold \in Nat
    BY <1>1, SoundParts DEF BalanceInv
  <1>4. s + n = sold + (rb.rex_balance - c.rex_balance)
    BY <1>2, <1>3
  <1> QED
    BY <1>2, <1>4 DEF BalanceInv, Balance!Becomes

\* A sound balance as a record of its parts.
LEMMA SoundRecord ==
  ASSUME Balance!RexBalanceConstants, NEW b, NEW s, NEW a, BalanceSound(b, s, a)
  PROVE  /\ b \in [rex_balance : Nat, matured_rex : Nat, maturing : [Balance!Days -> Nat],
                   savings : Nat, order : Nat]
         /\ b.rex_balance = b.matured_rex + SumOf(b.maturing) + b.savings
         /\ b.order <= b.matured_rex
         /\ b.rex_balance + 0 = b.rex_balance /\ s + 0 = s
  <1>1. b.rex_balance \in Nat /\ s \in Nat
    BY SoundParts
  <1> QED
    BY <1>1 DEF BalanceSound

\* sellrex
LEMMA SellRexStep ==
  ASSUME Balance!RexBalanceConstants, BalanceInv, NEW amount \in Nat, Balance!SellRex(amount)
  PROVE  BalanceInv'
  <1>1. PICK run \in Balance!RunRex(rb) :
          LET b == Balance!Matured(run)
          IN  /\ amount <= b.matured_rex
              /\ b.order + amount <= b.matured_rex
              /\ \/ Balance!Becomes([b EXCEPT !.rex_balance = @ - amount, !.matured_rex = @ - amount])
                 \/ Balance!Becomes([b EXCEPT !.order = @ + amount])
    BY DEF Balance!SellRex
  <1> DEFINE b == Balance!Matured(run)
             c == [b EXCEPT !.rex_balance = @ - amount, !.matured_rex = @ - amount]
             d == [b EXCEPT !.order = @ + amount]
  <1>2. UNCHANGED acquired
    BY DEF Balance!SellRex
  <1>3. amount <= b.matured_rex /\ b.order + amount <= b.matured_rex
    BY <1>1
  <1>4. ASSUME NEW s, BalanceSound(run, s, acquired)
        PROVE  BalanceSound(b, s, acquired) /\ b.rex_balance = run.rex_balance
    BY <1>4, MaturedIsSound
  <1>5. BalanceSound(run, sold + (rb.rex_balance - run.rex_balance), acquired)
    BY RunIsSound DEF BalanceInv
  <1>6. b.rex_balance = run.rex_balance /\ run.rex_balance \in Nat
    BY <1>4, <1>5, SoundParts
  <1>7. CASE Balance!Becomes(c)
    <2>1. ASSUME NEW s, BalanceSound(run, s, acquired)
          PROVE  c.rex_balance \in Nat /\ BalanceSound(c, s + amount, acquired)
      <3>1. BalanceSound(b, s, acquired)
        BY <1>4, <2>1
      <3> HIDE DEF b
      <3>2. /\ b.rex_balance \in Nat /\ b.order \in Nat
            /\ c = [rex_balance |-> b.rex_balance - amount, matured_rex |-> b.matured_rex - amount,
                    maturing |-> b.maturing, savings |-> b.savings, order |-> b.order]
        <4>1. b \in [rex_balance : Nat, matured_rex : Nat, maturing : [Balance!Days -> Nat],
                     savings : Nat, order : Nat]
          BY <3>1, SoundRecord
        <4>2. c = [[b EXCEPT !.rex_balance = @ - amount] EXCEPT !.matured_rex = b.matured_rex - amount]
          BY <4>1
        <4> HIDE DEF c
        <4> QED
          BY <4>1, <4>2
      <3> HIDE DEF c
      <3>3. BalanceSound(c, s + amount, acquired)
        BY <1>3, <3>1, <3>2, SaleIsSound
      <3> QED
        BY <3>3, SoundParts
    <2>2. c.rex_balance = run.rex_balance - amount
      <3>1. BalanceSound(b, sold + (rb.rex_balance - run.rex_balance), acquired)
        BY <1>4, <1>5
      <3> HIDE DEF b
      <3> QED
        BY <1>6, <3>1, SoundRecord
    <2> HIDE DEF b, c
    <2>3. run.rex_balance - c.rex_balance = amount
      BY <1>6, <2>2
    <2> QED
      BY <1>2, <1>7, <2>1, <2>3, BecomesSound
  <1>8. CASE Balance!Becomes(d)
    <2>1. ASSUME NEW s, BalanceSound(run, s, acquired)
          PROVE  d.rex_balance = b.rex_balance /\ BalanceSound(d, s + 0, acquired)
      <3>1. BalanceSound(b, s, acquired)
        BY <1>4, <2>1
      <3> HIDE DEF b
      <3>2. /\ b.rex_balance \in Nat /\ b.order \in Nat /\ b.matured_rex \in Nat
            /\ d = [rex_balance |-> b.rex_balance, matured_rex |-> b.matured_rex,
                    maturing |-> b.maturing, savings |-> b.savings, order |-> b.order + amount]
        BY <3>1, SoundRecord
      <3> HIDE DEF d
      <3> DEFINE o == b.order + amount
      <3>3. /\ o \in Nat /\ o <= b.matured_rex /\ o + 0 <= b.matured_rex /\ 0 \in Nat /\ 0 <= b.matured_rex
            /\ b.rex_balance - 0 = b.rex_balance /\ b.matured_rex - 0 = b.matured_rex
        BY <1>3, <3>2
      <3>4. d = [rex_balance |-> b.rex_balance - 0, matured_rex |-> b.matured_rex - 0,
                 maturing |-> b.maturing, savings |-> b.savings, order |-> o]
        BY <3>2, <3>3
      <3> HIDE DEF o
      <3>5. BalanceSound(d, s + 0, acquired)
        BY <3>1, <3>3, <3>4, SaleIsSound
      <3> QED
        BY <3>2, <3>5
    <2>2. d.rex_balance = run.rex_balance
      BY <1>5, <1>6, <2>1
    <2> HIDE DEF b, d
    <2>3. 0 \in Nat /\ run.rex_balance - d.rex_balance = 0
      BY <1>6, <2>2
    <2>4. ASSUME NEW s, BalanceSound(run, s, acquired)
          PROVE  d.rex_balance \in Nat /\ BalanceSound(d, s + 0, acquired)
      BY <1>6, <2>1, <2>2, <2>4
    <2> QED
      BY <1>2, <1>8, <2>3, <2>4, BecomesSound
  <1> QED
    BY <1>1, <1>7, <1>8

\* A step of the owner after runrex that moves REX from part to part.
LEMMA MoveStep ==
  ASSUME Balance!RexBalanceConstants, BalanceInv, UNCHANGED acquired, NEW run \in Balance!RunRex(rb), NEW c,
         Balance!Becomes(c),
         ASSUME NEW s, BalanceSound(run, s, acquired)
         PROVE  c.rex_balance = run.rex_balance /\ BalanceSound(c, s, acquired)
  PROVE  BalanceInv'
  <1>1. BalanceSound(run, sold + (rb.rex_balance - run.rex_balance), acquired)
    BY RunIsSound DEF BalanceInv
  <1>2. run.rex_balance \in Nat /\ c.rex_balance = run.rex_balance
    BY <1>1, SoundParts
  <1>3. run.rex_balance - c.rex_balance = 0 /\ 0 \in Nat
    BY <1>2
  <1>4. ASSUME NEW s, BalanceSound(run, s, acquired)
        PROVE  c.rex_balance \in Nat /\ BalanceSound(c, s + 0, acquired)
    <2>1. s + 0 = s
      BY <1>4, SoundRecord
    <2>2. BalanceSound(c, s, acquired)
      BY <1>4
    <2> QED
      BY <1>2, <2>1, <2>2
  <1> QED
    BY <1>3, <1>4, BecomesSound

\* cnclrexorder
LEMMA CancelRexOrderStep ==
  ASSUME Balance!RexBalanceConstants, BalanceInv, Balance!CancelRexOrder
  PROVE  BalanceInv'
  <1> DEFINE c == [rb EXCEPT !.order = 0]
  <1>1. rb \in Balance!RunRex(rb)
    BY DEF Balance!RunRex
  <1>2. ASSUME NEW s, BalanceSound(rb, s, acquired)
        PROVE  c.rex_balance = rb.rex_balance /\ BalanceSound(c, s, acquired)
    <2>1. /\ rb.rex_balance \in Nat /\ rb.matured_rex \in Nat /\ s \in Nat
          /\ c = [rex_balance |-> rb.rex_balance, matured_rex |-> rb.matured_rex,
                  maturing |-> rb.maturing, savings |-> rb.savings, order |-> 0]
      BY <1>2, SoundParts
    <2> HIDE DEF c
    <2>2. /\ 0 \in Nat /\ 0 <= rb.matured_rex /\ 0 + 0 <= rb.matured_rex
          /\ rb.rex_balance - 0 = rb.rex_balance /\ rb.matured_rex - 0 = rb.matured_rex
          /\ s + 0 = s
      BY <2>1
    <2>3. c = [rex_balance |-> rb.rex_balance - 0, matured_rex |-> rb.matured_rex - 0,
               maturing |-> rb.maturing, savings |-> rb.savings, order |-> 0]
      BY <2>1, <2>2
    <2>4. BalanceSound(c, s + 0, acquired)
      BY <1>2, <2>2, <2>3, SaleIsSound
    <2> QED
      BY <2>1, <2>2, <2>4
  <1> HIDE DEF c
  <1> QED
    BY <1>1, <1>2, MoveStep DEF Balance!CancelRexOrder, c

\* runrex in an action of another account, and updaterex
LEMMA RunStep ==
  ASSUME Balance!RexBalanceConstants, BalanceInv, Balance!OthersRun \/ Balance!UpdateRex
  PROVE  BalanceInv'
  <1>1. CASE Balance!OthersRun
    <2>1. PICK run \in Balance!RunRex(rb) : Balance!Becomes(run)
      BY <1>1 DEF Balance!OthersRun
    <2> QED
      BY <1>1, <2>1, MoveStep DEF Balance!OthersRun
  <1>2. CASE Balance!UpdateRex
    <2>1. PICK run \in Balance!RunRex(rb) : Balance!Becomes(Balance!Matured(run))
      BY <1>2 DEF Balance!UpdateRex
    <2>2. ASSUME NEW s, BalanceSound(run, s, acquired)
          PROVE  Balance!Matured(run).rex_balance = run.rex_balance /\ BalanceSound(Balance!Matured(run), s, acquired)
      BY <2>2, MaturedIsSound
    <2> QED
      BY <1>2, <2>1, <2>2, MoveStep DEF Balance!UpdateRex
  <1> QED
    BY <1>1, <1>2

\* consolidate: all but the savings and the order matures on the last day.
LEMMA ConsolidateStep ==
  ASSUME Balance!RexBalanceConstants, BalanceInv, Balance!Consolidate
  PROVE  BalanceInv'
  <1>1. PICK b \in Balance!RunRex(rb) :
          Balance!Becomes([b EXCEPT !.matured_rex = Balance!HeldForOrder(b),
                            !.maturing = [Balance!NoRex EXCEPT ![Balance!get_rex_maturity] =
                              b.matured_rex - Balance!HeldForOrder(b) + SumOf(b.maturing)]])
    BY SameInBalance DEF Balance!Consolidate
  <1> DEFINE n == b.matured_rex - Balance!HeldForOrder(b) + SumOf(b.maturing)
             g == [Balance!NoRex EXCEPT ![Balance!get_rex_maturity] = n]
             c == [b EXCEPT !.matured_rex = Balance!HeldForOrder(b), !.maturing = g]
  <1>2. ASSUME NEW s, BalanceSound(b, s, acquired)
        PROVE  c.rex_balance = b.rex_balance /\ BalanceSound(c, s, acquired)
    <2>1. /\ b \in [rex_balance : Nat, matured_rex : Nat, maturing : [Balance!Days -> Nat],
                    savings : Nat, order : Nat]
          /\ b.order <= b.matured_rex
      BY <1>2, SoundRecord
    <2>2. /\ b.matured_rex \in Nat /\ b.order \in Nat /\ b.savings \in Nat
          /\ b.maturing \in [Balance!Days -> Nat] /\ SumOf(b.maturing) \in Nat
          /\ MaturityDays \in Balance!Days
      BY <1>2, SoundParts
    <2>3. n \in Nat /\ b.order + n + b.savings = b.matured_rex + SumOf(b.maturing) + b.savings
          /\ Balance!HeldForOrder(b) = b.order
      BY <2>1, <2>2 DEF Balance!HeldForOrder
    <2> HIDE DEF n
    <2>4. /\ g \in [Balance!Days -> Nat] /\ g[MaturityDays] = n
          /\ \A day \in Balance!Days \ {MaturityDays} : g[day] = 0
      BY <2>2, <2>3 DEF Balance!NoRex, Balance!get_rex_maturity
    <2>5. c = [rex_balance |-> b.rex_balance, matured_rex |-> b.order,
               maturing |-> g, savings |-> b.savings, order |-> b.order]
      <3>1. c = [[b EXCEPT !.matured_rex = b.order] EXCEPT !.maturing = g]
        BY <2>1, <2>3
      <3> HIDE DEF c, g
      <3> QED
        BY <2>1, <3>1
    <2>6. c.rex_balance = b.rex_balance
      BY <2>5
    <2> HIDE DEF g, c
    <2>7. SumOf(g) = n
      BY <2>2, <2>4, SumOfOneEntry
    <2>8. \A k \in Balance!Days : k # MaturityDays => UpTo(g, k) <= UpTo(b.maturing, k)
      <3> SUFFICES ASSUME NEW k \in Balance!Days, k # MaturityDays
                   PROVE  UpTo(g, k) <= UpTo(b.maturing, k)
        OBVIOUS
      <3>1. MaturityDays \in Nat /\ Balance!Days = 0 .. MaturityDays
        BY DEF Balance!RexBalanceConstants, Balance!Days
      <3>2. \A day \in 0 .. k : day \in Balance!Days \ {MaturityDays}
        BY <3>1
      <3>3. [day \in 0 .. k |-> g[day]] = [day \in 0 .. k |-> 0]
        BY <2>4, <3>2
      <3>4. UpTo(g, k) = 0
        BY <3>3, SumOfZeros DEF UpTo
      <3>5. UpTo(b.maturing, k) \in Nat
        BY <2>2, DaySums
      <3> QED
        BY <3>4, <3>5
    <2>9. b.order + SumOf(g) + b.savings = b.matured_rex + SumOf(b.maturing) + b.savings
          /\ b.order <= b.order
      BY <2>2, <2>3, <2>7
    <2>10. BalanceSound(c, s, acquired)
      BY <1>2, <2>1, <2>2, <2>4, <2>5, <2>8, <2>9, MoveIsSound
    <2> QED
      BY <2>6, <2>10
  <1>3. Balance!Becomes(c) /\ UNCHANGED acquired
    BY <1>1 DEF Balance!Consolidate
  <1> HIDE DEF c
  <1> QED
    BY <1>2, <1>3, MoveStep

\* mvfrsavings
LEMMA MvFrSavingsStep ==
  ASSUME Balance!RexBalanceConstants, BalanceInv, NEW amount \in Nat, Balance!MvFrSavings(amount)
  PROVE  BalanceInv'
  <1>1. PICK run \in Balance!RunRex(rb) :
          LET b == Balance!Matured(run)
          IN  /\ amount <= b.savings
              /\ Balance!Becomes([b EXCEPT !.maturing[Balance!get_rex_maturity] = @ + amount, !.savings = @ - amount])
    BY DEF Balance!MvFrSavings
  <1> DEFINE b == Balance!Matured(run)
             g == [b.maturing EXCEPT ![Balance!get_rex_maturity] = @ + amount]
             c == [b EXCEPT !.maturing[Balance!get_rex_maturity] = @ + amount, !.savings = @ - amount]
  <1>2. amount <= b.savings /\ Balance!Becomes(c) /\ UNCHANGED acquired
    BY <1>1 DEF Balance!MvFrSavings
  <1>3. ASSUME NEW s, BalanceSound(run, s, acquired)
        PROVE  c.rex_balance = run.rex_balance /\ BalanceSound(c, s, acquired)
    <2>1. BalanceSound(b, s, acquired) /\ b.rex_balance = run.rex_balance
      BY <1>3, MaturedIsSound
    <2> HIDE DEF b
    <2>2. /\ b \in [rex_balance : Nat, matured_rex : Nat, maturing : [Balance!Days -> Nat],
                    savings : Nat, order : Nat]
          /\ b.order <= b.matured_rex
      BY <2>1, SoundRecord
    <2>3. /\ b.matured_rex \in Nat /\ b.order \in Nat /\ b.savings \in Nat
          /\ b.maturing \in [Balance!Days -> Nat] /\ SumOf(b.maturing) \in Nat
          /\ MaturityDays \in Balance!Days
      BY <2>1, SoundParts
    <2>4. /\ g \in [Balance!Days -> Nat] /\ g[MaturityDays] = b.maturing[MaturityDays] + amount
          /\ \A day \in Balance!Days \ {MaturityDays} : g[day] = b.maturing[day]
      BY <2>3 DEF Balance!get_rex_maturity
    <2> DEFINE left == b.savings - amount
    <2>5. left \in Nat
      BY <1>2, <2>3
    <2>6. c = [rex_balance |-> b.rex_balance, matured_rex |-> b.matured_rex,
               maturing |-> g, savings |-> left, order |-> b.order]
      <3>1. c = [[b EXCEPT !.maturing = g] EXCEPT !.savings = left]
        BY <2>2
      <3> HIDE DEF c, g, left
      <3> QED
        BY <2>2, <3>1
    <2> HIDE DEF c, g
    <2>7. /\ SumOf(g) = SumOf(b.maturing) + amount
          /\ \A k \in Balance!Days : k # MaturityDays => UpTo(g, k) = UpTo(b.maturing, k)
      <3> DEFINE f == b.maturing
      <3>1. /\ f \in [Balance!Days -> Nat] /\ g \in [Balance!Days -> Nat] /\ g[MaturityDays] = f[MaturityDays] + amount
            /\ \A day \in Balance!Days \ {MaturityDays} : g[day] = f[day]
        BY <2>3, <2>4
      <3> HIDE DEF f
      <3> QED
        BY <3>1, OnLastDay DEF f
    <2>8. \A k \in Balance!Days : k # MaturityDays => UpTo(g, k) <= UpTo(b.maturing, k)
      <3> SUFFICES ASSUME NEW k \in Balance!Days, k # MaturityDays
                   PROVE  UpTo(g, k) <= UpTo(b.maturing, k)
        OBVIOUS
      <3>1. UpTo(g, k) = UpTo(b.maturing, k) /\ UpTo(g, k) \in Nat
        BY <2>4, <2>7, DaySums
      <3> QED
        BY <3>1
    <2>9. b.matured_rex + SumOf(g) + left = b.matured_rex + SumOf(b.maturing) + b.savings
          /\ b.matured_rex <= b.matured_rex
      BY <2>3, <2>7
    <2> HIDE DEF left
    <2>10. BalanceSound(c, s, acquired)
      BY <2>1, <2>2, <2>3, <2>4, <2>5, <2>6, <2>8, <2>9, MoveIsSound
    <2> QED
      BY <2>1, <2>6, <2>10
  <1> HIDE DEF c
  <1> QED
    BY <1>2, <1>3, MoveStep

\* What a move to savings leaves of the days and of the matured REX.
LEMMA SavedIsTaken ==
  ASSUME Balance!RexBalanceConstants, NEW b, NEW s, NEW a, BalanceSound(b, s, a), NEW amount \in Nat,
         amount <= Balance!Unsaved(b)
  PROVE  /\ Balance!SavedMatured(b, amount) \in Nat
         /\ Balance!SavedMatured(b, amount) <= b.matured_rex - b.order
         /\ LET g == [day \in Balance!Days |-> b.maturing[day] - Balance!Saved(b, amount, day)]
            IN  /\ g \in [Balance!Days -> Nat]
                /\ SumOf(g) + amount = SumOf(b.maturing) + Balance!SavedMatured(b, amount)
                /\ \A k \in Balance!Days : UpTo(g, k) <= UpTo(b.maturing, k)
  <1> DEFINE f == b.maturing
             saved == [day \in Balance!Days |-> Balance!Saved(b, amount, day)]
             g == [day \in Balance!Days |-> f[day] - Balance!Saved(b, amount, day)]
  <1>1. /\ b.rex_balance = b.matured_rex + SumOf(f) + b.savings /\ b.order <= b.matured_rex
        /\ b.matured_rex \in Nat /\ b.order \in Nat /\ b.savings \in Nat
        /\ b.maturing \in [Balance!Days -> Nat] /\ SumOf(f) \in Nat
    BY SoundParts, SoundRecord
  <1>2. /\ saved \in [Balance!Days -> Nat]
        /\ \A day \in Balance!Days : saved[day] <= f[day]
        /\ SumOf(saved) = IF amount <= SumOf(f) THEN amount ELSE SumOf(f)
    BY <1>1, SavedAddsUp
  <1>3. Balance!SavedMatured(b, amount) = amount - SumOf(saved)
    BY SameInBalance DEF Balance!SavedMatured
  <1>4. amount <= b.matured_rex + SumOf(f) - b.order
    BY <1>1 DEF Balance!Unsaved
  <1>5. f \in [Balance!Days -> Nat]
    BY <1>1
  <1>6. g = [day \in Balance!Days |-> f[day] - saved[day]]
    OBVIOUS
  <1> HIDE DEF saved, g, f
  <1>7. /\ Balance!SavedMatured(b, amount) \in Nat
        /\ Balance!SavedMatured(b, amount) <= b.matured_rex - b.order
    BY <1>1, <1>2, <1>3, <1>4
  <1>8. /\ g \in [Balance!Days -> Nat]
        /\ \A day \in Balance!Days : g[day] <= f[day] /\ f[day] = g[day] + saved[day]
    <2>1. ASSUME NEW day \in Balance!Days
          PROVE  /\ f[day] - saved[day] \in Nat /\ f[day] - saved[day] <= f[day]
                 /\ f[day] = (f[day] - saved[day]) + saved[day]
      <3>1. f[day] \in Nat /\ saved[day] \in Nat /\ saved[day] <= f[day]
        BY <1>2, <1>5
      <3> QED
        BY <3>1
    <2> QED
      BY <1>6, <2>1
  <1>9. SumOf(f) = SumOf(g) + SumOf(saved)
    <2>1. f = [day \in Balance!Days |-> g[day] + saved[day]]
      BY <1>5, <1>8
    <2>2. IsFiniteSet(Units(g)) /\ IsFiniteSet(Units(saved))
      BY <1>2, <1>8, DaySums
    <2>3. SumOf([day \in Balance!Days |-> g[day] + saved[day]]) = SumOf(g) + SumOf(saved)
      BY <1>2, <1>8, <2>2, SumOfBoth
    <2> QED
      BY <2>1, <2>3
  <1>10. SumOf(g) \in Nat
    BY <1>8, DaySums
  <1>11. SumOf(g) + amount = SumOf(f) + Balance!SavedMatured(b, amount)
    BY <1>1, <1>2, <1>3, <1>9, <1>10
  <1>12. ASSUME NEW k \in Balance!Days
         PROVE  UpTo(g, k) <= UpTo(f, k)
    <2> DEFINE G == [day \in 0 .. k |-> g[day]]
               F == [day \in 0 .. k |-> f[day]]
               S == 0 .. k
    <2>1. /\ G \in [S -> Nat] /\ F \in [S -> Nat] /\ IsFiniteSet(Units(F))
      BY <1>5, <1>8, DaySums
    <2>2. \A day \in S : G[day] <= F[day]
      <3>1. MaturityDays \in Nat /\ Balance!Days = 0 .. MaturityDays
        BY DEF Balance!RexBalanceConstants, Balance!Days
      <3>2. \A day \in S : day \in Balance!Days
        BY <3>1
      <3> QED
        BY <1>8, <3>2
    <2> HIDE DEF G, F, S
    <2>3. SumOf(G) <= SumOf(F)
      BY ONLY <2>1, <2>2, SumOfSmaller
    <2> QED
      BY <2>3 DEF UpTo, G, F
  <1> QED
    BY <1>7, <1>8, <1>11, <1>12 DEF g, f

\* mvtosavings
LEMMA MvToSavingsStep ==
  ASSUME Balance!RexBalanceConstants, BalanceInv, NEW amount \in Nat, Balance!MvToSavings(amount)
  PROVE  BalanceInv'
  <1>1. PICK run \in Balance!RunRex(rb) :
          LET b == Balance!Matured(run)
          IN  /\ amount <= Balance!Unsaved(b)
              /\ Balance!Becomes([b EXCEPT !.maturing = [day \in Balance!Days |-> b.maturing[day] - Balance!Saved(b, amount, day)],
                                   !.matured_rex = @ - Balance!SavedMatured(b, amount),
                                   !.savings = @ + amount])
    BY DEF Balance!MvToSavings
  <1> DEFINE b == Balance!Matured(run)
             g == [day \in Balance!Days |-> b.maturing[day] - Balance!Saved(b, amount, day)]
             c == [b EXCEPT !.maturing = g, !.matured_rex = @ - Balance!SavedMatured(b, amount),
                            !.savings = @ + amount]
  <1>2. amount <= Balance!Unsaved(b) /\ Balance!Becomes(c) /\ UNCHANGED acquired
    BY <1>1 DEF Balance!MvToSavings
  <1>3. ASSUME NEW s, BalanceSound(run, s, acquired)
        PROVE  c.rex_balance = run.rex_balance /\ BalanceSound(c, s, acquired)
    <2>1. BalanceSound(b, s, acquired) /\ b.rex_balance = run.rex_balance
      BY <1>3, MaturedIsSound
    <2> HIDE DEF b
    <2>2. /\ b \in [rex_balance : Nat, matured_rex : Nat, maturing : [Balance!Days -> Nat],
                    savings : Nat, order : Nat]
          /\ b.order <= b.matured_rex
      BY <2>1, SoundRecord
    <2>3. /\ b.matured_rex \in Nat /\ b.order \in Nat /\ b.savings \in Nat
          /\ SumOf(b.maturing) \in Nat /\ MaturityDays \in Balance!Days
      BY <2>1, SoundParts
    <2> DEFINE taken == Balance!SavedMatured(b, amount)
               matured == b.matured_rex - taken
               more == b.savings + amount
    <2>4. /\ taken \in Nat /\ taken <= b.matured_rex - b.order
          /\ g \in [Balance!Days -> Nat]
          /\ SumOf(g) + amount = SumOf(b.maturing) + taken
          /\ \A k \in Balance!Days : UpTo(g, k) <= UpTo(b.maturing, k)
      BY <1>2, <2>1, SavedIsTaken
    <2>5. c = [rex_balance |-> b.rex_balance, matured_rex |-> matured,
               maturing |-> g, savings |-> more, order |-> b.order]
      <3>1. c = [[[b EXCEPT !.maturing = g] EXCEPT !.matured_rex = matured] EXCEPT !.savings = more]
        <4> HIDE DEF g, taken
        <4> QED
          BY <2>2 DEF taken
      <3> HIDE DEF c, g, matured, more
      <3> QED
        BY <2>2, <3>1
    <2> HIDE DEF c, g, taken
    <2>6. SumOf(g) \in Nat
      BY <2>4, DaySums
    <2>7. /\ matured \in Nat /\ more \in Nat /\ matured <= b.matured_rex /\ b.order <= matured
          /\ matured + SumOf(g) + more = b.matured_rex + SumOf(b.maturing) + b.savings
      BY <2>2, <2>3, <2>4, <2>6
    <2> HIDE DEF matured, more
    <2>8. BalanceSound(c, s, acquired)
      BY <2>1, <2>4, <2>5, <2>7, MoveIsSound
    <2> QED
      BY <2>1, <2>5, <2>8
  <1> HIDE DEF c
  <1> QED
    BY <1>2, <1>3, MoveStep

\* Midnight: all REX is a day nearer to its maturity, and was acquired a day
\* earlier.
LEMMA MidnightStep ==
  ASSUME Balance!RexBalanceConstants, BalanceInv, Balance!Midnight
  PROVE  BalanceInv'
  <1> DEFINE f == rb.maturing
             g == [day \in Balance!Days |->
                     IF day = 0 THEN f[0] + f[1]
                     ELSE IF day = MaturityDays THEN 0 ELSE f[day + 1]]
             a == acquired
             h == [day \in Balance!Days |->
                     IF day = 0 THEN 0
                     ELSE IF day = MaturityDays THEN a[day] + a[day - 1] ELSE a[day - 1]]
  <1>1. rb' = [rb EXCEPT !.maturing = g] /\ acquired' = h /\ sold' = sold
    BY DEF Balance!Midnight
  <1>2. /\ rb \in [rex_balance : Nat, matured_rex : Nat, maturing : [Balance!Days -> Nat],
                   savings : Nat, order : Nat]
        /\ rb.rex_balance = rb.matured_rex + SumOf(f) + rb.savings
        /\ rb.order <= rb.matured_rex
        /\ rb.rex_balance + sold = SumOf(a) /\ sold \in Nat /\ a \in [Balance!Days -> Nat]
        /\ f \in [Balance!Days -> Nat]
    BY DEF BalanceInv, BalanceSound
  <1>3. /\ MaturityDays \in Nat \ {0} /\ Balance!Days = 0 .. MaturityDays
        /\ 0 \in Balance!Days /\ 1 \in Balance!Days /\ MaturityDays \in Balance!Days /\ MaturityDays - 1 \in Balance!Days
        /\ MaturityDays # 0
    BY DEF Balance!RexBalanceConstants, Balance!Days
  <1>4. ASSUME NEW day \in Balance!Days
        PROVE  /\ day # MaturityDays => day + 1 \in Balance!Days
               /\ day # 0 => day - 1 \in Balance!Days
               /\ MaturityDays - day \in Balance!Days
               /\ MaturityDays - day = 0 <=> day = MaturityDays
               /\ MaturityDays - day = MaturityDays <=> day = 0
               /\ MaturityDays - (day + 1) = (MaturityDays - day) - 1
    <2>1. MaturityDays \in Nat /\ day \in 0 .. MaturityDays
      BY <1>3
    <2> QED
      BY ONLY <1>3, <2>1
  <1>5. /\ g \in [Balance!Days -> Nat] /\ g[0] = f[0] + f[1] /\ g[MaturityDays] = 0
        /\ \A day \in Balance!Days \ {0, MaturityDays} : g[day] = f[day + 1]
    <2>1. ASSUME NEW day \in Balance!Days
          PROVE  g[day] \in Nat
      <3>1. f[0] \in Nat /\ f[1] \in Nat /\ (day # MaturityDays => f[day + 1] \in Nat)
        BY <1>2, <1>3, <1>4
      <3> QED
        BY <3>1
    <2>2. g \in [Balance!Days -> Nat]
      BY <2>1
    <2> QED
      BY <1>3, <2>2
  <1>6. h \in [Balance!Days -> Nat]
    <2>1. ASSUME NEW day \in Balance!Days
          PROVE  h[day] \in Nat
      <3>1. a[day] \in Nat /\ (day # 0 => a[day - 1] \in Nat)
        BY <1>2, <1>4
      <3> QED
        BY <3>1
    <2> QED
      BY <2>1
  <1> DEFINE R == Reversed(a)
             H == Reversed(h)
  <1>7. R \in [Balance!Days -> Nat] /\ H \in [Balance!Days -> Nat] /\ SumOf(R) = SumOf(a) /\ SumOf(H) = SumOf(h)
    <2> HIDE DEF a, h
    <2> QED
      BY <1>2, <1>6, ReversedSum
  <1>8. H[0] = R[0] + R[1] /\ H[MaturityDays] = 0
    <2>1. H[0] = h[MaturityDays] /\ H[MaturityDays] = h[0]
      <3>1. MaturityDays - 0 = MaturityDays /\ MaturityDays - MaturityDays = 0
        BY <1>3
      <3> HIDE DEF h
      <3> QED
        BY <1>3, <3>1 DEF Reversed
    <2>2. h[MaturityDays] = a[MaturityDays] + a[MaturityDays - 1] /\ h[0] = 0
      BY <1>3
    <2>3. R[0] = a[MaturityDays] /\ R[1] = a[MaturityDays - 1]
      <3>1. MaturityDays - 0 = MaturityDays
        BY <1>3
      <3> HIDE DEF a
      <3> QED
        BY <1>3, <3>1 DEF Reversed
    <2> QED
      BY <2>1, <2>2, <2>3
  <1>9. \A day \in Balance!Days \ {0, MaturityDays} : H[day] = R[day + 1]
    <2> SUFFICES ASSUME NEW day \in Balance!Days, day # 0, day # MaturityDays
                 PROVE  H[day] = R[day + 1]
      OBVIOUS
    <2> DEFINE e == MaturityDays - day
    <2>1. /\ e \in Balance!Days /\ e # 0 /\ e # MaturityDays /\ day + 1 \in Balance!Days
          /\ MaturityDays - (day + 1) = e - 1
      BY <1>4
    <2>2. H[day] = h[e] /\ R[day + 1] = a[MaturityDays - (day + 1)]
      BY <2>1 DEF Reversed
    <2> HIDE DEF e
    <2>3. h[e] = a[e - 1]
      BY <2>1
    <2> QED
      BY <2>1, <2>2, <2>3
  <1> HIDE DEF f, g, a, h, R, H
  <1>10. /\ SumOf(g) = SumOf(f)
         /\ \A k \in 0 .. MaturityDays - 1 : UpTo(g, k) = UpTo(f, k + 1)
    BY <1>2, <1>5, DaysShifted
  <1>11. /\ SumOf(H) = SumOf(R)
         /\ \A k \in 0 .. MaturityDays - 1 : UpTo(H, k) = UpTo(R, k + 1)
    BY <1>7, <1>8, <1>9, DaysShifted
  <1>12. /\ UpTo(g, MaturityDays) = UpTo(f, MaturityDays)
         /\ UpTo(H, MaturityDays) = UpTo(R, MaturityDays)
    BY <1>2, <1>5, <1>7, <1>10, <1>11, DaySums, ZenonT(60)
  <1>13. \A k \in Balance!Days : rb.matured_rex + UpTo(f, k) + sold <= UpTo(R, k)
    BY DEF BalanceInv, BalanceSound, AgesAreKept, f, R, a
  <1>14. \A k \in Balance!Days : rb.matured_rex + UpTo(g, k) + sold <= UpTo(H, k)
    <2> SUFFICES ASSUME NEW k \in Balance!Days
                 PROVE  rb.matured_rex + UpTo(g, k) + sold <= UpTo(H, k)
      OBVIOUS
    <2>1. CASE k = MaturityDays
      BY <1>12, <1>13, <2>1
    <2>2. CASE k # MaturityDays
      <3>1. k \in 0 .. MaturityDays - 1 /\ k + 1 \in Balance!Days
        <4>1. MaturityDays \in Nat /\ k \in 0 .. MaturityDays
          BY <1>3
        <4> QED
          BY ONLY <1>3, <2>2, <4>1
      <3>2. UpTo(g, k) = UpTo(f, k + 1) /\ UpTo(H, k) = UpTo(R, k + 1)
        BY <1>10, <1>11, <3>1
      <3> QED
        BY <1>13, <3>1, <3>2
    <2> QED
      BY <2>1, <2>2
  <1>15. rb' = [rex_balance |-> rb.rex_balance, matured_rex |-> rb.matured_rex,
                maturing |-> g, savings |-> rb.savings, order |-> rb.order]
    BY <1>1, <1>2
  <1>16. AgesAreKept(rb', sold', acquired')
    BY <1>1, <1>14, <1>15 DEF AgesAreKept, H
  <1>17. rb'.rex_balance = rb'.matured_rex + SumOf(rb'.maturing) + rb'.savings
    BY <1>2, <1>10, <1>15
  <1>18. rb'.rex_balance + sold' = SumOf(acquired')
    BY <1>1, <1>2, <1>7, <1>11, <1>15
  <1>19. rb' \in [rex_balance : Nat, matured_rex : Nat, maturing : [Balance!Days -> Nat],
                  savings : Nat, order : Nat]
    BY <1>2, <1>5, <1>15
  <1>20. rb'.order <= rb'.matured_rex /\ sold' \in Nat /\ acquired' \in [Balance!Days -> Nat]
    BY <1>1, <1>2, <1>6, <1>15
  <1>21. BalanceSound(rb', sold', acquired')
    BY <1>16, <1>17, <1>18, <1>19, <1>20 DEF BalanceSound
  <1> QED
    BY <1>21 DEF BalanceInv

\* An owner without REX has a sound balance.
LEMMA BalanceInit ==
  ASSUME Balance!RexBalanceConstants, Balance!Init
  PROVE  BalanceInv
  <1>1. Balance!NoRex \in [Balance!Days -> Nat] /\ SumOf(Balance!NoRex) = 0 /\ 0 \in Nat
    BY SumOfZeros DEF Balance!NoRex
  <1>2. /\ rb = [rex_balance |-> 0, matured_rex |-> 0, maturing |-> Balance!NoRex, savings |-> 0, order |-> 0]
        /\ acquired = Balance!NoRex /\ sold = 0
    BY DEF Balance!Init
  <1>3. Reversed(Balance!NoRex) = Balance!NoRex
    <2>1. \A day \in Balance!Days : MaturityDays - day \in Balance!Days
      <3>1. MaturityDays \in Nat
        BY DEF Balance!RexBalanceConstants
      <3> QED
        BY <3>1 DEF Balance!Days
    <2> QED
      BY <2>1 DEF Reversed, Balance!NoRex
  <1> HIDE DEF Balance!NoRex
  <1>4. AgesAreKept(rb, sold, acquired)
    <2> SUFFICES ASSUME NEW k \in Balance!Days
                 PROVE  rb.matured_rex + UpTo(rb.maturing, k) + sold <= UpTo(Reversed(acquired), k)
      BY DEF AgesAreKept
    <2>1. UpTo(Balance!NoRex, k) \in Nat
      BY <1>1, DaySums
    <2>2. 0 + UpTo(Balance!NoRex, k) + 0 <= UpTo(Balance!NoRex, k)
      BY <2>1
    <2> QED
      BY <1>2, <1>3, <2>2
  <1>5. 0 = 0 + SumOf(Balance!NoRex) + 0 /\ 0 + 0 = SumOf(Balance!NoRex) /\ 0 <= 0
    BY <1>1
  <1> QED
    BY <1>1, <1>2, <1>4, <1>5 DEF BalanceInv, BalanceSound

\* What the invariant says of the balance.
LEMMA InvIsSound ==
  ASSUME Balance!RexBalanceConstants, BalanceInv
  PROVE  Balance!TypeOK /\ Balance!BalanceIsSound
  <1>1. /\ rb \in [rex_balance : Nat, matured_rex : Nat, maturing : [Balance!Days -> Nat],
                   savings : Nat, order : Nat]
        /\ sold \in Nat /\ acquired \in [Balance!Days -> Nat]
        /\ rb.rex_balance = rb.matured_rex + SumOf(rb.maturing) + rb.savings
        /\ rb.order <= rb.matured_rex
    BY DEF BalanceInv, BalanceSound
  <1>2. Balance!SoldIsOld
    <2> DEFINE R == Reversed(acquired)
               g == [day \in 0 .. 0 |-> R[day]]
    <2>1. /\ 0 \in Balance!Days /\ MaturityDays \in Nat /\ R \in [Balance!Days -> Nat]
      BY SoundParts DEF BalanceInv
    <2>2. rb.matured_rex + UpTo(rb.maturing, 0) + sold <= UpTo(R, 0)
      BY <2>1 DEF BalanceInv, BalanceSound, AgesAreKept
    <2>3. UpTo(R, 0) = R[0]
      <3>1. g \in [0 .. 0 -> Nat] /\ 0 \in 0 .. 0 /\ g[0] = R[0] /\ \A x \in (0 .. 0) \ {0} : g[x] = 0
        BY <2>1
      <3> HIDE DEF g
      <3>2. SumOf(g) = g[0]
        BY <3>1, SumOfOneEntry
      <3> QED
        BY <3>1, <3>2 DEF UpTo, g
    <2>4. R[0] = acquired[MaturityDays]
      <3>1. MaturityDays - 0 = MaturityDays
        BY <2>1
      <3> QED
        BY <2>1, <3>1 DEF Reversed
    <2>5. rb.matured_rex \in Nat /\ UpTo(rb.maturing, 0) \in Nat /\ acquired[MaturityDays] \in Nat
      <3>1. MaturityDays \in Balance!Days
        BY <2>1 DEF Balance!Days
      <3> QED
        BY <1>1, <2>1, <3>1, DaySums
    <2> HIDE DEF R
    <2> QED
      BY <1>1, <2>2, <2>3, <2>4, <2>5 DEF Balance!SoldIsOld
  <1>3. Balance!SavingsNeverFail
    <2> DEFINE m == Balance!Matured(rb)
    <2> SUFFICES ASSUME NEW amount \in Amounts, amount <= Balance!Unsaved(rb)
                 PROVE  rb.order <= m.matured_rex - Balance!SavedMatured(m, amount)
      BY DEF Balance!SavingsNeverFail
    <2>1. amount \in Nat
      BY DEF Balance!RexBalanceConstants
    <2>2. BalanceSound(m, sold, acquired)
      BY MaturedIsSound DEF BalanceInv
    <2>3. m.order = rb.order /\ m.savings = rb.savings /\ m.rex_balance = rb.rex_balance
      BY <1>1 DEF Balance!Matured
    <2> HIDE DEF m
    <2>4. amount <= Balance!Unsaved(m)
      BY <2>3 DEF Balance!Unsaved
    <2>5. /\ Balance!SavedMatured(m, amount) \in Nat
          /\ Balance!SavedMatured(m, amount) <= m.matured_rex - m.order
      BY <2>1, <2>2, <2>4, SavedIsTaken
    <2>6. m.matured_rex \in Nat /\ m.order \in Nat
      BY <2>2, SoundParts
    <2> QED
      BY <2>3, <2>5, <2>6
  <1> QED
    BY <1>1, <1>2, <1>3, SameInBalance
      DEF Balance!TypeOK, Balance!BalanceIsSound, Balance!PartsAddUp, Balance!OrderIsCovered

\* Whatever an owner buys, sells, moves and leaves open, whoever fills its
\* orders and however many midnights pass: its balance is the sum of its parts,
\* covers its order, has sold nothing that was not four days and the rest of a
\* day old, and mvtosavings never fails with its "logic error" (rex.cpp).
THEOREM RexBalanceIsSound ==
  ASSUME Balance!RexBalanceConstants
  PROVE  Balance!Spec => [](Balance!TypeOK /\ Balance!BalanceIsSound)
  <1>1. Balance!Init => BalanceInv
    BY BalanceInit
  <1>2. BalanceInv /\ [Balance!Next]_<<rb, acquired, sold>> => BalanceInv'
    <2> SUFFICES ASSUME BalanceInv, [Balance!Next]_<<rb, acquired, sold>>
                 PROVE  BalanceInv'
      OBVIOUS
    <2>1. ASSUME NEW amount \in Amounts,
                 Balance!BuyRex(amount) \/ Balance!SellRex(amount) \/ Balance!MvToSavings(amount) \/ Balance!MvFrSavings(amount)
          PROVE  BalanceInv'
      <3>1. amount \in Nat
        BY DEF Balance!RexBalanceConstants
      <3> QED
        BY <2>1, <3>1, BuyRexStep, SellRexStep, MvToSavingsStep, MvFrSavingsStep
    <2>2. CASE Balance!CancelRexOrder
      BY <2>2, CancelRexOrderStep
    <2>3. CASE Balance!OthersRun \/ Balance!UpdateRex
      BY <2>3, RunStep
    <2>4. CASE Balance!Consolidate
      BY <2>4, ConsolidateStep
    <2>5. CASE Balance!Midnight
      BY <2>5, MidnightStep
    <2>6. CASE UNCHANGED <<rb, acquired, sold>>
      BY <2>6 DEF BalanceInv
    <2> QED
      BY <2>1, <2>2, <2>3, <2>4, <2>5, <2>6 DEF Balance!Next
  <1>3. BalanceInv => Balance!TypeOK /\ Balance!BalanceIsSound
    BY InvIsSound
  <1> QED
    BY <1>1, <1>2, <1>3, PTL DEF Balance!Spec, Balance!vars

-----------------------------------------------------------------------------
(* The return pool of REX (RexReturns).                                    *)

CONSTANTS TotalIntervals, IntervalsPerBucket, None, LastFee, LastTime, MaxFees

VARIABLES now, pool, buckets, returned, fees

Returns == INSTANCE RexReturns

\* At a time n, some buckets of a table D each return their rate b since a time
\* of their own: the L that are left still do, the E that expired, T after
\* their own time, do not.
Flows(T, n, D, b, from, L, E) ==
  /\ T \in Nat /\ n \in Nat /\ IsFiniteSet(D) /\ D \subseteq Nat
  /\ b \in [D -> Nat] /\ from \in [D -> Nat]
  /\ \A t \in D : from[t] <= n /\ from[t] <= t + T
  /\ L \union E = D /\ L \intersect E = {}
  /\ \A t \in L : n <= t + T
  /\ \A t \in E : t + T <= n

\* What those buckets had to return is what they have returned and have still to
\* return, when what those past their end returned since is taken back.
FlowsEven(T, n, D, b, from, L, E) ==
  LET due == SumOf([t \in D |-> b[t] * (t + T - from[t])])
      flowed == SumOf([t \in D |-> b[t] * (n - from[t])])
      surplus == SumOf([t \in E |-> b[t] * (n - (t + T))])
      left == SumOf([t \in L |-> b[t] * (t + T - n)])
  IN  /\ due \in Nat /\ flowed \in Nat /\ surplus \in Nat /\ left \in Nat
      /\ due + surplus = flowed + left
      /\ surplus <= flowed

\* No part of a bucket's rate is lost or returned twice.
LEMMA FlowsAddUp ==
  ASSUME NEW T, NEW n, NEW D, NEW b, NEW from, NEW L, NEW E, Flows(T, n, D, b, from, L, E)
  PROVE  FlowsEven(T, n, D, b, from, L, E)
  <1> DEFINE d == [t \in D |-> b[t] * (t + T - from[t])]
             f == [t \in D |-> b[t] * (n - from[t])]
             s == [t \in D |-> IF t \in E THEN b[t] * (n - (t + T)) ELSE 0]
             l == [t \in D |-> IF t \in L THEN b[t] * (t + T - n) ELSE 0]
  <1>0. /\ T \in Nat /\ n \in Nat /\ IsFiniteSet(D) /\ D \subseteq Nat
        /\ b \in [D -> Nat] /\ from \in [D -> Nat]
        /\ \A t \in D : from[t] <= n /\ from[t] <= t + T
        /\ L \union E = D /\ L \intersect E = {}
        /\ \A t \in L : n <= t + T
        /\ \A t \in E : t + T <= n
    BY DEF Flows
  <1> USE <1>0
  <1>1. ASSUME NEW t \in D
        PROVE  /\ d[t] \in Nat /\ f[t] \in Nat /\ s[t] \in Nat /\ l[t] \in Nat
               /\ d[t] + s[t] = f[t] + l[t]
               /\ s[t] <= f[t]
    <2> DEFINE x == t + T - from[t]
               y == n - from[t]
    <2>1. t \in Nat /\ b[t] \in Nat /\ from[t] \in Nat /\ from[t] <= n /\ from[t] <= t + T
      OBVIOUS
    <2>2. x \in Nat /\ y \in Nat
      BY <2>1
    <2>3. CASE t \in E
      <3> DEFINE z == n - (t + T)
      <3>1. t + T <= n /\ t \notin L
        BY <2>3
      <3>2. z \in Nat /\ y = x + z
        BY <2>1, <3>1
      <3>3. s[t] = b[t] * z /\ l[t] = 0 /\ d[t] = b[t] * x /\ f[t] = b[t] * y
        BY <2>3, <3>1
      <3> HIDE DEF x, y, z, d, f, s, l
      <3>4. b[t] * y = b[t] * x + b[t] * z /\ b[t] * x \in Nat /\ b[t] * z \in Nat
        BY <2>1, <2>2, <3>2, ProductIsNat
      <3> QED
        BY <3>3, <3>4
    <2>4. CASE t \in L
      <3> DEFINE z == t + T - n
      <3>1. n <= t + T /\ t \notin E
        BY <2>4
      <3>2. z \in Nat /\ x = y + z
        BY <2>1, <3>1
      <3>3. s[t] = 0 /\ l[t] = b[t] * z /\ d[t] = b[t] * x /\ f[t] = b[t] * y
        BY <2>4, <3>1
      <3> HIDE DEF x, y, z, d, f, s, l
      <3>4. b[t] * x = b[t] * y + b[t] * z /\ b[t] * y \in Nat /\ b[t] * z \in Nat
        BY <2>1, <2>2, <3>2, ProductIsNat
      <3> QED
        BY <3>3, <3>4
    <2> QED
      BY <2>3, <2>4
  <1>2. /\ d \in [D -> Nat] /\ f \in [D -> Nat] /\ s \in [D -> Nat] /\ l \in [D -> Nat]
        /\ [t \in D |-> d[t] + s[t]] = [t \in D |-> f[t] + l[t]]
        /\ \A t \in D : s[t] <= f[t]
    <2>1. \A t \in D : d[t] \in Nat /\ f[t] \in Nat /\ s[t] \in Nat /\ l[t] \in Nat
      BY <1>1
    <2>2. \A t \in D : d[t] + s[t] = f[t] + l[t] /\ s[t] <= f[t]
      BY <1>1
    <2> HIDE DEF d, f, s, l
    <2>3. [t \in D |-> d[t] + s[t]] = [t \in D |-> f[t] + l[t]]
      BY <2>2
    <2> QED
      BY <2>1, <2>2, <2>3 DEF d, f, s, l
  <1>3. [t \in E |-> s[t]] = [t \in E |-> b[t] * (n - (t + T))] /\ \A t \in D \ E : s[t] = 0
    OBVIOUS
  <1>4. [t \in L |-> l[t]] = [t \in L |-> b[t] * (t + T - n)] /\ \A t \in D \ L : l[t] = 0
    OBVIOUS
  <1>5. E \subseteq D /\ L \subseteq D
    OBVIOUS
  <1> HIDE DEF d, f, s, l
  <1>6. /\ IsFiniteSet(Units(d)) /\ IsFiniteSet(Units(f))
        /\ IsFiniteSet(Units(s)) /\ IsFiniteSet(Units(l))
    BY <1>2, SumIsFinite
  <1>7. SumOf(d) \in Nat /\ SumOf(f) \in Nat /\ SumOf(s) \in Nat /\ SumOf(l) \in Nat
    BY <1>6, FS_CardinalityType DEF SumOf
  <1>8. SumOf([t \in D |-> d[t] + s[t]]) = SumOf(d) + SumOf(s)
    <2>1. /\ d \in [D -> Nat] /\ s \in [D -> Nat]
          /\ IsFiniteSet(Units(d)) /\ IsFiniteSet(Units(s))
      BY <1>2, <1>6
    <2> QED
      BY ONLY <2>1, SumOfBoth
  <1>9. SumOf([t \in D |-> f[t] + l[t]]) = SumOf(f) + SumOf(l)
    <2>1. /\ f \in [D -> Nat] /\ l \in [D -> Nat]
          /\ IsFiniteSet(Units(f)) /\ IsFiniteSet(Units(l))
      BY <1>2, <1>6
    <2> QED
      BY ONLY <2>1, SumOfBoth
  <1>10. SumOf(s) <= SumOf(f)
    BY <1>2, <1>6, SumOfSmaller
  <1>11. SumOf([t \in E |-> s[t]]) = SumOf(s)
    <2>1. /\ s \in [D -> Nat] /\ IsFiniteSet(Units(s))
          /\ E \subseteq D /\ \A t \in D \ E : s[t] = 0
      BY <1>2, <1>3, <1>5, <1>6
    <2> QED
      BY ONLY <2>1, SumOfSupport
  <1>12. SumOf([t \in L |-> l[t]]) = SumOf(l)
    <2>1. /\ l \in [D -> Nat] /\ IsFiniteSet(Units(l))
          /\ L \subseteq D /\ \A t \in D \ L : l[t] = 0
      BY <1>2, <1>4, <1>5, <1>6
    <2> QED
      BY ONLY <2>1, SumOfSupport
  <1>13. /\ SumOf([t \in E |-> b[t] * (n - (t + T))]) = SumOf(s)
         /\ SumOf([t \in L |-> b[t] * (t + T - n)]) = SumOf(l)
    BY <1>3, <1>4, <1>11, <1>12
  <1>14. SumOf(d) + SumOf(s) = SumOf(f) + SumOf(l)
    BY <1>2, <1>8, <1>9
  <1> QED
    BY <1>7, <1>10, <1>13, <1>14 DEF d, f, FlowsEven

\* Times of the return pool, and the constants it is built with.
ReturnsConstants == Returns!RexReturnsConstants /\ now \in Nat /\ TotalIntervals <= now

\* The sums and minima of that module are those of this one.
LEMMA SameSums ==
  /\ \A f : Returns!SumOf(f) = SumOf(f)
  /\ \A S : Returns!Min(S) = Min(S)
  <1>1. ASSUME NEW f
        PROVE  Returns!SumOf(f) = SumOf(f)
    BY Zenon DEF Returns!SumOf, Returns!Units, Returns!Cardinality, SumOf, Units, Cardinality
  <1>2. ASSUME NEW S
        PROVE  Returns!Min(S) = Min(S)
    BY DEF Returns!Min, Min
  <1> QED
    BY <1>1, <1>2

PoolRows ==
  [exists : BOOLEAN, last_dist_time : Nat, pending_bucket_time : Nat \union {None},
   oldest_bucket_time : Nat, pending_bucket_proceeds : Nat,
   current_rate_of_increase : Nat, proceeds : Nat]

\* What some buckets have still to return at a time.
DueAt(bs, time) == SumOf([t \in DOMAIN bs |-> bs[t] * (t + TotalIntervals - time)])

\* A bucket that is in the table is older than the pending one and had not
\* expired when the pool was looked at last.  A pool that does not exist yet
\* has none: the time of its first distribution is set without regard to them.
BucketsKept(rp, bs) ==
  /\ IsFiniteSet(DOMAIN bs) /\ DOMAIN bs \subseteq Nat /\ bs \in [DOMAIN bs -> Nat]
  /\ \A t \in DOMAIN bs :
       /\ t <= now /\ rp.oldest_bucket_time <= t
       /\ rp.last_dist_time <= t + TotalIntervals
       /\ rp.pending_bucket_time # None => t < rp.pending_bucket_time
  /\ ~rp.exists => DOMAIN bs = {}

\* A pool with the buckets it accounts for.
PoolKept(rp, bs) ==
  /\ rp \in PoolRows
  /\ BucketsKept(rp, bs)
  /\ rp.proceeds = rp.pending_bucket_proceeds + DueAt(bs, rp.last_dist_time)
  /\ rp.current_rate_of_increase = SumOf(bs)

ReturnsInv ==
  /\ now \in TotalIntervals .. LastTime
  /\ PoolKept(pool, buckets)
  /\ returned \in Nat /\ fees \in Nat
  /\ fees = returned + pool.proceeds

\* What has flowed from buckets that each began to return at a time of its
\* own, and what they had to return then.
FlowedFrom(bs, from) == SumOf([t \in DOMAIN bs |-> bs[t] * (now - from[t])])
DueFrom(bs, from) == SumOf([t \in DOMAIN bs |-> bs[t] * (t + TotalIntervals - from[t])])

\* What is pending, in equal parts and a remainder.
LEMMA PendingParts ==
  ASSUME ReturnsConstants, NEW rp \in PoolRows
  PROVE  /\ Returns!Remainder(rp) \in Nat /\ Returns!NewRate(rp) \in Nat
         /\ rp.pending_bucket_proceeds
              = Returns!NewRate(rp) * TotalIntervals + Returns!Remainder(rp)
  <1> DEFINE p == rp.pending_bucket_proceeds
             T == TotalIntervals
             m == p % T
             n == p - m
  <1>1. p \in Nat /\ T \in Nat \ {0}
    BY DEF PoolRows, ReturnsConstants, Returns!RexReturnsConstants
  <1> HIDE DEF p, T
  <1>2. p \div T \in Nat /\ m \in Nat /\ m <= p /\ p = T * (p \div T) + m
    <2>1. p \div T \in Nat /\ T * (p \div T) <= p
      BY <1>1, DivisionBounds
    <2>2. m \in 0 .. T - 1 /\ p = T * (p \div T) + m
      BY <1>1
    <2>3. T * (p \div T) \in Nat
      BY <1>1, <2>1, ProductIsNat
    <2> QED
      BY <1>1, <2>1, <2>2, <2>3
  <1>3. n = T * (p \div T) /\ n \div T = p \div T
    <2> DEFINE q == p \div T
               r == n \div T
    <2>1. q \in Nat /\ n \in Nat /\ n = T * q
      BY <1>1, <1>2
    <2>2. r \in Nat /\ T * r <= n /\ n < T * r + T
      <3> HIDE DEF n
      <3> QED
        BY <1>1, <2>1, DivisionBounds
    <2> HIDE DEF q, n, r
    <2>3. ~(r < q)
      <3> SUFFICES ASSUME r < q
                   PROVE  FALSE
        OBVIOUS
      <3>1. r + 1 <= q /\ r + 1 \in Nat
        BY <2>1, <2>2
      <3>2. T * (r + 1) <= T * q
        BY <1>1, <2>1, <3>1, ProductMonotonic
      <3>3. T * (r + 1) = T * r + T /\ T * r \in Nat
        BY <1>1, <2>2, ProductIsNat
      <3> QED
        BY <1>1, <2>1, <2>2, <3>2, <3>3
    <2>4. ~(q < r)
      <3> SUFFICES ASSUME q < r
                   PROVE  FALSE
        OBVIOUS
      <3>1. q + 1 <= r /\ q + 1 \in Nat
        BY <2>1, <2>2
      <3>2. T * (q + 1) <= T * r
        BY <1>1, <2>2, <3>1, ProductMonotonic
      <3>3. T * (q + 1) = T * q + T /\ T * q \in Nat
        BY <1>1, <2>1, ProductIsNat
      <3> QED
        BY <1>1, <2>1, <2>2, <3>2, <3>3
    <2>5. q = r
      BY <2>1, <2>2, <2>3, <2>4
    <2> QED
      BY <2>1, <2>5 DEF q, r
  <1>4. Returns!Remainder(rp) = m /\ Returns!NewRate(rp) = n \div T
    BY DEF Returns!Remainder, Returns!NewRate, p, T
  <1>5. T * (p \div T) = (p \div T) * T
    BY <1>1, <1>2
  <1> HIDE DEF m, n
  <1> QED
    BY <1>2, <1>3, <1>4, <1>5 DEF p, T

\* The row of a pool before it is known that its proceeds cover the change.
OpenRows ==
  [exists : BOOLEAN, last_dist_time : Nat, pending_bucket_time : Nat \union {None},
   oldest_bucket_time : Nat, pending_bucket_proceeds : Nat,
   current_rate_of_increase : Nat, proceeds : Int]

\* A change of the pool is what flowed from each bucket since its own time, and
\* a remainder.
FlowsFrom(rp, d, from, rem) ==
  /\ rem \in Nat
  /\ IsFiniteSet(DOMAIN d.buckets) /\ DOMAIN d.buckets \subseteq Nat
  /\ d.buckets \in [DOMAIN d.buckets -> Nat] /\ from \in [DOMAIN d.buckets -> Nat]
  /\ \A t \in DOMAIN d.buckets :
       /\ from[t] <= now /\ from[t] <= t + TotalIntervals
       /\ t <= now /\ d.pool.oldest_bucket_time <= t
       /\ d.pool.pending_bucket_time # None => t < d.pool.pending_bucket_time
  /\ d.pool \in OpenRows
  /\ d.pool.exists = rp.exists /\ d.pool.last_dist_time = now
  /\ d.pool.current_rate_of_increase = SumOf(d.buckets)
  /\ d.pool.proceeds = rp.proceeds - d.change
  /\ d.change = FlowedFrom(d.buckets, from) + rem
  /\ rp.proceeds = d.pool.pending_bucket_proceeds + rem + DueFrom(d.buckets, from)

\* A row whose proceeds and last time change, and one with a bucket completed.
LEMMA OpenRow ==
  ASSUME NEW rp \in PoolRows, NEW q \in Int, NEW time \in Nat
  PROVE  LET a == [rp EXCEPT !.proceeds = q, !.last_dist_time = time]
         IN  /\ a \in OpenRows /\ a.exists = rp.exists
             /\ a.last_dist_time = time /\ a.proceeds = q
             /\ a.current_rate_of_increase = rp.current_rate_of_increase
             /\ a.pending_bucket_proceeds = rp.pending_bucket_proceeds
             /\ a.pending_bucket_time = rp.pending_bucket_time
             /\ a.oldest_bucket_time = rp.oldest_bucket_time
  <1> DEFINE b == [rp EXCEPT !.proceeds = q]
  <1>1. rp \in OpenRows
    BY DEF PoolRows, OpenRows
  <1>2. b \in OpenRows /\ b.proceeds = q
    BY <1>1 DEF OpenRows
  <1>3. /\ b.exists = rp.exists
        /\ b.current_rate_of_increase = rp.current_rate_of_increase
        /\ b.pending_bucket_proceeds = rp.pending_bucket_proceeds
        /\ b.pending_bucket_time = rp.pending_bucket_time
        /\ b.oldest_bucket_time = rp.oldest_bucket_time
    BY <1>1 DEF OpenRows
  <1>4. [rp EXCEPT !.proceeds = q, !.last_dist_time = time] = [b EXCEPT !.last_dist_time = time]
    OBVIOUS
  <1> HIDE DEF b
  <1> DEFINE a == [b EXCEPT !.last_dist_time = time]
  <1>5. a \in OpenRows /\ a.last_dist_time = time
    BY <1>2 DEF OpenRows
  <1>6. /\ a.exists = b.exists /\ a.proceeds = b.proceeds
        /\ a.current_rate_of_increase = b.current_rate_of_increase
        /\ a.pending_bucket_proceeds = b.pending_bucket_proceeds
        /\ a.pending_bucket_time = b.pending_bucket_time
        /\ a.oldest_bucket_time = b.oldest_bucket_time
    BY <1>2 DEF OpenRows
  <1> HIDE DEF a
  <1>7. [rp EXCEPT !.proceeds = q, !.last_dist_time = time] = a
    BY <1>4 DEF a
  <1> QED
    BY <1>2, <1>3, <1>5, <1>6, <1>7

\* What flowed since the last time becomes the change of the pool, from the
\* buckets at the rate of all of them, and from the pending one, when it is
\* complete, since its own time.
LEMMA DistributedKeeps ==
  ASSUME ReturnsConstants, NEW rp, NEW bs, PoolKept(rp, bs), rp.last_dist_time <= now,
         NEW d, d = Returns!Distributed(rp, bs)
  PROVE  \E from, rem : FlowsFrom(rp, d, from, rem)
  <1> DEFINE D == DOMAIN bs
             last == rp.last_dist_time
             p == rp.pending_bucket_time
             T == TotalIntervals
             rate == rp.current_rate_of_increase
             flowed == rate * (now - last)
             y == now - last
  <1>1. /\ rp \in PoolRows /\ IsFiniteSet(D) /\ D \subseteq Nat /\ bs \in [D -> Nat]
        /\ \A t \in D : /\ t <= now /\ rp.oldest_bucket_time <= t /\ last <= t + T
                        /\ p # None => t < p
        /\ rp.proceeds = rp.pending_bucket_proceeds + DueAt(bs, last)
        /\ rate = SumOf(bs)
    BY DEF PoolKept, BucketsKept
  <1>2. /\ last \in Nat /\ p \in Nat \union {None} /\ rate \in Nat
        /\ rp.pending_bucket_proceeds \in Nat /\ rp.oldest_bucket_time \in Nat
        /\ T \in Nat \ {0} /\ now \in Nat /\ y \in Nat /\ None \notin Nat
    BY <1>1 DEF PoolRows, ReturnsConstants, Returns!RexReturnsConstants
  <1>3. IsFiniteSet(Units(bs))
    BY <1>1, SumIsFinite
  <1>4. flowed = SumOf([t \in D |-> bs[t] * y]) /\ flowed \in Nat
    <2>1. flowed = SumOf(bs) * y
      BY <1>1
    <2>2. SumOf([t \in D |-> bs[t] * y]) = SumOf(bs) * y
      <3> HIDE DEF y, D
      <3> QED
        BY <1>1, <1>2, <1>3, SumOfScaled, ZenonT(60)
    <2>3. flowed \in Nat
      BY <1>2, ProductIsNat
    <2> QED
      BY <2>1, <2>2, <2>3
  <1>5. d = Returns!Distributed(rp, bs)
    OBVIOUS
  <1>6. CASE ~Returns!Completes(rp)
    <2> DEFINE from == [t \in D |-> last]
    <2>1. /\ d.buckets = bs /\ d.change = flowed
          /\ d.pool = [rp EXCEPT !.proceeds = @ - flowed, !.last_dist_time = now]
      BY <1>5, <1>6 DEF Returns!Distributed
    <2>2. from \in [DOMAIN d.buckets -> Nat] /\ 0 \in Nat
      BY <1>2, <2>1
    <2>3. FlowedFrom(bs, from) = flowed
      <3>1. [t \in D |-> bs[t] * (now - from[t])] = [t \in D |-> bs[t] * y]
        OBVIOUS
      <3> QED
        BY <1>4, <3>1 DEF FlowedFrom
    <2>4. DueFrom(bs, from) = DueAt(bs, last) /\ DueAt(bs, last) \in Nat
      <3>1. [t \in D |-> bs[t] * (t + T - from[t])] = [t \in D |-> bs[t] * (t + T - last)]
        OBVIOUS
      <3>2. [t \in D |-> bs[t] * (t + T - last)] \in [D -> Nat]
        <4> SUFFICES ASSUME NEW t \in D
                     PROVE  bs[t] * (t + T - last) \in Nat
          OBVIOUS
        <4> DEFINE z == t + T - last
        <4>1. bs[t] \in Nat /\ z \in Nat
          BY <1>1, <1>2
        <4> HIDE DEF z
        <4>2. bs[t] * z \in Nat
          BY <4>1, ProductIsNat
        <4> QED
          BY <4>2 DEF z
      <3>3. SumOf([t \in D |-> bs[t] * (t + T - last)]) \in Nat
        <4> DEFINE g == [t \in D |-> bs[t] * (t + T - last)]
        <4>1. g \in [D -> Nat]
          BY <3>2
        <4> HIDE DEF g
        <4>2. SumOf(g) \in Nat
          BY <1>1, <4>1, SumIsFinite, FS_CardinalityType DEF SumOf
        <4> QED
          BY <4>2 DEF g
      <3> QED
        BY <3>1, <3>3 DEF DueFrom, DueAt
    <2>5. /\ d.pool.pending_bucket_proceeds = rp.pending_bucket_proceeds
          /\ d.pool.pending_bucket_time = p
          /\ d.pool.oldest_bucket_time = rp.oldest_bucket_time
      BY <1>1, <2>1 DEF PoolRows
    <2>6. \A t \in D :
            /\ from[t] <= now /\ from[t] <= t + T
            /\ t <= now /\ d.pool.oldest_bucket_time <= t
            /\ d.pool.pending_bucket_time # None => t < d.pool.pending_bucket_time
      BY <1>1, <1>2, <2>5
    <2>7. /\ d.pool \in OpenRows
          /\ d.pool.exists = rp.exists /\ d.pool.last_dist_time = now
          /\ d.pool.current_rate_of_increase = SumOf(d.buckets)
          /\ d.pool.proceeds = rp.proceeds - d.change
      <3>1. rp \in PoolRows /\ flowed \in Int /\ now \in Nat /\ d.change = flowed
        BY <1>1, <1>2, <1>4, <2>1
      <3>2. rp.current_rate_of_increase = SumOf(d.buckets)
        BY <1>1, <2>1
      <3> HIDE DEF flowed
      <3>3. d.pool = [rp EXCEPT !.proceeds = @ - flowed, !.last_dist_time = now]
        BY <2>1
      <3>4. /\ d.pool \in OpenRows /\ d.pool.exists = rp.exists
            /\ d.pool.last_dist_time = now
            /\ d.pool.current_rate_of_increase = rp.current_rate_of_increase
            /\ d.pool.proceeds = rp.proceeds - flowed
        <4> DEFINE q == rp.proceeds - flowed
        <4>1. d.pool = [rp EXCEPT !.proceeds = q, !.last_dist_time = now]
          BY <3>3
        <4>2. q \in Int
          BY <3>1 DEF PoolRows
        <4> HIDE DEF q
        <4> DEFINE a == [rp EXCEPT !.proceeds = q, !.last_dist_time = now]
        <4>3. /\ a \in OpenRows /\ a.exists = rp.exists
              /\ a.last_dist_time = now /\ a.proceeds = q
              /\ a.current_rate_of_increase = rate
          <5>1. rp \in PoolRows /\ q \in Int /\ now \in Nat
            BY <3>1, <4>2
          <5> QED
            BY ONLY <5>1, OpenRow, ZenonT(60)
        <4>4. d.pool = a
          BY <4>1
        <4> HIDE DEF a
        <4> QED
          BY <4>3, <4>4 DEF q
      <3> QED
        BY <3>1, <3>2, <3>4
    <2>8. d.change = FlowedFrom(d.buckets, from) + 0
      BY <1>4, <2>1, <2>3
    <2>9. rp.proceeds = d.pool.pending_bucket_proceeds + 0 + DueFrom(d.buckets, from)
      BY <1>1, <1>2, <2>1, <2>4, <2>5
    <2> HIDE DEF from, flowed
    <2>10. /\ IsFiniteSet(DOMAIN d.buckets) /\ DOMAIN d.buckets \subseteq Nat
           /\ d.buckets \in [DOMAIN d.buckets -> Nat]
           /\ d.pool.pending_bucket_proceeds \in Nat
           /\ d.pool.pending_bucket_time \in Nat \union {None}
           /\ d.pool.oldest_bucket_time \in Nat
      BY <1>1, <1>2, <2>1, <2>5
    <2>11. \A t \in DOMAIN d.buckets :
             /\ from[t] <= now /\ from[t] <= t + T
             /\ t <= now /\ d.pool.oldest_bucket_time <= t
             /\ d.pool.pending_bucket_time # None => t < d.pool.pending_bucket_time
      BY <2>1, <2>6
    <2>12. FlowsFrom(rp, d, from, 0)
      BY <2>2, <2>7, <2>8, <2>9, <2>10, <2>11 DEF FlowsFrom
    <2> QED
      BY <2>12
  <1>7. CASE Returns!Completes(rp)
    <2> DEFINE R == Returns!NewRate(rp)
               rem == Returns!Remainder(rp)
               E == D \union {p}
               b == [t \in E |-> IF t = p THEN R ELSE bs[t]]
               from == [t \in E |-> IF t = p THEN p ELSE last]
               w == now - p
               oldest == Returns!OldestTime(rp)
    <2>1. p # None /\ p <= now /\ p \in Nat /\ p \notin D /\ w \in Nat
      BY <1>1, <1>2, <1>7 DEF Returns!Completes
    <2>2. /\ R \in Nat /\ rem \in Nat
          /\ rp.pending_bucket_proceeds = R * T + rem
      BY <1>1, PendingParts
    <2>3. oldest \in Nat /\ oldest <= p /\ oldest <= rp.oldest_bucket_time
      <3>1. oldest = Min({p, rp.oldest_bucket_time})
        BY SameSums DEF Returns!OldestTime
      <3>2. p \in Int /\ rp.oldest_bucket_time \in Int
        BY <1>2, <2>1
      <3>3. Min({p, rp.oldest_bucket_time})
              = IF p <= rp.oldest_bucket_time THEN p ELSE rp.oldest_bucket_time
        BY <3>2, MinMaxOfTwo
      <3> QED
        BY <1>2, <2>1, <3>1, <3>3
    <2> HIDE DEF R, rem, oldest
    <2>4. /\ d.buckets = b
          /\ d.change = flowed + rem + R * w
          /\ d.pool = [rp EXCEPT !.proceeds = @ - d.change, !.last_dist_time = now,
                                 !.current_rate_of_increase = @ + R,
                                 !.pending_bucket_proceeds = 0, !.pending_bucket_time = None,
                                 !.oldest_bucket_time = oldest]
      <3> DEFINE change == flowed + rem + R * w
                 advanced == [rp EXCEPT !.proceeds = @ - change, !.last_dist_time = now]
      <3>1. /\ d.buckets = b /\ d.change = change
            /\ d.pool = [advanced EXCEPT
                          !.current_rate_of_increase = @ + R,
                          !.pending_bucket_proceeds = 0,
                          !.pending_bucket_time = None,
                          !.oldest_bucket_time = oldest]
        BY <1>5, <1>7 DEF Returns!Distributed, Returns!Overdue, R, rem, oldest
      <3> HIDE DEF change
      <3>2. d.pool = [rp EXCEPT !.proceeds = @ - change, !.last_dist_time = now,
                                !.current_rate_of_increase = @ + R,
                                !.pending_bucket_proceeds = 0, !.pending_bucket_time = None,
                                !.oldest_bucket_time = oldest]
        BY <1>1, <3>1 DEF PoolRows
      <3> QED
        BY <3>1, <3>2 DEF change
    <2>5. /\ IsFiniteSet(E) /\ E \subseteq Nat /\ DOMAIN b = E
          /\ b \in [E -> Nat] /\ from \in [E -> Nat] /\ b[p] = R /\ from[p] = p
          /\ \A t \in D : t # p /\ b[t] = bs[t] /\ from[t] = last
      <3>1. IsFiniteSet(E)
        BY <1>1, FS_AddElement
      <3> QED
        BY <1>1, <1>2, <2>1, <2>2, <3>1
    <2>6. \A t \in E :
            /\ from[t] <= now /\ from[t] <= t + T /\ t <= now /\ oldest <= t
      <3> SUFFICES ASSUME NEW t \in E
                   PROVE  /\ from[t] <= now /\ from[t] <= t + T /\ t <= now /\ oldest <= t
        OBVIOUS
      <3>1. CASE t = p
        BY <1>2, <2>1, <2>3, <2>5, <3>1
      <3>2. CASE t # p
        <4>1. t \in D /\ t \in Nat
          BY <1>1, <3>2
        <4> QED
          BY <1>1, <1>2, <2>3, <2>5, <4>1
      <3> QED
        BY <3>1, <3>2
    <2> HIDE DEF E, b, from
    <2>7. ASSUME NEW g \in [E -> Nat]
          PROVE  SumOf(g) = SumOf([t \in D |-> g[t]]) + g[p] /\ SumOf([t \in D |-> g[t]]) \in Nat
      <3>1. IsFiniteSet(D) /\ p \notin D /\ g \in [D \union {p} -> Nat]
        BY <1>1, <2>1 DEF E
      <3> HIDE DEF D, p
      <3> QED
        BY ONLY <3>1, SumWithEntry
    <2>8. SumOf(b) = rate + R
      <3>1. [t \in D |-> b[t]] = bs
        BY <1>1, <2>5
      <3> QED
        BY <1>1, <2>5, <2>7, <3>1
    <2>9. FlowedFrom(b, from) = flowed + R * w
      <3> DEFINE g == [t \in E |-> b[t] * (now - from[t])]
      <3>1. \A t \in E : g[t] \in Nat
        <4> SUFFICES ASSUME NEW t \in E
                     PROVE  b[t] * (now - from[t]) \in Nat
          OBVIOUS
        <4> DEFINE z == now - from[t]
        <4>1. b[t] \in Nat /\ z \in Nat
          BY <1>2, <2>5, <2>6
        <4> HIDE DEF z
        <4>2. b[t] * z \in Nat
          BY <4>1, ProductIsNat
        <4> QED
          BY <4>2 DEF z
      <3>2. g \in [E -> Nat]
        BY <3>1
      <3>3. [t \in D |-> g[t]] = [t \in D |-> bs[t] * y]
        <4>1. D \subseteq E
          BY DEF E
        <4> QED
          BY <2>5, <4>1
      <3>4. g[p] = R * w
        <4>1. p \in E
          BY DEF E
        <4> QED
          BY <2>5, <4>1
      <3>5. SumOf(g) = FlowedFrom(b, from)
        BY <2>5 DEF FlowedFrom
      <3> HIDE DEF g
      <3>6. SumOf(g) = SumOf([t \in D |-> g[t]]) + g[p]
        BY <2>7, <3>2
      <3> QED
        BY <1>4, <3>3, <3>4, <3>5, <3>6
    <2>10. DueFrom(b, from) = DueAt(bs, last) + R * T /\ DueAt(bs, last) \in Nat
      <3> DEFINE g == [t \in E |-> b[t] * (t + T - from[t])]
      <3>1. \A t \in E : g[t] \in Nat
        <4> SUFFICES ASSUME NEW t \in E
                     PROVE  b[t] * (t + T - from[t]) \in Nat
          OBVIOUS
        <4> DEFINE z == t + T - from[t]
        <4>1. b[t] \in Nat /\ z \in Nat
          <5>1. t \in Nat /\ from[t] \in Nat /\ from[t] <= t + T
            BY <2>5, <2>6
          <5> QED
            BY <1>2, <2>5, <5>1
        <4> HIDE DEF z
        <4>2. b[t] * z \in Nat
          BY <4>1, ProductIsNat
        <4> QED
          BY <4>2 DEF z
      <3>2. g \in [E -> Nat]
        BY <3>1
      <3>3. [t \in D |-> g[t]] = [t \in D |-> bs[t] * (t + T - last)]
        <4>1. D \subseteq E
          BY DEF E
        <4> QED
          BY <2>5, <4>1
      <3>4. g[p] = R * T
        <4>1. p \in E
          BY DEF E
        <4>2. p + T - p = T
          BY <1>2, <2>1
        <4> QED
          BY <2>5, <4>1, <4>2
      <3>5. SumOf(g) = DueFrom(b, from)
        BY <2>5 DEF DueFrom
      <3> HIDE DEF g
      <3>6. SumOf(g) = SumOf([t \in D |-> g[t]]) + g[p] /\ SumOf([t \in D |-> g[t]]) \in Nat
        BY <2>7, <3>2
      <3> QED
        BY <3>3, <3>4, <3>5, <3>6 DEF DueAt
    <2>11. R * w \in Nat /\ R * T \in Nat
      BY <1>2, <2>1, <2>2, ProductIsNat
    <2> HIDE DEF flowed, w
    <2>12. d.change = FlowedFrom(d.buckets, from) + rem
      BY <1>4, <2>2, <2>4, <2>9, <2>11
    <2>13. /\ d.pool.pending_bucket_proceeds = 0 /\ d.pool.pending_bucket_time = None
           /\ d.pool.oldest_bucket_time = oldest
           /\ d.pool \in OpenRows
           /\ d.pool.exists = rp.exists /\ d.pool.last_dist_time = now
           /\ d.pool.current_rate_of_increase = SumOf(d.buckets)
           /\ d.pool.proceeds = rp.proceeds - d.change
      <3> DEFINE q == rp.proceeds - d.change
                 a == [rp EXCEPT !.proceeds = q, !.last_dist_time = now]
                 r == rate + R
      <3>1. SumOf(d.buckets) = r /\ r \in Nat
        BY <1>2, <2>2, <2>4, <2>8
      <3>2. q \in Int
        <4>1. d.change \in Int
          BY <1>4, <2>2, <2>4, <2>11
        <4> QED
          BY <1>1, <4>1 DEF PoolRows
      <3> HIDE DEF q
      <3>3. a \in OpenRows /\ a.exists = rp.exists /\ a.last_dist_time = now /\ a.proceeds = q
            /\ a.current_rate_of_increase = rate
        <4>1. rp \in PoolRows /\ q \in Int /\ now \in Nat
          BY <1>1, <1>2, <3>2
        <4> QED
          BY ONLY <4>1, OpenRow, ZenonT(60)
      <3>4. d.pool = [a EXCEPT !.current_rate_of_increase = r,
                               !.pending_bucket_proceeds = 0, !.pending_bucket_time = None,
                               !.oldest_bucket_time = oldest]
        <4>1. d.pool = [rp EXCEPT !.proceeds = q, !.last_dist_time = now,
                                  !.current_rate_of_increase = @ + R,
                                  !.pending_bucket_proceeds = 0, !.pending_bucket_time = None,
                                  !.oldest_bucket_time = oldest]
          BY <2>4 DEF q
        <4>2. d.pool = [rp EXCEPT !.proceeds = q, !.last_dist_time = now,
                                  !.current_rate_of_increase = r,
                                  !.pending_bucket_proceeds = 0, !.pending_bucket_time = None,
                                  !.oldest_bucket_time = oldest]
          BY <4>1
        <4> QED
          BY <4>2
      <3> HIDE DEF a, r
      <3> DEFINE e == [a EXCEPT !.current_rate_of_increase = r, !.pending_bucket_proceeds = 0]
      <3>5. e \in OpenRows /\ e.exists = a.exists /\ e.last_dist_time = a.last_dist_time
            /\ e.proceeds = a.proceeds
            /\ e.current_rate_of_increase = r /\ e.pending_bucket_proceeds = 0
        BY <3>1, <3>3 DEF OpenRows
      <3>6. d.pool = [e EXCEPT !.pending_bucket_time = None, !.oldest_bucket_time = oldest]
        BY <3>4
      <3> HIDE DEF e
      <3>7. /\ d.pool \in OpenRows /\ d.pool.exists = e.exists
            /\ d.pool.last_dist_time = e.last_dist_time /\ d.pool.proceeds = e.proceeds
            /\ d.pool.current_rate_of_increase = e.current_rate_of_increase
            /\ d.pool.pending_bucket_proceeds = e.pending_bucket_proceeds
            /\ d.pool.pending_bucket_time = None /\ d.pool.oldest_bucket_time = oldest
        BY <2>3, <3>5, <3>6 DEF OpenRows
      <3> QED
        BY <3>1, <3>3, <3>5, <3>7 DEF q
    <2>14. rp.proceeds = d.pool.pending_bucket_proceeds + rem + DueFrom(d.buckets, from)
      BY <1>1, <2>2, <2>4, <2>10, <2>11, <2>13
    <2>15. /\ from \in [DOMAIN d.buckets -> Nat] /\ rem \in Nat
           /\ IsFiniteSet(DOMAIN d.buckets) /\ DOMAIN d.buckets \subseteq Nat
           /\ d.buckets \in [DOMAIN d.buckets -> Nat]
           /\ d.pool.pending_bucket_proceeds \in Nat
           /\ d.pool.pending_bucket_time \in Nat \union {None}
           /\ d.pool.oldest_bucket_time \in Nat
      BY <2>2, <2>3, <2>4, <2>5, <2>13
    <2>16. \A t \in DOMAIN d.buckets :
             /\ from[t] <= now /\ from[t] <= t + T
             /\ t <= now /\ d.pool.oldest_bucket_time <= t
             /\ d.pool.pending_bucket_time # None => t < d.pool.pending_bucket_time
      BY <2>4, <2>5, <2>6, <2>13
    <2>17. FlowsFrom(rp, d, from, rem)
      BY <2>12, <2>13, <2>14, <2>15, <2>16 DEF FlowsFrom
    <2> QED
      BY <2>17
  <1> QED
    BY <1>6, <1>7

\* A nonempty set of times has a least one.
LEMMA MinIsLeast ==
  ASSUME NEW S, S \subseteq Nat, S # {}
  PROVE  Min(S) \in S /\ \A t \in S : Min(S) <= t
  <1> DEFINE Less == OpToRel(<, Nat)
  <1>1. IsWellFoundedOn(Less, Nat)
    BY Zenon, NatLessThanWellFounded
  <1>2. ASSUME NEW x \in Nat, NEW y \in Nat, x < y
        PROVE  <<x, y>> \in Less
    BY Zenon, <1>2 DEF OpToRel
  <1> HIDE DEF Less
  <1>3. PICK x \in S : \A y \in S : ~(<<y, x>> \in Less)
    BY <1>1, WFMin
  <1>4. \A y \in S : x <= y
    <2>1. \A y \in S : ~(y < x)
      BY <1>2, <1>3
    <2> QED
      BY <2>1
  <1>5. \E m \in S : \A y \in S : m <= y
    BY <1>4
  <1> QED
    BY <1>5 DEF Min

\* A row becomes another when its expired buckets are dropped.
RowDrops(rp, o, r, q, row) ==
  /\ rp \in OpenRows /\ o \in Nat /\ r \in Nat /\ q \in Int
  /\ row = [rp EXCEPT !.oldest_bucket_time = o, !.current_rate_of_increase = r,
                      !.proceeds = q]

\* Only the rate, the oldest time and the proceeds change then.
LEMMA DroppedRow ==
  ASSUME NEW rp, NEW o, NEW r, NEW q, NEW row, RowDrops(rp, o, r, q, row)
  PROVE  /\ row \in OpenRows /\ row.exists = rp.exists
         /\ row.last_dist_time = rp.last_dist_time /\ row.proceeds = q
         /\ row.current_rate_of_increase = r
         /\ row.pending_bucket_proceeds = rp.pending_bucket_proceeds
         /\ row.pending_bucket_time = rp.pending_bucket_time
         /\ row.oldest_bucket_time = o
  <1> DEFINE b == [rp EXCEPT !.oldest_bucket_time = o]
             c == [b EXCEPT !.current_rate_of_increase = r]
             a == [c EXCEPT !.proceeds = q]
  <1>0. rp \in OpenRows /\ o \in Nat /\ r \in Nat /\ q \in Int
    BY DEF RowDrops
  <1>1. row = a
    BY DEF RowDrops
  <1>2. /\ b \in OpenRows /\ b.exists = rp.exists
        /\ b.last_dist_time = rp.last_dist_time /\ b.oldest_bucket_time = o
        /\ b.pending_bucket_proceeds = rp.pending_bucket_proceeds
        /\ b.pending_bucket_time = rp.pending_bucket_time
    BY <1>0 DEF OpenRows
  <1> HIDE DEF b
  <1>3. /\ c \in OpenRows /\ c.exists = b.exists
        /\ c.last_dist_time = b.last_dist_time /\ c.oldest_bucket_time = b.oldest_bucket_time
        /\ c.pending_bucket_proceeds = b.pending_bucket_proceeds
        /\ c.pending_bucket_time = b.pending_bucket_time
        /\ c.current_rate_of_increase = r
    BY <1>0, <1>2 DEF OpenRows
  <1> HIDE DEF c
  <1>4. /\ a \in OpenRows /\ a.exists = c.exists
        /\ a.last_dist_time = c.last_dist_time /\ a.oldest_bucket_time = c.oldest_bucket_time
        /\ a.pending_bucket_proceeds = c.pending_bucket_proceeds
        /\ a.pending_bucket_time = c.pending_bucket_time
        /\ a.current_rate_of_increase = c.current_rate_of_increase
        /\ a.proceeds = q
    BY <1>0, <1>3 DEF OpenRows
  <1> HIDE DEF a
  <1> QED
    BY <1>1, <1>2, <1>3, <1>4

\* When the expired buckets are dropped, and what they returned beyond their
\* end is taken back, the pool holds what those that are left have to return.
LEMMA DroppedKeeps ==
  ASSUME ReturnsConstants, NEW rp, rp.proceeds \in Nat, rp.exists = TRUE,
         NEW d, NEW from, NEW rem, FlowsFrom(rp, d, from, rem),
         NEW e, e = Returns!Dropped(d)
  PROVE  /\ PoolKept(e.pool, e.buckets) /\ e.pool.exists = TRUE
         /\ e.change \in Nat /\ e.pool.proceeds + e.change = rp.proceeds
  <1> DEFINE T == TotalIntervals
             n == now
             b == d.buckets
             D == DOMAIN b
             E == { t \in D : t <= n - T }
             L == D \ E
             bL == [t \in L |-> b[t]]
             bE == [t \in E |-> b[t]]
             pending == d.pool.pending_bucket_proceeds
             due == DueFrom(b, from)
             flowed == FlowedFrom(b, from)
             surplus == SumOf([t \in E |-> b[t] * (n - (t + T))])
             left == SumOf([t \in L |-> b[t] * (t + T - n)])
  <1>1. T \in Nat /\ n \in Nat
    BY DEF ReturnsConstants, Returns!RexReturnsConstants
  <1>2. /\ rem \in Nat /\ IsFiniteSet(D) /\ D \subseteq Nat /\ b \in [D -> Nat]
        /\ from \in [D -> Nat]
        /\ \A t \in D : /\ from[t] <= n /\ from[t] <= t + T
                        /\ t <= n /\ d.pool.oldest_bucket_time <= t
                        /\ d.pool.pending_bucket_time # None => t < d.pool.pending_bucket_time
        /\ d.pool \in OpenRows /\ d.pool.exists = TRUE /\ d.pool.last_dist_time = n
        /\ d.pool.current_rate_of_increase = SumOf(b)
        /\ d.pool.proceeds = rp.proceeds - d.change
        /\ d.change = flowed + rem
        /\ rp.proceeds = pending + rem + due
    BY DEF FlowsFrom
  <1>3. L \union E = D /\ L \intersect E = {} /\ E \subseteq D /\ L \subseteq D
    OBVIOUS
  <1>4. \A t \in E : t + T <= n
    BY <1>1, <1>2
  <1>5. \A t \in L : n <= t + T
    BY <1>1, <1>2
  <1>6. pending \in Nat /\ d.pool.oldest_bucket_time \in Nat
    BY <1>2 DEF OpenRows
  <1>7. /\ due \in Nat /\ flowed \in Nat /\ surplus \in Nat /\ left \in Nat
        /\ due + surplus = flowed + left /\ surplus <= flowed
    <2> HIDE DEF b, D, E, L
    <2>1. /\ due = SumOf([t \in D |-> b[t] * (t + T - from[t])])
          /\ flowed = SumOf([t \in D |-> b[t] * (n - from[t])])
      BY DEF DueFrom, FlowedFrom, D
    <2>2. /\ T \in Nat /\ n \in Nat /\ IsFiniteSet(D) /\ D \subseteq Nat
          /\ b \in [D -> Nat] /\ from \in [D -> Nat]
          /\ \A t \in D : from[t] <= n /\ from[t] <= t + T
          /\ L \union E = D /\ L \intersect E = {}
          /\ \A t \in L : n <= t + T
          /\ \A t \in E : t + T <= n
      BY <1>1, <1>2, <1>3, <1>4, <1>5
    <2> HIDE DEF T, n, due, flowed
    <2>3. /\ SumOf([t \in D |-> b[t] * (t + T - from[t])]) \in Nat
          /\ SumOf([t \in D |-> b[t] * (n - from[t])]) \in Nat
          /\ surplus \in Nat /\ left \in Nat
          /\ SumOf([t \in D |-> b[t] * (t + T - from[t])]) + surplus
               = SumOf([t \in D |-> b[t] * (n - from[t])]) + left
          /\ surplus <= SumOf([t \in D |-> b[t] * (n - from[t])])
      <3>1. Flows(T, n, D, b, from, L, E)
        BY <2>2 DEF Flows
      <3> QED
        <4>1. FlowsEven(T, n, D, b, from, L, E)
          BY ONLY <3>1, FlowsAddUp
        <4> QED
          BY ONLY <4>1 DEF FlowsEven
    <2> QED
      BY <2>1, <2>3
  <1>8. SumOf(b) = SumOf(bL) + SumOf(bE) /\ SumOf(bL) \in Nat /\ SumOf(bE) \in Nat
    <2>1. b \in [D -> Nat] /\ L \union E = D /\ L \intersect E = {}
      BY <1>2, <1>3
    <2>2. IsFiniteSet(D)
      BY <1>2
    <2> HIDE DEF b, D, E, L
    <2>3. IsFiniteSet(Units(b))
      BY <2>1, <2>2, SumIsFinite
    <2>4. /\ IsFiniteSet(Units(bL)) /\ IsFiniteSet(Units(bE))
          /\ SumOf(b) = SumOf(bL) + SumOf(bE)
      BY ONLY <2>1, <2>3, SumOfParts
    <2> QED
      BY <2>4, FS_CardinalityType DEF SumOf
  <1>9. DueAt(bL, n) = left
    <2>1. DOMAIN bL = L /\ \A t \in L : bL[t] = b[t]
      OBVIOUS
    <2> HIDE DEF bL, L, b
    <2>2. [t \in DOMAIN bL |-> bL[t] * (t + T - n)] = [t \in L |-> b[t] * (t + T - n)]
      BY <2>1
    <2> QED
      BY <2>2 DEF DueAt
  <1>10. /\ IsFiniteSet(L) /\ L \subseteq Nat /\ DOMAIN bL = L /\ bL \in [L -> Nat]
    <2>1. IsFiniteSet(L)
      BY <1>2, <1>3, FS_Subset
    <2> QED
      BY <1>2, <2>1
  <1>11. e = Returns!Dropped(d)
    OBVIOUS
  <1>12. CASE d.pool.oldest_bucket_time > n - T
    <2>1. E = {} /\ L = D
      <3>1. \A t \in D : ~(t <= n - T)
        BY <1>1, <1>2, <1>6, <1>12
      <3> QED
        BY <3>1
    <2>2. e = d
      BY <1>11, <1>12 DEF Returns!Dropped
    <2>3. surplus = 0
      <3>1. [t \in E |-> b[t] * (n - (t + T))] = [t \in E |-> 0]
        BY <2>1
      <3> QED
        BY <3>1, SumOfZeros
    <2>4. bL = b
      BY <1>2, <2>1
    <2>5. d.pool.proceeds = pending + DueAt(b, n)
      <3>1. DueAt(b, n) = left
        BY <1>9, <2>4
      <3> HIDE DEF due, flowed, surplus, left, pending, b
      <3> QED
        BY <1>2, <1>6, <1>7, <2>3, <3>1
    <2>6. d.pool.proceeds \in Nat
      <3>1. DueAt(b, n) = left
        BY <1>9, <2>4
      <3> HIDE DEF left, pending, b
      <3> QED
        BY <1>6, <1>7, <2>5, <3>1
    <2>7. d.pool \in PoolRows
      BY <1>2, <2>6 DEF OpenRows, PoolRows
    <2>8. BucketsKept(d.pool, b)
      <3> HIDE DEF b
      <3> QED
        BY <1>1, <1>2, <2>1, <1>5 DEF BucketsKept
    <2>9. PoolKept(d.pool, b)
      BY <1>2, <2>5, <2>7, <2>8 DEF PoolKept
    <2>10. d.change \in Nat /\ d.pool.proceeds + d.change = rp.proceeds
      <3> HIDE DEF flowed
      <3> QED
        BY <1>2, <1>7, <2>6
    <2> QED
      BY <1>2, <2>2, <2>9, <2>10
  <1>13. CASE ~(d.pool.oldest_bucket_time > n - T)
    <2> DEFINE o == Returns!Earliest(L)
               r == SumOf(b) - SumOf(bE)
               q == d.pool.proceeds + surplus
               row == [d.pool EXCEPT !.oldest_bucket_time = o,
                                     !.current_rate_of_increase = r, !.proceeds = q]
    <2>1. e.pool = row /\ e.buckets = bL /\ e.change = d.change - surplus
      <3>1. Returns!Expired(b) = E
        BY DEF Returns!Expired
      <3>2. /\ SumOf([t \in E |-> b[t] * Returns!Overtime(t)]) = surplus
            /\ Returns!SumOf([t \in E |-> b[t] * Returns!Overtime(t)]) = surplus
        <4>1. [t \in E |-> b[t] * Returns!Overtime(t)] = [t \in E |-> b[t] * (n - (t + T))]
          BY DEF Returns!Overtime
        <4> QED
          BY <4>1, SameSums
      <3>3. Returns!SumOf(bE) = SumOf(bE)
        BY SameSums
      <3>4. /\ e.pool = [d.pool EXCEPT !.oldest_bucket_time = o,
                                       !.current_rate_of_increase = @ - SumOf(bE),
                                       !.proceeds = @ + surplus]
            /\ e.buckets = bL /\ e.change = d.change - surplus
        <4> DEFINE X == Returns!Expired(b)
                   back == Returns!SumOf([t \in X |-> b[t] * Returns!Overtime(t)])
                   gone == Returns!SumOf([t \in X |-> b[t]])
        <4>1. /\ e.pool = [d.pool EXCEPT
                             !.oldest_bucket_time = Returns!Earliest(D \ X),
                             !.current_rate_of_increase = @ - gone,
                             !.proceeds = @ + back]
              /\ e.buckets = [t \in D \ X |-> b[t]] /\ e.change = d.change - back
          BY <1>11, <1>13 DEF Returns!Dropped
        <4>2. X = E /\ gone = SumOf(bE) /\ back = surplus
          BY <3>1, <3>2, <3>3
        <4> HIDE DEF X, E, gone, back, surplus
        <4> QED
          BY <4>1, <4>2
      <3> HIDE DEF surplus, o, E, bE, b
      <3> QED
        BY <1>2, <3>4
    <2>2. o \in Nat /\ \A t \in L : o <= t
      <3>1. CASE L = {}
        BY <3>1 DEF Returns!Earliest, Returns!Epoch
      <3>2. CASE L # {}
        <4>1. o = Min(L)
          BY <3>2, SameSums DEF Returns!Earliest
        <4> HIDE DEF L, o
        <4>2. Min(L) \in L /\ \A t \in L : Min(L) <= t
          BY <1>10, <3>2, MinIsLeast
        <4> QED
          BY <1>10, <4>1, <4>2
      <3> QED
        BY <3>1, <3>2
    <2>3. r \in Nat /\ r = SumOf(bL)
      <3> HIDE DEF b, bL, bE
      <3> QED
        BY <1>8
    <2>4. q = pending + left /\ q \in Nat
      <3> HIDE DEF due, flowed, surplus, left, pending
      <3> QED
        BY <1>2, <1>6, <1>7
    <2>5. /\ row \in OpenRows /\ row.exists = TRUE
          /\ row.last_dist_time = n /\ row.proceeds = q
          /\ row.current_rate_of_increase = r
          /\ row.pending_bucket_proceeds = pending
          /\ row.pending_bucket_time = d.pool.pending_bucket_time
          /\ row.oldest_bucket_time = o
      <3>1. d.pool \in OpenRows /\ o \in Nat /\ r \in Nat /\ q \in Int
        BY <1>2, <2>2, <2>3, <2>4
      <3> HIDE DEF o, r, q
      <3>2. /\ row \in OpenRows /\ row.exists = d.pool.exists
            /\ row.last_dist_time = d.pool.last_dist_time /\ row.proceeds = q
            /\ row.current_rate_of_increase = r
            /\ row.pending_bucket_proceeds = d.pool.pending_bucket_proceeds
            /\ row.pending_bucket_time = d.pool.pending_bucket_time
            /\ row.oldest_bucket_time = o
        <4> DEFINE P == d.pool
        <4>1. P \in OpenRows
          BY <3>1
        <4>2. row = [P EXCEPT !.oldest_bucket_time = o, !.current_rate_of_increase = r,
                              !.proceeds = q]
          OBVIOUS
        <4> HIDE DEF P, row
        <4>3. /\ row \in OpenRows /\ row.exists = P.exists
              /\ row.last_dist_time = P.last_dist_time /\ row.proceeds = q
              /\ row.current_rate_of_increase = r
              /\ row.pending_bucket_proceeds = P.pending_bucket_proceeds
              /\ row.pending_bucket_time = P.pending_bucket_time
              /\ row.oldest_bucket_time = o
          <5>1. RowDrops(P, o, r, q, row)
            BY <3>1, <4>1, <4>2 DEF RowDrops
          <5> QED
            BY ONLY <5>1, DroppedRow
        <4> QED
          BY <4>3 DEF P
      <3> HIDE DEF row
      <3> QED
        BY <1>2, <3>2
    <2> HIDE DEF row, o, r, q
    <2>6. row \in PoolRows
      BY <2>4, <2>5 DEF OpenRows, PoolRows
    <2>7. BucketsKept(row, bL)
      <3>1. \A t \in L : t <= n /\ o <= t /\ n <= t + T
                         /\ (d.pool.pending_bucket_time # None => t < d.pool.pending_bucket_time)
        BY <1>2, <1>3, <1>5, <2>2
      <3> HIDE DEF L, bL
      <3> QED
        BY <1>10, <2>5, <3>1 DEF BucketsKept
    <2>8. PoolKept(row, bL)
      <3> HIDE DEF bL, left, pending
      <3> QED
        BY <1>9, <2>3, <2>4, <2>5, <2>6, <2>7 DEF PoolKept
    <2>9. e.change \in Nat /\ q + e.change = rp.proceeds
      <3> HIDE DEF flowed, surplus
      <3> QED
        BY <1>2, <1>7, <2>1, <2>4 DEF q
    <2> HIDE DEF bL
    <2> QED
      BY <2>1, <2>5, <2>8, <2>9
  <1> QED
    BY <1>12, <1>13

\* update_rex_pool keeps a pool, and takes from it what it returns.
LEMMA UpdatedKeeps ==
  ASSUME ReturnsConstants, NEW rp, NEW bs, PoolKept(rp, bs),
         NEW d, d = Returns!Updated(rp, bs)
  PROVE  /\ PoolKept(d.pool, d.buckets) /\ d.pool.exists = rp.exists
         /\ d.change \in Nat /\ d.pool.proceeds + d.change = rp.proceeds
  <1>1. /\ rp.proceeds \in Nat /\ rp.last_dist_time \in Nat /\ rp.exists \in BOOLEAN
        /\ now \in Nat
    BY DEF PoolKept, PoolRows, ReturnsConstants
  <1>2. CASE ~rp.exists \/ now <= rp.last_dist_time
    <2>1. d = [pool |-> rp, buckets |-> bs, change |-> 0]
      BY <1>2 DEF Returns!Updated
    <2>2. d.pool = rp /\ d.buckets = bs /\ d.change = 0
      BY <2>1
    <2> QED
      BY <1>1, <2>2
  <1>3. CASE ~(~rp.exists \/ now <= rp.last_dist_time)
    <2> DEFINE a == Returns!Distributed(rp, bs)
               e == Returns!Dropped(a)
    <2>1. rp.exists = TRUE /\ rp.last_dist_time <= now
      BY <1>1, <1>3
    <2>2. d = Returns!Capped(e)
      BY <1>3 DEF Returns!Updated
    <2>3. PICK from, rem : FlowsFrom(rp, a, from, rem)
      BY <2>1, DistributedKeeps
    <2> HIDE DEF a
    <2>4. /\ PoolKept(e.pool, e.buckets) /\ e.pool.exists = TRUE
          /\ e.change \in Nat /\ e.pool.proceeds + e.change = rp.proceeds
      BY <1>1, <2>1, <2>3, DroppedKeeps
    <2> HIDE DEF e
    <2>5. e.pool.proceeds \in Nat
      BY <2>4 DEF PoolKept, PoolRows
    <2>6. d = e
      BY <2>2, <2>5 DEF Returns!Capped
    <2> QED
      BY <2>1, <2>4, <2>6
  <1> QED
    BY <1>2, <1>3

\* What the buckets of a pool have still to return is a number.
LEMMA DueIsNat ==
  ASSUME Returns!RexReturnsConstants, NEW rp, NEW bs, BucketsKept(rp, bs),
         rp.last_dist_time \in Nat
  PROVE  DueAt(bs, rp.last_dist_time) \in Nat
  <1> DEFINE g == [t \in DOMAIN bs |-> bs[t] * (t + TotalIntervals - rp.last_dist_time)]
  <1>1. g \in [DOMAIN bs -> Nat]
    <2> SUFFICES ASSUME NEW t \in DOMAIN bs
                 PROVE  bs[t] * (t + TotalIntervals - rp.last_dist_time) \in Nat
      OBVIOUS
    <2> DEFINE z == t + TotalIntervals - rp.last_dist_time
    <2>1. bs[t] \in Nat /\ z \in Nat
      BY DEF BucketsKept, Returns!RexReturnsConstants
    <2> HIDE DEF z
    <2>2. bs[t] * z \in Nat
      BY <2>1, ProductIsNat
    <2> QED
      BY <2>2 DEF z
  <1>2. IsFiniteSet(DOMAIN bs)
    BY DEF BucketsKept
  <1> HIDE DEF g
  <1>3. SumOf(g) \in Nat
    BY <1>1, <1>2, SumIsFinite, FS_CardinalityType DEF SumOf
  <1> QED
    BY <1>3 DEF g, DueAt

\* What any state of the pool says of it and of its next update.
LEMMA NextUpdate ==
  ASSUME Returns!RexReturnsConstants, ReturnsInv,
         NEW d, d = Returns!Updated(pool, buckets)
  PROVE  /\ ReturnsConstants
         /\ PoolKept(d.pool, d.buckets) /\ d.pool.exists = pool.exists
         /\ d.change \in Nat /\ Returns!ReturnedBy(d) = returned + d.change
         /\ fees = returned + d.change + d.pool.proceeds
         /\ returned + d.change \in Nat /\ d.pool.proceeds \in Nat
  <1>1. ReturnsConstants
    BY DEF ReturnsConstants, Returns!RexReturnsConstants, ReturnsInv
  <1>2. PoolKept(pool, buckets) /\ returned \in Nat /\ fees = returned + pool.proceeds
    BY DEF ReturnsInv
  <1>3. /\ PoolKept(d.pool, d.buckets) /\ d.pool.exists = pool.exists
        /\ d.change \in Nat /\ d.pool.proceeds + d.change = pool.proceeds
    BY <1>1, <1>2, UpdatedKeeps
  <1>4. d.pool.proceeds \in Nat
    BY <1>3 DEF PoolKept, PoolRows
  <1>5. Returns!ReturnedBy(d) = returned + d.change
    BY <1>2, <1>3 DEF Returns!ReturnedBy
  <1> QED
    BY <1>1, <1>2, <1>3, <1>4, <1>5

\* update_rex_pool, in any REX action.
LEMMA UpdateRexPoolStep ==
  ASSUME Returns!RexReturnsConstants, ReturnsInv, Returns!UpdateRexPool
  PROVE  ReturnsInv'
  <1> DEFINE d == Returns!Updated(pool, buckets)
  <1>1. /\ pool' = d.pool /\ buckets' = d.buckets /\ returned' = Returns!ReturnedBy(d)
        /\ now' = now /\ fees' = fees
    BY DEF Returns!UpdateRexPool
  <1>2. d = Returns!Updated(pool, buckets)
    OBVIOUS
  <1> HIDE DEF d
  <1>3. /\ PoolKept(d.pool, d.buckets) /\ Returns!ReturnedBy(d) = returned + d.change
        /\ fees = returned + d.change + d.pool.proceeds /\ returned + d.change \in Nat
    BY <1>2, NextUpdate
  <1>4. now \in TotalIntervals .. LastTime /\ fees \in Nat
    BY DEF ReturnsInv
  <1>5. now \in Nat
    BY <1>4 DEF Returns!RexReturnsConstants
  <1>6. PoolKept(pool, buckets)'
    <2>1. PoolKept(pool', buckets')
      BY <1>1, <1>3
    <2> QED
      BY <1>1, <2>1 DEF PoolKept, BucketsKept, DueAt, PoolRows
  <1> QED
    <2>1. returned' \in Nat /\ fees' = returned' + pool'.proceeds
      BY <1>1, <1>3
    <2> QED
      BY <1>1, <1>4, <1>6, <2>1 DEF ReturnsInv

\* add_to_rex_return_pool: a fee is pending, and the first one creates the pool.
LEMMA AddStep ==
  ASSUME Returns!RexReturnsConstants, ReturnsInv, NEW fee \in Nat,
         Returns!AddToRexReturnPool(fee)
  PROVE  ReturnsInv'
  <1> DEFINE d == Returns!Updated(pool, buckets)
             end == Returns!BucketEnd
             dist == IF d.pool.exists THEN d.pool.last_dist_time ELSE end
             fresh == IF d.pool.pending_bucket_time = None THEN end
                      ELSE d.pool.pending_bucket_time
  <1>1. /\ pool' = [d.pool EXCEPT
                      !.exists = TRUE, !.last_dist_time = dist,
                      !.pending_bucket_proceeds = @ + fee, !.proceeds = @ + fee,
                      !.pending_bucket_time = fresh]
        /\ buckets' = d.buckets /\ returned' = Returns!ReturnedBy(d)
        /\ now' = now /\ fees' = fees + fee
    BY DEF Returns!AddToRexReturnPool
  <1>2. d = Returns!Updated(pool, buckets)
    OBVIOUS
  <1>3. now \in TotalIntervals .. LastTime /\ fees \in Nat /\ now \in Nat
    BY DEF ReturnsInv, Returns!RexReturnsConstants
  <1>4. end \in Nat /\ now < end
    <2> DEFINE k == IntervalsPerBucket
    <2>1. k \in Nat \ {0}
      BY DEF Returns!RexReturnsConstants
    <2>2. end = (now \div k + 1) * k
      BY DEF Returns!BucketEnd
    <2> HIDE DEF k, end
    <2>3. now \div k \in Nat /\ now < k * (now \div k) + k
      BY <1>3, <2>1, DivisionBounds
    <2> DEFINE m == now \div k
    <2> HIDE DEF m
    <2>4. m \in Nat /\ now < k * m + k /\ end = (m + 1) * k
      BY <2>2, <2>3 DEF m
    <2>5. (m + 1) * k = k * m + k /\ k * m \in Nat
      BY <2>1, <2>4, ProductIsNat
    <2> QED
      BY <1>3, <2>1, <2>4, <2>5
  <1> HIDE DEF d, end
  <1>5. /\ PoolKept(d.pool, d.buckets) /\ Returns!ReturnedBy(d) = returned + d.change
        /\ fees = returned + d.change + d.pool.proceeds /\ returned + d.change \in Nat
        /\ d.pool.proceeds \in Nat
    BY <1>2, NextUpdate
  <1> DEFINE p == d.pool
             b == d.buckets
             pending == p.pending_bucket_proceeds + fee
             proceeds == p.proceeds + fee
  <1>6. /\ p \in PoolRows /\ BucketsKept(p, b)
        /\ p.proceeds = p.pending_bucket_proceeds + DueAt(b, p.last_dist_time)
        /\ p.current_rate_of_increase = SumOf(b)
    BY <1>5 DEF PoolKept
  <1>7. /\ dist \in Nat /\ fresh \in Nat /\ pending \in Nat /\ proceeds \in Nat
        /\ p.exists \in BOOLEAN
    BY <1>4, <1>6 DEF PoolRows
  <1>8. fresh # None /\ \A t \in DOMAIN b : t < fresh
    <2>1. None \notin Nat
      BY DEF Returns!RexReturnsConstants
    <2>2. \A t \in DOMAIN b : t \in Nat /\ t <= now
                              /\ (p.pending_bucket_time # None => t < p.pending_bucket_time)
      BY <1>6 DEF BucketsKept
    <2> HIDE DEF p, b
    <2>3. \A t \in DOMAIN b : t < fresh
      BY <1>3, <1>4, <2>2 DEF p
    <2> QED
      BY <1>7, <2>1, <2>3
  <1>9. DueAt(b, dist) = DueAt(b, p.last_dist_time)
    <2>1. CASE p.exists
      BY <2>1
    <2>2. CASE ~p.exists
      <3>1. DOMAIN b = {}
        BY <1>6, <2>2 DEF BucketsKept
      <3> HIDE DEF b, dist, p
      <3>2. [t \in DOMAIN b |-> b[t] * (t + TotalIntervals - dist)]
              = [t \in DOMAIN b |-> b[t] * (t + TotalIntervals - p.last_dist_time)]
        BY <3>1
      <3> QED
        BY <3>2 DEF DueAt
    <2> QED
      BY <2>1, <2>2
  <1>10. \A t \in DOMAIN b : dist <= t + TotalIntervals
    <2>1. CASE p.exists
      BY <1>6, <2>1 DEF BucketsKept
    <2>2. CASE ~p.exists
      BY <1>6, <2>2 DEF BucketsKept
    <2> QED
      BY <2>1, <2>2
  <1>11. /\ pool' \in PoolRows /\ pool'.exists = TRUE /\ pool'.last_dist_time = dist
         /\ pool'.pending_bucket_proceeds = pending /\ pool'.proceeds = proceeds
         /\ pool'.pending_bucket_time = fresh
         /\ pool'.current_rate_of_increase = p.current_rate_of_increase
         /\ pool'.oldest_bucket_time = p.oldest_bucket_time
    <2> DEFINE c == [p EXCEPT !.exists = TRUE, !.last_dist_time = dist]
               e == [c EXCEPT !.pending_bucket_proceeds = pending, !.proceeds = proceeds]
               f == [e EXCEPT !.pending_bucket_time = fresh]
    <2>1. pool' = [p EXCEPT !.exists = TRUE, !.last_dist_time = dist,
                            !.pending_bucket_proceeds = pending, !.proceeds = proceeds,
                            !.pending_bucket_time = fresh]
      BY <1>1
    <2> HIDE DEF dist, fresh, pending, proceeds, p
    <2>2. pool' = f
      BY <2>1
    <2>3. /\ c \in PoolRows /\ c.exists = TRUE /\ c.last_dist_time = dist
          /\ c.current_rate_of_increase = p.current_rate_of_increase
          /\ c.oldest_bucket_time = p.oldest_bucket_time
      BY <1>6, <1>7 DEF PoolRows
    <2> HIDE DEF c
    <2>4. /\ e \in PoolRows /\ e.exists = c.exists /\ e.last_dist_time = c.last_dist_time
          /\ e.pending_bucket_proceeds = pending /\ e.proceeds = proceeds
          /\ e.current_rate_of_increase = c.current_rate_of_increase
          /\ e.oldest_bucket_time = c.oldest_bucket_time
      BY <1>7, <2>3 DEF PoolRows
    <2> HIDE DEF e
    <2>5. /\ f \in PoolRows /\ f.exists = e.exists /\ f.last_dist_time = e.last_dist_time
          /\ f.pending_bucket_proceeds = e.pending_bucket_proceeds
          /\ f.proceeds = e.proceeds
          /\ f.current_rate_of_increase = e.current_rate_of_increase
          /\ f.oldest_bucket_time = e.oldest_bucket_time /\ f.pending_bucket_time = fresh
      BY <1>7, <2>4 DEF PoolRows
    <2> HIDE DEF f
    <2> QED
      BY <2>2, <2>3, <2>4, <2>5
  <1>12. DueAt(b, dist) \in Int
    <2>1. p.last_dist_time \in Nat
      BY <1>6 DEF PoolRows
    <2>2. DueAt(b, p.last_dist_time) \in Nat
      BY <1>6, <2>1, DueIsNat
    <2> QED
      BY <1>9, <2>2
  <1>13. PoolKept(pool', b)
    <2>1. BucketsKept(pool', b)
      BY <1>3, <1>6, <1>8, <1>10, <1>11 DEF BucketsKept
    <2>2. proceeds = pending + DueAt(b, dist)
      <3>1. p.pending_bucket_proceeds \in Nat /\ p.proceeds \in Nat
        BY <1>6 DEF PoolRows
      <3> HIDE DEF p, b, dist
      <3> QED
        BY <1>6, <1>9, <1>12, <3>1
    <2> HIDE DEF p, b, dist, fresh, pending, proceeds
    <2> QED
      BY <1>6, <1>11, <2>1, <2>2 DEF PoolKept
  <1>14. PoolKept(pool, buckets)'
    <2>1. PoolKept(pool', buckets')
      BY <1>1, <1>13
    <2> QED
      BY <1>1, <2>1 DEF PoolKept, BucketsKept, DueAt, PoolRows
  <1>15. fees' = returned' + pool'.proceeds /\ returned' \in Nat /\ fees' \in Nat
    BY <1>1, <1>3, <1>5, <1>11
  <1> QED
    BY <1>1, <1>3, <1>14, <1>15 DEF ReturnsInv

\* Time passes while nobody looks at the pool.
LEMMA NextIntervalStep ==
  ASSUME Returns!RexReturnsConstants, ReturnsInv, Returns!NextInterval
  PROVE  ReturnsInv'
  <1>1. /\ now \in Nat /\ now' \in Nat /\ now <= now' /\ now' \in TotalIntervals .. LastTime
        /\ pool' = pool /\ buckets' = buckets /\ returned' = returned /\ fees' = fees
    BY DEF ReturnsInv, Returns!RexReturnsConstants, Returns!NextInterval
  <1>2. BucketsKept(pool, buckets)'
    BY <1>1 DEF ReturnsInv, PoolKept, BucketsKept
  <1>3. PoolKept(pool, buckets)'
    BY <1>1, <1>2 DEF ReturnsInv, PoolKept, PoolRows, DueAt
  <1> QED
    BY <1>1, <1>3 DEF ReturnsInv

\* Before the first fee there is no pool and no bucket.
LEMMA ReturnsInit ==
  ASSUME Returns!RexReturnsConstants, Returns!Init
  PROVE  ReturnsInv
  <1>1. /\ now \in TotalIntervals .. LastTime
        /\ pool = [exists |-> FALSE, last_dist_time |-> 0, pending_bucket_time |-> None,
                   oldest_bucket_time |-> 0, pending_bucket_proceeds |-> 0,
                   current_rate_of_increase |-> 0, proceeds |-> 0]
        /\ buckets = << >> /\ returned = 0 /\ fees = 0
    BY DEF Returns!Init, Returns!Epoch, Returns!RexReturnsConstants
  <1>2. DOMAIN buckets = {} /\ buckets = [t \in {} |-> 0]
    BY <1>1
  <1>3. IsFiniteSet(DOMAIN buckets) /\ SumOf(buckets) = 0
    BY <1>2, FS_EmptySet, SumOfZeros
  <1>4. DueAt(buckets, 0) = 0
    <2>1. [t \in DOMAIN buckets |-> buckets[t] * (t + TotalIntervals - 0)]
            = [t \in {} |-> 0]
      BY <1>2
    <2> QED
      BY <2>1, SumOfZeros DEF DueAt
  <1>5. pool \in PoolRows
    BY <1>1 DEF PoolRows
  <1>6. BucketsKept(pool, buckets)
    BY <1>1, <1>2, <1>3 DEF BucketsKept
  <1>7. PoolKept(pool, buckets)
    BY <1>1, <1>3, <1>4, <1>5, <1>6 DEF PoolKept
  <1> QED
    BY <1>1, <1>7 DEF ReturnsInv

\* update_rex_pool and add_to_rex_return_pool, however late and however often
\* they run: what came in was returned or is in the pool, the pool holds what
\* its buckets have still to return, and the one rate is theirs.
THEOREM RexReturnsAddUp ==
  ASSUME Returns!RexReturnsConstants
  PROVE  Returns!Spec => [](Returns!TypeOK /\ Returns!ReturnsAddUp)
  <1>1. Returns!Init => ReturnsInv
    BY ReturnsInit
  <1>2. ReturnsInv /\ [Returns!Next]_<<now, pool, buckets, returned, fees>> => ReturnsInv'
    <2> SUFFICES ASSUME ReturnsInv, [Returns!Next]_<<now, pool, buckets, returned, fees>>
                 PROVE  ReturnsInv'
      OBVIOUS
    <2>1. CASE Returns!UpdateRexPool
      BY <2>1, UpdateRexPoolStep
    <2>2. CASE Returns!Fee
      <3>1. PICK fee \in 1 .. MaxFees - fees : Returns!AddToRexReturnPool(fee)
        BY <2>2 DEF Returns!Fee
      <3>2. fee \in Nat
        OBVIOUS
      <3> QED
        BY <3>1, <3>2, AddStep
    <2>3. CASE Returns!NextInterval
      BY <2>3, NextIntervalStep
    <2>4. CASE UNCHANGED <<now, pool, buckets, returned, fees>>
      BY <2>4 DEF ReturnsInv, PoolKept, BucketsKept, DueAt, PoolRows
    <2> QED
      BY <2>1, <2>2, <2>3, <2>4 DEF Returns!Next
  <1>3. ReturnsInv => Returns!TypeOK /\ Returns!ReturnsAddUp
    <2> SUFFICES ASSUME ReturnsInv
                 PROVE  Returns!TypeOK /\ Returns!ReturnsAddUp
      OBVIOUS
    <2>1. Returns!TypeOK
      BY DEF Returns!TypeOK, ReturnsInv, PoolKept, PoolRows, BucketsKept
    <2>2. Returns!FeesAreKept
      BY DEF Returns!FeesAreKept, ReturnsInv
    <2>3. Returns!ProceedsAreInBuckets
      BY SameSums DEF Returns!ProceedsAreInBuckets, ReturnsInv, PoolKept, DueAt
    <2>4. Returns!RateIsBuckets
      BY SameSums DEF Returns!RateIsBuckets, ReturnsInv, PoolKept, BucketsKept
    <2> QED
      BY <2>1, <2>2, <2>3, <2>4 DEF Returns!ReturnsAddUp
  <1> QED
    BY <1>1, <1>2, <1>3, PTL DEF Returns!Spec, Returns!vars

-----------------------------------------------------------------------------
(* Sums over sequences.                                                    *)

\* The sum of what V counts for each element of a sequence.
Total(V, q) == SumOf([i \in DOMAIN q |-> V[q[i]]])

\* It is a natural number, at least what each element counts.
LEMMA TotalIsNat ==
  ASSUME NEW S, NEW V \in [S -> Nat], NEW q \in Seq(S)
  PROVE  /\ DOMAIN q = 1 .. Len(q) /\ Len(q) \in Nat
         /\ [i \in DOMAIN q |-> V[q[i]]] \in [DOMAIN q -> Nat]
         /\ IsFiniteSet(Units([i \in DOMAIN q |-> V[q[i]]]))
         /\ Total(V, q) \in Nat
         /\ \A i \in DOMAIN q : q[i] \in S /\ V[q[i]] \in Nat /\ V[q[i]] <= Total(V, q)
  <1> DEFINE f == [i \in DOMAIN q |-> V[q[i]]]
  <1>1. DOMAIN q = 1 .. Len(q) /\ Len(q) \in Nat /\ \A i \in DOMAIN q : q[i] \in S
    OBVIOUS
  <1>2. f \in [DOMAIN q -> Nat] /\ \A i \in DOMAIN q : f[i] = V[q[i]]
    BY <1>1
  <1>3. IsFiniteSet(DOMAIN q)
    BY <1>1, FS_Interval
  <1> HIDE DEF f
  <1>4. IsFiniteSet(Units(f)) /\ SumOf(f) \in Nat
    BY <1>2, <1>3, SumIsFinite, FS_CardinalityType DEF SumOf
  <1>5. \A i \in DOMAIN q : f[i] <= SumOf(f)
    BY <1>2, <1>4, SumBoundsEntry
  <1> QED
    BY <1>1, <1>2, <1>4, <1>5 DEF Total, f

\* p is q with another element.
IsReplaced(p, q, j, e) == p = [q EXCEPT ![j] = e]

\* Replacing an element.
LEMMA TotalReplaced ==
  ASSUME NEW S, NEW V \in [S -> Nat], NEW q \in Seq(S), NEW j \in DOMAIN q, NEW e \in S,
         NEW p, IsReplaced(p, q, j, e)
  PROVE  /\ p \in Seq(S) /\ Len(p) = Len(q)
         /\ Total(V, p) = Total(V, q) - V[q[j]] + V[e]
  <1> DEFINE f == [i \in DOMAIN q |-> V[q[i]]]
             g == [i \in DOMAIN p |-> V[p[i]]]
             v == V[e]
  <1>1. p \in Seq(S) /\ Len(p) = Len(q) /\ DOMAIN p = DOMAIN q /\ v \in Nat
    BY DEF IsReplaced
  <1>2. \A i \in DOMAIN q : p[i] = IF i = j THEN e ELSE q[i]
    BY DEF IsReplaced
  <1>3. f \in [DOMAIN q -> Nat] /\ IsFiniteSet(Units(f)) /\ f[j] = V[q[j]]
    BY TotalIsNat
  <1>4. g = [f EXCEPT ![j] = v]
    BY <1>1, <1>2, <1>3
  <1> HIDE DEF f, g, v
  <1>5. SumOf(g) = SumOf(f) - f[j] + v
    BY <1>1, <1>3, <1>4, SumUpdate
  <1> QED
    BY <1>1, <1>3, <1>5 DEF Total, f, g, v

\* The sum of a part of a function.
SumIn(A, g) == SumOf([a \in A |-> g[a]])

LEMMA SumOfRest ==
  ASSUME NEW A, IsFiniteSet(A), NEW j, j \notin A, NEW g \in [A \union {j} -> Nat]
  PROVE  SumIn(A, g) \in Nat /\ SumOf(g) = SumIn(A, g) + g[j]
  <1>1. SumOf([a \in A |-> g[a]]) \in Nat
    BY SumWithEntry
  <1>2. SumOf(g) = SumOf([a \in A |-> g[a]]) + g[j]
    BY SumWithEntry
  <1> QED
    BY <1>1, <1>2 DEF SumIn

\* Appending one.
LEMMA TotalAppended ==
  ASSUME NEW S, NEW V \in [S -> Nat], NEW q \in Seq(S), NEW e \in S
  PROVE  /\ Append(q, e) \in Seq(S)
         /\ Total(V, Append(q, e)) = Total(V, q) + V[e]
  <1> DEFINE p == Append(q, e)
             A == DOMAIN q
             n == Len(q) + 1
             g == [i \in DOMAIN p |-> V[p[i]]]
  <1>1. /\ p \in Seq(S) /\ Len(p) = n /\ DOMAIN p = A \union {n} /\ n \notin A /\ IsFiniteSet(A)
        /\ p[n] = e /\ \A i \in A : p[i] = q[i]
    <2>1. A = 1 .. Len(q) /\ Len(q) \in Nat
      OBVIOUS
    <2>2. IsFiniteSet(A)
      BY <2>1, FS_Interval
    <2>3. p \in Seq(S) /\ Len(p) = n /\ p[n] = e /\ \A i \in A : p[i] = q[i]
      OBVIOUS
    <2>4. DOMAIN p = A \union {n} /\ n \notin A
      BY <2>1, <2>3
    <2> QED
      BY <2>2, <2>3, <2>4
  <1>2. g \in [A \union {n} -> Nat] /\ g[n] = V[e]
    BY <1>1, TotalIsNat
  <1>3. [i \in A |-> g[i]] = [i \in DOMAIN q |-> V[q[i]]]
    BY <1>1
  <1> HIDE DEF g, p, A, n
  <1>4. SumOf(g) = SumOf([i \in A |-> g[i]]) + g[n]
    <2>1. IsFiniteSet(A) /\ n \notin A
      BY <1>1
    <2>2. g \in [A \union {n} -> Nat]
      BY <1>2
    <2>3. SumOf(g) = SumIn(A, g) + g[n]
      BY ONLY <2>1, <2>2, SumOfRest
    <2> QED
      BY <2>3 DEF SumIn
  <1> QED
    BY <1>1, <1>2, <1>3, <1>4 DEF Total, g, p

\* Removing one.
LEMMA Removed ==
  ASSUME NEW S, NEW q \in Seq(S), NEW j \in DOMAIN q
  PROVE  /\ RemoveAt(q, j) \in Seq(S)
         /\ Len(RemoveAt(q, j)) = Len(q) - 1
         /\ DOMAIN RemoveAt(q, j) = 1 .. Len(q) - 1
         /\ \A i \in DOMAIN RemoveAt(q, j) :
              RemoveAt(q, j)[i] = IF i < j THEN q[i] ELSE q[i+1]
  <1>1. j \in 1 .. Len(q) /\ Len(q) \in Nat
    OBVIOUS
  <1> DEFINE a == SubSeq(q, 1, j-1)
             b == SubSeq(q, j+1, Len(q))
  <1>2. a \in Seq(S) /\ Len(a) = j - 1 /\ \A i \in 1 .. j-1 : a[i] = q[i]
    BY <1>1
  <1>3. b \in Seq(S) /\ Len(b) = Len(q) - j /\ \A i \in 1 .. Len(q) - j : b[i] = q[i+j]
    BY <1>1
  <1> HIDE DEF a, b
  <1>4. /\ a \o b \in Seq(S) /\ Len(a \o b) = Len(a) + Len(b)
        /\ \A i \in 1 .. Len(a) + Len(b) : (a \o b)[i] = IF i <= Len(a) THEN a[i] ELSE b[i - Len(a)]
    BY <1>2, <1>3, ConcatProperties
  <1>5. RemoveAt(q, j) = a \o b
    BY DEF RemoveAt, a, b
  <1>6. ASSUME NEW i \in 1 .. Len(q) - 1
        PROVE  (a \o b)[i] = IF i < j THEN q[i] ELSE q[i+1]
    <2>1. CASE i < j
      <3>1. i \in 1 .. Len(a) + Len(b) /\ i <= Len(a) /\ i \in 1 .. j-1
        BY <1>1, <1>2, <1>3, <2>1
      <3> QED
        BY <1>2, <1>4, <2>1, <3>1
    <2>2. CASE ~(i < j)
      <3>1. i \in 1 .. Len(a) + Len(b) /\ ~(i <= Len(a)) /\ i - Len(a) \in 1 .. Len(q) - j
            /\ (i - Len(a)) + j = i + 1
        <4>1. Len(a) = j - 1 /\ Len(b) = Len(q) - j /\ i \in 1 .. Len(q) - 1 /\ j \in Nat /\ Len(q) \in Nat
          BY <1>1, <1>2, <1>3
        <4> QED
          BY ONLY <4>1, <2>2
      <3> QED
        BY <1>3, <1>4, <2>2, <3>1
    <2> QED
      BY <2>1, <2>2
  <1>7. a \o b \in Seq(S) /\ Len(a \o b) = Len(q) - 1
    BY <1>1, <1>2, <1>3, <1>4
  <1>8. DOMAIN (a \o b) = 1 .. Len(q) - 1
    BY <1>7
  <1> QED
    BY <1>5, <1>6, <1>7, <1>8

\* g has the entries of f under other names.
Renames(A, f, B, g, at, back) ==
  /\ f \in [A -> Nat] /\ IsFiniteSet(Units(f)) /\ g \in [B -> Nat]
  /\ at \in [B -> A] /\ back \in [A -> B]
  /\ \A b \in B : back[at[b]] = b /\ g[b] = f[at[b]]
  /\ \A a \in A : at[back[a]] = a

LEMMA SumRenamed ==
  ASSUME NEW A, NEW f, NEW B, NEW g, NEW at, NEW back, Renames(A, f, B, g, at, back)
  PROVE  SumOf(g) = SumOf(f)
  BY SumOfRenamed DEF Renames

\* A numbered table without one of its entries.
LEMMA SumWithoutEntry ==
  ASSUME NEW n \in Nat, NEW f \in [1 .. n -> Nat], NEW j \in 1 .. n,
         NEW g \in [1 .. n - 1 -> Nat],
         \A i \in 1 .. n - 1 : g[i] = IF i < j THEN f[i] ELSE f[i+1]
  PROVE  SumOf(g) = SumOf(f) - f[j]
  <1> DEFINE B == 1 .. n - 1
             C == (1 .. n) \ {j}
             fc == [i \in C |-> f[i]]
             at == [i \in B |-> IF i < j THEN i ELSE i + 1]
             back == [i \in C |-> IF i < j THEN i ELSE i - 1]
  <1>1. g \in [B -> Nat] /\ at \in [B -> C] /\ back \in [C -> B]
    OBVIOUS
  <1>2. \A i \in B : back[at[i]] = i /\ g[i] = fc[at[i]]
    <2> SUFFICES ASSUME NEW i \in B PROVE back[at[i]] = i /\ g[i] = fc[at[i]]
      OBVIOUS
    <2>1. CASE i < j
      <3>1. at[i] = i /\ i \in C
        BY <2>1
      <3> QED
        BY <2>1, <3>1
    <2>2. CASE ~(i < j)
      <3>1. at[i] = i + 1 /\ i + 1 \in C /\ ~(i + 1 < j)
        BY <2>2
      <3> QED
        BY <2>2, <3>1
    <2> QED
      BY <2>1, <2>2
  <1>3. \A i \in C : at[back[i]] = i
    OBVIOUS
  <1>4. fc \in [C -> Nat] /\ IsFiniteSet(C)
    <2>1. IsFiniteSet(1 .. n)
      BY FS_Interval
    <2> QED
      BY <2>1, FS_Subset
  <1>5. /\ (1 .. n) = C \union {j} /\ j \notin C
        /\ f \in [C \union {j} -> Nat]
    <2>1. (1 .. n) = C \union {j}
      OBVIOUS
    <2> QED
      BY <2>1
  <1> HIDE DEF B, C, at, back
  <1>6. SumOf([i \in C |-> f[i]]) \in Nat /\ SumOf(f) = SumOf([i \in C |-> f[i]]) + f[j]
    <2>1. IsFiniteSet(C) /\ j \notin C
      BY <1>4, <1>5
    <2>2. f \in [C \union {j} -> Nat]
      BY <1>5
    <2>3. SumIn(C, f) \in Nat /\ SumOf(f) = SumIn(C, f) + f[j]
      BY ONLY <2>1, <2>2, SumOfRest
    <2> QED
      BY <2>3 DEF SumIn
  <1> HIDE DEF fc
  <1>7. IsFiniteSet(Units(fc))
    BY <1>4, SumIsFinite
  <1>8. SumOf(g) = SumOf(fc)
    <2>1. Renames(C, fc, B, g, at, back)
      BY <1>1, <1>2, <1>3, <1>4, <1>7 DEF Renames
    <2> QED
      BY <2>1, SumRenamed
  <1>9. f[j] \in Nat
    OBVIOUS
  <1> QED
    BY <1>6, <1>8, <1>9 DEF fc

LEMMA TotalRemoved ==
  ASSUME NEW S, NEW V \in [S -> Nat], NEW q \in Seq(S), NEW j \in DOMAIN q
  PROVE  Total(V, RemoveAt(q, j)) = Total(V, q) - V[q[j]]
  <1> DEFINE p == RemoveAt(q, j)
             n == Len(q)
             f == [i \in DOMAIN q |-> V[q[i]]]
             g == [i \in DOMAIN p |-> V[p[i]]]
  <1>1. n \in Nat /\ DOMAIN q = 1 .. n /\ j \in 1 .. n
    OBVIOUS
  <1>2. p \in Seq(S) /\ DOMAIN p = 1 .. n - 1 /\ \A i \in 1 .. n - 1 : p[i] = IF i < j THEN q[i] ELSE q[i+1]
    BY Removed
  <1> HIDE DEF p
  <1>3. f \in [1 .. n -> Nat] /\ g \in [1 .. n - 1 -> Nat] /\ f[j] = V[q[j]]
    BY <1>1, <1>2, TotalIsNat
  <1>4. ASSUME NEW i \in 1 .. n - 1
        PROVE  g[i] = IF i < j THEN f[i] ELSE f[i+1]
    <2>1. i \in 1 .. n /\ i + 1 \in 1 .. n
      BY <1>1
    <2> QED
      BY <1>1, <1>2, <2>1
  <1> HIDE DEF n, f, g
  <1>5. SumOf(g) = SumOf(f) - f[j]
    BY <1>1, <1>3, <1>4, SumWithoutEntry
  <1> QED
    BY <1>3, <1>5 DEF Total, f, g, p

-----------------------------------------------------------------------------
(* What is done a number of times.                                         *)

\* A set of natural numbers has a least one.
LEMMA LeastOfNat ==
  ASSUME NEW S, S \subseteq Nat, S # {}
  PROVE  \E m \in S : \A k \in S : m <= k
  <1> DEFINE Less == OpToRel(<, Nat)
  <1>1. IsWellFoundedOn(Less, Nat)
    BY Zenon, NatLessThanWellFounded
  <1>2. ASSUME NEW x \in Nat, NEW y \in Nat, x < y
        PROVE  <<x, y>> \in Less
    BY Zenon, <1>2 DEF OpToRel
  <1> HIDE DEF Less
  <1>3. PICK x \in S : \A y \in S : ~(<<y, x>> \in Less)
    BY <1>1, WFMin
  <1>4. \A y \in S : ~(y < x)
    BY <1>2, <1>3
  <1> QED
    BY <1>4

\* From one number to the next.
LEMMA NextOfNat ==
  ASSUME NEW n \in Nat
  PROVE  NoCircle(0 .. n, [i \in 0 .. n |-> i - 1])
  <1> DEFINE link == [i \in 0 .. n |-> i - 1]
  <1> SUFFICES ASSUME NEW S \in SUBSET (0 .. n), S # {}
               PROVE  \E a \in S : link[a] \notin S
    BY DEF NoCircle
  <1>1. PICK m \in S : \A k \in S : m <= k
    <2>1. S \subseteq Nat
      OBVIOUS
    <2> QED
      BY <2>1, LeastOfNat
  <1>2. m \in 0 .. n /\ link[m] = m - 1 /\ ~(m <= m - 1)
    OBVIOUS
  <1> QED
    BY <1>1, <1>2

LEMMA StepByStep ==
  ASSUME NEW n \in Nat, NEW G, 0 \in G, \A i \in 1 .. n : i - 1 \in G => i \in G
  PROVE  \A i \in 0 .. n : i \in G
  <1> DEFINE A == 0 .. n
             link == [i \in A |-> i - 1]
  <1>1. \A x \in A : (link[x] \in A => link[x] \in G) => x \in G
    OBVIOUS
  <1>2. NoCircle(A, link)
    BY NextOfNat
  <1>3. \A x \in A : x \in G
    <2> HIDE DEF A, link
    <2> QED
      BY ONLY <1>1, <1>2, ChainInduction
  <1> QED
    BY <1>3

\* A step that leads from D into D can be taken n times.
Iterates(n, D, start, F) ==
  \E f \in [0 .. n -> D] : f[0] = start /\ \A i \in 1 .. n : f[i] = F[<<i, f[i-1]>>]

LEMMA Iteration ==
  ASSUME NEW n \in Nat, NEW D, NEW start \in D, NEW F \in [(1 .. n) \X D -> D]
  PROVE  Iterates(n, D, start, F)
  <1> DEFINE A == 0 .. n
             link == [i \in A |-> i - 1]
             stop == { x \in D \X A : x[2] = 0 }
             base == [x \in D \X A |-> x[1]]
             finish == [x \in D \X A \X D |-> IF x[2] = 0 THEN x[3] ELSE F[<<x[2], x[3]>>]]
  <1>1. base \in [D \X A -> D]
    OBVIOUS
  <1>2. finish \in [D \X A \X D -> D]
    <2>1. ASSUME NEW x \in D \X A \X D, x[2] # 0
          PROVE  F[<<x[2], x[3]>>] \in D
      <3>1. x[2] \in 1 .. n /\ x[3] \in D
        BY <2>1
      <3> QED
        BY <3>1
    <2> QED
      BY <2>1
  <1>3. \A d \in D : \A a \in A : <<d, a>> \notin stop => a \in 1 .. n /\ link[a] \in A /\ link[a] = a - 1
    OBVIOUS
  <1>4. NoCircle(A, link)
    BY NextOfNat
  <1>5. PICK g : Defines(A, D, link, stop, base, base, finish, g)
    <2> HIDE DEF A, link, stop, base, finish
    <2> QED
      BY <1>1, <1>2, <1>3, <1>4, ChainRecursion DEF Recursion
  <1>6. /\ g \in [D \X A -> D]
        /\ \A d \in D : \A a \in A :
             g[<<d, a>>] = IF <<d, a>> \in stop THEN base[<<d, a>>]
                           ELSE finish[<<d, a, g[<<base[<<d, a>>], link[a]>>]>>]
    BY <1>5 DEF Defines
  <1> DEFINE f == [i \in A |-> g[<<start, i>>]]
  <1>7. f \in [A -> D]
    BY <1>6
  <1>8. f[0] = start
    <2>1. 0 \in A /\ <<start, 0>> \in stop /\ base[<<start, 0>>] = start
      OBVIOUS
    <2> HIDE DEF A, stop, base
    <2> QED
      BY <1>6, <2>1
  <1>9. ASSUME NEW i \in 1 .. n
        PROVE  f[i] = F[<<i, f[i-1]>>]
    <2>1. i \in A /\ i - 1 \in A /\ link[i] = i - 1 /\ <<start, i>> \notin stop /\ base[<<start, i>>] = start
      OBVIOUS
    <2>2. f[i] = finish[<<start, i, f[i-1]>>] /\ f[i-1] \in D
      <3> HIDE DEF A, stop, base, link, finish
      <3> QED
        BY <1>6, <1>7, <2>1
    <2> HIDE DEF f, A
    <2>3. finish[<<start, i, f[i-1]>>] = F[<<i, f[i-1]>>]
      BY <2>1, <2>2
    <2> QED
      BY <2>2, <2>3
  <1> QED
    BY <1>7, <1>8, <1>9 DEF Iterates

-----------------------------------------------------------------------------
(* Prices.                                                                 *)

\* With L1 tokens for R1 REX, REX is worth no less than with L for R.
PriceKept(L, R, L1, R1) == R1 > 0 => R > 0 /\ L1 * R >= L * R1

LEMMA PriceKeptTwice ==
  ASSUME NEW L \in Nat, NEW R \in Nat, NEW L1 \in Nat, NEW R1 \in Nat, NEW L2 \in Nat, NEW R2 \in Nat,
         PriceKept(L, R, L1, R1), PriceKept(L1, R1, L2, R2)
  PROVE  PriceKept(L, R, L2, R2)
  <1> SUFFICES ASSUME R2 > 0 PROVE R > 0 /\ L2 * R >= L * R2
    BY DEF PriceKept
  <1>1. R1 > 0 /\ L2 * R1 >= L1 * R2 /\ R > 0 /\ L1 * R >= L * R1
    BY DEF PriceKept
  <1>2. R * (L1 * R2) <= R * (L2 * R1)
    <2>1. L1 * R2 \in Nat /\ L2 * R1 \in Nat
      BY ProductIsNat
    <2> QED
      BY <1>1, <2>1, ProductMonotonic
  <1>3. R2 * (L * R1) <= R2 * (L1 * R)
    <2>1. L * R1 \in Nat /\ L1 * R \in Nat
      BY ProductIsNat
    <2> QED
      BY <1>1, <2>1, ProductMonotonic
  <1>4. R1 * (L * R2) <= R1 * (L2 * R)
    <2>1. R1 * (L * R2) = R2 * (L * R1) /\ R1 * (L2 * R) = R * (L2 * R1) /\ R * (L1 * R2) = R2 * (L1 * R)
      OBVIOUS
    <2>2. /\ R1 * (L * R2) \in Nat /\ R2 * (L1 * R) \in Nat /\ R1 * (L2 * R) \in Nat
      BY ProductIsNat
    <2> QED
      BY <1>2, <1>3, <2>1, <2>2
  <1> QED
    <2>1. L * R2 \in Nat /\ L2 * R \in Nat /\ R1 \in Nat \ {0}
      BY <1>1, ProductIsNat
    <2> QED
      BY <1>1, <1>4, <2>1, FactorCancels

\* A part of the REX is worth at most all tokens, and selling it does not lower
\* the price of the rest.
LEMMA ValueOfPart ==
  ASSUME NEW L \in Nat, NEW R \in Nat \ {0}, NEW a \in Nat, a <= R
  PROVE  /\ (a * L) \div R \in Nat
         /\ (a * L) \div R <= L
         /\ a = R => (a * L) \div R = L
         /\ PriceKept(L, R, L - (a * L) \div R, R - a)
         /\ \A b \in Nat : b <= a => (b * L) \div R \in Nat /\ (b * L) \div R <= (a * L) \div R
  <1> DEFINE V == (a * L) \div R
  <1>1. V \in Nat /\ R * V <= a * L /\ a * L \in Nat
    BY DivisionBounds, ProductIsNat
  <1>2. V <= L
    <2>1. L * a = a * L
      OBVIOUS
    <2> QED
      BY <2>1, PartAtMost
  <1>3. ASSUME a = R PROVE V = L
    <2>1. R * L <= R * L /\ R * L \in Nat
      BY ProductIsNat
    <2> HIDE DEF V
    <2>2. L <= (R * L) \div R
      BY <2>1, QuotientAtLeast
    <2> QED
      BY <1>1, <1>2, <1>3, <2>2 DEF V
  <1>4. (L - V) * R >= L * (R - a)
    <2>1. (L - V) * R = L * R - R * V
      BY <1>1
    <2>2. L * (R - a) = L * R - a * L
      OBVIOUS
    <2>3. L * R \in Nat /\ R * V \in Nat
      BY <1>1, ProductIsNat
    <2> HIDE DEF V
    <2> QED
      BY <1>1, <2>1, <2>2, <2>3
  <1>5. ASSUME NEW b \in Nat, b <= a
        PROVE  (b * L) \div R \in Nat /\ (b * L) \div R <= V
    <2>1. b * L \in Nat /\ a * L \in Nat
      BY ProductIsNat
    <2>2. b * L <= a * L
      <3>1. L * b <= L * a
        BY <1>5, ProductMonotonic
      <3>2. L * b = b * L /\ L * a = a * L
        OBVIOUS
      <3> QED
        BY <3>1, <3>2
    <2> QED
      BY <2>1, <2>2, DivisionMonotonic, DivisionBounds
  <1> HIDE DEF V
  <1>6. PriceKept(L, R, L - V, R - a)
    BY <1>4 DEF PriceKept
  <1> QED
    BY <1>1, <1>2, <1>3, <1>5, <1>6 DEF V

\* A purchase brings REX, and no more than it pays for.
LEMMA PurchaseKeepsPrice ==
  ASSUME NEW L \in Nat \ {0}, NEW R \in Nat \ {0}, NEW p \in Nat
  PROVE  /\ (R * (L + p)) \div L \in Nat
         /\ (R * (L + p)) \div L >= R
         /\ PriceKept(L, R, L + p, (R * (L + p)) \div L)
  <1> DEFINE n == R * (L + p)
             R1 == n \div L
  <1>1. n \in Nat /\ L * R <= n
    <2>1. n = R * L + R * p /\ R * L = L * R /\ L * R \in Nat /\ R * p \in Nat
      BY ProductIsNat
    <2> HIDE DEF n
    <2> QED
      BY <2>1
  <1>2. R1 \in Nat /\ L * R1 <= n
    <2> HIDE DEF n
    <2> QED
      BY <1>1, DivisionBounds
  <1>3. R <= R1
    <2> HIDE DEF n
    <2> QED
      BY <1>1, QuotientAtLeast
  <1>4. n = (L + p) * R
    OBVIOUS
  <1> HIDE DEF n, R1
  <1>5. PriceKept(L, R, L + p, R1)
    BY <1>2, <1>4 DEF PriceKept
  <1> QED
    BY <1>2, <1>3, <1>5 DEF n, R1

\* More tokens for the same REX.
LEMMA ReturnsKeepPrice ==
  ASSUME NEW L \in Nat, NEW R \in Nat, NEW d \in Nat
  PROVE  PriceKept(L, R, L + d, R)
  <1>1. (L + d) * R = L * R + d * R /\ d * R \in Nat /\ L * R \in Nat
    BY ProductIsNat
  <1> QED
    BY <1>1 DEF PriceKept

\* What a payment gets out of a reserve: not more than there is, and not all
\* when there was something in the other one.
LEMMA BancorBounds ==
  ASSUME NEW ib \in Nat, NEW ob \in Nat, NEW in \in Nat \ {0}
  PROVE  /\ BancorOutput(ib, ob, in) \in Nat
         /\ BancorOutput(ib, ob, in) <= ob
         /\ ib > 0 /\ ob > 0 => BancorOutput(ib, ob, in) < ob
  <1>1. CASE ib > 0
    <2>1. ib \in Nat \ {0}
      BY <1>1
    <2> QED
      BY <2>1, BancorKeepsProduct DEF BancorOutput
  <1>2. CASE ib = 0
    <2>1. in * ob = ob * in /\ ib + in = in
      BY <1>2
    <2>2. (ob * in) \div in \in Nat /\ (ob * in) \div in <= ob
      BY PartAtMost
    <2> QED
      BY <1>2, <2>1, <2>2 DEF BancorOutput
  <1> QED
    BY <1>1, <1>2

-----------------------------------------------------------------------------
(* Sums over the tables.                                                   *)

Staked == [l \in Loan |-> l.total_staked]

StakedTo(o) == [l \in Loan |-> IF l.receiver = o THEN l.total_staked ELSE 0]

Left == [l \in Loan |-> l.balance]

AllLent(s) == SumOf([r \in Resources |-> LentBy(s, r)])

AllLeft(s) == SumOf([r \in Resources |-> BalancesOf(s, r)])

LEMMA LoanFields ==
  /\ Staked \in [Loan -> Nat] /\ Left \in [Loan -> Nat]
  /\ \A o : StakedTo(o) \in [Loan -> Nat]
  /\ \A l \in Loan :
       /\ l.from \in Owners /\ l.receiver \in Owners /\ l.payment \in Nat /\ l.balance \in Nat
       /\ l.total_staked \in Nat /\ l.left \in -LoanTime .. LoanTime
       /\ Staked[l] = l.total_staked /\ Left[l] = l.balance
       /\ \A o : StakedTo(o)[l] = IF l.receiver = o THEN l.total_staked ELSE 0
  <1>1. \A l \in Loan :
          /\ l.from \in Owners /\ l.receiver \in Owners /\ l.payment \in Nat /\ l.balance \in Nat
          /\ l.total_staked \in Nat /\ l.left \in -LoanTime .. LoanTime
    BY DEF Loan
  <1> QED
    BY <1>1 DEF Staked, StakedTo, Left

\* Sums over the loans of a table.
LEMMA LoanSums ==
  ASSUME NEW s \in Tables, NEW r \in Resources
  PROVE  /\ s.loans[r] \in Seq(Loan)
         /\ LentBy(s, r) = Total(Staked, s.loans[r]) /\ LentBy(s, r) \in Nat
         /\ BalancesOf(s, r) = Total(Left, s.loans[r]) /\ BalancesOf(s, r) \in Nat
         /\ \A o : LentTo(s, r, o) = Total(StakedTo(o), s.loans[r]) /\ LentTo(s, r, o) \in Nat
  <1> DEFINE q == s.loans[r]
  <1>1. q \in Seq(Loan)
    BY DEF Tables
  <1>2. \A i \in DOMAIN q : q[i] \in Loan
    BY <1>1
  <1>3. LentBy(s, r) = Total(Staked, q)
    <2>1. \A i \in DOMAIN q : q[i].total_staked = Staked[q[i]]
      BY <1>2, LoanFields
    <2>2. [i \in DOMAIN q |-> q[i].total_staked] = [i \in DOMAIN q |-> Staked[q[i]]]
      BY <2>1
    <2> QED
      BY <2>2 DEF LentBy, Total
  <1>4. BalancesOf(s, r) = Total(Left, q)
    <2>1. \A i \in DOMAIN q : q[i].balance = Left[q[i]]
      BY <1>2, LoanFields
    <2>2. [i \in DOMAIN q |-> q[i].balance] = [i \in DOMAIN q |-> Left[q[i]]]
      BY <2>1
    <2> QED
      BY <2>2 DEF BalancesOf, Total
  <1>5. ASSUME NEW o PROVE LentTo(s, r, o) = Total(StakedTo(o), q)
    <2>1. \A i \in DOMAIN q :
            (IF q[i].receiver = o THEN q[i].total_staked ELSE 0) = StakedTo(o)[q[i]]
      BY <1>2, LoanFields
    <2>2. [i \in DOMAIN q |-> IF q[i].receiver = o THEN q[i].total_staked ELSE 0]
            = [i \in DOMAIN q |-> StakedTo(o)[q[i]]]
      BY <2>1
    <2> QED
      BY <2>2 DEF LentTo, Total
  <1>6. /\ Staked \in [Loan -> Nat] /\ Left \in [Loan -> Nat] /\ \A o : StakedTo(o) \in [Loan -> Nat]
    BY LoanFields
  <1> HIDE DEF q
  <1>7. Total(Staked, q) \in Nat /\ Total(Left, q) \in Nat
    BY <1>1, <1>6, TotalIsNat
  <1>8. ASSUME NEW o PROVE Total(StakedTo(o), q) \in Nat
    <2>1. StakedTo(o) \in [Loan -> Nat]
      BY <1>6
    <2> QED
      BY <1>1, <2>1, TotalIsNat
  <1> QED
    BY <1>1, <1>3, <1>4, <1>5, <1>7, <1>8 DEF q

\* Sums over the tables of loans.
LEMMA TableSums ==
  ASSUME RexPoolConstants, NEW s \in Tables
  PROVE  /\ AllLent(s) \in Nat /\ AllLeft(s) \in Nat
         /\ \A r \in Resources : LentBy(s, r) \in Nat /\ LentBy(s, r) <= AllLent(s)
         /\ \A r \in Resources : BalancesOf(s, r) \in Nat /\ BalancesOf(s, r) <= AllLeft(s)
  <1>1. IsFiniteSet(Resources)
    BY FS_Interval DEF RexPoolConstants, Resources
  <1> DEFINE f == [r \in Resources |-> LentBy(s, r)]
             g == [r \in Resources |-> BalancesOf(s, r)]
  <1>2. /\ f \in [Resources -> Nat] /\ g \in [Resources -> Nat]
        /\ \A r \in Resources : f[r] = LentBy(s, r) /\ g[r] = BalancesOf(s, r)
    BY LoanSums
  <1> HIDE DEF f, g
  <1>3. /\ IsFiniteSet(Units(f)) /\ SumOf(f) \in Nat
        /\ IsFiniteSet(Units(g)) /\ SumOf(g) \in Nat
    BY <1>1, <1>2, SumIsFinite, FS_CardinalityType DEF SumOf
  <1>4. \A r \in Resources : f[r] <= SumOf(f) /\ g[r] <= SumOf(g)
    BY <1>2, <1>3, SumBoundsEntry
  <1> QED
    BY <1>2, <1>3, <1>4 DEF AllLent, AllLeft, f, g

LEMMA TablesDiffer ==
  ASSUME RexPoolConstants, NEW s \in Tables, NEW t \in Tables, NEW r \in Resources,
         \A x \in Resources \ {r} : t.loans[x] = s.loans[x]
  PROVE  /\ AllLent(t) = AllLent(s) - LentBy(s, r) + LentBy(t, r)
         /\ AllLeft(t) = AllLeft(s) - BalancesOf(s, r) + BalancesOf(t, r)
         /\ \A x \in Resources \ {r} : \A o : LentTo(t, x, o) = LentTo(s, x, o)
  <1>1. IsFiniteSet(Resources)
    BY FS_Interval DEF RexPoolConstants, Resources
  <1> DEFINE f == [x \in Resources |-> LentBy(s, x)]
             g == [x \in Resources |-> LentBy(t, x)]
             h == [x \in Resources |-> BalancesOf(s, x)]
             k == [x \in Resources |-> BalancesOf(t, x)]
  <1>2. /\ f \in [Resources -> Nat] /\ g \in [Resources -> Nat] /\ h \in [Resources -> Nat] /\ k \in [Resources -> Nat]
        /\ f[r] = LentBy(s, r) /\ g[r] = LentBy(t, r) /\ h[r] = BalancesOf(s, r) /\ k[r] = BalancesOf(t, r)
    BY LoanSums
  <1>3. \A x \in Resources \ {r} : g[x] = f[x] /\ k[x] = h[x]
    BY DEF LentBy, BalancesOf
  <1> HIDE DEF f, g, h, k
  <1>4. IsFiniteSet(Units(f)) /\ IsFiniteSet(Units(h))
    BY <1>1, <1>2, SumIsFinite
  <1>5. SumOf(g) = SumOf(f) - f[r] + g[r]
    BY <1>2, <1>3, <1>4, SumOneEntry
  <1>6. SumOf(k) = SumOf(h) - h[r] + k[r]
    BY <1>2, <1>3, <1>4, SumOneEntry
  <1>7. \A x \in Resources \ {r} : \A o : LentTo(t, x, o) = LentTo(s, x, o)
    BY DEF LentTo
  <1> QED
    BY <1>2, <1>5, <1>6, <1>7 DEF AllLent, AllLeft, f, g, h, k

\* Tables with the same loans.
LEMMA SameLoans ==
  ASSUME NEW s, NEW t, t.loans = s.loans
  PROVE  /\ AllLent(t) = AllLent(s) /\ AllLeft(t) = AllLeft(s)
         /\ \A r, o : LentTo(t, r, o) = LentTo(s, r, o)
  BY DEF AllLent, AllLeft, LentBy, BalancesOf, LentTo

\* Sums over the owners.
LEMMA OwnerSums ==
  ASSUME RexPoolConstants, NEW f \in [Owners -> Nat]
  PROVE  /\ SumOf(f) \in Nat
         /\ \A o \in Owners : f[o] \in Nat /\ f[o] <= SumOf(f)
         /\ \A o \in Owners, v \in Nat : /\ [f EXCEPT ![o] = v] \in [Owners -> Nat]
                                        /\ SumOf([f EXCEPT ![o] = v]) = SumOf(f) - f[o] + v
  <1>1. IsFiniteSet(Units(f))
    BY SumIsFinite DEF RexPoolConstants
  <1>2. \A o \in Owners, v \in Nat : SumOf([f EXCEPT ![o] = v]) = SumOf(f) - f[o] + v
    BY <1>1, SumUpdate
  <1>3. SumOf(f) \in Nat
    BY <1>1, FS_CardinalityType DEF SumOf
  <1>4. \A o \in Owners : f[o] \in Nat /\ f[o] <= SumOf(f)
    BY <1>1, SumBoundsEntry
  <1>5. \A o \in Owners, v \in Nat : [f EXCEPT ![o] = v] \in [Owners -> Nat]
    OBVIOUS
  <1> QED
    BY <1>2, <1>3, <1>4, <1>5

LEMMA OwnerReplaced ==
  ASSUME RexPoolConstants, NEW f \in [Owners -> Nat], NEW o \in Owners, NEW v \in Nat,
         NEW g, IsReplaced(g, f, o, v)
  PROVE  SumOf(f) \in Nat /\ SumOf(g) = SumOf(f) - f[o] + v
  <1>1. IsFiniteSet(Units(f)) /\ SumOf(f) \in Nat
    BY SumIsFinite, OwnerSums DEF RexPoolConstants
  <1>2. g \in [Owners -> Nat] /\ g[o] = v /\ \A x \in Owners \ {o} : g[x] = f[x]
    BY DEF IsReplaced
  <1>3. SumOf(g) = SumOf(f) - f[o] + g[o]
    BY ONLY <1>1, <1>2, f \in [Owners -> Nat], o \in Owners, SumOneEntry
  <1> QED
    BY <1>1, <1>2, <1>3

-----------------------------------------------------------------------------
(* Sound tables.                                                           *)

\* Every loan lends something and renews for something.
LoansStand(s) ==
  \A r \in Resources : \A i \in DOMAIN s.loans[r] :
    s.loans[r][i].total_staked > 0 /\ s.loans[r][i].payment > 0

\* Every open order is covered by its owner's REX, and its owner has no other,
\* neither open nor closed.
OrdersStand(s) ==
  /\ \A i \in DOMAIN s.queue :
       /\ s.queue[i].rex > 0 /\ s.queue[i].rex <= s.owned[s.queue[i].owner]
       /\ s.proceeds[s.queue[i].owner] = 0 /\ s.stake_change[s.queue[i].owner] = 0
  /\ \A i \in DOMAIN s.queue, j \in DOMAIN s.queue : s.queue[i].owner = s.queue[j].owner => i = j

\* A pool without REX has lent nothing, since the last REX is worth all of it.
PoolStands(s) ==
  /\ s.pool.total_rex > 0 => s.pool.exists
  /\ s.pool.total_rex = 0 => s.pool.total_lent = 0
  /\ NamebidsHaveOwners(s)

\* PoolAddsUp, over the resources there are.
TablesAddUp(s) ==
  /\ s.pool.total_lendable = s.pool.total_lent + s.pool.total_unlent
  /\ s.pool.total_rex = SumOf(s.owned)
  /\ s.pool.total_lent = AllLent(s)
  /\ \A r \in Resources, o \in Owners : s.rented[r][o] = LentTo(s, r, o)

Sound(s) ==
  /\ s \in Tables
  /\ TablesAddUp(s)
  /\ PoolStands(s) /\ LoansStand(s) /\ OrdersStand(s)

\* The types of the tables.
LEMMA TableTypes ==
  ASSUME NEW s \in Tables
  PROVE  /\ s.pool \in PoolRow
         /\ s.fund \in [Owners -> Nat] /\ s.owned \in [Owners -> Nat]
         /\ s.has_row \in SUBSET Owners /\ s.vote_stake \in [Owners -> Nat]
         /\ s.queue \in Seq([owner : Owners, rex : Nat])
         /\ s.proceeds \in [Owners -> Nat] /\ s.stake_change \in [Owners -> Int]
         /\ s.loans \in [Resources -> Seq(Loan)]
         /\ s.rented \in [Resources -> [Owners -> Nat]]
  BY DEF Tables

LEMMA PoolTypes ==
  ASSUME NEW p \in PoolRow
  PROVE  /\ p.exists \in BOOLEAN /\ p.total_lent \in Nat /\ p.total_unlent \in Nat
         /\ p.total_rent \in Nat /\ p.total_lendable \in Nat /\ p.total_rex \in Nat
         /\ p.namebid_proceeds \in Nat /\ p.held \in Nat
  BY DEF PoolRow

\* The tables but the pool.
SameButPool(s, t) ==
  /\ t.fund = s.fund /\ t.owned = s.owned /\ t.has_row = s.has_row /\ t.vote_stake = s.vote_stake
  /\ t.queue = s.queue /\ t.proceeds = s.proceeds /\ t.stake_change = s.stake_change
  /\ t.loans = s.loans /\ t.rented = s.rented

LEMMA PoolSet ==
  ASSUME NEW s \in Tables, NEW p \in PoolRow
  PROVE  /\ [s EXCEPT !.pool = p] \in Tables /\ [s EXCEPT !.pool = p].pool = p
         /\ SameButPool(s, [s EXCEPT !.pool = p])
  BY DEF Tables, SameButPool

\* What is owed, without its parts.
LEMMA OwedIsNat ==
  ASSUME RexPoolConstants, NEW s \in Tables
  PROVE  /\ SumOf(s.fund) \in Nat /\ SumOf(s.owned) \in Nat /\ SumOf(s.proceeds) \in Nat
         /\ AllLent(s) \in Nat /\ AllLeft(s) \in Nat
         /\ Owed(s) = SumOf(s.fund) + s.pool.total_lendable + s.pool.held + AllLeft(s) + SumOf(s.proceeds)
         /\ Owed(s) \in Nat
  <1>1. /\ SumOf(s.fund) \in Nat /\ SumOf(s.owned) \in Nat /\ SumOf(s.proceeds) \in Nat
    BY TableTypes, OwnerSums
  <1>2. AllLent(s) \in Nat /\ AllLeft(s) \in Nat
    BY TableSums
  <1>3. s.pool.total_lendable \in Nat /\ s.pool.held \in Nat
    BY TableTypes, PoolTypes
  <1>4. DOMAIN s.loans = Resources
    BY TableTypes
  <1> QED
    BY <1>1, <1>2, <1>3, <1>4 DEF Owed, AllLeft

\* A change of the pool's row that keeps its REX and its loans.
LEMMA PoolChanged ==
  ASSUME RexPoolConstants, NEW s, Sound(s), NEW p \in PoolRow,
         p.exists = s.pool.exists, p.total_rex = s.pool.total_rex, p.total_lent = s.pool.total_lent,
         p.total_lendable = p.total_lent + p.total_unlent,
         p.namebid_proceeds > 0 => s.pool.namebid_proceeds > 0 \/ rex_available(s),
         NEW t, t = [s EXCEPT !.pool = p]
  PROVE  /\ Sound(t) /\ t.pool = p /\ SameButPool(s, t)
         /\ Owed(t) = Owed(s) - (s.pool.total_lendable + s.pool.held) + (p.total_lendable + p.held)
  <1>1. t \in Tables /\ t.pool = p /\ SameButPool(s, t)
    BY PoolSet DEF Sound
  <1>2. s \in Tables /\ s.pool \in PoolRow
    BY TableTypes DEF Sound
  <1>3. AllLent(t) = AllLent(s) /\ AllLeft(t) = AllLeft(s) /\ \A r, o : LentTo(t, r, o) = LentTo(s, r, o)
    <2>1. t.loans = s.loans
      BY <1>1 DEF SameButPool
    <2> QED
      BY ONLY <2>1, SameLoans
  <1>4. TablesAddUp(t)
    BY <1>1, <1>3 DEF Sound, TablesAddUp, AllLent, SameButPool
  <1>5. PoolStands(t)
    BY <1>1 DEF Sound, PoolStands, NamebidsHaveOwners, rex_available
  <1>6. LoansStand(t) /\ OrdersStand(t)
    BY <1>1 DEF Sound, LoansStand, OrdersStand, SameButPool
  <1>7. Owed(t) = Owed(s) - (s.pool.total_lendable + s.pool.held) + (p.total_lendable + p.held)
    <2>1. Owed(t) = SumOf(t.fund) + t.pool.total_lendable + t.pool.held + AllLeft(t) + SumOf(t.proceeds)
      BY <1>1, OwedIsNat
    <2>2. /\ SumOf(s.fund) \in Nat /\ SumOf(s.proceeds) \in Nat /\ AllLeft(s) \in Nat
          /\ Owed(s) = SumOf(s.fund) + s.pool.total_lendable + s.pool.held + AllLeft(s) + SumOf(s.proceeds)
      BY <1>2, OwedIsNat
    <2>3. /\ s.pool.total_lendable \in Nat /\ s.pool.held \in Nat
          /\ p.total_lendable \in Nat /\ p.held \in Nat
      BY <1>2, PoolTypes
    <2>4. t.fund = s.fund /\ t.proceeds = s.proceeds /\ t.pool = p
      BY <1>1 DEF SameButPool
    <2> QED
      BY <1>3, <2>1, <2>2, <2>3, <2>4
  <1> QED
    BY <1>1, <1>4, <1>5, <1>6, <1>7 DEF Sound

\* Loans that may stand in a table.
GoodLoans(q) ==
  /\ q \in Seq(Loan)
  /\ \A i \in DOMAIN q : q[i].total_staked > 0 /\ q[i].payment > 0

\* A change of the loans of a table: q, at a pool p, funds f and weights w.
LoansMake(s, r, p, q, f, w, t) ==
  /\ p \in PoolRow /\ GoodLoans(q) /\ f \in [Owners -> Nat] /\ w \in [Owners -> Nat]
  /\ p.exists = s.pool.exists /\ p.total_rex = s.pool.total_rex
  /\ p.namebid_proceeds = s.pool.namebid_proceeds
  /\ p.total_lendable = p.total_lent + p.total_unlent
  /\ p.total_lent = s.pool.total_lent - Total(Staked, s.loans[r]) + Total(Staked, q)
  /\ s.pool.total_rex = 0 => p.total_lent = 0
  /\ \A o \in Owners : w[o] = Total(StakedTo(o), q)
  /\ t = [s EXCEPT !.pool = p, !.loans = [s.loans EXCEPT ![r] = q], !.fund = f,
                   !.rented = [s.rented EXCEPT ![r] = w]]

TablesWith(s, p, L, f, W) == [s EXCEPT !.pool = p, !.loans = L, !.fund = f, !.rented = W]

\* Such tables.
AreTablesWith(t, s, p, L, f, W) ==
  /\ t \in Tables /\ t.pool = p /\ t.loans = L /\ t.fund = f /\ t.rented = W
  /\ t.owned = s.owned /\ t.has_row = s.has_row /\ t.vote_stake = s.vote_stake
  /\ t.queue = s.queue /\ t.proceeds = s.proceeds /\ t.stake_change = s.stake_change

LEMMA LoansSet ==
  ASSUME NEW s \in Tables, NEW p \in PoolRow, NEW L \in [Resources -> Seq(Loan)],
         NEW f \in [Owners -> Nat], NEW W \in [Resources -> [Owners -> Nat]]
  PROVE  AreTablesWith(TablesWith(s, p, L, f, W), s, p, L, f, W)
  BY DEF Tables, TablesWith, AreTablesWith

LEMMA LoansChanged ==
  ASSUME RexPoolConstants, NEW s, Sound(s), NEW r \in Resources,
         NEW p, NEW q, NEW f, NEW w, NEW t, LoansMake(s, r, p, q, f, w, t)
  PROVE  /\ Sound(t)
         /\ Owed(t) = Owed(s) - SumOf(s.fund) + SumOf(f)
                        - (s.pool.total_lendable + s.pool.held) + (p.total_lendable + p.held)
                        - Total(Left, s.loans[r]) + Total(Left, q)
         /\ t.pool = p /\ t.loans = [s.loans EXCEPT ![r] = q] /\ t.fund = f
         /\ t.owned = s.owned /\ t.has_row = s.has_row /\ t.vote_stake = s.vote_stake
         /\ t.queue = s.queue /\ t.proceeds = s.proceeds /\ t.stake_change = s.stake_change
  <1> DEFINE L == [s.loans EXCEPT ![r] = q]
             W == [s.rented EXCEPT ![r] = w]
  <1>1. s \in Tables /\ s.loans \in [Resources -> Seq(Loan)] /\ s.rented \in [Resources -> [Owners -> Nat]]
        /\ s.pool \in PoolRow /\ s.fund \in [Owners -> Nat]
    BY TableTypes DEF Sound
  <1>2. /\ L \in [Resources -> Seq(Loan)] /\ W \in [Resources -> [Owners -> Nat]]
        /\ L[r] = q /\ W[r] = w
        /\ \A x \in Resources \ {r} : L[x] = s.loans[x] /\ W[x] = s.rented[x]
    BY <1>1 DEF LoansMake, GoodLoans
  <1>3. /\ t \in Tables /\ t.pool = p /\ t.loans = L /\ t.fund = f /\ t.rented = W
        /\ t.owned = s.owned /\ t.has_row = s.has_row /\ t.vote_stake = s.vote_stake
        /\ t.queue = s.queue /\ t.proceeds = s.proceeds /\ t.stake_change = s.stake_change
    <2>1. p \in PoolRow /\ f \in [Owners -> Nat]
      BY DEF LoansMake
    <2>2. t = TablesWith(s, p, L, f, W)
      BY DEF LoansMake, TablesWith
    <2> HIDE DEF L, W
    <2>3. s \in Tables /\ L \in [Resources -> Seq(Loan)] /\ W \in [Resources -> [Owners -> Nat]]
      BY <1>1, <1>2
    <2>4. AreTablesWith(TablesWith(s, p, L, f, W), s, p, L, f, W)
      BY ONLY <2>1, <2>3, LoansSet
    <2> QED
      BY <2>2, <2>4 DEF AreTablesWith
  <1> HIDE DEF L, W
  <1>4. /\ AllLent(t) = AllLent(s) - LentBy(s, r) + LentBy(t, r)
        /\ AllLeft(t) = AllLeft(s) - BalancesOf(s, r) + BalancesOf(t, r)
        /\ \A x \in Resources \ {r} : \A o : LentTo(t, x, o) = LentTo(s, x, o)
    <2>1. \A x \in Resources \ {r} : t.loans[x] = s.loans[x]
      BY <1>2, <1>3
    <2> QED
      BY <1>1, <1>3, <2>1, TablesDiffer
  <1>5. /\ LentBy(s, r) = Total(Staked, s.loans[r]) /\ BalancesOf(s, r) = Total(Left, s.loans[r])
        /\ LentBy(s, r) \in Nat /\ BalancesOf(s, r) \in Nat
    BY <1>1, LoanSums
  <1>6. /\ LentBy(t, r) = Total(Staked, q) /\ BalancesOf(t, r) = Total(Left, q)
        /\ LentBy(t, r) \in Nat /\ BalancesOf(t, r) \in Nat
        /\ \A o : LentTo(t, r, o) = Total(StakedTo(o), q)
    <2>1. t.loans[r] = q
      BY <1>2, <1>3
    <2> QED
      BY <1>3, <2>1, LoanSums
  <1>7. TablesAddUp(t)
    <2>1. p.total_lendable = p.total_lent + p.total_unlent /\ p.total_rex = SumOf(t.owned)
      BY <1>3 DEF LoansMake, Sound, TablesAddUp
    <2>2. p.total_lent = AllLent(t)
      <3>1. s.pool.total_lent = AllLent(s) /\ AllLent(s) \in Nat
        BY <1>1, TableSums DEF Sound, TablesAddUp, AllLent
      <3>2. p.total_lent = s.pool.total_lent - Total(Staked, s.loans[r]) + Total(Staked, q)
        BY DEF LoansMake
      <3> QED
        BY <1>4, <1>5, <1>6, <3>1, <3>2
    <2>3. ASSUME NEW x \in Resources, NEW o \in Owners
          PROVE  t.rented[x][o] = LentTo(t, x, o)
      <3>1. CASE x = r
        <4>1. w[o] = Total(StakedTo(o), q)
          BY DEF LoansMake
        <4>2. t.rented[r] = w
          BY <1>2, <1>3
        <4>3. LentTo(t, r, o) = Total(StakedTo(o), q)
          BY <1>6
        <4> QED
          BY ONLY <3>1, <4>1, <4>2, <4>3
      <3>2. CASE x # r
        <4>1. t.rented[x] = s.rented[x]
          BY <1>2, <1>3, <3>2
        <4>2. LentTo(t, x, o) = LentTo(s, x, o)
          BY <1>4, <3>2
        <4>3. s.rented[x][o] = LentTo(s, x, o)
          BY DEF Sound, TablesAddUp
        <4> QED
          BY ONLY <4>1, <4>2, <4>3
      <3> QED
        BY <3>1, <3>2
    <2> QED
      BY <1>3, <2>1, <2>2, <2>3 DEF TablesAddUp, AllLent
  <1>8. PoolStands(t)
    BY <1>3 DEF LoansMake, Sound, PoolStands, NamebidsHaveOwners, rex_available
  <1>9. LoansStand(t)
    <2> SUFFICES ASSUME NEW x \in Resources
                 PROVE  \A i \in DOMAIN t.loans[x] : t.loans[x][i].total_staked > 0 /\ t.loans[x][i].payment > 0
      BY DEF LoansStand
    <2>1. CASE x = r
      BY <1>2, <1>3, <2>1 DEF LoansMake, GoodLoans
    <2>2. CASE x # r
      BY <1>2, <1>3, <2>2 DEF Sound, LoansStand
    <2> QED
      BY <2>1, <2>2
  <1>10. OrdersStand(t)
    BY <1>3 DEF Sound, OrdersStand
  <1>11. Owed(t) = Owed(s) - SumOf(s.fund) + SumOf(f)
                        - (s.pool.total_lendable + s.pool.held) + (p.total_lendable + p.held)
                        - Total(Left, s.loans[r]) + Total(Left, q)
    <2>1. /\ SumOf(t.fund) \in Nat /\ AllLeft(t) \in Nat /\ SumOf(t.proceeds) \in Nat
          /\ Owed(t) = SumOf(t.fund) + t.pool.total_lendable + t.pool.held + AllLeft(t) + SumOf(t.proceeds)
      BY <1>3, OwedIsNat
    <2>2. /\ SumOf(s.fund) \in Nat /\ SumOf(s.proceeds) \in Nat /\ AllLeft(s) \in Nat
          /\ Owed(s) = SumOf(s.fund) + s.pool.total_lendable + s.pool.held + AllLeft(s) + SumOf(s.proceeds)
      BY <1>1, OwedIsNat
    <2>3. /\ s.pool.total_lendable \in Nat /\ s.pool.held \in Nat
          /\ p.total_lendable \in Nat /\ p.held \in Nat
      BY <1>1, PoolTypes DEF LoansMake
    <2> QED
      BY <1>3, <1>4, <1>5, <1>6, <2>1, <2>2, <2>3
  <1> QED
    BY <1>3, <1>7, <1>8, <1>9, <1>10, <1>11 DEF Sound, L

\* The loans of sound tables.
LEMMA SoundLoans ==
  ASSUME RexPoolConstants, NEW s, Sound(s), NEW r \in Resources
  PROVE  /\ GoodLoans(s.loans[r])
         /\ Total(Staked, s.loans[r]) \in Nat /\ Total(Left, s.loans[r]) \in Nat
         /\ Total(Staked, s.loans[r]) <= s.pool.total_lent
         /\ \A o \in Owners : s.rented[r][o] = Total(StakedTo(o), s.loans[r])
         /\ \A i \in DOMAIN s.loans[r] :
              s.loans[r][i] \in Loan /\ s.loans[r][i].total_staked <= Total(Staked, s.loans[r])
  <1>1. s \in Tables
    BY DEF Sound
  <1>2. /\ s.loans[r] \in Seq(Loan)
        /\ LentBy(s, r) = Total(Staked, s.loans[r]) /\ LentBy(s, r) \in Nat
        /\ BalancesOf(s, r) = Total(Left, s.loans[r]) /\ BalancesOf(s, r) \in Nat
        /\ \A o : LentTo(s, r, o) = Total(StakedTo(o), s.loans[r])
    BY <1>1, LoanSums
  <1>3. LentBy(s, r) <= AllLent(s)
    BY <1>1, TableSums
  <1>4. s.pool.total_lent = AllLent(s)
    BY DEF Sound, TablesAddUp, AllLent
  <1>5. GoodLoans(s.loans[r])
    BY <1>2 DEF GoodLoans, Sound, LoansStand
  <1>6. \A o \in Owners : s.rented[r][o] = Total(StakedTo(o), s.loans[r])
    BY <1>2 DEF Sound, TablesAddUp
  <1>7. ASSUME NEW i \in DOMAIN s.loans[r]
        PROVE  s.loans[r][i] \in Loan /\ s.loans[r][i].total_staked <= Total(Staked, s.loans[r])
    <2>1. Staked \in [Loan -> Nat] /\ \A l \in Loan : Staked[l] = l.total_staked
      BY LoanFields
    <2> DEFINE q == s.loans[r]
    <2>2. q \in Seq(Loan) /\ i \in DOMAIN q
      BY <1>2
    <2> HIDE DEF q
    <2>3. q[i] \in Loan /\ Staked[q[i]] <= Total(Staked, q)
      BY <2>1, <2>2, TotalIsNat
    <2> QED
      BY <2>1, <2>3 DEF q
  <1> QED
    BY <1>2, <1>3, <1>4, <1>5, <1>6, <1>7

\* The loan that expires first is one of the table.
LEMMA FirstIsThere ==
  ASSUME RexPoolConstants, NEW q \in Seq(Loan), q # << >>
  PROVE  First(q) \in DOMAIN q
  <1> DEFINE late == [i \in DOMAIN q |-> q[i].left + LoanTime]
             S == { late[i] : i \in DOMAIN q }
  <1>1. DOMAIN q \subseteq Nat /\ DOMAIN q # {}
    <2>1. DOMAIN q = 1 .. Len(q)
      OBVIOUS
    <2>2. Len(q) \in Nat /\ Len(q) # 0
      BY EmptySeq
    <2>3. 1 \in DOMAIN q
      BY <2>1, <2>2
    <2> QED
      BY <2>1, <2>2, <2>3
  <1>2. \A i \in DOMAIN q : q[i].left \in Int /\ late[i] \in Nat /\ late[i] = q[i].left + LoanTime
    <2>1. \A i \in DOMAIN q : q[i].left \in -LoanTime .. LoanTime
      BY LoanFields
    <2>2. LoanTime \in Nat
      BY DEF RexPoolConstants
    <2> QED
      BY <2>1, <2>2
  <1>3. S \subseteq Nat /\ S # {}
    BY <1>1, <1>2
  <1> HIDE DEF late
  <1>4. PICK m \in S : \A k \in S : m <= k
    BY <1>3, LeastOfNat
  <1> DEFINE T == { i \in DOMAIN q : late[i] = m }
  <1>5. T \subseteq Nat /\ T # {}
    BY <1>1, <1>4
  <1>6. PICK i \in T : \A k \in T : i <= k
    <2> HIDE DEF T
    <2> QED
      BY <1>5, LeastOfNat
  <1>7. \A j \in DOMAIN q : late[i] < late[j] \/ (late[i] = late[j] /\ i <= j)
    <2> TAKE j \in DOMAIN q
    <2>1. late[i] = m /\ late[i] \in Nat /\ late[j] \in Nat /\ m <= late[j]
      BY <1>2, <1>4, <1>6
    <2>2. late[j] = m => i <= j
      BY <1>6
    <2> QED
      BY <2>1, <2>2
  <1>8. LoanTime \in Int
    BY DEF RexPoolConstants
  <1>9. i \in DOMAIN q /\ \A j \in DOMAIN q : q[i].left < q[j].left \/ (q[i].left = q[j].left /\ i <= j)
    BY <1>2, <1>6, <1>7, <1>8
  <1> QED
    BY <1>9 DEF First

-----------------------------------------------------------------------------
(* Expired loans.                                                          *)

\* What the vote of an owner counts of its REX, once a closed order is
\* collected.
VotesDue(s, o) == s.vote_stake[o] - s.stake_change[o]

\* Each loan was there before, not before its place, with as much time left.
LoansFollow(s, t) ==
  \A r \in Resources : \A i \in DOMAIN t.loans[r] : \E j \in DOMAIN s.loans[r] :
    /\ j >= i
    /\ t.loans[r][i].left <= s.loans[r][j].left
    /\ t.loans[r][i].total_staked = s.loans[r][j].total_staked

LEMMA FollowSame ==
  ASSUME NEW s \in Tables, NEW t, t.loans = s.loans
  PROVE  LoansFollow(s, t)
  <1> SUFFICES ASSUME NEW r \in Resources, NEW i \in DOMAIN s.loans[r]
               PROVE  i >= i /\ s.loans[r][i].left <= s.loans[r][i].left
    BY DEF LoansFollow
  <1>1. s.loans[r] \in Seq(Loan)
    BY TableTypes
  <1> DEFINE q == s.loans[r]
  <1>2. q \in Seq(Loan) /\ i \in DOMAIN q
    BY <1>1
  <1> HIDE DEF q
  <1>3. i \in Int /\ q[i] \in Loan
    BY <1>2
  <1>4. q[i].left \in Int
    BY <1>3, LoanFields
  <1> QED
    BY <1>3, <1>4 DEF q

LEMMA FollowTwice ==
  ASSUME NEW s \in Tables, NEW t \in Tables, NEW u \in Tables, LoansFollow(s, t), LoansFollow(t, u)
  PROVE  LoansFollow(s, u)
  <1> SUFFICES ASSUME NEW r \in Resources, NEW i \in DOMAIN u.loans[r]
               PROVE  \E j \in DOMAIN s.loans[r] :
                        /\ j >= i
                        /\ u.loans[r][i].left <= s.loans[r][j].left
                        /\ u.loans[r][i].total_staked = s.loans[r][j].total_staked
    BY DEF LoansFollow
  <1>1. PICK k \in DOMAIN t.loans[r] : /\ k >= i
                                       /\ u.loans[r][i].left <= t.loans[r][k].left
                                       /\ u.loans[r][i].total_staked = t.loans[r][k].total_staked
    BY DEF LoansFollow
  <1>2. PICK j \in DOMAIN s.loans[r] : /\ j >= k
                                       /\ t.loans[r][k].left <= s.loans[r][j].left
                                       /\ t.loans[r][k].total_staked = s.loans[r][j].total_staked
    BY DEF LoansFollow
  <1>3. \A q \in Seq(Loan) : \A x \in DOMAIN q : x \in Int /\ q[x].left \in Int
    <2> TAKE q \in Seq(Loan)
    <2> TAKE x \in DOMAIN q
    <2>1. x \in Int /\ q[x] \in Loan
      OBVIOUS
    <2> QED
      BY <2>1, LoanFields
  <1>4. s.loans[r] \in Seq(Loan) /\ t.loans[r] \in Seq(Loan) /\ u.loans[r] \in Seq(Loan)
    BY TableTypes
  <1>5. /\ i \in Int /\ j \in Int /\ k \in Int
        /\ u.loans[r][i].left \in Int /\ s.loans[r][j].left \in Int /\ t.loans[r][k].left \in Int
    BY <1>3, <1>4
  <1>6. j >= i /\ u.loans[r][i].left <= s.loans[r][j].left
    BY <1>1, <1>2, <1>5
  <1> QED
    BY <1>1, <1>2, <1>6

\* There are tokens to lend, and a price for them.
Priced(p) == p.total_unlent > 0 /\ p.total_rent > 0

\* What each step of runrex keeps.
Leads(s, t) ==
  /\ Sound(t)
  /\ Owed(t) = Owed(s)
  /\ \A o \in Owners : VotesDue(t, o) = VotesDue(s, o)
  /\ PriceKept(s.pool.total_lendable, s.pool.total_rex, t.pool.total_lendable, t.pool.total_rex)
  /\ t.pool.exists = s.pool.exists /\ t.pool.namebid_proceeds = s.pool.namebid_proceeds
  /\ t.queue # << >> => s.queue # << >> /\ LoansFollow(s, t)

LEMMA LeadsTwice ==
  ASSUME NEW s, NEW t, NEW u, Sound(s), Leads(s, t), Leads(t, u)
  PROVE  Leads(s, u)
  <1>1. s \in Tables /\ t \in Tables /\ u \in Tables /\ Sound(u)
    BY DEF Leads, Sound
  <1>2. PriceKept(s.pool.total_lendable, s.pool.total_rex, u.pool.total_lendable, u.pool.total_rex)
    <2>1. \A x \in Tables : x.pool.total_lendable \in Nat /\ x.pool.total_rex \in Nat
      BY TableTypes, PoolTypes
    <2>3. /\ s.pool.total_lendable \in Nat /\ s.pool.total_rex \in Nat
          /\ t.pool.total_lendable \in Nat /\ t.pool.total_rex \in Nat
          /\ u.pool.total_lendable \in Nat /\ u.pool.total_rex \in Nat
      BY <1>1, <2>1
    <2>2. /\ PriceKept(s.pool.total_lendable, s.pool.total_rex, t.pool.total_lendable, t.pool.total_rex)
          /\ PriceKept(t.pool.total_lendable, t.pool.total_rex, u.pool.total_lendable, u.pool.total_rex)
      BY DEF Leads
    <2> DEFINE L == s.pool.total_lendable
               R == s.pool.total_rex
               L1 == t.pool.total_lendable
               R1 == t.pool.total_rex
               L2 == u.pool.total_lendable
               R2 == u.pool.total_rex
    <2>4. /\ L \in Nat /\ R \in Nat /\ L1 \in Nat /\ R1 \in Nat /\ L2 \in Nat /\ R2 \in Nat
          /\ PriceKept(L, R, L1, R1) /\ PriceKept(L1, R1, L2, R2)
      BY <2>2, <2>3
    <2> HIDE DEF L, R, L1, R1, L2, R2
    <2>5. PriceKept(L, R, L2, R2)
      BY ONLY <2>4, PriceKeptTwice
    <2> QED
      BY <2>5 DEF L, R, L2, R2
  <1>3. u.queue # << >> => s.queue # << >> /\ LoansFollow(s, u)
    <2> HAVE u.queue # << >>
    <2>1. t.queue # << >> /\ LoansFollow(t, u)
      BY DEF Leads
    <2>2. s.queue # << >> /\ LoansFollow(s, t)
      BY <2>1 DEF Leads
    <2> QED
      BY <1>1, <2>1, <2>2, FollowTwice
  <1>4. /\ Owed(u) = Owed(s) /\ \A o \in Owners : VotesDue(u, o) = VotesDue(s, o)
        /\ u.pool.exists = s.pool.exists /\ u.pool.namebid_proceeds = s.pool.namebid_proceeds
    BY DEF Leads
  <1> QED
    BY <1>1, <1>2, <1>3, <1>4 DEF Leads

LEMMA LeadsToSame ==
  ASSUME NEW s, Sound(s)
  PROVE  Leads(s, s)
  <1>1. s \in Tables
    BY DEF Sound
  <1>2. PriceKept(s.pool.total_lendable, s.pool.total_rex, s.pool.total_lendable, s.pool.total_rex)
    <2>1. s.pool.total_lendable \in Nat /\ s.pool.total_rex \in Nat
      BY <1>1, TableTypes, PoolTypes
    <2>2. s.pool.total_lendable + 0 = s.pool.total_lendable
      BY <2>1
    <2> QED
      BY <2>1, <2>2, ReturnsKeepPrice
  <1>3. LoansFollow(s, s)
    BY <1>1, FollowSame
  <1> QED
    BY <1>2, <1>3 DEF Leads

\* What an expired loan, and all of them, keep.
LoansLead(s, t) ==
  /\ Leads(s, t)
  /\ t.queue = s.queue
  /\ Priced(s.pool) => Priced(t.pool)

\* remove_loan_from_rex_pool
LEMMA LoanReturns ==
  ASSUME RexPoolConstants, NEW s, Sound(s), NEW r \in Resources, NEW i \in DOMAIN s.loans[r],
         NEW loan, loan = s.loans[r][i], NEW p, p = LoanRemoved(s, loan).pool
  PROVE  /\ loan \in Loan /\ loan.total_staked > 0 /\ loan.payment > 0
         /\ p \in PoolRow
         /\ LoanRemoved(s, loan) = [s EXCEPT !.pool = p]
         /\ p.exists = s.pool.exists /\ p.total_rex = s.pool.total_rex /\ p.total_rex > 0
         /\ p.total_lendable = s.pool.total_lendable /\ p.held = s.pool.held
         /\ p.namebid_proceeds = s.pool.namebid_proceeds
         /\ p.total_unlent = s.pool.total_unlent + loan.total_staked
         /\ p.total_lent = s.pool.total_lent - loan.total_staked
         /\ Priced(s.pool) => Priced(p)
  <1>1. s \in Tables /\ s.pool \in PoolRow
    BY TableTypes DEF Sound
  <1>2. /\ loan \in Loan /\ loan.total_staked > 0 /\ loan.payment > 0
        /\ loan.total_staked \in Nat /\ loan.total_staked <= s.pool.total_lent
    <2>1. /\ GoodLoans(s.loans[r])
          /\ Total(Staked, s.loans[r]) \in Nat
          /\ Total(Staked, s.loans[r]) <= s.pool.total_lent
          /\ loan \in Loan /\ loan.total_staked <= Total(Staked, s.loans[r])
      BY SoundLoans
    <2>2. loan.total_staked \in Nat /\ s.pool.total_lent \in Nat
      BY <1>1, <2>1, LoanFields, PoolTypes
    <2>3. loan.total_staked > 0 /\ loan.payment > 0
      BY <2>1 DEF GoodLoans
    <2> QED
      BY <2>1, <2>2, <2>3
  <1> DEFINE old == s.pool
             cost == BancorOutput(old.total_unlent, old.total_rent, loan.total_staked)
  <1>3. /\ old.total_unlent \in Nat /\ old.total_rent \in Nat /\ old.total_lent \in Nat
        /\ old.total_rex \in Nat
    BY <1>1, PoolTypes
  <1>4. /\ cost \in Nat /\ cost <= old.total_rent
        /\ old.total_unlent > 0 /\ old.total_rent > 0 => cost < old.total_rent
    <2>1. loan.total_staked \in Nat \ {0}
      BY <1>2
    <2> HIDE DEF old
    <2> QED
      BY <1>3, <2>1, BancorBounds
  <1>5. /\ p = [old EXCEPT !.total_rent = @ - cost,
                           !.total_unlent = @ + loan.total_staked,
                           !.total_lent = @ - loan.total_staked]
        /\ LoanRemoved(s, loan) = [s EXCEPT !.pool = p]
    <2> DEFINE new == [old EXCEPT !.total_rent = @ - cost,
                                  !.total_unlent = @ + loan.total_staked,
                                  !.total_lent = @ - loan.total_staked]
    <2>1. LoanRemoved(s, loan) = [s EXCEPT !.pool = new]
      BY <1>1 DEF LoanRemoved, Tables, PoolRow
    <2>2. p = new
      <3> HIDE DEF new
      <3> QED
        BY <1>1, <2>1, PoolSet DEF Tables
    <2> QED
      BY <2>1, <2>2
  <1> HIDE DEF cost
  <1>6. /\ p.exists = old.exists /\ p.total_rex = old.total_rex
        /\ p.total_lendable = old.total_lendable /\ p.held = old.held
        /\ p.namebid_proceeds = old.namebid_proceeds
        /\ p.total_unlent = old.total_unlent + loan.total_staked
        /\ p.total_lent = old.total_lent - loan.total_staked
        /\ p.total_rent = old.total_rent - cost
    BY <1>1, <1>5 DEF PoolRow
  <1>7. p \in PoolRow
    <2>1. /\ old.total_rent - cost \in Nat /\ old.total_unlent + loan.total_staked \in Nat
          /\ old.total_lent - loan.total_staked \in Nat
      BY <1>2, <1>3, <1>4
    <2> QED
      BY <1>1, <1>5, <2>1 DEF PoolRow
  <1>8. p.total_rex > 0
    <2>1. old.total_rex = 0 => old.total_lent = 0
      BY DEF Sound, PoolStands
    <2> QED
      BY <1>2, <1>3, <1>6, <2>1
  <1>9. Priced(old) => Priced(p)
    BY <1>2, <1>3, <1>4, <1>6 DEF Priced
  <1> QED
    BY <1>2, <1>5, <1>6, <1>7, <1>8, <1>9

\* The loans of one table follow.
TableFollows(old, new) ==
  \A i \in DOMAIN new : \E j \in DOMAIN old :
    j >= i /\ new[i].left <= old[j].left /\ new[i].total_staked = old[j].total_staked

LEMMA FollowOne ==
  ASSUME NEW s \in Tables, NEW t, NEW r \in Resources, NEW q,
         t.loans = [s.loans EXCEPT ![r] = q], TableFollows(s.loans[r], q)
  PROVE  LoansFollow(s, t)
  <1>1. LoansFollow(s, s)
    BY FollowSame
  <1>2. t.loans[r] = q /\ \A x \in Resources \ {r} : t.loans[x] = s.loans[x]
    BY TableTypes
  <1> SUFFICES ASSUME NEW x \in Resources, NEW i \in DOMAIN t.loans[x]
               PROVE  \E j \in DOMAIN s.loans[x] :
                        /\ j >= i
                        /\ t.loans[x][i].left <= s.loans[x][j].left
                        /\ t.loans[x][i].total_staked = s.loans[x][j].total_staked
    BY DEF LoansFollow
  <1>3. CASE x = r
    BY <1>2, <1>3 DEF TableFollows
  <1>4. CASE x # r
    BY <1>1, <1>2, <1>4 DEF LoansFollow
  <1> QED
    BY <1>3, <1>4

\* A change of the loans of a table that owes the same.
LEMMA LoansChangedLead ==
  ASSUME RexPoolConstants, NEW s, Sound(s), NEW r \in Resources,
         NEW p, NEW q, NEW f, NEW w, NEW t, LoansMake(s, r, p, q, f, w, t),
         p.total_lendable = s.pool.total_lendable,
         SumOf(f) + p.held + Total(Left, q) = SumOf(s.fund) + s.pool.held + Total(Left, s.loans[r]),
         Priced(s.pool) => Priced(p),
         s.queue # << >> => TableFollows(s.loans[r], q)
  PROVE  LoansLead(s, t)
  <1>1. /\ Sound(t)
        /\ Owed(t) = Owed(s) - SumOf(s.fund) + SumOf(f)
                       - (s.pool.total_lendable + s.pool.held) + (p.total_lendable + p.held)
                       - Total(Left, s.loans[r]) + Total(Left, q)
        /\ t.pool = p /\ t.loans = [s.loans EXCEPT ![r] = q]
        /\ t.vote_stake = s.vote_stake /\ t.queue = s.queue /\ t.stake_change = s.stake_change
    BY LoansChanged
  <1>2. s \in Tables /\ s.pool \in PoolRow /\ p \in PoolRow /\ GoodLoans(q) /\ f \in [Owners -> Nat]
        /\ p.exists = s.pool.exists /\ p.total_rex = s.pool.total_rex
        /\ p.namebid_proceeds = s.pool.namebid_proceeds
    BY TableTypes DEF Sound, LoansMake
  <1>3. Owed(t) = Owed(s)
    <2>1. /\ SumOf(s.fund) \in Nat /\ Owed(s) \in Nat
      BY <1>2, OwedIsNat
    <2>2. SumOf(f) \in Nat
      BY <1>2, OwnerSums
    <2>3. /\ s.pool.total_lendable \in Nat /\ s.pool.held \in Nat /\ p.held \in Nat
      BY <1>2, PoolTypes
    <2>4. Total(Left, s.loans[r]) \in Nat
      BY SoundLoans
    <2>5. Total(Left, q) \in Nat
      <3>1. q \in Seq(Loan) /\ Left \in [Loan -> Nat]
        BY <1>2, LoanFields DEF GoodLoans
      <3> QED
        BY <3>1, TotalIsNat
    <2>6. /\ Owed(t) = Owed(s) - SumOf(s.fund) + SumOf(f)
                         - (s.pool.total_lendable + s.pool.held) + (p.total_lendable + p.held)
                         - Total(Left, s.loans[r]) + Total(Left, q)
          /\ p.total_lendable = s.pool.total_lendable
          /\ SumOf(f) + p.held + Total(Left, q) = SumOf(s.fund) + s.pool.held + Total(Left, s.loans[r])
      BY <1>1
    <2> DEFINE O == Owed(s)
               F == SumOf(s.fund)
               F1 == SumOf(f)
               L == s.pool.total_lendable
               H == s.pool.held
               H1 == p.held
               T == Total(Left, s.loans[r])
               T1 == Total(Left, q)
    <2>7. /\ O \in Nat /\ F \in Nat /\ F1 \in Nat /\ L \in Nat /\ H \in Nat /\ H1 \in Nat
          /\ T \in Nat /\ T1 \in Nat
          /\ Owed(t) = O - F + F1 - (L + H) + (L + H1) - T + T1
          /\ F1 + H1 + T1 = F + H + T
      BY <2>1, <2>2, <2>3, <2>4, <2>5, <2>6
    <2> HIDE DEF O, F, F1, L, H, H1, T, T1
    <2>8. Owed(t) = O
      BY ONLY <2>7
    <2> QED
      BY <2>8 DEF O
  <1>4. \A o \in Owners : VotesDue(t, o) = VotesDue(s, o)
    BY <1>1 DEF VotesDue
  <1>5. PriceKept(s.pool.total_lendable, s.pool.total_rex, t.pool.total_lendable, t.pool.total_rex)
    <2>1. PriceKept(s.pool.total_lendable, s.pool.total_rex, s.pool.total_lendable, s.pool.total_rex)
      BY LeadsToSame DEF Leads
    <2> QED
      BY <1>1, <1>2, <2>1
  <1>6. s.queue # << >> => LoansFollow(s, t)
    BY <1>1, <1>2, FollowOne
  <1> QED
    BY <1>1, <1>2, <1>3, <1>4, <1>5, <1>6 DEF LoansLead, Leads

\* A loan is closed.
LEMMA ClosedLeads ==
  ASSUME RexPoolConstants, NEW s, Sound(s), NEW r \in Resources, NEW i \in DOMAIN s.loans[r],
         NEW s1, s1 = LoanRemoved(s, s.loans[r][i])
  PROVE  LoansLead(s, Closed(s1, r, i))
  <1> DEFINE loan == s.loans[r][i]
             old == s.loans[r]
             p == s1.pool
             q == RemoveAt(old, i)
             f == [s.fund EXCEPT ![loan.from] = @ + loan.balance]
             w == [s.rented[r] EXCEPT ![loan.receiver] = @ - loan.total_staked]
             t == Closed(s1, r, i)
  <1>1. /\ loan \in Loan
        /\ p \in PoolRow
        /\ s1 = [s EXCEPT !.pool = p]
        /\ p.exists = s.pool.exists /\ p.total_rex = s.pool.total_rex /\ p.total_rex > 0
        /\ p.total_lendable = s.pool.total_lendable /\ p.held = s.pool.held
        /\ p.namebid_proceeds = s.pool.namebid_proceeds
        /\ p.total_unlent = s.pool.total_unlent + loan.total_staked
        /\ p.total_lent = s.pool.total_lent - loan.total_staked
        /\ Priced(s.pool) => Priced(p)
    <2> HIDE DEF loan
    <2> QED
      BY LoanReturns DEF loan
  <1>2. s \in Tables /\ s.pool \in PoolRow /\ s.fund \in [Owners -> Nat]
        /\ s.rented \in [Resources -> [Owners -> Nat]] /\ s.loans \in [Resources -> Seq(Loan)]
    BY TableTypes DEF Sound
  <1>3. /\ loan.from \in Owners /\ loan.receiver \in Owners /\ loan.balance \in Nat /\ loan.total_staked \in Nat
    BY <1>1, LoanFields
  <1>4. t = [s EXCEPT !.pool = p, !.loans = [s.loans EXCEPT ![r] = q], !.fund = f,
                      !.rented = [s.rented EXCEPT ![r] = w]]
    <2>1. s1.loans = s.loans /\ s1.fund = s.fund /\ s1.rented = s.rented
      BY <1>1, <1>2 DEF Tables
    <2> HIDE DEF p
    <2>2. Closed([s EXCEPT !.pool = p], r, i)
            = [s EXCEPT !.pool = p, !.loans = [s.loans EXCEPT ![r] = q], !.fund = f,
                      !.rented = [s.rented EXCEPT ![r] = w]]
      BY <1>2 DEF Closed, Tables
    <2> QED
      BY <1>1, <2>2
  <1> HIDE DEF p, t
  <1>5. GoodLoans(old) /\ \A o \in Owners : s.rented[r][o] = Total(StakedTo(o), old)
    BY SoundLoans
  <1>6. /\ q \in Seq(Loan) /\ DOMAIN q = 1 .. Len(old) - 1
        /\ \A k \in DOMAIN q : q[k] = IF k < i THEN old[k] ELSE old[k+1]
        /\ DOMAIN old = 1 .. Len(old) /\ Len(old) \in Nat
    <2>1. old \in Seq(Loan) /\ i \in DOMAIN old
      BY <1>2
    <2> HIDE DEF old
    <2> QED
      BY <2>1, Removed
  <1>7. GoodLoans(q)
    <2> SUFFICES ASSUME NEW k \in DOMAIN q
                 PROVE  q[k].total_staked > 0 /\ q[k].payment > 0
      BY <1>6 DEF GoodLoans
    <2>1. k \in DOMAIN old /\ k + 1 \in DOMAIN old
      BY <1>6
    <2> HIDE DEF q, old
    <2> QED
      BY <1>5, <1>6, <2>1 DEF GoodLoans
  <1>8. \A o : Total(StakedTo(o), q) = Total(StakedTo(o), old) - StakedTo(o)[loan] /\ Total(StakedTo(o), old) \in Nat
               /\ Total(StakedTo(o), q) \in Nat
    <2> SUFFICES ASSUME NEW o
                 PROVE  /\ Total(StakedTo(o), q) = Total(StakedTo(o), old) - StakedTo(o)[loan]
                        /\ Total(StakedTo(o), old) \in Nat /\ Total(StakedTo(o), q) \in Nat
      OBVIOUS
    <2>1. StakedTo(o) \in [Loan -> Nat]
      BY LoanFields
    <2>2. old \in Seq(Loan) /\ i \in DOMAIN old /\ old[i] = loan
      BY <1>2
    <2> HIDE DEF old, loan
    <2>3. Total(StakedTo(o), q) = Total(StakedTo(o), old) - StakedTo(o)[loan]
      BY <2>1, <2>2, TotalRemoved
    <2>4. Total(StakedTo(o), q) \in Nat /\ Total(StakedTo(o), old) \in Nat
      <3> HIDE DEF q
      <3> QED
        BY <1>6, <2>1, <2>2, TotalIsNat
    <2> QED
      BY <2>3, <2>4
  <1>9. /\ Total(Staked, q) = Total(Staked, old) - loan.total_staked
        /\ Total(Left, q) = Total(Left, old) - loan.balance
        /\ Total(Staked, old) \in Nat /\ Total(Left, old) \in Nat
    <2>1. Staked \in [Loan -> Nat] /\ Left \in [Loan -> Nat]
          /\ Staked[loan] = loan.total_staked /\ Left[loan] = loan.balance
      BY <1>1, LoanFields
    <2>2. old \in Seq(Loan) /\ i \in DOMAIN old /\ old[i] = loan
      BY <1>2
    <2> HIDE DEF old, loan
    <2>3. Total(Staked, q) = Total(Staked, old) - Staked[loan] /\ Total(Left, q) = Total(Left, old) - Left[loan]
      BY <2>1, <2>2, TotalRemoved
    <2>4. Total(Staked, old) \in Nat /\ Total(Left, old) \in Nat
      BY <2>1, <2>2, TotalIsNat
    <2> QED
      BY <2>1, <2>3, <2>4
  <1>10. w \in [Owners -> Nat] /\ \A o \in Owners : w[o] = Total(StakedTo(o), q)
    <2>1. ASSUME NEW o \in Owners PROVE w[o] = Total(StakedTo(o), q)
      <3>1. StakedTo(o)[loan] = IF loan.receiver = o THEN loan.total_staked ELSE 0
        BY <1>1, LoanFields
      <3>2. w[o] = IF o = loan.receiver THEN s.rented[r][o] - loan.total_staked ELSE s.rented[r][o]
        BY <1>2, <1>3
      <3>3. s.rented[r][o] = Total(StakedTo(o), old)
        BY <1>5
      <3> HIDE DEF q, old, loan, w
      <3> QED
        BY <1>3, <1>8, <3>1, <3>2, <3>3
    <2>2. \A o \in Owners : w[o] \in Nat
      BY <1>8, <2>1
    <2>3. w = [o \in Owners |-> w[o]]
      BY <1>2
    <2> HIDE DEF w
    <2> QED
      BY <2>1, <2>2, <2>3
  <1>11. f \in [Owners -> Nat] /\ SumOf(f) = SumOf(s.fund) + loan.balance /\ SumOf(s.fund) \in Nat
    <2> DEFINE v == s.fund[loan.from] + loan.balance
    <2>1. v \in Nat /\ f = [s.fund EXCEPT ![loan.from] = v] /\ s.fund[loan.from] \in Nat
      BY <1>2, <1>3
    <2>2. /\ SumOf(s.fund) \in Nat
          /\ \A o \in Owners, u \in Nat : /\ [s.fund EXCEPT ![o] = u] \in [Owners -> Nat]
                                        /\ SumOf([s.fund EXCEPT ![o] = u]) = SumOf(s.fund) - s.fund[o] + u
      BY <1>2, OwnerSums
    <2> HIDE DEF f, v, loan
    <2>3. f \in [Owners -> Nat] /\ SumOf(f) = SumOf(s.fund) - s.fund[loan.from] + v
      BY <1>3, <2>1, <2>2
    <2> QED
      BY <1>3, <2>1, <2>2, <2>3 DEF v
  <1>12. LoansMake(s, r, p, q, f, w, t)
    <2>1. /\ p.total_lendable = p.total_lent + p.total_unlent
          /\ p.total_lent = s.pool.total_lent - Total(Staked, old) + Total(Staked, q)
      <3>1. s.pool.total_lendable = s.pool.total_lent + s.pool.total_unlent
        BY DEF Sound, TablesAddUp
      <3>2. s.pool.total_lent \in Nat /\ s.pool.total_unlent \in Nat
        BY <1>2, PoolTypes
      <3> HIDE DEF q, old, loan
      <3> QED
        BY <1>1, <1>3, <1>9, <3>1, <3>2
    <2>2. s.pool.total_rex = 0 => p.total_lent = 0
      BY <1>1
    <2> HIDE DEF f, w, q, loan
    <2> QED
      BY <1>1, <1>4, <1>7, <1>10, <1>11, <2>1, <2>2 DEF LoansMake
  <1>13. TableFollows(old, q)
    <2> SUFFICES ASSUME NEW k \in DOMAIN q
                 PROVE  \E j \in DOMAIN old :
                          j >= k /\ q[k].left <= old[j].left /\ q[k].total_staked = old[j].total_staked
      BY DEF TableFollows
    <2>1. PICK j \in DOMAIN old : j >= k /\ q[k] = old[j]
      <3>1. k \in DOMAIN old /\ k + 1 \in DOMAIN old /\ k >= k /\ k + 1 >= k
        BY <1>6
      <3> HIDE DEF q, old
      <3> QED
        BY <1>6, <3>1
    <2>2. old[j].left \in Int
      <3>1. old[j] \in Loan
        BY <1>2
      <3> QED
        BY <3>1, LoanFields
    <2> HIDE DEF q, old
    <2> QED
      BY <2>1, <2>2
  <1>14. SumOf(f) + p.held + Total(Left, q) = SumOf(s.fund) + s.pool.held + Total(Left, old)
    <2>1. s.pool.held \in Nat
      BY <1>2, PoolTypes
    <2> HIDE DEF f, q, old, loan
    <2> QED
      BY <1>1, <1>3, <1>9, <1>11, <2>1
  <1> HIDE DEF f, q, w, loan
  <1>15. LoansLead(s, t)
    BY <1>1, <1>12, <1>13, <1>14, LoansChangedLead
  <1> QED
    BY <1>15 DEF t

\* A loan is renewed, if nobody waits to sell.
LEMMA RenewedLeads ==
  ASSUME RexPoolConstants, NEW s, Sound(s), NEW r \in Resources, NEW i \in DOMAIN s.loans[r],
         s.loans[r][i].left <= 0,
         NEW s1, s1 = LoanRemoved(s, s.loans[r][i]), Renews(s1, s.loans[r][i])
  PROVE  LoansLead(s, Renewed(s1, r, i))
  <1> DEFINE loan == s.loans[r][i]
             old == s.loans[r]
             p1 == s1.pool
             amount == RentedFor(s1, loan.payment)
             p == [p1 EXCEPT !.held = @ + loan.payment, !.total_rent = @ + loan.payment,
                             !.total_unlent = @ - amount, !.total_lent = @ + amount]
             new == Renewal(loan, amount)
             q == [old EXCEPT ![i] = new]
             w == [s.rented[r] EXCEPT ![loan.receiver] = @ + amount - loan.total_staked]
             t == Renewed(s1, r, i)
  <1>1. /\ loan \in Loan /\ loan.payment > 0
        /\ p1 \in PoolRow
        /\ s1 = [s EXCEPT !.pool = p1]
        /\ p1.exists = s.pool.exists /\ p1.total_rex = s.pool.total_rex /\ p1.total_rex > 0
        /\ p1.total_lendable = s.pool.total_lendable /\ p1.held = s.pool.held
        /\ p1.namebid_proceeds = s.pool.namebid_proceeds
        /\ p1.total_unlent = s.pool.total_unlent + loan.total_staked
        /\ p1.total_lent = s.pool.total_lent - loan.total_staked
        /\ Priced(s.pool) => Priced(p1)
    <2> HIDE DEF loan
    <2> QED
      BY LoanReturns DEF loan
  <1>2. s \in Tables /\ s.pool \in PoolRow /\ s.fund \in [Owners -> Nat]
        /\ s.rented \in [Resources -> [Owners -> Nat]] /\ s.loans \in [Resources -> Seq(Loan)]
    BY TableTypes DEF Sound
  <1>3. /\ loan.from \in Owners /\ loan.receiver \in Owners /\ loan.balance \in Nat
        /\ loan.total_staked \in Nat /\ loan.payment \in Nat \ {0} /\ loan.left \in -LoanTime .. LoanTime
    <2>1. loan.payment \in Nat
      BY <1>1, LoanFields
    <2> QED
      BY <1>1, <2>1, LoanFields
  <1>4. /\ p1.total_rent \in Nat /\ p1.total_unlent \in Nat /\ p1.total_lent \in Nat /\ p1.held \in Nat
        /\ p1.total_lendable \in Nat
    BY <1>1, PoolTypes
  <1>5. /\ amount \in Nat /\ amount <= p1.total_unlent
        /\ p1.total_rent > 0 /\ p1.total_unlent > 0 => amount < p1.total_unlent
    <2>1. amount = BancorOutput(p1.total_rent, p1.total_unlent, loan.payment)
      BY DEF RentedFor
    <2> HIDE DEF amount, p1, loan
    <2> QED
      BY <1>3, <1>4, <2>1, BancorBounds
  <1>6. loan.payment <= loan.balance /\ loan.payment < amount /\ s.queue = << >>
    <2>1. s1.queue = s.queue
      BY <1>1, <1>2 DEF Tables
    <2> QED
      BY <2>1 DEF Renews, rex_loans_available
  <1>7. t = [s EXCEPT !.pool = p, !.loans = [s.loans EXCEPT ![r] = q], !.fund = s.fund,
                      !.rented = [s.rented EXCEPT ![r] = w]]
    <2>1. s1.loans = s.loans /\ s1.rented = s.rented /\ s1 \in Tables
      BY <1>1, <1>2 DEF Tables
    <2>2. LoanAdded(s1, loan.payment, amount) = [s1 EXCEPT !.pool = p]
      <3> HIDE DEF amount, loan
      <3> QED
        BY <1>1, <2>1 DEF LoanAdded, Tables, PoolRow
    <2>3. [s1 EXCEPT !.pool = p] = [s EXCEPT !.pool = p]
      <3> HIDE DEF p, p1
      <3> QED
        BY <1>1, <1>2 DEF Tables
    <2>4. t = [[s EXCEPT !.pool = p] EXCEPT !.loans[r][i] = new,
                   !.rented[r][loan.receiver] = @ + amount - loan.total_staked]
      <3>1. t = [LoanAdded(s1, loan.payment, amount) EXCEPT !.loans[r][i] = new,
                   !.rented[r][loan.receiver] = @ + amount - loan.total_staked]
        BY <2>1 DEF Renewed
      <3> HIDE DEF t, new, amount, loan, p
      <3> QED
        BY <2>2, <2>3, <3>1
    <2> HIDE DEF p, amount, new, t
    <2> QED
      BY <1>2, <2>4 DEF Tables
  <1>8. /\ p.exists = s.pool.exists /\ p.total_rex = s.pool.total_rex
        /\ p.total_lendable = s.pool.total_lendable /\ p.held = s.pool.held + loan.payment
        /\ p.namebid_proceeds = s.pool.namebid_proceeds
        /\ p.total_rent = p1.total_rent + loan.payment
        /\ p.total_unlent = p1.total_unlent - amount
        /\ p.total_lent = p1.total_lent + amount
    <2> HIDE DEF p1, amount, loan
    <2> QED
      BY <1>1 DEF PoolRow
  <1>9. p \in PoolRow
    <2>1. /\ p1.held + loan.payment \in Nat /\ p1.total_rent + loan.payment \in Nat
          /\ p1.total_unlent - amount \in Nat /\ p1.total_lent + amount \in Nat
      BY <1>3, <1>4, <1>5
    <2> HIDE DEF p1, amount, loan
    <2> QED
      BY <1>1, <2>1 DEF PoolRow
  <1>10. /\ new \in Loan /\ new.total_staked = amount /\ new.balance = loan.balance - loan.payment
         /\ new.payment = loan.payment /\ new.receiver = loan.receiver
    <2>1. LoanTime \in Nat \ {0} /\ loan.left <= 0
      BY DEF RexPoolConstants
    <2>2. loan.left + LoanTime \in -LoanTime .. LoanTime /\ loan.balance - loan.payment \in Nat
      BY <1>3, <1>6, <2>1
    <2> HIDE DEF loan, amount
    <2> QED
      BY <1>1, <1>5, <2>2 DEF Loan, Renewal
  <1>11. GoodLoans(old) /\ \A o \in Owners : s.rented[r][o] = Total(StakedTo(o), old)
    BY SoundLoans
  <1>12. old \in Seq(Loan) /\ i \in DOMAIN old /\ old[i] = loan
    BY <1>2
  <1> HIDE DEF p, p1, t, new, amount
  <1>13. q \in Seq(Loan) /\ Len(q) = Len(old) /\ GoodLoans(q)
    <2>1. q \in Seq(Loan) /\ Len(q) = Len(old)
      <3> HIDE DEF old
      <3> QED
        BY <1>10, <1>12
    <2>2. ASSUME NEW k \in DOMAIN q PROVE q[k].total_staked > 0 /\ q[k].payment > 0
      <3>1. k \in DOMAIN old /\ q[k] = IF k = i THEN new ELSE old[k]
        BY <1>12
      <3>2. new.total_staked > 0 /\ new.payment > 0
        BY <1>3, <1>5, <1>6, <1>10
      <3> HIDE DEF q, old
      <3> QED
        BY <1>11, <3>1, <3>2 DEF GoodLoans
    <2> QED
      BY <2>1, <2>2 DEF GoodLoans
  <1>14. ASSUME NEW V \in [Loan -> Nat]
         PROVE  Total(V, q) = Total(V, old) - V[loan] + V[new] /\ Total(V, old) \in Nat /\ Total(V, q) \in Nat
    <2> HIDE DEF old, loan
    <2>1. Total(V, q) = Total(V, old) - V[loan] + V[new]
      <3>1. V \in [Loan -> Nat] /\ old \in Seq(Loan) /\ i \in DOMAIN old /\ new \in Loan
        BY <1>10, <1>12
      <3>2. IsReplaced(q, old, i, new)
        BY <1>12 DEF IsReplaced
      <3> HIDE DEF q
      <3>3. Total(V, q) = Total(V, old) - V[old[i]] + V[new]
        BY ONLY <3>1, <3>2, TotalReplaced
      <3> QED
        BY <1>12, <3>3
    <2>2. Total(V, old) \in Nat
      BY <1>12, TotalIsNat
    <2>3. Total(V, q) \in Nat
      <3> HIDE DEF q
      <3> QED
        BY <1>13, TotalIsNat
    <2> QED
      BY <2>1, <2>2, <2>3
  <1>15. /\ Total(Staked, q) = Total(Staked, old) - loan.total_staked + amount
         /\ Total(Left, q) = Total(Left, old) - loan.balance + (loan.balance - loan.payment)
         /\ Total(Staked, old) \in Nat /\ Total(Left, old) \in Nat
    <2>1. Staked \in [Loan -> Nat] /\ Left \in [Loan -> Nat]
          /\ Staked[loan] = loan.total_staked /\ Left[loan] = loan.balance
          /\ Staked[new] = new.total_staked /\ Left[new] = new.balance
      BY <1>1, <1>10, LoanFields
    <2>2. /\ Total(Staked, q) = Total(Staked, old) - Staked[loan] + Staked[new]
          /\ Total(Left, q) = Total(Left, old) - Left[loan] + Left[new]
          /\ Total(Staked, old) \in Nat /\ Total(Left, old) \in Nat
      BY <1>14, <2>1
    <2> QED
      BY <1>10, <2>1, <2>2
  <1>16. w \in [Owners -> Nat] /\ \A o \in Owners : w[o] = Total(StakedTo(o), q)
    <2>1. ASSUME NEW o \in Owners PROVE w[o] = Total(StakedTo(o), q) /\ w[o] \in Nat
      <3>1. /\ StakedTo(o) \in [Loan -> Nat]
            /\ StakedTo(o)[loan] = IF loan.receiver = o THEN loan.total_staked ELSE 0
            /\ StakedTo(o)[new] = IF loan.receiver = o THEN amount ELSE 0
        <4>1. \A l \in Loan : StakedTo(o)[l] = IF l.receiver = o THEN l.total_staked ELSE 0
          BY LoanFields
        <4> QED
          BY <1>1, <1>10, <4>1, LoanFields
      <3>2. w[o] = IF o = loan.receiver THEN s.rented[r][o] + amount - loan.total_staked ELSE s.rented[r][o]
        BY <1>2, <1>3
      <3>3. s.rented[r][o] = Total(StakedTo(o), old)
        BY <1>11
      <3>4. /\ Total(StakedTo(o), q) = Total(StakedTo(o), old) - StakedTo(o)[loan] + StakedTo(o)[new]
            /\ Total(StakedTo(o), old) \in Nat /\ Total(StakedTo(o), q) \in Nat
        BY <1>14, <3>1
      <3> HIDE DEF q, old, loan, w
      <3> QED
        BY <1>3, <1>5, <3>1, <3>2, <3>3, <3>4
    <2>2. w = [o \in Owners |-> w[o]]
      BY <1>2
    <2> HIDE DEF w
    <2> QED
      BY <2>1, <2>2
  <1>17. LoansMake(s, r, p, q, s.fund, w, t)
    <2>1. /\ p.total_lendable = p.total_lent + p.total_unlent
          /\ p.total_lent = s.pool.total_lent - Total(Staked, old) + Total(Staked, q)
      <3>1. s.pool.total_lendable = s.pool.total_lent + s.pool.total_unlent
        BY DEF Sound, TablesAddUp
      <3>2. s.pool.total_lent \in Nat /\ s.pool.total_unlent \in Nat
        BY <1>2, PoolTypes
      <3> HIDE DEF q, old, loan
      <3> QED
        BY <1>1, <1>3, <1>5, <1>8, <1>15, <3>1, <3>2
    <2>2. s.pool.total_rex = 0 => p.total_lent = 0
      BY <1>1
    <2> HIDE DEF w, q, loan
    <2> QED
      BY <1>2, <1>7, <1>8, <1>9, <1>13, <1>16, <2>1, <2>2 DEF LoansMake
  <1>18. Priced(s.pool) => Priced(p)
    BY <1>1, <1>3, <1>4, <1>5, <1>8 DEF Priced
  <1>19. SumOf(s.fund) + p.held + Total(Left, q) = SumOf(s.fund) + s.pool.held + Total(Left, old)
    <2>1. s.pool.held \in Nat /\ SumOf(s.fund) \in Nat
      BY <1>2, PoolTypes, OwnerSums
    <2> HIDE DEF q, old, loan
    <2> QED
      BY <1>3, <1>8, <1>15, <2>1
  <1> HIDE DEF q, w, loan
  <1>20. LoansLead(s, t)
    BY <1>6, <1>8, <1>17, <1>18, <1>19, LoansChangedLead
  <1> QED
    BY <1>20 DEF t

\* process_expired_loan
LEMMA ProcessedLeads ==
  ASSUME RexPoolConstants, NEW s, Sound(s), NEW r \in Resources, NEW i \in DOMAIN s.loans[r],
         s.loans[r][i].left <= 0
  PROVE  LoansLead(s, Processed(s, r, i))
  <1> DEFINE s1 == LoanRemoved(s, s.loans[r][i])
  <1>1. CASE Renews(s1, s.loans[r][i])
    <2>1. Processed(s, r, i) = Renewed(s1, r, i)
      BY <1>1 DEF Processed
    <2> HIDE DEF s1
    <2>2. LoansLead(s, Renewed(s1, r, i))
      BY <1>1, RenewedLeads DEF s1
    <2> QED
      BY <2>1, <2>2
  <1>2. CASE ~Renews(s1, s.loans[r][i])
    <2>1. Processed(s, r, i) = Closed(s1, r, i)
      BY <1>2 DEF Processed
    <2> HIDE DEF s1
    <2>2. LoansLead(s, Closed(s1, r, i))
      BY ClosedLeads DEF s1
    <2> QED
      BY <2>1, <2>2
  <1> QED
    BY <1>1, <1>2

-----------------------------------------------------------------------------
(* Loops.                                                                  *)

\* A step F that leads from what holds after each round, P, to what holds after
\* the next.
Keeps(n, D, P, F) ==
  /\ P \in [0 .. n -> SUBSET D]
  /\ \A i \in 1 .. n : \A x \in P[i-1] : F[<<i, x>>] \in P[i]

\* It can be taken n times, and there is only one way to.
LEMMA Loop ==
  ASSUME NEW n \in Nat, NEW D, NEW P, NEW F, Keeps(n, D, P, F), NEW start \in P[0]
  PROVE  \E f \in [0 .. n -> D] :
           f[0] = start /\ \A i \in 1 .. n : f[i] = F[<<i, f[i-1]>>] /\ f[i-1] \in P[i-1] /\ f[i] \in P[i]
  <1> DEFINE F1 == [x \in (1 .. n) \X D |-> IF F[x] \in D THEN F[x] ELSE start]
  <1>1. P \in [0 .. n -> SUBSET D] /\ \A i \in 1 .. n : \A x \in P[i-1] : F[<<i, x>>] \in P[i]
    BY DEF Keeps
  <1>2. start \in D /\ F1 \in [(1 .. n) \X D -> D]
    <2>1. start \in D
      BY <1>1
    <2> QED
      BY <2>1
  <1>3. PICK f \in [0 .. n -> D] : f[0] = start /\ \A i \in 1 .. n : f[i] = F1[<<i, f[i-1]>>]
    <2>1. n \in Nat /\ start \in D /\ F1 \in [(1 .. n) \X D -> D]
      BY <1>2
    <2> HIDE DEF F1
    <2>2. Iterates(n, D, start, F1)
      BY ONLY <2>1, Iteration
    <2> QED
      BY <2>2 DEF Iterates
  <1> DEFINE G == { i \in 0 .. n : f[i] \in P[i] }
  <1>4. ASSUME NEW i \in 1 .. n, f[i-1] \in P[i-1]
        PROVE  f[i] = F[<<i, f[i-1]>>] /\ f[i] \in P[i]
    <2>1. F[<<i, f[i-1]>>] \in P[i] /\ P[i] \subseteq D /\ <<i, f[i-1]>> \in (1 .. n) \X D
      <3>1. i - 1 \in 0 .. n /\ i \in 0 .. n
        OBVIOUS
      <3> QED
        BY <1>1, <1>3, <1>4, <3>1
    <2>2. f[i] = F1[<<i, f[i-1]>>]
      BY <1>3
    <2> QED
      BY <2>1, <2>2
  <1>5. 0 \in G /\ \A i \in 1 .. n : i - 1 \in G => i \in G
    <2>1. 0 \in G
      BY <1>3
    <2>2. ASSUME NEW i \in 1 .. n, i - 1 \in G PROVE i \in G
      <3>1. f[i-1] \in P[i-1]
        BY <2>2
      <3>2. f[i] \in P[i]
        BY <1>4, <3>1
      <3> QED
        BY <3>2
    <2> QED
      BY <2>1, <2>2
  <1>6. \A i \in 0 .. n : i \in G
    <2> HIDE DEF G
    <2> QED
      BY <1>5, StepByStep
  <1>7. \A i \in 1 .. n : f[i] = F[<<i, f[i-1]>>] /\ f[i-1] \in P[i-1] /\ f[i] \in P[i]
    <2> TAKE i \in 1 .. n
    <2>1. i - 1 \in 0 .. n
      OBVIOUS
    <2>2. f[i-1] \in P[i-1]
      BY <1>6, <2>1
    <2> QED
      BY <1>4, <2>2
  <1> QED
    BY <1>3, <1>7

LEMMA SameLoop ==
  ASSUME NEW n \in Nat, NEW f, NEW g, f[0] = g[0], \A i \in 1 .. n : f[i-1] = g[i-1] => f[i] = g[i]
  PROVE  f[n] = g[n]
  <1> DEFINE G == { i \in 0 .. n : f[i] = g[i] }
  <1>1. 0 \in G /\ \A i \in 1 .. n : i - 1 \in G => i \in G
    OBVIOUS
  <1>2. \A i \in 0 .. n : i \in G
    <2> HIDE DEF G
    <2> QED
      BY <1>1, StepByStep
  <1> QED
    BY <1>2

\* The loop over the expired loans of a table.
LEMMA LoansLeadTwice ==
  ASSUME NEW s, NEW t, NEW u, Sound(s), LoansLead(s, t), LoansLead(t, u)
  PROVE  LoansLead(s, u)
  <1>1. Leads(s, t) /\ Leads(t, u)
    BY DEF LoansLead
  <1>2. Leads(s, u)
    BY <1>1, LeadsTwice
  <1> QED
    BY <1>2 DEF LoansLead

\* One round of it.
FirstProcessed(s, r) ==
  IF s.loans[r] = << >> \/ s.loans[r][First(s.loans[r])].left > 0
  THEN s ELSE Processed(s, r, First(s.loans[r]))

LEMMA FirstProcessedLeads ==
  ASSUME RexPoolConstants, NEW s, Sound(s), NEW r \in Resources
  PROVE  LoansLead(s, FirstProcessed(s, r))
  <1> DEFINE q == s.loans[r]
             i == First(q)
  <1>1. LoansLead(s, s)
    BY LeadsToSame DEF LoansLead
  <1>2. CASE q = << >> \/ q[i].left > 0
    BY <1>1, <1>2 DEF FirstProcessed
  <1>3. CASE ~(q = << >> \/ q[i].left > 0)
    <2>1. q \in Seq(Loan)
      BY SoundLoans DEF GoodLoans
    <2>2. i \in DOMAIN q
      <3> HIDE DEF q
      <3> QED
        BY <1>3, <2>1, FirstIsThere
    <2>3. q[i].left \in Int
      <3>1. q[i] \in Loan
        <4> HIDE DEF q, i
        <4> QED
          BY <2>1, <2>2
      <3>2. q[i].left \in -LoanTime .. LoanTime /\ LoanTime \in Nat
        BY <3>1, LoanFields DEF RexPoolConstants
      <3> QED
        BY <3>2
    <2>4. q[i].left <= 0
      BY <1>3, <2>3
    <2>5. FirstProcessed(s, r) = Processed(s, r, i)
      BY <1>3 DEF FirstProcessed
    <2> HIDE DEF i
    <2>6. LoansLead(s, Processed(s, r, i))
      BY <2>2, <2>4, ProcessedLeads
    <2> QED
      BY <2>5, <2>6
  <1> QED
    BY <1>2, <1>3

\* A loop whose rounds lead on leads on.
LEMMA LoansProcessedLead ==
  ASSUME RexPoolConstants, NEW s, Sound(s), NEW r \in Resources, NEW max \in Nat
  PROVE  LoansLead(s, LoansProcessed(s, r, max))
  <1> DEFINE D == { t \in Tables : LoansLead(s, t) }
             P == [i \in 0 .. max |-> D]
             F == [x \in (1 .. max) \X D |-> FirstProcessed(x[2], r)]
             Round(g) == [i \in 0 .. max |->
                            IF i = 0 THEN s
                            ELSE LET prev == g[i-1]
                                 IN  IF prev.loans[r] = << >> \/ prev.loans[r][First(prev.loans[r])].left > 0
                                     THEN prev
                                     ELSE Processed(prev, r, First(prev.loans[r]))]
             After == CHOOSE g : g = Round(g)
  <1>1. s \in D
    BY LeadsToSame DEF LoansLead, Sound
  <1>2. ASSUME NEW t \in D PROVE FirstProcessed(t, r) \in D
    <2>1. LoansLead(s, t) /\ Sound(t)
      BY DEF LoansLead, Leads
    <2>2. LoansLead(t, FirstProcessed(t, r))
      BY <2>1, FirstProcessedLeads
    <2>3. LoansLead(s, FirstProcessed(t, r))
      BY <2>1, <2>2, LoansLeadTwice
    <2> QED
      BY <2>3 DEF LoansLead, Leads, Sound
  <1> HIDE DEF D
  <1>3. Keeps(max, D, P, F) /\ s \in P[0]
    BY <1>1, <1>2 DEF Keeps
  <1>4. PICK f \in [0 .. max -> D] :
          f[0] = s /\ \A i \in 1 .. max : f[i] = F[<<i, f[i-1]>>] /\ f[i-1] \in P[i-1] /\ f[i] \in P[i]
    <2> HIDE DEF P, F
    <2> QED
      BY <1>3, Loop
  <1>5. \A i \in 1 .. max : f[i-1] \in D /\ f[i] = FirstProcessed(f[i-1], r)
    <2> TAKE i \in 1 .. max
    <2>1. f[i-1] \in D /\ f[i] = F[<<i, f[i-1]>>]
      <3>1. i - 1 \in 0 .. max
        OBVIOUS
      <3> HIDE DEF P, F
      <3> QED
        BY <1>4, <3>1
    <2> QED
      BY <2>1
  <1>6. f = Round(f)
    <2>1. \A i \in 0 .. max : f[i] = IF i = 0 THEN s ELSE FirstProcessed(f[i-1], r)
      BY <1>4, <1>5
    <2> QED
      BY <2>1 DEF FirstProcessed
  <1>7. After = Round(After)
    <2> HIDE DEF Round
    <2> QED
      BY <1>6
  <1>8. After[0] = s /\ \A i \in 1 .. max : After[i] = FirstProcessed(After[i-1], r)
    <2> HIDE DEF After
    <2>1. After[0] = s
      BY <1>7
    <2>2. ASSUME NEW i \in 1 .. max
          PROVE  After[i] = FirstProcessed(After[i-1], r)
      <3>1. After[i] = Round(After)[i] /\ i \in 0 .. max /\ i # 0
        <4> HIDE DEF Round
        <4> QED
          BY <1>7
      <3>2. Round(After)[i] = FirstProcessed(After[i-1], r)
        BY <3>1 DEF FirstProcessed
      <3> HIDE DEF Round
      <3> QED
        BY <3>1, <3>2
    <2> QED
      BY <2>1, <2>2
  <1>9. LoansProcessed(s, r, max) = After[max]
    BY DEF LoansProcessed
  <1> HIDE DEF After
  <1>10. After[max] = f[max]
    <2>1. After[0] = f[0] /\ \A i \in 1 .. max : After[i-1] = f[i-1] => After[i] = f[i]
      BY <1>4, <1>5, <1>8
    <2> QED
      BY <2>1, SameLoop
  <1>11. f[max] \in D
    BY <1>4
  <1> QED
    BY <1>9, <1>10, <1>11 DEF D

\* All tables of loans, one after the other.
LEMMA AllProcessedLead ==
  ASSUME RexPoolConstants, NEW s, Sound(s), NEW max \in Nat
  PROVE  LoansLead(s, AllProcessed(s, max))
  <1> DEFINE n == NumTables
             D == { t \in Tables : LoansLead(s, t) }
             P == [i \in 0 .. n |-> D]
             F == [x \in (1 .. n) \X D |-> LoansProcessed(x[2], x[1], max)]
             Round(g) == [r \in 0 .. NumTables |->
                            IF r = 0 THEN s ELSE LoansProcessed(g[r-1], r, max)]
             After == CHOOSE g : g = Round(g)
  <1>1. n \in Nat /\ Resources = 1 .. n
    BY DEF RexPoolConstants, Resources
  <1>2. s \in D
    BY LeadsToSame DEF LoansLead, Sound
  <1>3. ASSUME NEW t \in D, NEW r \in 1 .. n PROVE LoansProcessed(t, r, max) \in D
    <2>1. LoansLead(s, t) /\ Sound(t)
      BY DEF LoansLead, Leads
    <2>2. LoansLead(t, LoansProcessed(t, r, max))
      BY <1>1, <2>1, LoansProcessedLead
    <2>3. LoansLead(s, LoansProcessed(t, r, max))
      BY <2>1, <2>2, LoansLeadTwice
    <2> QED
      BY <2>3 DEF LoansLead, Leads, Sound
  <1> HIDE DEF D, n
  <1>4. Keeps(n, D, P, F) /\ s \in P[0]
    BY <1>1, <1>2, <1>3 DEF Keeps
  <1>5. PICK f \in [0 .. n -> D] :
          f[0] = s /\ \A i \in 1 .. n : f[i] = F[<<i, f[i-1]>>] /\ f[i-1] \in P[i-1] /\ f[i] \in P[i]
    <2> HIDE DEF P, F
    <2> QED
      BY <1>1, <1>4, Loop
  <1>6. \A i \in 1 .. n : f[i-1] \in D /\ f[i] = LoansProcessed(f[i-1], i, max)
    <2> TAKE i \in 1 .. n
    <2>1. f[i-1] \in D /\ f[i] = F[<<i, f[i-1]>>]
      <3>1. i - 1 \in 0 .. n
        BY <1>1
      <3> HIDE DEF P, F
      <3> QED
        BY <1>5, <3>1
    <2> QED
      BY <2>1
  <1>7. f = Round(f)
    <2>1. \A i \in 0 .. n : f[i] = IF i = 0 THEN s ELSE LoansProcessed(f[i-1], i, max)
      BY <1>1, <1>5, <1>6
    <2> QED
      BY <2>1 DEF n
  <1>8. After = Round(After)
    <2> HIDE DEF Round
    <2> QED
      BY <1>7
  <1>9. After[0] = s /\ \A i \in 1 .. n : After[i] = LoansProcessed(After[i-1], i, max)
    <2> HIDE DEF After
    <2>1. After[0] = Round(After)[0] /\ 0 \in 0 .. n
      <3> HIDE DEF Round
      <3> QED
        BY <1>1, <1>8
    <2>2. ASSUME NEW i \in 1 .. n
          PROVE  After[i] = LoansProcessed(After[i-1], i, max)
      <3>1. After[i] = Round(After)[i] /\ i \in 0 .. n /\ i # 0
        <4> HIDE DEF Round
        <4> QED
          BY <1>1, <1>8
      <3>2. Round(After)[i] = LoansProcessed(After[i-1], i, max)
        BY <3>1 DEF n
      <3> HIDE DEF Round
      <3> QED
        BY <3>1, <3>2
    <2> QED
      BY <2>1, <2>2 DEF n
  <1>10. AllProcessed(s, max) = After[n]
    BY DEF AllProcessed, n
  <1> HIDE DEF After
  <1>11. After[n] = f[n]
    <2>1. After[0] = f[0] /\ \A i \in 1 .. n : After[i-1] = f[i-1] => After[i] = f[i]
      BY <1>5, <1>6, <1>9
    <2> QED
      BY <1>1, <2>1, SameLoop
  <1>12. f[n] \in D
    BY <1>1, <1>5
  <1> QED
    BY <1>10, <1>11, <1>12 DEF D

-----------------------------------------------------------------------------
(* Changes of the tables.                                                  *)

\* What trading changes: the pool, REX owned, the votes and the rows.
TablesTraded(s, p, w, v, h) ==
  [s EXCEPT !.pool = p, !.owned = w, !.vote_stake = v, !.has_row = h]

AreTraded(t, s, p, w, v, h) ==
  /\ t \in Tables /\ t.pool = p /\ t.owned = w /\ t.vote_stake = v /\ t.has_row = h
  /\ t.fund = s.fund /\ t.queue = s.queue /\ t.proceeds = s.proceeds
  /\ t.stake_change = s.stake_change /\ t.loans = s.loans /\ t.rented = s.rented

LEMMA TradedSet ==
  ASSUME NEW s \in Tables, NEW p \in PoolRow, NEW w \in [Owners -> Nat],
         NEW v \in [Owners -> Nat], NEW h \in SUBSET Owners
  PROVE  AreTraded(TablesTraded(s, p, w, v, h), s, p, w, v, h)
  BY DEF Tables, TablesTraded, AreTraded

\* A trade: the pool loses or gains REX, as its owners do.
TradeMakes(s, p, w, v, h, t) ==
  /\ p \in PoolRow /\ w \in [Owners -> Nat] /\ v \in [Owners -> Nat] /\ h \in SUBSET Owners
  /\ t = TablesTraded(s, p, w, v, h)
  /\ p.total_lent = s.pool.total_lent
  /\ p.total_lendable = p.total_lent + p.total_unlent
  /\ p.total_rex = SumOf(w)
  /\ p.total_rex = 0 => p.total_lent = 0
  /\ p.total_rex > 0 => p.exists
  /\ p.namebid_proceeds > 0 => p.exists /\ p.total_rex > 0
  /\ \A i \in DOMAIN s.queue : s.queue[i].rex <= w[s.queue[i].owner]

LEMMA TradeChanged ==
  ASSUME RexPoolConstants, NEW s, Sound(s), NEW p, NEW w, NEW v, NEW h, NEW t,
         TradeMakes(s, p, w, v, h, t)
  PROVE  /\ Sound(t) /\ AreTraded(t, s, p, w, v, h)
         /\ Owed(t) = Owed(s) - (s.pool.total_lendable + s.pool.held) + (p.total_lendable + p.held)
  <1>1. s \in Tables /\ s.pool \in PoolRow
    BY TableTypes DEF Sound
  <1>2. AreTraded(t, s, p, w, v, h)
    <2>1. /\ p \in PoolRow /\ w \in [Owners -> Nat] /\ v \in [Owners -> Nat] /\ h \in SUBSET Owners
          /\ t = TablesTraded(s, p, w, v, h)
      BY DEF TradeMakes
    <2>2. AreTraded(TablesTraded(s, p, w, v, h), s, p, w, v, h)
      BY ONLY <1>1, <2>1, TradedSet
    <2> QED
      BY <2>1, <2>2
  <1>3. /\ t \in Tables /\ t.pool = p /\ t.owned = w
        /\ t.fund = s.fund /\ t.queue = s.queue /\ t.proceeds = s.proceeds
        /\ t.stake_change = s.stake_change /\ t.loans = s.loans /\ t.rented = s.rented
    BY <1>2 DEF AreTraded
  <1>4. AllLent(t) = AllLent(s) /\ AllLeft(t) = AllLeft(s) /\ \A r, o : LentTo(t, r, o) = LentTo(s, r, o)
    <2>1. t.loans = s.loans
      BY <1>3
    <2> QED
      BY ONLY <2>1, SameLoans
  <1>5. TablesAddUp(t)
    BY <1>3, <1>4 DEF TradeMakes, Sound, TablesAddUp, AllLent
  <1>6. PoolStands(t)
    BY <1>3 DEF TradeMakes, PoolStands, NamebidsHaveOwners, rex_available
  <1>7. LoansStand(t)
    BY <1>3 DEF Sound, LoansStand
  <1>8. OrdersStand(t)
    BY <1>3 DEF TradeMakes, Sound, OrdersStand
  <1>9. Owed(t) = Owed(s) - (s.pool.total_lendable + s.pool.held) + (p.total_lendable + p.held)
    <2>1. Owed(t) = SumOf(t.fund) + t.pool.total_lendable + t.pool.held + AllLeft(t) + SumOf(t.proceeds)
      BY <1>3, OwedIsNat
    <2>2. /\ SumOf(s.fund) \in Nat /\ SumOf(s.proceeds) \in Nat /\ AllLeft(s) \in Nat
          /\ Owed(s) = SumOf(s.fund) + s.pool.total_lendable + s.pool.held + AllLeft(s) + SumOf(s.proceeds)
      BY <1>1, OwedIsNat
    <2>3. /\ s.pool.total_lendable \in Nat /\ s.pool.held \in Nat
          /\ p.total_lendable \in Nat /\ p.held \in Nat
      BY <1>1, PoolTypes DEF TradeMakes
    <2> QED
      BY <1>3, <1>4, <2>1, <2>2, <2>3
  <1> QED
    BY <1>2, <1>3, <1>5, <1>6, <1>7, <1>8, <1>9 DEF Sound

\* What is paid out: funds, proceeds, and the change of votes with them.
TablesPaid(s, f, pr, sc) == [s EXCEPT !.fund = f, !.proceeds = pr, !.stake_change = sc]

ArePaid(t, s, f, pr, sc) ==
  /\ t \in Tables /\ t.fund = f /\ t.proceeds = pr /\ t.stake_change = sc
  /\ t.pool = s.pool /\ t.owned = s.owned /\ t.vote_stake = s.vote_stake /\ t.has_row = s.has_row
  /\ t.queue = s.queue /\ t.loans = s.loans /\ t.rented = s.rented

LEMMA PaidSet ==
  ASSUME NEW s \in Tables, NEW f \in [Owners -> Nat], NEW pr \in [Owners -> Nat], NEW sc \in [Owners -> Int]
  PROVE  ArePaid(TablesPaid(s, f, pr, sc), s, f, pr, sc)
  BY DEF Tables, TablesPaid, ArePaid

PaymentMakes(s, f, pr, sc, t) ==
  /\ f \in [Owners -> Nat] /\ pr \in [Owners -> Nat] /\ sc \in [Owners -> Int]
  /\ t = TablesPaid(s, f, pr, sc)
  /\ \A i \in DOMAIN s.queue : pr[s.queue[i].owner] = 0 /\ sc[s.queue[i].owner] = 0

LEMMA PaymentChanged ==
  ASSUME RexPoolConstants, NEW s, Sound(s), NEW f, NEW pr, NEW sc, NEW t,
         PaymentMakes(s, f, pr, sc, t)
  PROVE  /\ Sound(t) /\ ArePaid(t, s, f, pr, sc)
         /\ Owed(t) = Owed(s) - (SumOf(s.fund) + SumOf(s.proceeds)) + (SumOf(f) + SumOf(pr))
  <1>1. s \in Tables /\ s.pool \in PoolRow
    BY TableTypes DEF Sound
  <1>2. ArePaid(t, s, f, pr, sc)
    <2>1. /\ f \in [Owners -> Nat] /\ pr \in [Owners -> Nat] /\ sc \in [Owners -> Int]
          /\ t = TablesPaid(s, f, pr, sc)
      BY DEF PaymentMakes
    <2>2. ArePaid(TablesPaid(s, f, pr, sc), s, f, pr, sc)
      BY ONLY <1>1, <2>1, PaidSet
    <2> QED
      BY <2>1, <2>2
  <1>3. /\ t \in Tables /\ t.fund = f /\ t.proceeds = pr /\ t.stake_change = sc
        /\ t.pool = s.pool /\ t.owned = s.owned /\ t.queue = s.queue
        /\ t.loans = s.loans /\ t.rented = s.rented
    BY <1>2 DEF ArePaid
  <1>4. AllLent(t) = AllLent(s) /\ AllLeft(t) = AllLeft(s) /\ \A r, o : LentTo(t, r, o) = LentTo(s, r, o)
    <2>1. t.loans = s.loans
      BY <1>3
    <2> QED
      BY ONLY <2>1, SameLoans
  <1>5. TablesAddUp(t)
    BY <1>3, <1>4 DEF Sound, TablesAddUp, AllLent
  <1>6. PoolStands(t)
    BY <1>3 DEF Sound, PoolStands, NamebidsHaveOwners, rex_available
  <1>7. LoansStand(t)
    BY <1>3 DEF Sound, LoansStand
  <1>8. OrdersStand(t)
    BY <1>3 DEF PaymentMakes, Sound, OrdersStand
  <1>9. Owed(t) = Owed(s) - (SumOf(s.fund) + SumOf(s.proceeds)) + (SumOf(f) + SumOf(pr))
    <2>1. /\ Owed(t) = SumOf(t.fund) + t.pool.total_lendable + t.pool.held + AllLeft(t) + SumOf(t.proceeds)
          /\ SumOf(t.fund) \in Nat /\ SumOf(t.proceeds) \in Nat
      BY <1>3, OwedIsNat
    <2>2. /\ SumOf(s.fund) \in Nat /\ SumOf(s.proceeds) \in Nat /\ AllLeft(s) \in Nat
          /\ Owed(s) = SumOf(s.fund) + s.pool.total_lendable + s.pool.held + AllLeft(s) + SumOf(s.proceeds)
      BY <1>1, OwedIsNat
    <2>3. s.pool.total_lendable \in Nat /\ s.pool.held \in Nat
      BY <1>1, PoolTypes
    <2> QED
      BY <1>3, <1>4, <2>1, <2>2, <2>3
  <1> QED
    BY <1>2, <1>3, <1>5, <1>6, <1>7, <1>8, <1>9 DEF Sound

\* Orders that stand.
Order == [owner : Owners, rex : Nat]

TablesQueued(s, q) == [s EXCEPT !.queue = q]

LEMMA QueueChanged ==
  ASSUME RexPoolConstants, NEW s, Sound(s), NEW q \in Seq(Order),
         NEW t, t = TablesQueued(s, q), OrdersStand(t)
  PROVE  /\ Sound(t) /\ Owed(t) = Owed(s) /\ t.queue = q
         /\ t.pool = s.pool /\ t.fund = s.fund /\ t.owned = s.owned /\ t.has_row = s.has_row
         /\ t.vote_stake = s.vote_stake /\ t.proceeds = s.proceeds /\ t.stake_change = s.stake_change
         /\ t.loans = s.loans /\ t.rented = s.rented
  <1>1. s \in Tables
    BY DEF Sound
  <1>2. /\ t \in Tables /\ t.queue = q
        /\ t.pool = s.pool /\ t.fund = s.fund /\ t.owned = s.owned /\ t.has_row = s.has_row
        /\ t.vote_stake = s.vote_stake /\ t.proceeds = s.proceeds /\ t.stake_change = s.stake_change
        /\ t.loans = s.loans /\ t.rented = s.rented
    BY <1>1 DEF Tables, TablesQueued, Order
  <1>3. AllLent(t) = AllLent(s) /\ AllLeft(t) = AllLeft(s) /\ \A r, o : LentTo(t, r, o) = LentTo(s, r, o)
    <2>1. t.loans = s.loans
      BY <1>2
    <2> QED
      BY ONLY <2>1, SameLoans
  <1>4. TablesAddUp(t)
    <2>1. TablesAddUp(s)
      BY DEF Sound
    <2> QED
      BY ONLY <1>2, <1>3, <2>1 DEF TablesAddUp, AllLent
  <1>5. PoolStands(t)
    BY <1>2 DEF Sound, PoolStands, NamebidsHaveOwners, rex_available
  <1>6. LoansStand(t)
    BY <1>2 DEF Sound, LoansStand
  <1>7. Owed(t) = Owed(s)
    <2>1. /\ Owed(t) = SumOf(t.fund) + t.pool.total_lendable + t.pool.held + AllLeft(t) + SumOf(t.proceeds)
          /\ Owed(s) = SumOf(s.fund) + s.pool.total_lendable + s.pool.held + AllLeft(s) + SumOf(s.proceeds)
      BY <1>1, <1>2, OwedIsNat
    <2> QED
      BY <1>2, <1>3, <2>1
  <1> QED
    BY <1>2, <1>4, <1>5, <1>6, <1>7 DEF Sound

-----------------------------------------------------------------------------
(* Orders.                                                                 *)

\* The open order of an owner.
LEMMA OrderIsThere ==
  ASSUME RexPoolConstants, NEW s, Sound(s), NEW o \in Owners, HasOrder(s, o)
  PROVE  /\ PlaceOf(s, o) \in DOMAIN s.queue
         /\ s.queue[PlaceOf(s, o)] \in Order
         /\ s.queue[PlaceOf(s, o)].owner = o
         /\ InOrder(s, o) = s.queue[PlaceOf(s, o)].rex
         /\ InOrder(s, o) \in Nat \ {0} /\ InOrder(s, o) <= s.owned[o]
         /\ s.proceeds[o] = 0 /\ s.stake_change[o] = 0
         /\ \A i \in DOMAIN s.queue : s.queue[i].owner = o => i = PlaceOf(s, o)
  <1> DEFINE i == PlaceOf(s, o)
  <1>1. i \in DOMAIN s.queue /\ s.queue[i].owner = o
    BY DEF HasOrder, PlaceOf
  <1>2. s.queue \in Seq(Order)
    BY TableTypes DEF Sound, Order
  <1>3. InOrder(s, o) = s.queue[i].rex
    BY DEF InOrder
  <1> HIDE DEF i
  <1>4. s.queue[i] \in Order
    BY <1>1, <1>2
  <1>5. s.queue[i].rex \in Nat
    BY <1>4 DEF Order
  <1>6. OrdersStand(s)
    BY DEF Sound
  <1>7. /\ s.queue[i].rex > 0 /\ s.queue[i].rex <= s.owned[o]
        /\ s.proceeds[o] = 0 /\ s.stake_change[o] = 0
        /\ \A j \in DOMAIN s.queue : s.queue[j].owner = o => j = i
    BY <1>1, <1>6 DEF OrdersStand
  <1> QED
    BY <1>1, <1>3, <1>4, <1>5, <1>7 DEF i

LEMMA OrdersAreCoveredBySound ==
  ASSUME RexPoolConstants, NEW s, Sound(s)
  PROVE  OrdersAreCovered(s)
  <1> SUFFICES ASSUME NEW o \in Owners PROVE InOrder(s, o) <= s.owned[o]
    BY DEF OrdersAreCovered
  <1>1. CASE HasOrder(s, o)
    BY <1>1, OrderIsThere
  <1>2. CASE ~HasOrder(s, o)
    <2>1. s.owned[o] \in Nat
      BY TableTypes DEF Sound
    <2> QED
      BY <1>2, <2>1 DEF InOrder
  <1> QED
    BY <1>1, <1>2

\* An order is removed.
Cancelled(s, o) == TablesQueued(s, RemoveAt(s.queue, PlaceOf(s, o)))

LEMMA CancelledIsSound ==
  ASSUME RexPoolConstants, NEW s, Sound(s), NEW o \in Owners, HasOrder(s, o), NEW t, t = Cancelled(s, o)
  PROVE  /\ Sound(t) /\ Owed(t) = Owed(s)
         /\ t.pool = s.pool /\ t.fund = s.fund /\ t.owned = s.owned /\ t.has_row = s.has_row
         /\ t.vote_stake = s.vote_stake /\ t.proceeds = s.proceeds /\ t.stake_change = s.stake_change
         /\ t.loans = s.loans /\ t.rented = s.rented
         /\ t.queue = RemoveAt(s.queue, PlaceOf(s, o))
         /\ ~HasOrder(t, o)
         /\ \A j \in DOMAIN s.queue : s.queue[j].owner # o => \E i \in DOMAIN t.queue : t.queue[i] = s.queue[j]
  <1> DEFINE old == s.queue
             i == PlaceOf(s, o)
             q == RemoveAt(old, i)
  <1>1. s \in Tables /\ old \in Seq(Order)
    BY TableTypes DEF Sound, Order
  <1>2. i \in DOMAIN old /\ old[i].owner = o /\ \A j \in DOMAIN old : old[j].owner = o => j = i
    BY OrderIsThere
  <1> HIDE DEF i
  <1>3. /\ q \in Seq(Order) /\ DOMAIN q = 1 .. Len(old) - 1
        /\ \A k \in DOMAIN q : q[k] = IF k < i THEN old[k] ELSE old[k+1]
        /\ DOMAIN old = 1 .. Len(old) /\ Len(old) \in Nat /\ i \in 1 .. Len(old)
    <2> HIDE DEF old
    <2> QED
      BY <1>1, <1>2, Removed
  <1>4. /\ t = TablesQueued(s, q) /\ t.queue = q
        /\ t.owned = s.owned /\ t.proceeds = s.proceeds /\ t.stake_change = s.stake_change
    <2>1. t = TablesQueued(s, q)
      BY DEF Cancelled, i
    <2> HIDE DEF q
    <2> QED
      BY <1>1, <2>1 DEF Tables, TablesQueued
  <1> DEFINE from == [k \in DOMAIN q |-> IF k < i THEN k ELSE k + 1]
  <1>5. /\ \A k \in DOMAIN q : from[k] \in DOMAIN old /\ from[k] # i /\ q[k] = old[from[k]]
        /\ \A k \in DOMAIN q, l \in DOMAIN q : from[k] = from[l] => k = l
    <2> HIDE DEF q, old
    <2>1. ASSUME NEW k \in DOMAIN q
          PROVE  from[k] \in DOMAIN old /\ from[k] # i /\ q[k] = old[from[k]]
      <3>1. k \in 1 .. Len(old) - 1
        BY <1>3
      <3>2. CASE k < i
        <4>1. from[k] = k
          BY <3>2
        <4> HIDE DEF from
        <4> QED
          BY <1>3, <3>1, <3>2, <4>1
      <3>3. CASE ~(k < i)
        <4>1. from[k] = k + 1
          BY <3>3
        <4> HIDE DEF from
        <4> QED
          BY <1>3, <3>1, <3>3, <4>1
      <3> QED
        BY <3>2, <3>3
    <2>2. ASSUME NEW k \in DOMAIN q, NEW l \in DOMAIN q, from[k] = from[l]
          PROVE  k = l
      <3>1. k \in Nat /\ l \in Nat /\ i \in Nat
        BY <1>3
      <3> QED
        BY <2>2, <3>1
    <2> QED
      BY <2>1, <2>2
  <1> HIDE DEF from, q, old
  <1>6. OrdersStand(t)
    <2>1. ASSUME NEW k \in DOMAIN t.queue
          PROVE  /\ t.queue[k].rex > 0 /\ t.queue[k].rex <= t.owned[t.queue[k].owner]
                 /\ t.proceeds[t.queue[k].owner] = 0 /\ t.stake_change[t.queue[k].owner] = 0
      <3>1. from[k] \in DOMAIN s.queue /\ t.queue[k] = s.queue[from[k]]
        BY <1>4, <1>5 DEF old
      <3> QED
        BY <1>4, <3>1 DEF Sound, OrdersStand
    <2>2. ASSUME NEW k \in DOMAIN t.queue, NEW l \in DOMAIN t.queue, t.queue[k].owner = t.queue[l].owner
          PROVE  k = l
      <3>1. /\ from[k] \in DOMAIN s.queue /\ t.queue[k] = s.queue[from[k]]
            /\ from[l] \in DOMAIN s.queue /\ t.queue[l] = s.queue[from[l]]
            /\ from[k] = from[l] => k = l
        BY <1>4, <1>5 DEF old
      <3> QED
        BY <2>2, <3>1 DEF Sound, OrdersStand
    <2> QED
      BY <2>1, <2>2 DEF OrdersStand
  <1>7. ~HasOrder(t, o)
    <2> SUFFICES ASSUME NEW k \in DOMAIN t.queue PROVE t.queue[k].owner # o
      BY DEF HasOrder
    <2> QED
      BY <1>2, <1>4, <1>5
  <1>8. ASSUME NEW j \in DOMAIN s.queue, s.queue[j].owner # o
        PROVE  \E k \in DOMAIN t.queue : t.queue[k] = s.queue[j]
    <2>1. j \in 1 .. Len(old) /\ j # i
      BY <1>2, <1>3, <1>8 DEF old
    <2> DEFINE k == IF j < i THEN j ELSE j - 1
    <2>2. k \in 1 .. Len(old) - 1 /\ (IF k < i THEN k ELSE k + 1) = j
      BY <1>3, <2>1
    <2> HIDE DEF k
    <2>3. k \in DOMAIN q /\ q[k] = old[j]
      BY <1>3, <2>2
    <2> QED
      BY <1>4, <2>3 DEF old
  <1>9. /\ Sound(t) /\ Owed(t) = Owed(s) /\ t.queue = q
        /\ t.pool = s.pool /\ t.fund = s.fund /\ t.owned = s.owned /\ t.has_row = s.has_row
        /\ t.vote_stake = s.vote_stake /\ t.proceeds = s.proceeds /\ t.stake_change = s.stake_change
        /\ t.loans = s.loans /\ t.rented = s.rented
    <2>1. q \in Seq(Order) /\ t = TablesQueued(s, q)
      BY <1>3, <1>4
    <2> QED
      BY <1>6, <2>1, QueueChanged
  <1> QED
    BY <1>7, <1>8, <1>9 DEF q, old, i

\* fill_rex_order, where it can: a seller gets no more than there is to lend,
\* and a part of what is lent remains.
SoldPool(p, amount, value) ==
  [p EXCEPT !.total_rex = @ - amount, !.total_lendable = @ - value, !.total_unlent = @ - value]

LEMMA FilledIs ==
  ASSUME NEW s \in Tables, NEW o, NEW amount
  PROVE  Filled(s, o, amount) =
           TablesTraded(s, SoldPool(s.pool, amount, ValueOf(s, amount)),
                        [s.owned EXCEPT ![o] = @ - amount],
                        [s.vote_stake EXCEPT ![o] = ValueOf(s, s.owned[o]) - ValueOf(s, amount)],
                        s.has_row)
  BY DEF Filled, TablesTraded, SoldPool, Tables, PoolRow

MaySell(s, o, amount) ==
  /\ Sound(s) /\ s.pool.namebid_proceeds = 0
  /\ o \in Owners /\ amount \in Nat \ {0} /\ amount <= s.owned[o] /\ CanFill(s, amount)
  /\ \A i \in DOMAIN s.queue : s.queue[i].owner = o => s.queue[i].rex <= s.owned[o] - amount

IsSold(s, o, amount, t) ==
  /\ Sound(t)
  /\ ValueOf(s, amount) \in Nat
  /\ Owed(t) = Owed(s) - ValueOf(s, amount)
  /\ t.fund = s.fund /\ t.queue = s.queue /\ t.proceeds = s.proceeds /\ t.has_row = s.has_row
  /\ t.stake_change = s.stake_change /\ t.loans = s.loans /\ t.rented = s.rented
  /\ t.owned = [s.owned EXCEPT ![o] = @ - amount]
  /\ \A x \in Owners : x # o => t.vote_stake[x] = s.vote_stake[x]
  /\ t.vote_stake[o] \in Nat
  /\ StakeChange(s, o, amount) = t.vote_stake[o] - s.vote_stake[o]
  /\ PriceKept(s.pool.total_lendable, s.pool.total_rex, t.pool.total_lendable, t.pool.total_rex)
  /\ t.pool.exists = s.pool.exists /\ t.pool.namebid_proceeds = s.pool.namebid_proceeds
  /\ t.pool.total_rent = s.pool.total_rent /\ t.pool.total_lent = s.pool.total_lent
  /\ t.pool.total_lent >= KeptPart => t.pool.total_unlent > 0

LEMMA FilledIsSound ==
  ASSUME RexPoolConstants, NEW s, NEW o, NEW amount, MaySell(s, o, amount)
  PROVE  IsSold(s, o, amount, Filled(s, o, amount))
  <1> DEFINE t == Filled(s, o, amount)
             R == s.pool.total_rex
             L == s.pool.total_lendable
             own == s.owned[o]
             V == (amount * L) \div R
             W == (own * L) \div R
             U == s.pool.total_unlent
             T == s.pool.total_lent
             kept == T \div KeptPart
             p == SoldPool(s.pool, amount, V)
             w == [s.owned EXCEPT ![o] = @ - amount]
             v == [s.vote_stake EXCEPT ![o] = W - V]
  <1>0. /\ Sound(s) /\ s.pool.namebid_proceeds = 0
        /\ o \in Owners /\ amount \in Nat \ {0} /\ amount <= s.owned[o] /\ CanFill(s, amount)
        /\ \A i \in DOMAIN s.queue : s.queue[i].owner = o => s.queue[i].rex <= s.owned[o] - amount
    BY DEF MaySell
  <1>1. s \in Tables /\ s.pool \in PoolRow /\ s.owned \in [Owners -> Nat] /\ s.vote_stake \in [Owners -> Nat]
        /\ s.has_row \in SUBSET Owners
    BY <1>0, TableTypes DEF Sound
  <1>2. R \in Nat /\ L \in Nat /\ U \in Nat /\ T \in Nat /\ L = T + U
    <2>1. R \in Nat /\ L \in Nat /\ U \in Nat /\ T \in Nat
      BY <1>1, PoolTypes
    <2> QED
      BY <1>0, <2>1 DEF Sound, TablesAddUp
  <1>3. own \in Nat /\ amount <= own /\ own <= R /\ R \in Nat \ {0} /\ R = SumOf(s.owned)
    <2>1. own \in Nat /\ own <= SumOf(s.owned) /\ SumOf(s.owned) \in Nat
      BY <1>0, <1>1, OwnerSums
    <2>2. R = SumOf(s.owned)
      BY <1>0 DEF Sound, TablesAddUp
    <2> QED
      BY <1>0, <2>1, <2>2
  <1>4. ValueOf(s, amount) = V /\ ValueOf(s, own) = W
    BY DEF ValueOf
  <1>5. /\ V \in Nat /\ V <= L /\ W \in Nat /\ V <= W
        /\ amount = R => V = L
        /\ PriceKept(L, R, L - V, R - amount)
    <2> HIDE DEF R, L, own
    <2>1. own \in Nat /\ own <= R /\ amount <= own /\ amount <= R /\ L \in Nat /\ R \in Nat \ {0} /\ amount \in Nat
      BY <1>0, <1>2, <1>3
    <2>2. /\ (amount * L) \div R \in Nat
          /\ (amount * L) \div R <= L
          /\ amount = R => (amount * L) \div R = L
          /\ PriceKept(L, R, L - (amount * L) \div R, R - amount)
      BY ONLY <2>1, ValueOfPart
    <2>3. (own * L) \div R \in Nat /\ (amount * L) \div R <= (own * L) \div R
      BY ONLY <2>1, ValueOfPart
    <2> QED
      BY <2>2, <2>3
  <1>6. /\ kept \in Nat /\ V <= U - kept
        /\ T >= KeptPart => kept >= 1
        /\ kept = 0 \/ kept > 0
    <2>1. KeptPart \in Nat \ {0}
      BY DEF RexPoolConstants
    <2>2. kept \in Nat
      <3> HIDE DEF T
      <3> QED
        BY <1>2, <2>1, DivisionBounds
    <2>3. T >= KeptPart => kept >= 1
      <3> HIDE DEF T
      <3>1. T >= KeptPart => KeptPart * 1 <= T
        BY <1>2, <2>1
      <3>2. T >= KeptPart => 1 <= T \div KeptPart
        BY <1>2, <2>1, <3>1, QuotientAtLeast
      <3> QED
        BY <2>2, <3>2
    <2>4. V <= U - kept
      BY <1>0, <1>4 DEF CanFill, unlent_lower_bound
    <2> HIDE DEF kept
    <2> QED
      BY <2>2, <2>3, <2>4
  <1> HIDE DEF V, W, kept
  <1>7. /\ p.exists = s.pool.exists /\ p.total_rex = R - amount /\ p.total_lendable = L - V
        /\ p.total_unlent = U - V /\ p.total_lent = T /\ p.held = s.pool.held
        /\ p.total_rent = s.pool.total_rent /\ p.namebid_proceeds = s.pool.namebid_proceeds
    BY <1>1 DEF PoolRow, SoldPool
  <1>8. p \in PoolRow
    <2>1. R - amount \in Nat /\ L - V \in Nat /\ U - V \in Nat
      BY <1>0, <1>2, <1>3, <1>5, <1>6
    <2> QED
      BY <1>1, <2>1 DEF PoolRow, SoldPool
  <1>9. w \in [Owners -> Nat] /\ SumOf(w) = R - amount /\ v \in [Owners -> Nat]
    <2> DEFINE u == own - amount
    <2>1. u \in Nat /\ w = [s.owned EXCEPT ![o] = u] /\ W - V \in Nat
      BY <1>0, <1>1, <1>3, <1>5
    <2>2. /\ [s.owned EXCEPT ![o] = u] \in [Owners -> Nat]
          /\ SumOf([s.owned EXCEPT ![o] = u]) = SumOf(s.owned) - own + u
      <3> HIDE DEF u
      <3> QED
        BY <1>0, <1>1, <2>1, OwnerSums
    <2>3. SumOf(w) = R - amount
      <3> HIDE DEF w, R, own
      <3> QED
        BY <1>0, <1>3, <2>1, <2>2
    <2>4. v \in [Owners -> Nat]
      BY <1>1, <2>1
    <2> QED
      BY <2>1, <2>2, <2>3, <2>4
  <1>10. t = TablesTraded(s, p, w, v, s.has_row)
    <2> HIDE DEF R, L, U, T
    <2> QED
      BY <1>1, <1>4, FilledIs
  <1> HIDE DEF p, w, v, t
  <1>11. TradeMakes(s, p, w, v, s.has_row, t)
    <2>1. p.total_lendable = p.total_lent + p.total_unlent
      BY <1>2, <1>5, <1>7
    <2>2. p.total_rex = 0 => p.total_lent = 0
      <3> HIDE DEF R, L, U, T, own
      <3>1. R - amount = 0 => T = 0
        BY <1>0, <1>2, <1>3, <1>5, <1>6
      <3> QED
        BY <1>7, <3>1
    <2>3. p.total_rex > 0 => p.exists
      BY <1>0, <1>2, <1>3, <1>7 DEF Sound, PoolStands
    <2>4. ~(p.namebid_proceeds > 0)
      BY <1>0, <1>7
    <2>5. ASSUME NEW i \in DOMAIN s.queue
          PROVE  s.queue[i].rex <= w[s.queue[i].owner]
      <3>1. s.queue[i].owner \in Owners
        <4>1. s.queue \in Seq(Order)
          BY <1>1, TableTypes DEF Order
        <4>2. s.queue[i] \in Order
          BY <4>1
        <4> QED
          BY <4>2 DEF Order
      <3>2. CASE s.queue[i].owner = o
        <4>1. w[o] = s.owned[o] - amount
          BY <1>0, <1>1 DEF w
        <4> QED
          BY <1>0, <3>2, <4>1
      <3>3. CASE s.queue[i].owner # o
        <4>1. w[s.queue[i].owner] = s.owned[s.queue[i].owner]
          BY <1>1, <3>1, <3>3 DEF w
        <4> QED
          BY <1>0, <4>1 DEF Sound, OrdersStand
      <3> QED
        BY <3>2, <3>3
    <2> QED
      BY <1>1, <1>7, <1>8, <1>9, <1>10, <2>1, <2>2, <2>3, <2>4, <2>5 DEF TradeMakes
  <1>12. /\ Sound(t) /\ AreTraded(t, s, p, w, v, s.has_row)
         /\ Owed(t) = Owed(s) - (s.pool.total_lendable + s.pool.held) + (p.total_lendable + p.held)
    BY <1>0, <1>11, TradeChanged
  <1>13. /\ t.pool = p /\ t.owned = w /\ t.vote_stake = v /\ t.has_row = s.has_row
         /\ t.fund = s.fund /\ t.queue = s.queue /\ t.proceeds = s.proceeds
         /\ t.stake_change = s.stake_change /\ t.loans = s.loans /\ t.rented = s.rented
    BY <1>12 DEF AreTraded
  <1>14. Owed(t) = Owed(s) - V
    <2>1. Owed(s) \in Nat /\ s.pool.held \in Nat
      BY <1>1, OwedIsNat, PoolTypes
    <2> QED
      BY <1>0, <1>2, <1>5, <1>7, <1>12, <2>1
  <1>15. v[o] = W - V /\ \A x \in Owners : x # o => v[x] = s.vote_stake[x]
    BY <1>0, <1>1 DEF v
  <1>16. StakeChange(s, o, amount) = t.vote_stake[o] - s.vote_stake[o]
    BY DEF StakeChange, t
  <1>17. t.pool.total_lent >= KeptPart => t.pool.total_unlent > 0
    <2>1. KeptPart \in Nat
      BY DEF RexPoolConstants
    <2> QED
      BY <1>2, <1>5, <1>6, <1>7, <1>13, <2>1
  <1>18. t.vote_stake[o] \in Nat
    BY <1>5, <1>13, <1>15
  <1>19. PriceKept(s.pool.total_lendable, s.pool.total_rex, t.pool.total_lendable, t.pool.total_rex)
    BY <1>5, <1>7, <1>13
  <1> QED
    BY <1>4, <1>5, <1>7, <1>12, <1>13, <1>14, <1>15, <1>16, <1>17, <1>18, <1>19 DEF w, t, IsSold

\* What an order that is filled, and all that are, keep.
OrdersLead(s, t) ==
  /\ Leads(s, t)
  /\ t.loans = s.loans
  /\ t.pool.total_rent = s.pool.total_rent /\ t.pool.total_lent = s.pool.total_lent
  /\ s.pool.total_lent >= KeptPart /\ s.pool.total_unlent > 0 => t.pool.total_unlent > 0

LEMMA OrdersLeadTwice ==
  ASSUME NEW s, NEW t, NEW u, Sound(s), OrdersLead(s, t), OrdersLead(t, u)
  PROVE  OrdersLead(s, u)
  <1>1. Leads(s, t) /\ Leads(t, u)
    BY DEF OrdersLead
  <1>2. Leads(s, u)
    BY <1>1, LeadsTwice
  <1> QED
    BY <1>2 DEF OrdersLead

\* An order is filled: its REX is sold, and its proceeds wait for the owner.
LEMMA OrderFilled ==
  ASSUME RexPoolConstants, NEW s, Sound(s), s.pool.namebid_proceeds = 0,
         NEW o \in Owners, HasOrder(s, o), NEW order, order = s.queue[PlaceOf(s, o)], CanFill(s, order.rex),
         NEW t, t = OrderTried(s, order)
  PROVE  /\ OrdersLead(s, t)
         /\ \A j \in DOMAIN s.queue : s.queue[j].owner # o => \E i \in DOMAIN t.queue : t.queue[i] = s.queue[j]
  <1> DEFINE amount == order.rex
             V == ValueOf(s, amount)
             c == Cancelled(s, o)
             d == Filled(c, o, amount)
             change == StakeChange(s, o, amount)
             pr == [d.proceeds EXCEPT ![o] = V]
             sc == [d.stake_change EXCEPT ![o] = change]
  <1>1. /\ PlaceOf(s, o) \in DOMAIN s.queue /\ order.owner = o
        /\ amount \in Nat \ {0} /\ amount <= s.owned[o]
        /\ s.proceeds[o] = 0 /\ s.stake_change[o] = 0
    BY OrderIsThere
  <1>2. /\ Sound(c) /\ Owed(c) = Owed(s)
        /\ c.pool = s.pool /\ c.fund = s.fund /\ c.owned = s.owned /\ c.has_row = s.has_row
        /\ c.vote_stake = s.vote_stake /\ c.proceeds = s.proceeds /\ c.stake_change = s.stake_change
        /\ c.loans = s.loans /\ c.rented = s.rented
        /\ c.queue = RemoveAt(s.queue, PlaceOf(s, o))
        /\ ~HasOrder(c, o)
        /\ \A j \in DOMAIN s.queue : s.queue[j].owner # o => \E i \in DOMAIN c.queue : c.queue[i] = s.queue[j]
    BY CancelledIsSound
  <1>3. s \in Tables /\ c \in Tables
    BY <1>2 DEF Sound
  <1> HIDE DEF c
  <1>4. /\ ValueOf(c, amount) = V /\ CanFill(c, amount)
        /\ StakeChange(c, o, amount) = change
    <2>1. \A a : ValueOf(c, a) = ValueOf(s, a)
      BY <1>2 DEF ValueOf
    <2>2. CanFill(c, amount)
      BY <1>2, <2>1 DEF CanFill, unlent_lower_bound
    <2>3. StakeChange(c, o, amount) = change
      <3>1. /\ Filled(s, o, amount).vote_stake[o] = ValueOf(s, s.owned[o]) - ValueOf(s, amount)
            /\ Filled(c, o, amount).vote_stake[o] = ValueOf(c, c.owned[o]) - ValueOf(c, amount)
        <4> HIDE DEF amount
        <4>1. ASSUME NEW x \in Tables PROVE Filled(x, o, amount).vote_stake[o] = ValueOf(x, x.owned[o]) - ValueOf(x, amount)
          BY DEF Filled, Tables
        <4> QED
          BY <1>3, <4>1
      <3> QED
        BY <1>2, <2>1, <3>1 DEF StakeChange
    <2> QED
      BY <2>1, <2>2, <2>3
  <1> HIDE DEF V, change
  <1>5. \A i \in DOMAIN c.queue : c.queue[i].owner # o
    BY <1>2 DEF HasOrder
  <1>6. IsSold(c, o, amount, d)
    <2>1. MaySell(c, o, amount)
      BY <1>1, <1>2, <1>4, <1>5 DEF MaySell
    <2> HIDE DEF amount
    <2> QED
      BY <2>1, FilledIsSound
  <1>7. t = TablesPaid(d, d.fund, pr, sc)
    <2> DEFINE p == SoldPool(s.pool, amount, V)
               w == [s.owned EXCEPT ![o] = @ - amount]
               v == [s.vote_stake EXCEPT ![o] = ValueOf(s, s.owned[o]) - V]
               q == RemoveAt(s.queue, PlaceOf(s, o))
               e == TablesTraded(s, p, w, v, s.has_row)
    <2>1. Filled(s, o, amount) = e
      <3> HIDE DEF amount
      <3> QED
        BY <1>3, FilledIs DEF V
    <2>2. t = [Filled(s, o, amount) EXCEPT
                 !.queue = RemoveAt(@, PlaceOf(s, o)), !.proceeds[o] = V, !.stake_change[o] = change]
      BY <1>1 DEF OrderTried, V, change
    <2>3. d = TablesTraded(TablesQueued(s, q), p, w, v, s.has_row)
      <3>1. \A a : ValueOf(c, a) = ValueOf(s, a)
        BY <1>2 DEF ValueOf
      <3>2. c = TablesQueued(s, q)
        BY DEF c, Cancelled
      <3>3. d = TablesTraded(c, SoldPool(c.pool, amount, ValueOf(c, amount)),
                        [c.owned EXCEPT ![o] = @ - amount],
                        [c.vote_stake EXCEPT ![o] = ValueOf(c, c.owned[o]) - ValueOf(c, amount)],
                        c.has_row)
        <4> HIDE DEF amount
        <4> QED
          BY <1>3, FilledIs
      <3>4. d = TablesTraded(c, p, w, v, s.has_row)
        <4>1. /\ SoldPool(c.pool, amount, ValueOf(c, amount)) = p
              /\ [c.owned EXCEPT ![o] = @ - amount] = w
              /\ [c.vote_stake EXCEPT ![o] = ValueOf(c, c.owned[o]) - ValueOf(c, amount)] = v
              /\ c.has_row = s.has_row
          <5> HIDE DEF amount
          <5> QED
            BY <1>2, <3>1 DEF V
        <4> HIDE DEF d, p, w, v, amount
        <4> QED
          BY <3>3, <4>1
      <3> HIDE DEF d
      <3> QED
        BY <3>2, <3>4
    <2> HIDE DEF p, w, v, d, amount
    <2>4. /\ e.queue = s.queue /\ e.proceeds = s.proceeds /\ e.stake_change = s.stake_change
          /\ d.fund = s.fund /\ d.proceeds = s.proceeds /\ d.stake_change = s.stake_change
      BY <1>3, <2>3 DEF Tables, TablesTraded, TablesQueued
    <2>5. t = [e EXCEPT !.queue = q, !.proceeds[o] = V, !.stake_change[o] = change]
      <3> HIDE DEF e
      <3> QED
        BY <2>1, <2>2, <2>4
    <2>6. t = [e EXCEPT !.queue = q, !.proceeds = pr, !.stake_change = sc]
      <3> HIDE DEF e, q
      <3> QED
        BY <2>4, <2>5
    <2> HIDE DEF q, pr, sc
    <2>7. TablesTraded(TablesQueued(s, q), p, w, v, s.has_row) = [e EXCEPT !.queue = q]
      BY <1>3 DEF TablesTraded, TablesQueued, Tables
    <2>8. TablesPaid(d, s.fund, pr, sc) = [e EXCEPT !.queue = q, !.proceeds = pr, !.stake_change = sc]
      BY <1>3, <2>3, <2>7 DEF TablesTraded, TablesPaid, Tables
    <2> QED
      BY <2>4, <2>6, <2>8
  <1> HIDE DEF d
  <1>8. /\ Sound(d) /\ d \in Tables
        /\ V \in Nat
        /\ Owed(d) = Owed(c) - V
        /\ d.fund = c.fund /\ d.queue = c.queue /\ d.proceeds = c.proceeds
        /\ d.stake_change = c.stake_change /\ d.loans = c.loans
        /\ \A x \in Owners : x # o => d.vote_stake[x] = c.vote_stake[x]
        /\ d.vote_stake[o] \in Nat
        /\ change = d.vote_stake[o] - c.vote_stake[o]
        /\ PriceKept(c.pool.total_lendable, c.pool.total_rex, d.pool.total_lendable, d.pool.total_rex)
        /\ d.pool.exists = c.pool.exists /\ d.pool.namebid_proceeds = c.pool.namebid_proceeds
        /\ d.pool.total_rent = c.pool.total_rent /\ d.pool.total_lent = c.pool.total_lent
        /\ d.pool.total_lent >= KeptPart => d.pool.total_unlent > 0
    BY <1>4, <1>6 DEF IsSold, Sound
  <1>9. /\ d.fund \in [Owners -> Nat] /\ d.proceeds \in [Owners -> Nat] /\ d.stake_change \in [Owners -> Int]
        /\ s.vote_stake \in [Owners -> Nat]
    BY <1>3, <1>8, TableTypes
  <1>10. PaymentMakes(d, d.fund, pr, sc, t)
    <2>1. change \in Int
      BY <1>2, <1>8, <1>9
    <2>2. pr \in [Owners -> Nat] /\ sc \in [Owners -> Int]
      BY <1>8, <1>9, <2>1
    <2>3. ASSUME NEW i \in DOMAIN d.queue
          PROVE  pr[d.queue[i].owner] = 0 /\ sc[d.queue[i].owner] = 0
      <3>1. d.queue[i].owner # o
        BY <1>5, <1>8
      <3>2. d.proceeds[d.queue[i].owner] = 0 /\ d.stake_change[d.queue[i].owner] = 0
        BY <1>8 DEF Sound, OrdersStand
      <3>3. pr[d.queue[i].owner] = d.proceeds[d.queue[i].owner]
            /\ sc[d.queue[i].owner] = d.stake_change[d.queue[i].owner]
        <4>1. d.queue[i].owner \in Owners
          <5>1. d.queue \in Seq(Order)
            BY <1>8, TableTypes DEF Order
          <5>2. d.queue[i] \in Order
            BY <5>1
          <5> QED
            BY <5>2 DEF Order
        <4> QED
          BY <1>9, <3>1, <4>1
      <3> QED
        BY <3>2, <3>3
    <2> HIDE DEF pr, sc
    <2> QED
      BY <1>7, <1>9, <2>2, <2>3 DEF PaymentMakes
  <1>11. /\ Sound(t) /\ ArePaid(t, d, d.fund, pr, sc)
         /\ Owed(t) = Owed(d) - (SumOf(d.fund) + SumOf(d.proceeds)) + (SumOf(d.fund) + SumOf(pr))
    <2> HIDE DEF pr, sc
    <2> QED
      BY <1>8, <1>10, PaymentChanged
  <1>12. Owed(t) = Owed(s)
    <2>1. /\ SumOf(d.proceeds) \in Nat /\ SumOf(pr) = SumOf(d.proceeds) - d.proceeds[o] + V
      BY <1>8, <1>9, OwnerSums
    <2>2. d.proceeds[o] = 0
      BY <1>1, <1>2, <1>8
    <2>3. SumOf(d.fund) \in Nat
      BY <1>9, OwnerSums
    <2>4. Owed(s) \in Nat
      BY <1>3, OwedIsNat
    <2> HIDE DEF pr
    <2> QED
      BY <1>2, <1>8, <1>11, <2>1, <2>2, <2>3, <2>4
  <1>13. /\ t.pool = d.pool /\ t.vote_stake = d.vote_stake /\ t.queue = c.queue /\ t.loans = s.loans
         /\ t.stake_change = sc
    BY <1>2, <1>8, <1>11 DEF ArePaid
  <1>14. ASSUME NEW x \in Owners PROVE VotesDue(t, x) = VotesDue(s, x)
    <2>1. s.vote_stake[x] \in Nat /\ d.vote_stake[o] \in Nat /\ s.vote_stake[o] \in Nat
      BY <1>8, <1>9
    <2>2. CASE x = o
      <3>1. sc[x] = d.vote_stake[o] - s.vote_stake[o]
        BY <1>2, <1>8, <1>9, <2>2
      <3>2. s.stake_change[x] = 0
        BY <1>1, <2>2
      <3> HIDE DEF sc
      <3> QED
        BY <1>13, <2>1, <2>2, <3>1, <3>2 DEF VotesDue
    <2>3. CASE x # o
      <3>1. sc[x] = s.stake_change[x]
        BY <1>2, <1>8, <1>9, <2>3
      <3> HIDE DEF sc
      <3> QED
        BY <1>2, <1>8, <1>13, <2>3, <3>1 DEF VotesDue
    <2> QED
      BY <2>2, <2>3
  <1>15. t.queue # << >> => s.queue # << >> /\ LoansFollow(s, t)
    <2>1. LoansFollow(s, t)
      BY <1>3, <1>13, FollowSame
    <2>2. s.queue # << >>
      BY <1>1
    <2> QED
      BY <2>1, <2>2
  <1>16. Leads(s, t)
    BY <1>2, <1>8, <1>11, <1>12, <1>13, <1>14, <1>15 DEF Leads
  <1> QED
    BY <1>2, <1>8, <1>13, <1>16 DEF OrdersLead

\* One of the queued orders is tried; the others stay.
LEMMA OrderTriedLeads ==
  ASSUME RexPoolConstants, NEW s, Sound(s), s.pool.namebid_proceeds = 0,
         NEW i \in DOMAIN s.queue, NEW order, order = s.queue[i]
  PROVE  /\ OrdersLead(s, OrderTried(s, order))
         /\ \A j \in DOMAIN s.queue : s.queue[j].owner # order.owner =>
              \E k \in DOMAIN OrderTried(s, order).queue : OrderTried(s, order).queue[k] = s.queue[j]
  <1>1. CASE ~CanFill(s, order.rex)
    <2>1. OrderTried(s, order) = s
      BY <1>1 DEF OrderTried
    <2>2. OrdersLead(s, s)
      BY LeadsToSame DEF OrdersLead
    <2> QED
      BY <2>1, <2>2
  <1>2. CASE CanFill(s, order.rex)
    <2>1. order.owner \in Owners
      <3>1. s.queue \in Seq(Order)
        BY TableTypes DEF Sound, Order
      <3>2. s.queue[i] \in Order
        BY <3>1
      <3> QED
        BY <3>2 DEF Order
    <2> DEFINE o == order.owner
               t == OrderTried(s, order)
    <2>2. HasOrder(s, o)
      BY DEF HasOrder
    <2>3. order = s.queue[PlaceOf(s, o)]
      BY <2>1, <2>2, OrderIsThere
    <2>4. o \in Owners /\ t = OrderTried(s, order)
      BY <2>1
    <2> HIDE DEF o, t
    <2>5. /\ OrdersLead(s, t)
          /\ \A j \in DOMAIN s.queue : s.queue[j].owner # o => \E k \in DOMAIN t.queue : t.queue[k] = s.queue[j]
      BY <1>2, <2>2, <2>3, <2>4, OrderFilled
    <2> QED
      BY <2>5 DEF o, t
  <1> QED
    BY <1>1, <1>2

\* The loop over the queue.
LEMMA OrdersTriedLead ==
  ASSUME RexPoolConstants, NEW s, Sound(s), s.pool.namebid_proceeds = 0, NEW max \in Nat
  PROVE  OrdersLead(s, OrdersTried(s, max))
  <1> DEFINE old == s.queue
             Waits(i, t) == \A j \in DOMAIN old : j > i => \E k \in DOMAIN t.queue : t.queue[k] = old[j]
             D == { t \in Tables : OrdersLead(s, t) }
             P == [i \in 0 .. max |-> { t \in D : Waits(i, t) }]
             Step(i, t) == IF i <= Len(s.queue) THEN OrderTried(t, s.queue[i]) ELSE t
             F == [x \in (1 .. max) \X D |-> Step(x[1], x[2])]
             Round(g) == [i \in 0 .. max |->
                            IF i = 0 THEN s
                            ELSE IF i <= Len(s.queue) THEN OrderTried(g[i-1], s.queue[i]) ELSE g[i-1]]
             After == CHOOSE g : g = Round(g)
  <1>1. /\ old \in Seq(Order) /\ DOMAIN old = 1 .. Len(old) /\ Len(old) \in Nat
        /\ \A i \in DOMAIN old, j \in DOMAIN old : old[i].owner = old[j].owner => i = j
    <2>1. old \in Seq(Order)
      BY TableTypes DEF Sound, Order
    <2>2. \A i \in DOMAIN old, j \in DOMAIN old : old[i].owner = old[j].owner => i = j
      BY DEF Sound, OrdersStand
    <2> HIDE DEF old
    <2> QED
      BY <2>1, <2>2
  <1>2. s \in D /\ Waits(0, s)
    <2>1. s \in D
      BY LeadsToSame DEF OrdersLead, Sound
    <2>2. Waits(0, s)
      OBVIOUS
    <2> QED
      BY <2>1, <2>2
  <1>3. ASSUME NEW i \in 1 .. max, NEW t \in D, Waits(i-1, t)
        PROVE  Step(i, t) \in D /\ Waits(i, Step(i, t))
    <2>1. OrdersLead(s, t) /\ Sound(t) /\ t \in Tables /\ t.pool.namebid_proceeds = 0
      BY DEF OrdersLead, Leads, Sound
    <2>2. CASE i <= Len(s.queue)
      <3>1. i \in DOMAIN old /\ i > i - 1
        BY <1>1, <2>2
      <3>2. PICK k \in DOMAIN t.queue : t.queue[k] = old[i]
        BY <1>3, <3>1
      <3> DEFINE u == OrderTried(t, old[i])
      <3>3. /\ OrdersLead(t, u)
            /\ \A j \in DOMAIN t.queue : t.queue[j].owner # old[i].owner =>
                 \E l \in DOMAIN u.queue : u.queue[l] = t.queue[j]
        <4> HIDE DEF old
        <4> QED
          BY <2>1, <3>2, OrderTriedLeads
      <3>4. Step(i, t) = u
        BY <2>2
      <3> HIDE DEF u
      <3>5. u \in D
        <4>1. OrdersLead(s, u)
          BY <2>1, <3>3, OrdersLeadTwice
        <4> QED
          BY <4>1 DEF OrdersLead, Leads, Sound
      <3>6. ASSUME NEW j \in DOMAIN old, j > i
            PROVE  \E l \in DOMAIN u.queue : u.queue[l] = old[j]
        <4>1. j > i - 1 /\ j # i
          BY <1>1, <3>1, <3>6
        <4>2. PICK m \in DOMAIN t.queue : t.queue[m] = old[j]
          BY <1>3, <4>1
        <4>3. old[j].owner # old[i].owner
          BY <1>1, <3>1, <4>1
        <4> QED
          BY <3>3, <4>2, <4>3
      <3> QED
        BY <3>4, <3>5, <3>6
    <2>3. CASE ~(i <= Len(s.queue))
      <3>1. Step(i, t) = t
        BY <2>3
      <3>2. Waits(i, t)
        BY <1>1, <2>3
      <3> HIDE DEF Step, Waits
      <3> QED
        BY <3>1, <3>2
    <2> QED
      BY <2>2, <2>3
  <1> HIDE DEF D, Waits, Step
  <1>4. Keeps(max, D, P, F) /\ s \in P[0]
    <2>1. P \in [0 .. max -> SUBSET D] /\ s \in P[0]
      BY <1>2
    <2>2. ASSUME NEW i \in 1 .. max, NEW x \in P[i-1]
          PROVE  F[<<i, x>>] \in P[i]
      <3>1. i - 1 \in 0 .. max /\ i \in 0 .. max
        OBVIOUS
      <3>2. x \in D /\ Waits(i-1, x)
        BY <3>1
      <3>3. F[<<i, x>>] = Step(i, x)
        BY <3>2
      <3> QED
        BY <1>3, <3>1, <3>2, <3>3
    <2> HIDE DEF P, F
    <2> QED
      BY <2>1, <2>2 DEF Keeps
  <1>5. PICK f \in [0 .. max -> D] :
          f[0] = s /\ \A i \in 1 .. max : f[i] = F[<<i, f[i-1]>>] /\ f[i-1] \in P[i-1] /\ f[i] \in P[i]
    <2> HIDE DEF P, F
    <2> QED
      BY <1>4, Loop
  <1>6. \A i \in 1 .. max : f[i-1] \in D /\ f[i] = Step(i, f[i-1])
    <2> TAKE i \in 1 .. max
    <2>1. f[i-1] \in D /\ f[i] = F[<<i, f[i-1]>>]
      <3>1. i - 1 \in 0 .. max
        OBVIOUS
      <3> HIDE DEF P, F
      <3> QED
        BY <1>5, <3>1
    <2> QED
      BY <2>1
  <1>7. f = Round(f)
    <2>1. \A i \in 0 .. max : f[i] = IF i = 0 THEN s ELSE Step(i, f[i-1])
      BY <1>5, <1>6
    <2> QED
      BY <2>1 DEF Step
  <1>8. After = Round(After)
    <2> HIDE DEF Round
    <2> QED
      BY <1>7
  <1>9. After[0] = s /\ \A i \in 1 .. max : After[i] = Step(i, After[i-1])
    <2> HIDE DEF After
    <2>1. After[0] = Round(After)[0] /\ 0 \in 0 .. max
      <3> HIDE DEF Round
      <3> QED
        BY <1>8
    <2>2. ASSUME NEW i \in 1 .. max
          PROVE  After[i] = Step(i, After[i-1])
      <3>1. After[i] = Round(After)[i] /\ i \in 0 .. max /\ i # 0
        <4> HIDE DEF Round
        <4> QED
          BY <1>8
      <3>2. Round(After)[i] = Step(i, After[i-1])
        BY <3>1 DEF Step
      <3> HIDE DEF Round
      <3> QED
        BY <3>1, <3>2
    <2> QED
      BY <2>1, <2>2
  <1>10. OrdersTried(s, max) = After[max]
    BY DEF OrdersTried
  <1> HIDE DEF After
  <1>11. After[max] = f[max]
    <2>1. After[0] = f[0] /\ \A i \in 1 .. max : After[i-1] = f[i-1] => After[i] = f[i]
      BY <1>5, <1>6, <1>9
    <2> QED
      BY <2>1, SameLoop
  <1>12. f[max] \in D
    BY <1>5
  <1> QED
    BY <1>10, <1>11, <1>12 DEF D

-----------------------------------------------------------------------------
(* runrex.                                                                 *)

\* What runrex keeps.
RunLeads(s, t) ==
  /\ Sound(t) /\ t.pool.namebid_proceeds = 0
  /\ NamebidTransfer(s) \in Nat /\ Owed(t) = Owed(s) + NamebidTransfer(s)
  /\ \A o \in Owners : VotesDue(t, o) = VotesDue(s, o)
  /\ PriceKept(s.pool.total_lendable, s.pool.total_rex, t.pool.total_lendable, t.pool.total_rex)
  /\ t.pool.exists = s.pool.exists
  /\ t.queue # << >> => s.queue # << >>
  /\ s.queue # << >> => LoansFollow(s, t)
  /\ Priced(s.pool) => /\ t.pool.total_rent > 0
                       /\ t.pool.total_lent >= KeptPart => t.pool.total_unlent > 0

\* The pool after returns, and after name bids.
GrownPool(p, due, bids) ==
  [p EXCEPT !.held = @ - due + bids, !.total_unlent = @ + due, !.total_lendable = @ + due,
            !.namebid_proceeds = 0]

TablesPooled(s, p) == [s EXCEPT !.pool = p]

LEMMA FeesCome ==
  ASSUME RexPoolConstants, NEW s, Sound(s), NEW due \in 0 .. s.pool.held,
         NEW t, t = NamebidsChannelled(Returned(s, due))
  PROVE  /\ Sound(t) /\ t.pool.namebid_proceeds = 0
         /\ NamebidTransfer(s) \in Nat /\ Owed(t) = Owed(s) + NamebidTransfer(s)
         /\ SameButPool(s, t)
         /\ PriceKept(s.pool.total_lendable, s.pool.total_rex, t.pool.total_lendable, t.pool.total_rex)
         /\ t.pool.exists = s.pool.exists
         /\ Priced(s.pool) => Priced(t.pool)
  <1> DEFINE bids == NamebidTransfer(s)
             old == s.pool
             p == GrownPool(s.pool, due, bids)
  <1>1. s \in Tables /\ old \in PoolRow
    BY TableTypes DEF Sound
  <1>2. /\ old.held \in Nat /\ old.total_unlent \in Nat /\ old.total_lent \in Nat /\ old.total_rent \in Nat
        /\ old.total_lendable \in Nat /\ old.total_rex \in Nat /\ old.namebid_proceeds \in Nat
        /\ due \in Nat /\ due <= old.held
    <2>1. /\ old.held \in Nat /\ old.total_unlent \in Nat /\ old.total_lent \in Nat /\ old.total_rent \in Nat
          /\ old.total_lendable \in Nat /\ old.total_rex \in Nat /\ old.namebid_proceeds \in Nat
      BY <1>1, PoolTypes
    <2> QED
      BY <2>1
  <1>3. bids \in Nat
    BY <1>2 DEF NamebidTransfer
  <1>4. t = TablesPooled(s, p)
    <2>1. NamebidTransfer(Returned(s, due)) = bids
      BY <1>1 DEF NamebidTransfer, Returned, rex_available, Tables, PoolRow
    <2> DEFINE u == Returned(s, due)
    <2>2. u = [s EXCEPT !.pool.held = @ - due, !.pool.total_unlent = @ + due, !.pool.total_lendable = @ + due]
      BY DEF Returned
    <2>3. t = [u EXCEPT !.pool.held = @ + bids, !.pool.namebid_proceeds = 0]
      BY <2>1 DEF NamebidsChannelled
    <2> DEFINE p1 == [old EXCEPT !.held = @ - due, !.total_unlent = @ + due, !.total_lendable = @ + due]
    <2> HIDE DEF u, bids
    <2>4. u = TablesPooled(s, p1)
      BY <1>1, <2>2 DEF TablesPooled, Tables, PoolRow
    <2>5. p = [p1 EXCEPT !.held = @ + bids, !.namebid_proceeds = 0]
      <3> HIDE DEF old
      <3> QED
        BY <1>1 DEF GrownPool, PoolRow, old
    <2>6. u.pool = p1
      <3> HIDE DEF p1, old
      <3> QED
        BY <1>1, <2>4 DEF TablesPooled, Tables
    <2>7. t = [u EXCEPT !.pool = p]
      <3> HIDE DEF p, p1
      <3> QED
        BY <2>3, <2>5, <2>6
    <2> HIDE DEF p, p1, old
    <2> QED
      BY <1>1, <2>4, <2>7 DEF TablesPooled, Tables
  <1> HIDE DEF bids
  <1>5. /\ p.exists = old.exists /\ p.total_rex = old.total_rex /\ p.total_lent = old.total_lent
        /\ p.total_rent = old.total_rent
        /\ p.total_unlent = old.total_unlent + due /\ p.total_lendable = old.total_lendable + due
        /\ p.namebid_proceeds = 0 /\ p.held = old.held - due + bids
    <2> HIDE DEF old
    <2> QED
      BY <1>1 DEF GrownPool, PoolRow, old
  <1>6. p \in PoolRow
    <2>1. /\ old.held - due + bids \in Nat /\ old.total_unlent + due \in Nat
          /\ old.total_lendable + due \in Nat
      BY <1>2, <1>3
    <2> QED
      BY <1>1, <2>1 DEF GrownPool, PoolRow
  <1> HIDE DEF p
  <1>7. /\ Sound(t) /\ t.pool = p /\ SameButPool(s, t)
        /\ Owed(t) = Owed(s) - (s.pool.total_lendable + s.pool.held) + (p.total_lendable + p.held)
    <2>1. p.total_lendable = p.total_lent + p.total_unlent
      <3>1. old.total_lendable = old.total_lent + old.total_unlent
        BY DEF Sound, TablesAddUp
      <3> QED
        BY <1>2, <1>5, <3>1
    <2>2. p.namebid_proceeds > 0 => s.pool.namebid_proceeds > 0 \/ rex_available(s)
      BY <1>5
    <2>3. t = [s EXCEPT !.pool = p]
      BY <1>4 DEF TablesPooled
    <2> QED
      BY <1>5, <1>6, <2>1, <2>2, <2>3, PoolChanged
  <1>8. Owed(t) = Owed(s) + bids
    <2>1. Owed(s) \in Nat
      BY <1>1, OwedIsNat
    <2>2. /\ p.total_lendable = old.total_lendable + due /\ p.held = old.held - due + bids
          /\ Owed(t) = Owed(s) - (old.total_lendable + old.held) + (p.total_lendable + p.held)
      BY <1>5, <1>7
    <2> HIDE DEF old
    <2> QED
      BY <1>2, <1>3, <2>1, <2>2
  <1>9. PriceKept(old.total_lendable, old.total_rex, t.pool.total_lendable, t.pool.total_rex)
    <2> DEFINE L == old.total_lendable
               R == old.total_rex
    <2>1. L \in Nat /\ R \in Nat /\ due \in Nat
      BY <1>2
    <2>2. t.pool.total_lendable = L + due /\ t.pool.total_rex = R
      BY <1>5, <1>7
    <2> HIDE DEF L, R
    <2>3. PriceKept(L, R, L + due, R)
      BY <2>1, ReturnsKeepPrice
    <2>4. PriceKept(L, R, t.pool.total_lendable, t.pool.total_rex)
      BY <2>2, <2>3
    <2> QED
      BY <2>4 DEF L, R
  <1>10. Priced(old) => Priced(t.pool)
    BY <1>2, <1>5, <1>7 DEF Priced
  <1> QED
    BY <1>3, <1>5, <1>7, <1>8, <1>9, <1>10 DEF bids, old

LEMMA RunRexLeads ==
  ASSUME RexPoolConstants, NEW s, Sound(s), NEW max \in Nat, NEW t \in RunRex(s, max)
  PROVE  RunLeads(s, t)
  <1>1. PICK due \in 0 .. s.pool.held :
          t = OrdersTried(AllProcessed(NamebidsChannelled(Returned(s, due)), max), max)
    BY DEF RunRex
  <1> DEFINE a == NamebidsChannelled(Returned(s, due))
             b == AllProcessed(a, max)
  <1>2. /\ Sound(a) /\ a.pool.namebid_proceeds = 0
        /\ NamebidTransfer(s) \in Nat /\ Owed(a) = Owed(s) + NamebidTransfer(s)
        /\ SameButPool(s, a)
        /\ PriceKept(s.pool.total_lendable, s.pool.total_rex, a.pool.total_lendable, a.pool.total_rex)
        /\ a.pool.exists = s.pool.exists
        /\ Priced(s.pool) => Priced(a.pool)
    <2>1. a = NamebidsChannelled(Returned(s, due))
      OBVIOUS
    <2> HIDE DEF a
    <2> QED
      BY <2>1, FeesCome
  <1> HIDE DEF a
  <1>3. LoansLead(a, b)
    BY <1>2, AllProcessedLead
  <1>4. t = OrdersTried(b, max)
    BY <1>1 DEF a
  <1> HIDE DEF b
  <1>5. Leads(a, b) /\ Sound(b) /\ b.pool.namebid_proceeds = 0
    BY <1>2, <1>3 DEF LoansLead, Leads
  <1>6. OrdersLead(b, t)
    BY <1>4, <1>5, OrdersTriedLead
  <1>7. Leads(a, t)
    <2>1. Leads(b, t)
      BY <1>6 DEF OrdersLead
    <2> QED
      BY <1>2, <1>5, <2>1, LeadsTwice
  <1>8. Leads(s, s) /\ s \in Tables /\ a \in Tables /\ t \in Tables
    BY <1>2, <1>7, LeadsToSame DEF Sound, Leads
  <1>9. PriceKept(s.pool.total_lendable, s.pool.total_rex, t.pool.total_lendable, t.pool.total_rex)
    <2>1. PriceKept(a.pool.total_lendable, a.pool.total_rex, t.pool.total_lendable, t.pool.total_rex)
      BY <1>7 DEF Leads
    <2> DEFINE L == s.pool.total_lendable
               R == s.pool.total_rex
               L1 == a.pool.total_lendable
               R1 == a.pool.total_rex
               L2 == t.pool.total_lendable
               R2 == t.pool.total_rex
    <2>2. \A x \in Tables : x.pool.total_lendable \in Nat /\ x.pool.total_rex \in Nat
      BY TableTypes, PoolTypes
    <2>3. L \in Nat /\ R \in Nat /\ L1 \in Nat /\ R1 \in Nat /\ L2 \in Nat /\ R2 \in Nat
      BY <1>8, <2>2
    <2>4. PriceKept(L, R, L1, R1) /\ PriceKept(L1, R1, L2, R2)
      BY <1>2, <2>1
    <2> HIDE DEF L, R, L1, R1, L2, R2
    <2>5. PriceKept(L, R, L2, R2)
      BY ONLY <2>3, <2>4, PriceKeptTwice
    <2> QED
      BY <2>5 DEF L, R, L2, R2
  <1>10. /\ t.queue # << >> => s.queue # << >>
         /\ s.queue # << >> => LoansFollow(s, t)
    <2>1. s.queue = a.queue /\ a.loans = s.loans
      BY <1>2 DEF SameButPool
    <2>2. t.queue # << >> => a.queue # << >>
      BY <1>7 DEF Leads
    <2>3. a.queue # << >> => LoansFollow(a, b)
      BY <1>3 DEF LoansLead, Leads
    <2>4. t.loans = b.loans
      BY <1>6 DEF OrdersLead
    <2> QED
      BY <2>1, <2>2, <2>3, <2>4 DEF LoansFollow
  <1>11. \A o \in Owners : VotesDue(t, o) = VotesDue(s, o)
    <2>1. \A o \in Owners : VotesDue(a, o) = VotesDue(s, o)
      BY <1>2 DEF SameButPool, VotesDue
    <2> QED
      BY <1>7, <2>1 DEF Leads
  <1>12. Priced(s.pool) => /\ t.pool.total_rent > 0
                           /\ t.pool.total_lent >= KeptPart => t.pool.total_unlent > 0
    <2> HAVE Priced(s.pool)
    <2>1. Priced(b.pool)
      BY <1>2, <1>3 DEF LoansLead
    <2> QED
      BY <1>6, <2>1 DEF OrdersLead, Priced
  <1>13. t.pool.namebid_proceeds = 0 /\ Owed(t) = Owed(s) + NamebidTransfer(s) /\ Sound(t)
         /\ t.pool.exists = s.pool.exists
    BY <1>2, <1>7 DEF Leads
  <1> QED
    BY <1>2, <1>9, <1>10, <1>11, <1>12, <1>13 DEF RunLeads

-----------------------------------------------------------------------------
(* What an action may do to the tables.                                    *)

\* It keeps the price of REX, the place of those who wait, and a price of loans.
FairStep(s, t) ==
  /\ rex_available(s) /\ rex_available(t) =>
       PriceKept(s.pool.total_lendable, s.pool.total_rex, t.pool.total_lendable, t.pool.total_rex)
  /\ s.queue # << >> /\ t.queue # << >> => LoansFollow(s, t)
  /\ Priced(s.pool) => /\ t.pool.total_rent > 0
                       /\ t.pool.total_lent >= KeptPart => t.pool.total_unlent > 0

\* Most actions leave the pool's numbers and the loans as they are.
LEMMA FairWithSamePool ==
  ASSUME NEW s, Sound(s), NEW t, t.loans = s.loans,
         t.pool.exists = s.pool.exists, t.pool.total_lendable = s.pool.total_lendable,
         t.pool.total_rex = s.pool.total_rex, t.pool.total_unlent = s.pool.total_unlent,
         t.pool.total_rent = s.pool.total_rent
  PROVE  FairStep(s, t)
  <1>1. s \in Tables
    BY DEF Sound
  <1>2. Leads(s, s)
    BY LeadsToSame
  <1>3. LoansFollow(s, t)
    BY <1>1, FollowSame
  <1> QED
    BY <1>2, <1>3 DEF Leads, FairStep, Priced

\* After runrex.
LEMMA FairAfterRun ==
  ASSUME NEW s, NEW t, RunLeads(s, t), NEW u, u.loans = t.loans,
         u.pool.total_lendable = t.pool.total_lendable,
         u.pool.total_rex = t.pool.total_rex, u.pool.total_unlent = t.pool.total_unlent,
         u.pool.total_rent = t.pool.total_rent, u.pool.total_lent = t.pool.total_lent
  PROVE  FairStep(s, u)
  <1>1. s.queue # << >> => LoansFollow(s, u)
    BY DEF RunLeads, LoansFollow
  <1> QED
    BY <1>1 DEF RunLeads, FairStep

\* Settled accounts.
AreSettled(s, o, x, t) ==
  /\ Sound(t) /\ Owed(t) = Owed(s) + x
  /\ t.pool = s.pool /\ t.owned = s.owned /\ t.vote_stake = s.vote_stake /\ t.has_row = s.has_row
  /\ t.queue = s.queue /\ t.loans = s.loans /\ t.rented = s.rented
  /\ t.proceeds[o] = 0 /\ t.stake_change[o] = 0
  /\ VotesDue(t, o) = s.vote_stake[o]
  /\ \A y \in Owners : y # o => VotesDue(t, y) = VotesDue(s, y)

LEMMA SettledIsSound ==
  ASSUME RexPoolConstants, NEW s, Sound(s), NEW o \in Owners, NEW x \in Nat, NEW t, t = Settled(s, o, x)
  PROVE  AreSettled(s, o, x, t)
  <1> DEFINE f == [s.fund EXCEPT ![o] = @ + x + s.proceeds[o]]
             pr == [s.proceeds EXCEPT ![o] = 0]
             sc == [s.stake_change EXCEPT ![o] = 0]
  <1>1. s \in Tables /\ s.fund \in [Owners -> Nat] /\ s.proceeds \in [Owners -> Nat]
        /\ s.stake_change \in [Owners -> Int] /\ s.vote_stake \in [Owners -> Nat] /\ s.queue \in Seq(Order)
    BY TableTypes DEF Sound, Order
  <1>2. s.fund[o] \in Nat /\ s.proceeds[o] \in Nat /\ s.fund[o] + x + s.proceeds[o] \in Nat
    BY <1>1
  <1>3. f \in [Owners -> Nat] /\ pr \in [Owners -> Nat] /\ sc \in [Owners -> Int]
    <2>1. f \in [Owners -> Nat]
      BY <1>1, <1>2
    <2>2. pr \in [Owners -> Nat]
      BY <1>1
    <2>3. sc \in [Owners -> Int]
      BY <1>1
    <2> QED
      BY <2>1, <2>2, <2>3
  <1>4. t = TablesPaid(s, f, pr, sc)
    BY <1>1 DEF Settled, TablesPaid, Tables
  <1>5. PaymentMakes(s, f, pr, sc, t)
    <2>1. ASSUME NEW i \in DOMAIN s.queue
          PROVE  pr[s.queue[i].owner] = 0 /\ sc[s.queue[i].owner] = 0
      <3>1. s.queue[i].owner \in Owners
        <4>1. s.queue[i] \in Order
          BY <1>1
        <4> QED
          BY <4>1 DEF Order
      <3>2. s.proceeds[s.queue[i].owner] = 0 /\ s.stake_change[s.queue[i].owner] = 0
        BY DEF Sound, OrdersStand
      <3> QED
        BY <1>1, <3>1, <3>2
    <2> HIDE DEF f, pr, sc
    <2> QED
      BY <1>3, <1>4, <2>1 DEF PaymentMakes
  <1>6. /\ Sound(t) /\ ArePaid(t, s, f, pr, sc)
        /\ Owed(t) = Owed(s) - (SumOf(s.fund) + SumOf(s.proceeds)) + (SumOf(f) + SumOf(pr))
    <2> HIDE DEF f, pr, sc
    <2> QED
      BY <1>5, PaymentChanged
  <1>7. Owed(t) = Owed(s) + x
    <2> DEFINE v == s.fund[o] + x + s.proceeds[o]
    <2>1. SumOf(s.fund) \in Nat /\ SumOf(f) = SumOf(s.fund) - s.fund[o] + v
      <3>1. v \in Nat /\ f = [s.fund EXCEPT ![o] = v]
        BY <1>2
      <3> HIDE DEF f, v
      <3> QED
        BY <1>1, <3>1, OwnerSums
    <2>2. SumOf(s.proceeds) \in Nat /\ SumOf(pr) = SumOf(s.proceeds) - s.proceeds[o]
      <3> DEFINE z == 0
                 old == s.proceeds
      <3>1. z \in Nat /\ old \in [Owners -> Nat] /\ IsReplaced(pr, old, o, z)
        BY <1>1 DEF IsReplaced
      <3> HIDE DEF pr, z, old
      <3>2. SumOf(old) \in Nat /\ SumOf(pr) = SumOf(old) - old[o] + z
        BY ONLY RexPoolConstants, o \in Owners, <3>1, OwnerReplaced
      <3>3. z = 0 /\ old = s.proceeds
        BY DEF z, old
      <3>4. old[o] \in Nat
        BY <3>1
      <3> QED
        BY ONLY <3>2, <3>3, <3>4
    <2>3. Owed(s) \in Nat
      BY <1>1, OwedIsNat
    <2> HIDE DEF f, pr, sc
    <2> QED
      BY <1>2, <1>6, <2>1, <2>2, <2>3
  <1>8. t.vote_stake = s.vote_stake /\ t.stake_change = sc
    BY <1>6 DEF ArePaid
  <1>9. VotesDue(t, o) = s.vote_stake[o]
    <2>1. sc[o] = 0 /\ s.vote_stake[o] \in Nat
      BY <1>1
    <2> HIDE DEF sc
    <2> QED
      BY <1>8, <2>1 DEF VotesDue
  <1>10. \A y \in Owners : y # o => VotesDue(t, y) = VotesDue(s, y)
    <2>1. \A y \in Owners : y # o => sc[y] = s.stake_change[y]
      BY <1>1
    <2> HIDE DEF sc
    <2> QED
      BY <1>8, <2>1 DEF VotesDue
  <1>11. pr[o] = 0 /\ sc[o] = 0
    BY <1>1
  <1>12. t.proceeds[o] = 0 /\ t.stake_change[o] = 0
    <2> HIDE DEF f, pr, sc
    <2> QED
      BY <1>6, <1>11 DEF ArePaid
  <1> HIDE DEF f, pr, sc
  <1> QED
    BY <1>6, <1>7, <1>9, <1>10, <1>12 DEF ArePaid, AreSettled

\* Funds are spent or filled.
TablesFunded(s, o, v) == TablesPaid(s, [s.fund EXCEPT ![o] = v], s.proceeds, s.stake_change)

AreFunded(s, o, v, t) ==
  /\ Sound(t) /\ Owed(t) = Owed(s) - s.fund[o] + v
  /\ t.pool = s.pool /\ t.owned = s.owned /\ t.vote_stake = s.vote_stake /\ t.has_row = s.has_row
  /\ t.queue = s.queue /\ t.loans = s.loans /\ t.rented = s.rented
  /\ t.proceeds = s.proceeds /\ t.stake_change = s.stake_change
  /\ \A y \in Owners : VotesDue(t, y) = VotesDue(s, y)

LEMMA FundsChanged ==
  ASSUME RexPoolConstants, NEW s, Sound(s), NEW o \in Owners, NEW v \in Nat, NEW t, t = TablesFunded(s, o, v)
  PROVE  AreFunded(s, o, v, t)
  <1> DEFINE f == [s.fund EXCEPT ![o] = v]
  <1>1. s \in Tables /\ s.fund \in [Owners -> Nat] /\ s.proceeds \in [Owners -> Nat]
        /\ s.stake_change \in [Owners -> Int]
    BY TableTypes DEF Sound
  <1>2. f \in [Owners -> Nat] /\ SumOf(f) = SumOf(s.fund) - s.fund[o] + v /\ s.fund[o] \in Nat
    BY <1>1, OwnerSums
  <1>3. t = TablesPaid(s, f, s.proceeds, s.stake_change)
    BY DEF TablesFunded
  <1> HIDE DEF f
  <1>4. PaymentMakes(s, f, s.proceeds, s.stake_change, t)
    <2>1. \A i \in DOMAIN s.queue : s.proceeds[s.queue[i].owner] = 0 /\ s.stake_change[s.queue[i].owner] = 0
      BY DEF Sound, OrdersStand
    <2> QED
      BY <1>1, <1>2, <1>3, <2>1 DEF PaymentMakes
  <1>5. /\ Sound(t) /\ ArePaid(t, s, f, s.proceeds, s.stake_change)
        /\ Owed(t) = Owed(s) - (SumOf(s.fund) + SumOf(s.proceeds)) + (SumOf(f) + SumOf(s.proceeds))
    BY <1>4, PaymentChanged
  <1>6. Owed(t) = Owed(s) - s.fund[o] + v
    <2>1. SumOf(s.fund) \in Nat /\ SumOf(s.proceeds) \in Nat /\ Owed(s) \in Nat
      BY <1>1, OwedIsNat
    <2> QED
      BY <1>2, <1>5, <2>1
  <1>7. \A y \in Owners : VotesDue(t, y) = VotesDue(s, y)
    BY <1>5 DEF ArePaid, VotesDue
  <1> QED
    BY <1>5, <1>6, <1>7 DEF ArePaid, AreFunded

-----------------------------------------------------------------------------
(* Actions.                                                                *)

\* What every state of the specification has.
PoolInv == TypeOK /\ Sound(rex) /\ vault >= Owed(rex)

\* What every action keeps; that the votes count all stake, where it passes
\* changes of stake on.
StepKeeps == PoolInv' /\ FairStep(rex, rex')
VotesKept == VoteStakeIsCounted => VoteStakeIsCounted'

\* The types of the variables but the tables.
OthersOK == tokens \in [Owners -> Nat] /\ vault \in Nat /\ delegated \in [Owners -> Nat] /\ staked \in [Owners -> Int]

LEMMA InvParts ==
  ASSUME RexPoolConstants, PoolInv
  PROVE  /\ Sound(rex) /\ rex \in Tables /\ vault >= Owed(rex) /\ Owed(rex) \in Nat /\ OthersOK
         /\ rex.pool \in PoolRow /\ rex.fund \in [Owners -> Nat] /\ rex.owned \in [Owners -> Nat]
         /\ rex.vote_stake \in [Owners -> Nat] /\ rex.proceeds \in [Owners -> Nat]
         /\ rex.stake_change \in [Owners -> Int]
  <1>1. Sound(rex) /\ rex \in Tables /\ vault >= Owed(rex) /\ OthersOK
    BY DEF PoolInv, TypeOK, OthersOK
  <1>2. Owed(rex) \in Nat
    BY <1>1, OwedIsNat
  <1> QED
    BY <1>1, <1>2, TableTypes

LEMMA StepMade ==
  ASSUME NEW t, rex' = t, Sound(t), FairStep(rex, t), OthersOK', vault' >= Owed(t)
  PROVE  StepKeeps
  BY DEF StepKeeps, PoolInv, TypeOK, OthersOK, Sound

\* The stake of an owner changes.
StakeMoves(o, c) ==
  c \in Int /\ staked' = [staked EXCEPT ![o] = @ + c] /\ staked' \in [Owners -> Int]

\* The votes of others stay, and that of an owner follows his stake.
LEMMA VotesFollow ==
  ASSUME RexPoolConstants, PoolInv, NEW t, rex' = t, Sound(t), NEW o \in Owners, NEW c, StakeMoves(o, c), delegated' = delegated,
         VotesDue(t, o) <= VotesDue(rex, o) + c,
         \A y \in Owners : y # o => VotesDue(t, y) = VotesDue(rex, y)
  PROVE  VotesKept
  <1> SUFFICES ASSUME VoteStakeIsCounted, NEW y \in Owners
               PROVE  staked'[y] + t.stake_change[y] >= delegated'[y] + t.vote_stake[y]
    BY DEF VotesKept, VoteStakeIsCounted
  <1>1. /\ staked \in [Owners -> Int] /\ delegated[y] \in Nat /\ staked[y] \in Int
        /\ rex.stake_change[y] \in Int /\ rex.vote_stake[y] \in Nat
    BY InvParts DEF OthersOK
  <1>2. t.stake_change[y] \in Int /\ t.vote_stake[y] \in Nat
    <2>1. t.stake_change \in [Owners -> Int] /\ t.vote_stake \in [Owners -> Nat]
      BY TableTypes DEF Sound
    <2> QED
      BY <2>1
  <1>3. staked[y] + rex.stake_change[y] >= delegated[y] + rex.vote_stake[y]
    BY DEF VoteStakeIsCounted
  <1>4. delegated'[y] = delegated[y] /\ c \in Int /\ staked'[y] = IF y = o THEN staked[y] + c ELSE staked[y]
    BY <1>1 DEF StakeMoves
  <1>5. t.vote_stake[y] - t.stake_change[y]
          <= rex.vote_stake[y] - rex.stake_change[y] + (IF y = o THEN c ELSE 0)
    <2>1. CASE y = o
      BY <2>1, <1>1, <1>2 DEF VotesDue
    <2>2. CASE y # o
      <3>1. t.vote_stake[y] - t.stake_change[y] = rex.vote_stake[y] - rex.stake_change[y]
        BY <2>2 DEF VotesDue
      <3> QED
        BY <3>1, <2>2, <1>1, <1>2
    <2> QED
      BY <2>1, <2>2
  <1> QED
    BY <1>1, <1>2, <1>3, <1>4, <1>5

\* Nobody's changes.
LEMMA VotesStay ==
  ASSUME RexPoolConstants, PoolInv, UNCHANGED <<staked, delegated>>, NEW t, rex' = t, Sound(t),
         \A y \in Owners : VotesDue(t, y) = VotesDue(rex, y)
  PROVE  VotesKept
  <1> SUFFICES ASSUME VoteStakeIsCounted, NEW y \in Owners
               PROVE  staked[y] + t.stake_change[y] >= delegated[y] + t.vote_stake[y]
    BY DEF VotesKept, VoteStakeIsCounted
  <1>1. /\ delegated[y] \in Nat /\ staked[y] \in Int
        /\ rex.stake_change[y] \in Int /\ rex.vote_stake[y] \in Nat
    BY InvParts DEF OthersOK
  <1>2. t.stake_change[y] \in Int /\ t.vote_stake[y] \in Nat
    <2>1. t.stake_change \in [Owners -> Int] /\ t.vote_stake \in [Owners -> Nat]
      BY TableTypes DEF Sound
    <2> QED
      BY <2>1
  <1>3. staked[y] + rex.stake_change[y] >= delegated[y] + rex.vote_stake[y]
    BY DEF VoteStakeIsCounted
  <1>4. t.vote_stake[y] - t.stake_change[y] = rex.vote_stake[y] - rex.stake_change[y]
    BY DEF VotesDue
  <1> QED
    BY <1>1, <1>2, <1>3, <1>4

LEMMA DepositStep ==
  ASSUME RexPoolConstants, PoolInv, NEW o \in Owners, NEW amount \in Transfers, Deposit(o, amount)
  PROVE  StepKeeps /\ VotesKept
  <1> DEFINE v == rex.fund[o] + amount
             t == rex'
  <1>1. amount \in Nat /\ rex.fund[o] \in Nat /\ v \in Nat /\ tokens[o] \in Nat /\ tokens \in [Owners -> Nat]
        /\ vault \in Nat /\ Owed(rex) \in Nat /\ vault >= Owed(rex) /\ Sound(rex) /\ rex \in Tables
    BY InvParts DEF RexPoolConstants, OthersOK
  <1>2. t = TablesFunded(rex, o, v) /\ rex' = t
    BY <1>1 DEF Deposit, TablesFunded, TablesPaid, Tables
  <1>3. v = rex.fund[o] + amount
    OBVIOUS
  <1> HIDE DEF v, t
  <1>4. AreFunded(rex, o, v, t)
    BY <1>1, <1>2, FundsChanged
  <1>5. OthersOK' /\ vault' = vault + amount
    <2>1. tokens' \in [Owners -> Nat]
      <3>1. tokens[o] - amount \in Nat
        BY <1>1 DEF Deposit
      <3> QED
        BY <1>1, <3>1 DEF Deposit
    <2> QED
      BY <1>1, <2>1, InvParts DEF Deposit, OthersOK
  <1>6. vault' >= Owed(t)
    BY <1>1, <1>3, <1>4, <1>5 DEF AreFunded
  <1>7. FairStep(rex, t)
    BY <1>1, <1>4, FairWithSamePool DEF AreFunded
  <1>8. VotesKept
    BY <1>2, <1>4, VotesStay DEF Deposit, AreFunded
  <1> QED
    BY <1>2, <1>4, <1>5, <1>6, <1>7, <1>8, StepMade DEF AreFunded

\* update_voting_power: the stake follows.
LEMMA StakedUpdated ==
  ASSUME RexPoolConstants, PoolInv, NEW s, Sound(s), NEW o \in Owners, NEW delta \in Int, NEW forced,
         UpdateStakedIf(forced, s, o, delta)
  PROVE  StakeMoves(o, delta + s.stake_change[o])
  <1>1. s.stake_change[o] \in Int
    <2>1. s.stake_change \in [Owners -> Int]
      BY TableTypes DEF Sound
    <2> QED
      BY <2>1
  <1>2. staked \in [Owners -> Int]
    BY InvParts DEF OthersOK
  <1>3. staked' = [staked EXCEPT ![o] = @ + (delta + s.stake_change[o])]
    BY DEF UpdateStakedIf
  <1>4. staked[o] + (delta + s.stake_change[o]) \in Int
    BY <1>1, <1>2
  <1> QED
    BY <1>1, <1>2, <1>3, <1>4 DEF StakeMoves

LEMMA WithdrawStep ==
  ASSUME RexPoolConstants, PoolInv, NEW o \in Owners, NEW amount \in Transfers, Withdraw(o, amount)
  PROVE  StepKeeps /\ VotesKept
  <1> DEFINE s == Settled(rex, o, 0)
             v == s.fund[o] - amount
             t == rex'
             c == 0 + rex.stake_change[o]
  <1>1. amount \in Nat /\ tokens[o] \in Nat /\ tokens \in [Owners -> Nat]
        /\ vault \in Nat /\ Owed(rex) \in Nat /\ vault >= Owed(rex) /\ Sound(rex)
    BY InvParts DEF RexPoolConstants, OthersOK
  <1>2. amount <= s.fund[o] /\ amount <= vault /\ rex' = t /\ v = s.fund[o] - amount
        /\ c = 0 + rex.stake_change[o]
    BY DEF Withdraw
  <1>3. t = [s EXCEPT !.fund[o] = @ - amount]
    BY DEF Withdraw
  <1>4. AreSettled(rex, o, 0, s)
    BY <1>1, SettledIsSound
  <1>5. UpdateStakedIf(FALSE, rex, o, 0)
    BY DEF Withdraw, UpdateStaked
  <1> HIDE DEF s, t, v, c
  <1>6. s \in Tables /\ s.fund[o] \in Nat /\ v \in Nat
    <2>1. s \in Tables /\ s.fund \in [Owners -> Nat]
      BY <1>4, TableTypes DEF AreSettled, Sound
    <2> QED
      BY <1>1, <1>2, <2>1
  <1>7. t = TablesFunded(s, o, v)
    BY <1>2, <1>3, <1>6 DEF TablesFunded, TablesPaid, Tables
  <1>8. AreFunded(s, o, v, t)
    <2>1. Sound(s)
      BY <1>4 DEF AreSettled
    <2> QED
      BY <1>6, <1>7, <2>1, FundsChanged
  <1>9. StakeMoves(o, c)
    <2>1. 0 \in Int /\ c = 0 + rex.stake_change[o]
      BY <1>2
    <2>2. StakeMoves(o, 0 + rex.stake_change[o])
      BY <1>1, <1>5, <2>1, StakedUpdated
    <2> QED
      BY <2>1, <2>2
  <1>10. OthersOK' /\ vault' = vault - amount
    <2>1. tokens' \in [Owners -> Nat]
      <3>1. tokens[o] + amount \in Nat
        BY <1>1
      <3> QED
        BY <1>1, <3>1 DEF Withdraw
    <2> QED
      BY <1>1, <1>2, <1>9, <2>1, InvParts DEF Withdraw, OthersOK, StakeMoves
  <1>11. vault' >= Owed(t)
    <2>1. Owed(t) = Owed(s) - s.fund[o] + v /\ Owed(s) = Owed(rex) + 0
      BY <1>4, <1>8 DEF AreSettled, AreFunded
    <2> QED
      BY <1>1, <1>2, <1>6, <1>10, <2>1
  <1>12. FairStep(rex, t)
    <2>1. t.loans = rex.loans /\ t.pool = rex.pool
      BY <1>4, <1>8 DEF AreSettled, AreFunded
    <2> QED
      BY <1>1, <2>1, FairWithSamePool
  <1>13. VotesKept
    <2>1. /\ VotesDue(t, o) = rex.vote_stake[o]
          /\ \A y \in Owners : y # o => VotesDue(t, y) = VotesDue(rex, y)
      BY <1>4, <1>8 DEF AreSettled, AreFunded
    <2>2. VotesDue(t, o) <= VotesDue(rex, o) + c
      <3>1. rex.vote_stake[o] \in Nat /\ rex.stake_change[o] \in Int
        BY InvParts
      <3> QED
        BY <1>2, <2>1, <3>1 DEF VotesDue
    <2>3. Sound(t) /\ delegated' = delegated
      BY <1>8 DEF AreFunded, Withdraw
    <2> QED
      BY <1>2, <1>9, <2>1, <2>2, <2>3, VotesFollow
  <1> QED
    BY <1>2, <1>8, <1>10, <1>11, <1>12, <1>13, StepMade DEF AreFunded

LEMMA PoolCancelRexOrderStep ==
  ASSUME RexPoolConstants, PoolInv, NEW o \in Owners, CancelRexOrder(o)
  PROVE  StepKeeps /\ VotesKept
  <1> DEFINE t == rex'
  <1>1. Sound(rex) /\ rex \in Tables /\ OthersOK /\ vault >= Owed(rex)
    BY InvParts
  <1>2. HasOrder(rex, o) /\ t = Cancelled(rex, o) /\ rex' = t
    BY <1>1 DEF CancelRexOrder, Cancelled, TablesQueued
  <1> HIDE DEF t
  <1>3. /\ Sound(t) /\ Owed(t) = Owed(rex) /\ t.pool = rex.pool /\ t.loans = rex.loans
        /\ t.vote_stake = rex.vote_stake /\ t.stake_change = rex.stake_change
    BY <1>1, <1>2, CancelledIsSound
  <1>4. FairStep(rex, t)
    BY <1>1, <1>3, FairWithSamePool
  <1>5. OthersOK' /\ vault' >= Owed(t)
    BY <1>1, <1>3 DEF CancelRexOrder, OthersOK
  <1>6. VotesKept
    <2>1. \A y \in Owners : VotesDue(t, y) = VotesDue(rex, y)
      BY <1>3 DEF VotesDue
    <2> QED
      BY <1>2, <1>3, <2>1, VotesStay DEF CancelRexOrder
  <1> QED
    BY <1>2, <1>3, <1>4, <1>5, <1>6, StepMade

\* Tokens come into the pool, or its rent is set.
PoolMoves(s, p, due, t) ==
  /\ p \in PoolRow /\ due \in Nat /\ t = TablesPooled(s, p)
  /\ p.exists = s.pool.exists /\ p.total_rex = s.pool.total_rex /\ p.total_lent = s.pool.total_lent
  /\ p.total_unlent = s.pool.total_unlent + due /\ p.total_lendable = s.pool.total_lendable + due
  /\ p.total_rent = s.pool.total_rent \/ p.total_rent > 0
  /\ p.namebid_proceeds > 0 => s.pool.namebid_proceeds > 0 \/ rex_available(s)

IsMoved(s, p, t) ==
  /\ Sound(t) /\ FairStep(s, t)
  /\ Owed(t) = Owed(s) - (s.pool.total_lendable + s.pool.held) + (p.total_lendable + p.held)
  /\ \A y \in Owners : VotesDue(t, y) = VotesDue(s, y)

LEMMA PoolMoved ==
  ASSUME RexPoolConstants, NEW s, Sound(s), NEW p, NEW due, NEW t, PoolMoves(s, p, due, t)
  PROVE  IsMoved(s, p, t)
  <1> DEFINE old == s.pool
  <1>1. s \in Tables /\ old \in PoolRow /\ p \in PoolRow /\ due \in Nat
    BY TableTypes DEF Sound, PoolMoves
  <1>2. /\ old.total_unlent \in Nat /\ old.total_lent \in Nat /\ old.total_rent \in Nat
        /\ old.total_lendable \in Nat /\ old.total_rex \in Nat
    BY <1>1, PoolTypes
  <1>3. /\ p.exists = old.exists /\ p.total_rex = old.total_rex /\ p.total_lent = old.total_lent
        /\ p.total_unlent = old.total_unlent + due /\ p.total_lendable = old.total_lendable + due
        /\ p.total_rent = old.total_rent \/ p.total_rent > 0
    BY DEF PoolMoves
  <1>4. /\ Sound(t) /\ t.pool = p /\ SameButPool(s, t)
        /\ Owed(t) = Owed(s) - (s.pool.total_lendable + s.pool.held) + (p.total_lendable + p.held)
    <2>1. p.total_lendable = p.total_lent + p.total_unlent
      <3>1. old.total_lendable = old.total_lent + old.total_unlent
        BY DEF Sound, TablesAddUp
      <3> QED
        BY <1>1, <1>2, <1>3, <3>1
    <2>2. p.namebid_proceeds > 0 => s.pool.namebid_proceeds > 0 \/ rex_available(s)
      BY DEF PoolMoves
    <2>3. t = [s EXCEPT !.pool = p]
      BY DEF PoolMoves, TablesPooled
    <2> QED
      BY <1>1, <1>3, <2>1, <2>2, <2>3, PoolChanged
  <1>5. PriceKept(old.total_lendable, old.total_rex, t.pool.total_lendable, t.pool.total_rex)
    <2> DEFINE L == old.total_lendable
               R == old.total_rex
    <2>1. L \in Nat /\ R \in Nat
      BY <1>2
    <2>2. t.pool.total_lendable = L + due /\ t.pool.total_rex = R
      BY <1>3, <1>4
    <2> HIDE DEF L, R
    <2>3. PriceKept(L, R, L + due, R)
      BY <1>1, <2>1, ReturnsKeepPrice
    <2>4. PriceKept(L, R, t.pool.total_lendable, t.pool.total_rex)
      BY <2>2, <2>3
    <2> QED
      BY <2>4 DEF L, R
  <1>6. Priced(old) => Priced(t.pool)
    BY <1>1, <1>2, <1>3, <1>4 DEF Priced
  <1>7. LoansFollow(s, t)
    BY <1>1, <1>4, FollowSame DEF SameButPool
  <1>8. \A y \in Owners : VotesDue(t, y) = VotesDue(s, y)
    BY <1>4 DEF VotesDue, SameButPool
  <1>9. FairStep(s, t)
    BY <1>5, <1>6, <1>7 DEF FairStep, Priced
  <1> QED
    BY <1>4, <1>8, <1>9 DEF IsMoved

LEMMA SetRexStep ==
  ASSUME RexPoolConstants, PoolInv, NEW amount \in Rents, SetRex(amount)
  PROVE  StepKeeps /\ VotesKept
  <1> DEFINE t == rex'
             p == [rex.pool EXCEPT !.total_rent = amount]
  <1>1. Sound(rex) /\ rex \in Tables /\ rex.pool \in PoolRow /\ OthersOK /\ vault >= Owed(rex)
        /\ Owed(rex) \in Nat /\ vault \in Nat
    BY InvParts DEF OthersOK
  <1>2. amount \in Nat \ {0}
    BY DEF RexPoolConstants
  <1>3. PoolMoves(rex, p, 0, t)
    <2>1. p \in PoolRow
      BY <1>1, <1>2 DEF PoolRow
    <2>2. t = TablesPooled(rex, p)
      BY <1>1 DEF SetRex, TablesPooled, Tables, PoolRow
    <2>3. /\ p.exists = rex.pool.exists /\ p.total_rex = rex.pool.total_rex /\ p.total_lent = rex.pool.total_lent
          /\ p.total_unlent = rex.pool.total_unlent /\ p.total_lendable = rex.pool.total_lendable
          /\ p.total_rent = amount /\ p.namebid_proceeds = rex.pool.namebid_proceeds
      BY <1>1 DEF PoolRow
    <2>4. /\ rex.pool.total_unlent = rex.pool.total_unlent + 0
          /\ rex.pool.total_lendable = rex.pool.total_lendable + 0
      BY <1>1, PoolTypes
    <2> HIDE DEF p, t
    <2> QED
      BY <1>2, <2>1, <2>2, <2>3, <2>4 DEF PoolMoves
  <1>4. p.total_lendable = rex.pool.total_lendable /\ p.held = rex.pool.held /\ rex' = t
    BY <1>1 DEF PoolRow
  <1> HIDE DEF t, p
  <1>5. IsMoved(rex, p, t)
    BY <1>1, <1>3, PoolMoved
  <1>6. Owed(t) = Owed(rex)
    <2>1. rex.pool.total_lendable \in Nat /\ rex.pool.held \in Nat
      BY <1>1, PoolTypes
    <2> QED
      BY <1>1, <1>4, <1>5, <2>1 DEF IsMoved
  <1>7. OthersOK' /\ vault' >= Owed(t)
    BY <1>1, <1>6 DEF SetRex, OthersOK
  <1>8. VotesKept
    BY <1>4, <1>5, VotesStay DEF SetRex, IsMoved
  <1> QED
    BY <1>4, <1>5, <1>7, <1>8, StepMade DEF IsMoved

LEMMA ChannelToRexStep ==
  ASSUME RexPoolConstants, PoolInv, NEW fee \in Fees, ChannelToRex(fee)
  PROVE  StepKeeps /\ VotesKept
  <1>1. Sound(rex) /\ rex \in Tables /\ rex.pool \in PoolRow /\ OthersOK /\ vault >= Owed(rex)
        /\ Owed(rex) \in Nat /\ vault \in Nat
    BY InvParts DEF OthersOK
  <1>2. fee \in Nat \ {0}
    BY DEF RexPoolConstants
  <1>3. PICK due \in 0 .. rex.pool.held : rex' = [Returned(rex, due) EXCEPT !.pool.held = @ + fee]
    BY DEF ChannelToRex
  <1> DEFINE t == rex'
             old == rex.pool
             p == [old EXCEPT !.held = (old.held - due) + fee, !.total_unlent = @ + due, !.total_lendable = @ + due]
  <1>4. old.held \in Nat /\ old.total_unlent \in Nat /\ old.total_lendable \in Nat
        /\ due \in Nat /\ due <= old.held
    <2>1. old.held \in Nat /\ old.total_unlent \in Nat /\ old.total_lendable \in Nat
      BY <1>1, PoolTypes
    <2> QED
      BY <2>1
  <1>5. t = TablesPooled(rex, p)
    <2> DEFINE u == Returned(rex, due)
               p1 == [old EXCEPT !.held = @ - due, !.total_unlent = @ + due, !.total_lendable = @ + due]
    <2>1. u = TablesPooled(rex, p1)
      BY <1>1 DEF Returned, TablesPooled, Tables, PoolRow
    <2>2. t = [u EXCEPT !.pool.held = @ + fee]
      BY <1>3
    <2> HIDE DEF u, t
    <2>3. p = [p1 EXCEPT !.held = @ + fee]
      <3> HIDE DEF old
      <3> QED
        BY <1>1 DEF PoolRow, old
    <2> HIDE DEF p1, p
    <2>4. u.pool = p1
      BY <1>1, <2>1 DEF TablesPooled, Tables
    <2>5. t = [u EXCEPT !.pool = p]
      BY <2>2, <2>3, <2>4
    <2> QED
      BY <1>1, <2>1, <2>5 DEF TablesPooled, Tables
  <1>6. /\ p.exists = old.exists /\ p.total_rex = old.total_rex /\ p.total_lent = old.total_lent
        /\ p.total_rent = old.total_rent /\ p.namebid_proceeds = old.namebid_proceeds
        /\ p.total_unlent = old.total_unlent + due /\ p.total_lendable = old.total_lendable + due
        /\ p.held = (old.held - due) + fee
    <2> HIDE DEF old
    <2> QED
      BY <1>1 DEF PoolRow, old
  <1>7. p \in PoolRow
    <2>1. (old.held - due) + fee \in Nat /\ old.total_unlent + due \in Nat /\ old.total_lendable + due \in Nat
      BY <1>2, <1>4
    <2> QED
      BY <1>1, <2>1 DEF PoolRow
  <1>8. rex' = t
    OBVIOUS
  <1> HIDE DEF t, p
  <1>9. IsMoved(rex, p, t)
    <2>1. PoolMoves(rex, p, due, t)
      BY <1>4, <1>5, <1>6, <1>7 DEF PoolMoves
    <2> QED
      BY <1>1, <2>1, PoolMoved
  <1>10. Owed(t) = Owed(rex) + fee
    <2>1. Owed(t) = Owed(rex) - (old.total_lendable + old.held) + (p.total_lendable + p.held)
      BY <1>9 DEF IsMoved
    <2>2. p.total_lendable = old.total_lendable + due /\ p.held = (old.held - due) + fee
      BY <1>6
    <2>3. fee \in Nat /\ Owed(rex) \in Nat
      BY <1>1, <1>2
    <2> HIDE DEF old
    <2> QED
      BY ONLY <1>4, <2>1, <2>2, <2>3
  <1>11. OthersOK' /\ vault' >= Owed(t)
    BY <1>1, <1>2, <1>10 DEF ChannelToRex, OthersOK
  <1>12. VotesKept
    BY <1>8, <1>9, VotesStay DEF ChannelToRex, IsMoved
  <1> QED
    BY <1>8, <1>9, <1>11, <1>12, StepMade DEF IsMoved

LEMMA ChannelNamebidToRexStep ==
  ASSUME RexPoolConstants, PoolInv, NEW bid \in Fees, ChannelNamebidToRex(bid)
  PROVE  StepKeeps /\ VotesKept
  <1> DEFINE t == rex'
             p == [rex.pool EXCEPT !.namebid_proceeds = @ + bid]
  <1>1. Sound(rex) /\ rex \in Tables /\ rex.pool \in PoolRow /\ OthersOK /\ vault >= Owed(rex)
        /\ Owed(rex) \in Nat /\ vault \in Nat
    BY InvParts DEF OthersOK
  <1>2. bid \in Nat /\ rex_available(rex)
    BY DEF RexPoolConstants, ChannelNamebidToRex
  <1>3. PoolMoves(rex, p, 0, t)
    <2>1. p \in PoolRow
      <3>1. rex.pool.namebid_proceeds + bid \in Nat
        BY <1>1, <1>2, PoolTypes
      <3> QED
        BY <1>1, <3>1 DEF PoolRow
    <2>2. t = TablesPooled(rex, p)
      BY <1>1 DEF ChannelNamebidToRex, TablesPooled, Tables, PoolRow
    <2>3. /\ p.exists = rex.pool.exists /\ p.total_rex = rex.pool.total_rex /\ p.total_lent = rex.pool.total_lent
          /\ p.total_unlent = rex.pool.total_unlent /\ p.total_lendable = rex.pool.total_lendable
          /\ p.total_rent = rex.pool.total_rent
      BY <1>1 DEF PoolRow
    <2>4. /\ rex.pool.total_unlent = rex.pool.total_unlent + 0
          /\ rex.pool.total_lendable = rex.pool.total_lendable + 0
      BY <1>1, PoolTypes
    <2> HIDE DEF p, t
    <2> QED
      BY <1>2, <2>1, <2>2, <2>3, <2>4 DEF PoolMoves
  <1>4. p.total_lendable = rex.pool.total_lendable /\ p.held = rex.pool.held /\ rex' = t
    BY <1>1 DEF PoolRow
  <1> HIDE DEF t, p
  <1>5. IsMoved(rex, p, t)
    BY <1>1, <1>3, PoolMoved
  <1>6. Owed(t) = Owed(rex)
    <2>1. rex.pool.total_lendable \in Nat /\ rex.pool.held \in Nat
      BY <1>1, PoolTypes
    <2> QED
      BY <1>1, <1>4, <1>5, <2>1 DEF IsMoved
  <1>7. OthersOK' /\ vault' >= Owed(t)
    BY <1>1, <1>6 DEF ChannelNamebidToRex, OthersOK
  <1>8. VotesKept
    BY <1>4, <1>5, VotesStay DEF ChannelNamebidToRex, IsMoved
  <1> QED
    BY <1>4, <1>5, <1>7, <1>8, StepMade DEF IsMoved

\* After runrex the pool and the loans stay, and nothing more is owed.
StaysAfterRun(s, t) == Sound(t) /\ t.loans = s.loans /\ t.pool = s.pool /\ Owed(t) = Owed(s)

LEMMA AfterRunStep ==
  ASSUME RexPoolConstants, PoolInv, NEW s, RunLeads(rex, s), NEW t, rex' = t, StaysAfterRun(s, t),
         vault' = VaultAfterRun, UNCHANGED <<tokens, delegated>>, staked' \in [Owners -> Int]
  PROVE  StepKeeps
  <1>1. OthersOK /\ vault >= Owed(rex) /\ Owed(rex) \in Nat /\ vault \in Nat
    BY InvParts DEF OthersOK
  <1>2. NamebidTransfer(rex) \in Nat /\ Owed(s) = Owed(rex) + NamebidTransfer(rex)
    BY DEF RunLeads
  <1>3. OthersOK' /\ vault' >= Owed(t)
    BY <1>1, <1>2 DEF VaultAfterRun, OthersOK, StaysAfterRun
  <1>4. FairStep(rex, t)
    BY FairAfterRun DEF StaysAfterRun
  <1> QED
    BY <1>3, <1>4, StepMade DEF StaysAfterRun

\* The tables of runrex in this state.
LEMMA RunOfRex ==
  ASSUME RexPoolConstants, PoolInv, NEW max \in Nat, NEW s \in RunRex(rex, max)
  PROVE  RunLeads(rex, s) /\ Sound(s)
  <1>1. Sound(rex)
    BY InvParts
  <1>2. RunLeads(rex, s)
    BY <1>1, RunRexLeads
  <1> QED
    BY <1>2 DEF RunLeads

LEMMA RexExecStep ==
  ASSUME RexPoolConstants, PoolInv, NEW max \in MaxRuns, RexExec(max)
  PROVE  StepKeeps /\ VotesKept
  <1>1. max \in Nat
    BY DEF RexPoolConstants
  <1> DEFINE t == rex'
  <1>2. t \in RunRex(rex, max) /\ rex' = t
    BY DEF RexExec
  <1> HIDE DEF t
  <1>3. RunLeads(rex, t) /\ Sound(t)
    BY <1>1, <1>2, RunOfRex
  <1>4. StaysAfterRun(t, t)
    BY <1>3 DEF StaysAfterRun
  <1>5. vault' = VaultAfterRun /\ UNCHANGED <<tokens, delegated>> /\ staked' \in [Owners -> Int]
    BY InvParts DEF RexExec, OthersOK
  <1>6. VotesKept
    BY <1>2, <1>3, VotesStay DEF RexExec, RunLeads
  <1> QED
    BY <1>2, <1>3, <1>4, <1>5, <1>6, AfterRunStep

\* The votes after runrex, once an owner's account is settled.
LEMMA VotesAfterRun ==
  ASSUME RexPoolConstants, PoolInv, NEW s, RunLeads(rex, s), NEW o \in Owners, NEW delta \in Int,
         StakeMoves(o, delta + s.stake_change[o]), delegated' = delegated, NEW t, rex' = t, Sound(t),
         VotesDue(t, o) <= s.vote_stake[o] + delta,
         \A y \in Owners : y # o => VotesDue(t, y) = VotesDue(s, y)
  PROVE  VotesKept
  <1> DEFINE c == delta + s.stake_change[o]
  <1>1. \A y \in Owners : VotesDue(s, y) = VotesDue(rex, y)
    BY DEF RunLeads
  <1>2. VotesDue(t, o) <= VotesDue(rex, o) + c
    <2>1. s.vote_stake[o] \in Nat /\ s.stake_change[o] \in Int /\ VotesDue(t, o) \in Int
      <3>1. s.vote_stake \in [Owners -> Nat] /\ s.stake_change \in [Owners -> Int]
        BY TableTypes DEF RunLeads, Sound
      <3>2. t.vote_stake \in [Owners -> Nat] /\ t.stake_change \in [Owners -> Int]
        BY TableTypes DEF Sound
      <3> QED
        BY <3>1, <3>2 DEF VotesDue
    <2>2. VotesDue(rex, o) = s.vote_stake[o] - s.stake_change[o]
      BY <1>1 DEF VotesDue
    <2> QED
      BY <2>1, <2>2
  <1>3. StakeMoves(o, c)
    OBVIOUS
  <1> HIDE DEF c
  <1> QED
    BY <1>1, <1>2, <1>3, VotesFollow

LEMMA MaintainStep ==
  ASSUME RexPoolConstants, PoolInv, NEW o \in Owners, Maintain(o)
  PROVE  StepKeeps /\ VotesKept
  <1>1. PICK s \in RunRex(rex, 2) : UpdateStaked(s, o, 0) /\ rex' = Settled(s, o, 0)
    BY DEF Maintain
  <1>2. RunLeads(rex, s) /\ Sound(s)
    <2>1. 2 \in Nat
      OBVIOUS
    <2> QED
      BY <2>1, RunOfRex
  <1> DEFINE t == rex'
  <1>3. t = Settled(s, o, 0) /\ rex' = t /\ 0 \in Nat /\ 0 \in Int
    BY <1>1
  <1> HIDE DEF t
  <1>4. AreSettled(s, o, 0, t)
    BY <1>2, <1>3, SettledIsSound
  <1>5. StakeMoves(o, 0 + s.stake_change[o])
    BY <1>1, <1>2, <1>3, StakedUpdated DEF UpdateStaked
  <1>6. StaysAfterRun(s, t)
    <2>1. Owed(s) \in Nat
      BY <1>2, OwedIsNat DEF Sound
    <2>2. Owed(t) = Owed(s)
      BY <1>4, <2>1 DEF AreSettled
    <2> QED
      BY <1>4, <2>2 DEF AreSettled, StaysAfterRun
  <1>7. vault' = VaultAfterRun /\ UNCHANGED <<tokens, delegated>> /\ staked' \in [Owners -> Int]
    BY <1>5 DEF Maintain, StakeMoves
  <1>8. VotesKept
    <2>1. VotesDue(t, o) <= s.vote_stake[o] + 0
      <3>1. s.vote_stake[o] \in Nat
        <4>1. s.vote_stake \in [Owners -> Nat]
          BY <1>2, TableTypes DEF Sound
        <4> QED
          BY <4>1
      <3> QED
        BY <1>4, <3>1 DEF AreSettled
    <2>2. Sound(t) /\ \A y \in Owners : y # o => VotesDue(t, y) = VotesDue(s, y)
      BY <1>4 DEF AreSettled
    <2> QED
      BY <1>2, <1>3, <1>5, <1>7, <2>1, <2>2, VotesAfterRun
  <1> QED
    BY <1>2, <1>3, <1>6, <1>7, <1>8, AfterRunStep

\* The votes are counted anew, or a row is closed.
TablesVoted(s, v, h) == TablesTraded(s, s.pool, s.owned, v, h)

AreVoted(s, v, t) ==
  /\ Sound(t) /\ Owed(t) = Owed(s) /\ t.pool = s.pool /\ t.loans = s.loans /\ t.owned = s.owned
  /\ t.fund = s.fund /\ t.queue = s.queue /\ t.proceeds = s.proceeds
  /\ t.vote_stake = v /\ t.stake_change = s.stake_change

LEMMA VotesSet ==
  ASSUME RexPoolConstants, NEW s, Sound(s), NEW v, NEW h, v \in [Owners -> Nat], h \in SUBSET Owners,
         NEW t, t = TablesVoted(s, v, h)
  PROVE  AreVoted(s, v, t)
  <1> DEFINE p == s.pool
             w == s.owned
  <1>1. s \in Tables /\ p \in PoolRow /\ w \in [Owners -> Nat]
    BY TableTypes DEF Sound
  <1>2. /\ p.total_rex \in Nat /\ p.total_rex = SumOf(w) /\ p.total_lendable = p.total_lent + p.total_unlent
        /\ p.total_rex > 0 => p.exists
        /\ p.total_rex = 0 => p.total_lent = 0
        /\ p.namebid_proceeds > 0 => p.exists /\ p.total_rex > 0
    BY <1>1, PoolTypes DEF Sound, TablesAddUp, PoolStands, NamebidsHaveOwners, rex_available
  <1>3. \A i \in DOMAIN s.queue : s.queue[i].rex <= w[s.queue[i].owner]
    BY DEF Sound, OrdersStand
  <1>4. t = TablesTraded(s, p, w, v, h)
    BY DEF TablesVoted
  <1>5. TradeMakes(s, p, w, v, h, t)
    <2>1. p.total_lent = s.pool.total_lent
      OBVIOUS
    <2> HIDE DEF p, w
    <2> QED
      BY <1>1, <1>2, <1>3, <1>4, <2>1 DEF TradeMakes
  <1>6. /\ Sound(t) /\ AreTraded(t, s, p, w, v, h)
        /\ Owed(t) = Owed(s) - (s.pool.total_lendable + s.pool.held) + (p.total_lendable + p.held)
    <2> HIDE DEF p, w
    <2> QED
      BY <1>5, TradeChanged
  <1>7. Owed(t) = Owed(s)
    <2>1. Owed(s) \in Nat /\ p.total_lendable \in Nat /\ p.held \in Nat
      BY <1>1, OwedIsNat, PoolTypes
    <2> QED
      BY <1>6, <2>1
  <1> QED
    BY <1>6, <1>7 DEF AreTraded, AreVoted

\* The value of all REX of an owner.
LEMMA ValueIsNat ==
  ASSUME RexPoolConstants, NEW s, Sound(s), NEW o \in Owners
  PROVE  /\ CurrentStake(s, o) \in Nat
         /\ s.pool.total_rex > 0 => ValueOf(s, s.owned[o]) \in Nat
  <1>1. s.owned[o] \in Nat /\ s.pool.total_lendable \in Nat /\ s.pool.total_rex \in Nat
    <2>1. s.owned \in [Owners -> Nat] /\ s.pool \in PoolRow
      BY TableTypes DEF Sound
    <2> QED
      BY <2>1, PoolTypes
  <1>2. ASSUME s.pool.total_rex > 0
        PROVE  ValueOf(s, s.owned[o]) \in Nat
    <2> DEFINE n == s.owned[o] * s.pool.total_lendable
               d == s.pool.total_rex
    <2>1. n \in Nat /\ d \in Nat \ {0}
      BY <1>1, <1>2, ProductIsNat
    <2> HIDE DEF n, d
    <2>2. n \div d \in Nat
      BY <2>1, DivisionBounds
    <2> QED
      BY <2>2 DEF ValueOf, n, d
  <1> QED
    BY <1>2 DEF CurrentStake

LEMMA UpdateRexStep ==
  ASSUME RexPoolConstants, PoolInv, NEW o \in Owners, UpdateRex(o)
  PROVE  StepKeeps /\ VotesKept
  <1> DEFINE Set(s) == [s EXCEPT !.vote_stake[o] = CurrentStake(s, o)]
  <1>1. PICK s \in RunRex(rex, 2) : /\ UpdateStakedIf(TRUE, Set(s), o, Set(s).vote_stake[o] - s.vote_stake[o])
                                    /\ rex' = Settled(Set(s), o, 0)
    BY DEF UpdateRex
  <1>2. RunLeads(rex, s) /\ Sound(s)
    <2>1. 2 \in Nat
      OBVIOUS
    <2> QED
      BY <2>1, RunOfRex
  <1> DEFINE t == rex'
             u == Set(s)
             v == [s.vote_stake EXCEPT ![o] = CurrentStake(s, o)]
             delta == u.vote_stake[o] - s.vote_stake[o]
  <1>3. s \in Tables /\ s.vote_stake \in [Owners -> Nat] /\ s.has_row \in SUBSET Owners
    BY <1>2, TableTypes DEF Sound
  <1>4. u = TablesVoted(s, v, s.has_row)
    BY <1>3 DEF TablesVoted, TablesTraded, Tables
  <1>5. v \in [Owners -> Nat] /\ v[o] \in Nat /\ \A y \in Owners : y # o => v[y] = s.vote_stake[y]
    BY <1>2, <1>3, ValueIsNat
  <1>6. t = Settled(u, o, 0) /\ rex' = t /\ 0 \in Nat
    BY <1>1
  <1>7. UpdateStakedIf(TRUE, u, o, delta) /\ delta = u.vote_stake[o] - s.vote_stake[o]
    BY <1>1
  <1> HIDE DEF t, u, v, Set, delta
  <1>8. AreVoted(s, v, u)
    BY <1>2, <1>3, <1>4, <1>5, VotesSet
  <1>9. AreSettled(u, o, 0, t)
    <2>1. Sound(u)
      BY <1>8 DEF AreVoted
    <2> QED
      BY <1>6, <2>1, SettledIsSound
  <1>10. delta \in Int /\ delta = v[o] - s.vote_stake[o] /\ s.vote_stake[o] \in Nat
    BY <1>3, <1>5, <1>7, <1>8 DEF AreVoted
  <1>11. StakeMoves(o, delta + s.stake_change[o])
    <2>1. Sound(u) /\ u.stake_change = s.stake_change
      BY <1>8 DEF AreVoted
    <2>2. StakeMoves(o, delta + u.stake_change[o])
      BY <1>7, <1>10, <2>1, StakedUpdated
    <2> QED
      BY <2>1, <2>2
  <1>12. StaysAfterRun(s, t)
    <2>1. Owed(s) \in Nat
      BY <1>2, OwedIsNat DEF Sound
    <2>2. Owed(t) = Owed(s)
      BY <1>8, <1>9, <2>1 DEF AreSettled, AreVoted
    <2> QED
      BY <1>8, <1>9, <2>2 DEF AreSettled, AreVoted, StaysAfterRun
  <1>13. vault' = VaultAfterRun /\ UNCHANGED <<tokens, delegated>> /\ staked' \in [Owners -> Int]
    BY <1>11 DEF UpdateRex, StakeMoves
  <1>14. VotesKept
    <2>1. VotesDue(t, o) <= s.vote_stake[o] + delta
      <3>1. VotesDue(t, o) = v[o]
        BY <1>8, <1>9 DEF AreSettled, AreVoted
      <3> QED
        BY <1>5, <1>10, <3>1
    <2>2. \A y \in Owners : y # o => VotesDue(t, y) = VotesDue(s, y)
      <3>1. \A y \in Owners : y # o => VotesDue(u, y) = VotesDue(s, y)
        BY <1>5, <1>8 DEF AreVoted, VotesDue
      <3> QED
        BY <1>9, <3>1 DEF AreSettled
    <2>3. Sound(t)
      BY <1>9 DEF AreSettled
    <2> QED
      BY <1>2, <1>6, <1>10, <1>11, <1>13, <2>1, <2>2, <2>3, VotesAfterRun
  <1> QED
    BY <1>2, <1>6, <1>12, <1>13, <1>14, AfterRunStep

LEMMA CloseRexStep ==
  ASSUME RexPoolConstants, PoolInv, NEW o \in Owners, CloseRex(o)
  PROVE  StepKeeps /\ VotesKept
  <1>1. PICK s \in RunRex(rex, 2) :
          /\ UpdateStaked(s, o, 0)
          /\ rex' = [Settled(s, o, 0) EXCEPT !.has_row = @ \ {o}, !.vote_stake[o] = 0]
    BY DEF CloseRex
  <1>2. RunLeads(rex, s) /\ Sound(s)
    <2>1. 2 \in Nat
      OBVIOUS
    <2> QED
      BY <2>1, RunOfRex
  <1> DEFINE t == rex'
             u == Settled(s, o, 0)
             v == [u.vote_stake EXCEPT ![o] = 0]
             h == u.has_row \ {o}
  <1>3. t = [u EXCEPT !.has_row = @ \ {o}, !.vote_stake[o] = 0] /\ rex' = t
    BY <1>1
  <1>4. AreSettled(s, o, 0, u)
    <2>1. u = Settled(s, o, 0) /\ 0 \in Nat
      OBVIOUS
    <2> HIDE DEF u
    <2> QED
      BY <1>2, <2>1, SettledIsSound
  <1> HIDE DEF u, t
  <1>5. u \in Tables /\ u.vote_stake \in [Owners -> Nat] /\ u.has_row \in SUBSET Owners
    BY <1>4, TableTypes DEF Sound, AreSettled
  <1>6. t = TablesVoted(u, v, h)
    BY <1>3, <1>5 DEF TablesVoted, TablesTraded, Tables
  <1>7. v \in [Owners -> Nat] /\ v[o] = 0 /\ h \in SUBSET Owners
        /\ \A y \in Owners : y # o => v[y] = u.vote_stake[y]
    BY <1>5
  <1> HIDE DEF v, h
  <1>8. AreVoted(u, v, t)
    <2>1. Sound(u)
      BY <1>4 DEF AreSettled
    <2> QED
      BY <1>6, <1>7, <2>1, VotesSet
  <1>9. StakeMoves(o, 0 + s.stake_change[o])
    <2>1. 0 \in Int
      OBVIOUS
    <2> QED
      BY <1>1, <1>2, <2>1, StakedUpdated DEF UpdateStaked
  <1>10. StaysAfterRun(s, t)
    <2>1. Owed(s) \in Nat
      BY <1>2, OwedIsNat DEF Sound
    <2>2. Owed(t) = Owed(s)
      BY <1>4, <1>8, <2>1 DEF AreSettled, AreVoted
    <2> QED
      BY <1>4, <1>8, <2>2 DEF AreSettled, AreVoted, StaysAfterRun
  <1>11. vault' = VaultAfterRun /\ UNCHANGED <<tokens, delegated>> /\ staked' \in [Owners -> Int]
    BY <1>9 DEF CloseRex, StakeMoves
  <1>12. VotesKept
    <2>1. VotesDue(t, o) <= s.vote_stake[o] + 0
      <3>1. s.vote_stake[o] \in Nat
        <4>1. s.vote_stake \in [Owners -> Nat]
          BY <1>2, TableTypes DEF Sound
        <4> QED
          BY <4>1
      <3>2. t.vote_stake[o] = 0 /\ t.stake_change[o] = 0
        BY <1>4, <1>7, <1>8 DEF AreSettled, AreVoted
      <3> QED
        BY <3>1, <3>2 DEF VotesDue
    <2>2. \A y \in Owners : y # o => VotesDue(t, y) = VotesDue(s, y)
      <3>1. \A y \in Owners : y # o => VotesDue(t, y) = VotesDue(u, y)
        BY <1>7, <1>8 DEF AreVoted, VotesDue
      <3> QED
        BY <1>4, <3>1 DEF AreSettled
    <2>3. Sound(t) /\ 0 \in Int
      BY <1>8 DEF AreVoted
    <2> QED
      BY <1>2, <1>3, <1>9, <1>11, <2>1, <2>2, <2>3, VotesAfterRun
  <1> QED
    BY <1>2, <1>3, <1>10, <1>11, <1>12, AfterRunStep

LEMMA UpdateRexStakeStep ==
  ASSUME RexPoolConstants, PoolInv, NEW o \in Owners, UpdateRexStake(o)
  PROVE  StepKeeps /\ VotesKept
  <1> DEFINE t == rex'
             x == ValueOf(rex, rex.owned[o])
             v == [rex.vote_stake EXCEPT ![o] = x]
             c == x - rex.vote_stake[o]
  <1>1. Sound(rex) /\ rex \in Tables /\ rex.vote_stake \in [Owners -> Nat] /\ rex.has_row \in SUBSET Owners
        /\ OthersOK /\ vault >= Owed(rex)
    BY InvParts, TableTypes DEF Sound
  <1>2. x \in Nat
    BY <1>1, ValueIsNat DEF UpdateRexStake, rex_available
  <1>3. t = TablesVoted(rex, v, rex.has_row) /\ rex' = t
    BY <1>1 DEF UpdateRexStake, TablesVoted, TablesTraded, Tables
  <1>4. staked' = [staked EXCEPT ![o] = @ + x - rex.vote_stake[o]]
    BY DEF UpdateRexStake
  <1> HIDE DEF x
  <1>5. v \in [Owners -> Nat] /\ v[o] = x /\ \A y \in Owners : y # o => v[y] = rex.vote_stake[y]
    BY <1>1, <1>2
  <1>6. StakeMoves(o, c)
    <2>1. staked \in [Owners -> Int] /\ staked[o] \in Int /\ rex.vote_stake[o] \in Nat
      BY <1>1 DEF OthersOK
    <2>2. c \in Int /\ staked[o] + c \in Int /\ staked[o] + c = staked[o] + x - rex.vote_stake[o]
      BY <1>2, <2>1
    <2>3. staked' = [staked EXCEPT ![o] = @ + c]
      BY <1>4, <2>1, <2>2
    <2> HIDE DEF c
    <2> QED
      BY <2>1, <2>2, <2>3 DEF StakeMoves
  <1> HIDE DEF t, v
  <1>7. AreVoted(rex, v, t)
    BY <1>1, <1>3, <1>5, VotesSet
  <1>8. FairStep(rex, t)
    BY <1>1, <1>7, FairWithSamePool DEF AreVoted
  <1>9. OthersOK' /\ vault' >= Owed(t)
    BY <1>1, <1>6, <1>7 DEF UpdateRexStake, OthersOK, AreVoted, StakeMoves
  <1>10. VotesKept
    <2>1. VotesDue(t, o) <= VotesDue(rex, o) + c
      <3>1. rex.vote_stake[o] \in Nat /\ rex.stake_change[o] \in Int
        BY InvParts
      <3>2. VotesDue(t, o) = x - rex.stake_change[o] /\ VotesDue(rex, o) = rex.vote_stake[o] - rex.stake_change[o]
        BY <1>5, <1>7 DEF VotesDue, AreVoted
      <3> QED
        BY <1>2, <3>1, <3>2
    <2>2. \A y \in Owners : y # o => VotesDue(t, y) = VotesDue(rex, y)
      BY <1>5, <1>7 DEF VotesDue, AreVoted
    <2>3. Sound(t) /\ delegated' = delegated
      BY <1>7 DEF AreVoted, UpdateRexStake
    <2> HIDE DEF c
    <2> QED
      BY <1>3, <1>6, <2>1, <2>2, <2>3, VotesFollow
  <1> QED
    BY <1>3, <1>7, <1>8, <1>9, <1>10, StepMade DEF AreVoted

\* A purchase: the pool and the owner gain REX, at no cost of the others.
IsBought(s, o, payment, t) ==
  /\ Sound(t) /\ Owed(t) <= Owed(s) + payment
  /\ t.fund = s.fund /\ t.queue = s.queue /\ t.proceeds = s.proceeds
  /\ t.stake_change = s.stake_change /\ t.loans = s.loans
  /\ \A y \in Owners : y # o => t.vote_stake[y] = s.vote_stake[y]
  /\ rex_available(s) =>
       PriceKept(s.pool.total_lendable, s.pool.total_rex, t.pool.total_lendable, t.pool.total_rex)
  /\ Priced(t.pool) \/ ~Priced(s.pool)

\* The pool after it.
LEMMA PoolGrows ==
  ASSUME RexPoolConstants, NEW s, Sound(s), NEW payment \in Nat \ {0},
         rex_available(s) => s.pool.total_lendable > 0, NEW p, p = AddedToPool(s, payment)
  PROVE  /\ p \in PoolRow /\ p.exists /\ p.total_rex > 0
         /\ Received(s, payment) \in Nat /\ p.total_rex = s.pool.total_rex + Received(s, payment)
         /\ p.total_lent = s.pool.total_lent /\ p.total_lendable = p.total_lent + p.total_unlent
         /\ p.total_lendable <= s.pool.total_lendable + payment /\ p.held = s.pool.held
         /\ rex_available(s) =>
              PriceKept(s.pool.total_lendable, s.pool.total_rex, p.total_lendable, p.total_rex)
         /\ Priced(s.pool) => Priced(p)
  <1> DEFINE old == s.pool
  <1>1. old \in PoolRow
    BY TableTypes DEF Sound
  <1>2. /\ old.exists \in BOOLEAN /\ old.total_lent \in Nat /\ old.total_unlent \in Nat /\ old.total_rent \in Nat
        /\ old.total_lendable \in Nat /\ old.total_rex \in Nat /\ old.held \in Nat
    BY <1>1, PoolTypes
  <1>3. /\ old.total_lendable = old.total_lent + old.total_unlent
        /\ old.total_rex > 0 => old.exists
        /\ old.total_rex = 0 => old.total_lent = 0
    BY DEF Sound, TablesAddUp, PoolStands
  <1>4. CASE rex_available(s)
    <2> DEFINE L == old.total_lendable
               R == old.total_rex
               g == GrownRex(old, payment)
    <2>1. L \in Nat \ {0} /\ R \in Nat \ {0} /\ payment \in Nat
      BY <1>2, <1>4 DEF rex_available
    <2>2. g = (R * (L + payment)) \div L
      BY DEF GrownRex
    <2>3. p = [old EXCEPT !.total_lendable = @ + payment, !.total_unlent = @ + payment, !.total_rex = g]
      BY <1>4 DEF AddedToPool
    <2> HIDE DEF g
    <2>4. L + payment \in Nat /\ old.total_unlent + payment \in Nat
      BY <1>2, <2>1
    <2> HIDE DEF L, R
    <2>5. g \in Nat /\ g >= R /\ PriceKept(L, R, L + payment, g)
      BY <2>1, <2>2, PurchaseKeepsPrice
    <2>6. /\ p \in PoolRow /\ p.exists = old.exists /\ p.total_rex = g /\ p.total_lent = old.total_lent
          /\ p.total_unlent = old.total_unlent + payment /\ p.total_lendable = L + payment /\ p.held = old.held
          /\ p.total_rent = old.total_rent
      <3> HIDE DEF old
      <3> QED
        BY <1>1, <2>3, <2>4, <2>5 DEF PoolRow, L
    <2>7. Received(s, payment) = g - R
      BY <1>4 DEF Received, g, R
    <2>8. p.total_rex > 0 /\ g - R \in Nat /\ p.total_rex = R + (g - R)
      BY <2>1, <2>5, <2>6
    <2>9. p.total_lendable = p.total_lent + p.total_unlent
      BY <1>2, <1>3, <2>1, <2>6 DEF L
    <2>10. p.exists
      BY <1>4, <2>6 DEF rex_available
    <2>11. Priced(old) => Priced(p)
      BY <1>2, <2>1, <2>6 DEF Priced
    <2>12. PriceKept(old.total_lendable, old.total_rex, p.total_lendable, p.total_rex)
      BY <2>5, <2>6 DEF L, R
    <2>13. p.total_lendable <= old.total_lendable + payment
      BY <2>1, <2>6 DEF L
    <2> QED
      BY <2>6, <2>7, <2>8, <2>9, <2>10, <2>11, <2>12, <2>13 DEF R
  <1>5. CASE ~rex_available(s)
    <2>1. old.total_rex = 0 /\ old.total_lent = 0
      BY <1>2, <1>3, <1>5 DEF rex_available
    <2>2. payment * RexRatio \in Nat \ {0} /\ InitRent \in Nat \ {0} /\ payment \in Nat
      <3>1. RexRatio \in Nat \ {0} /\ InitRent \in Nat \ {0}
        BY DEF RexPoolConstants
      <3>2. payment * RexRatio \in Nat
        BY <3>1, ProductIsNat
      <3>3. payment * 1 <= payment * RexRatio
        BY <3>1, ProductMonotonic
      <3> QED
        BY <3>1, <3>2, <3>3
    <2> DEFINE k == payment * RexRatio
    <2>3. p = [old EXCEPT !.exists = TRUE, !.total_lendable = payment, !.total_lent = 0,
                          !.total_unlent = payment, !.total_rent = InitRent, !.total_rex = k]
      BY <1>5 DEF AddedToPool, NewPool
    <2>4. Received(s, payment) = k
      BY <1>5 DEF Received
    <2>5. k \in Nat \ {0}
      BY <2>2
    <2> HIDE DEF k, old
    <2>6. /\ p \in PoolRow /\ p.exists = TRUE /\ p.total_rex = k /\ p.total_lent = 0
          /\ p.total_unlent = payment /\ p.total_lendable = payment /\ p.held = old.held
          /\ p.total_rent = InitRent
      <3>1. payment \in Nat /\ InitRent \in Nat /\ k \in Nat
        BY <2>2, <2>5
      <3>2. p \in PoolRow
        BY ONLY <1>1, <2>3, <3>1 DEF PoolRow
      <3> QED
        BY ONLY <1>1, <2>3, <3>2 DEF PoolRow
    <2>7. Priced(p)
      BY <2>2, <2>6 DEF Priced
    <2>8. p.total_rex = old.total_rex + k /\ p.total_lent = old.total_lent
          /\ p.total_lendable = p.total_lent + p.total_unlent /\ p.total_lendable <= old.total_lendable + payment
      BY <1>2, <2>1, <2>2, <2>5, <2>6
    <2> QED
      BY <1>5, <2>4, <2>5, <2>6, <2>7, <2>8 DEF old
  <1> QED
    BY <1>4, <1>5

LEMMA BoughtIsSound ==
  ASSUME RexPoolConstants, NEW s, Sound(s), NEW o \in Owners, NEW payment \in Nat \ {0},
         rex_available(s) => s.pool.total_lendable > 0, NEW t, t = Bought(s, o, payment)
  PROVE  IsBought(s, o, payment, t)
  <1> DEFINE p == AddedToPool(s, payment)
             got == Received(s, payment)
             w == [s.owned EXCEPT ![o] = @ + got]
             h == s.has_row \union {o}
             s1 == [s EXCEPT !.pool = p, !.owned[o] = @ + got, !.has_row = @ \union {o}]
             x == IF o \in s.has_row THEN ValueOf(s1, s1.owned[o]) ELSE payment
             v == [s.vote_stake EXCEPT ![o] = x]
  <1>1. /\ p \in PoolRow /\ p.exists /\ p.total_rex > 0
        /\ got \in Nat /\ p.total_rex = s.pool.total_rex + got
        /\ p.total_lent = s.pool.total_lent /\ p.total_lendable = p.total_lent + p.total_unlent
        /\ p.total_lendable <= s.pool.total_lendable + payment /\ p.held = s.pool.held
        /\ rex_available(s) =>
             PriceKept(s.pool.total_lendable, s.pool.total_rex, p.total_lendable, p.total_rex)
        /\ Priced(s.pool) => Priced(p)
    BY PoolGrows
  <1>2. s \in Tables /\ s.owned \in [Owners -> Nat] /\ s.owned[o] \in Nat /\ s.vote_stake \in [Owners -> Nat]
        /\ s.has_row \in SUBSET Owners /\ s.queue \in Seq(Order) /\ s.pool \in PoolRow
    BY TableTypes DEF Sound, Order
  <1>3. t = [s1 EXCEPT !.vote_stake[o] = x]
    BY DEF Bought
  <1> HIDE DEF p, got
  <1>4. s1.owned[o] \in Nat /\ s1.pool = p
    BY <1>1, <1>2 DEF Tables
  <1>5. t = TablesTraded(s, p, w, v, h)
    <2> HIDE DEF x
    <2> QED
      BY <1>2, <1>3 DEF TablesTraded, Tables
  <1>6. x \in Nat
    <2> DEFINE n == s1.owned[o] * p.total_lendable
               d == p.total_rex
    <2>1. n \in Nat /\ d \in Nat \ {0}
      <3>1. p.total_lendable \in Nat /\ p.total_rex \in Nat
        BY <1>1, PoolTypes
      <3> HIDE DEF s1
      <3> QED
        BY <1>1, <1>4, <3>1, ProductIsNat
    <2>2. ValueOf(s1, s1.owned[o]) = n \div d
      <3> HIDE DEF s1
      <3> QED
        BY <1>4 DEF ValueOf
    <2> HIDE DEF n, d, s1
    <2>3. n \div d \in Nat
      BY <2>1, DivisionBounds
    <2> QED
      BY <2>2, <2>3
  <1>7. v \in [Owners -> Nat] /\ \A y \in Owners : y # o => v[y] = s.vote_stake[y]
    <2> HIDE DEF x
    <2> QED
      BY <1>2, <1>6
  <1>8. w \in [Owners -> Nat] /\ \A y \in Owners : s.owned[y] <= w[y]
    BY <1>1, <1>2
  <1>9. SumOf(w) = p.total_rex
    <2> DEFINE f == s.owned
               z == s.owned[o] + got
    <2>1. f \in [Owners -> Nat] /\ z \in Nat /\ f[o] \in Nat
      BY <1>1, <1>2
    <2>2. z = f[o] + got /\ s.pool.total_rex = SumOf(f)
      BY DEF Sound, TablesAddUp
    <2>3. w \in [Owners -> Nat] /\ w[o] = z /\ \A y \in Owners \ {o} : w[y] = f[y]
      BY <1>1, <1>2
    <2> HIDE DEF w, z, f
    <2>4. SumOf(f) \in Nat /\ SumOf(w) = SumOf(f) - f[o] + z
      <3>1. IsFiniteSet(Units(f)) /\ SumOf(f) \in Nat
        BY <2>1, SumIsFinite, OwnerSums DEF RexPoolConstants
      <3> QED
        BY <2>1, <2>3, <3>1, SumOneEntry
    <2>5. p.total_rex = s.pool.total_rex + got /\ got \in Nat
      BY <1>1
    <2> QED
      BY ONLY <2>1, <2>2, <2>4, <2>5
  <1>10. \A i \in DOMAIN s.queue : s.queue[i].rex <= w[s.queue[i].owner]
    <2> SUFFICES ASSUME NEW i \in DOMAIN s.queue
                 PROVE  s.queue[i].rex <= w[s.queue[i].owner]
      OBVIOUS
    <2>1. s.queue[i] \in Order
      BY <1>2
    <2>2. s.queue[i].owner \in Owners /\ s.queue[i].rex \in Nat
      BY <2>1 DEF Order
    <2>3. s.queue[i].rex <= s.owned[s.queue[i].owner]
      BY DEF Sound, OrdersStand
    <2> HIDE DEF w
    <2> DEFINE y == s.queue[i].owner
    <2>4. s.owned[y] \in Nat /\ w[y] \in Nat /\ s.owned[y] <= w[y]
      BY <1>2, <1>8, <2>2
    <2> QED
      BY <2>2, <2>3, <2>4
  <1>11. h \in SUBSET Owners
    BY <1>2
  <1> HIDE DEF w, v, h, x, s1
  <1>12. TradeMakes(s, p, w, v, h, t)
    BY <1>1, <1>5, <1>7, <1>8, <1>9, <1>10, <1>11 DEF TradeMakes
  <1>13. /\ Sound(t) /\ AreTraded(t, s, p, w, v, h)
         /\ Owed(t) = Owed(s) - (s.pool.total_lendable + s.pool.held) + (p.total_lendable + p.held)
    BY <1>12, TradeChanged
  <1>14. Owed(t) <= Owed(s) + payment
    <2>1. Owed(s) \in Nat /\ s.pool.total_lendable \in Nat /\ s.pool.held \in Nat /\ p.total_lendable \in Nat
      BY <1>1, <1>2, OwedIsNat, PoolTypes
    <2> QED
      BY <1>1, <1>13, <2>1
  <1> QED
    BY <1>1, <1>7, <1>13, <1>14 DEF IsBought, AreTraded

\* A purchase before runrex.
LEMMA FairPurchase ==
  ASSUME NEW s, Sound(s), NEW b, Sound(b), b.loans = s.loans, b.queue = s.queue,
         rex_available(s) =>
           PriceKept(s.pool.total_lendable, s.pool.total_rex, b.pool.total_lendable, b.pool.total_rex),
         Priced(b.pool) \/ ~Priced(s.pool),
         NEW m, RunLeads(b, m), NEW t, t.loans = m.loans, t.pool = m.pool
  PROVE  FairStep(s, t)
  <1>1. ASSUME rex_available(s)
        PROVE  PriceKept(s.pool.total_lendable, s.pool.total_rex, t.pool.total_lendable, t.pool.total_rex)
    <2> DEFINE L == s.pool.total_lendable
               R == s.pool.total_rex
               L1 == b.pool.total_lendable
               R1 == b.pool.total_rex
               L2 == m.pool.total_lendable
               R2 == m.pool.total_rex
    <2>1. s.pool \in PoolRow /\ b.pool \in PoolRow /\ m.pool \in PoolRow
      BY TableTypes DEF Sound, RunLeads
    <2>2. L \in Nat /\ R \in Nat /\ L1 \in Nat /\ R1 \in Nat /\ L2 \in Nat /\ R2 \in Nat
      BY <2>1, PoolTypes
    <2>3. PriceKept(L, R, L1, R1) /\ PriceKept(L1, R1, L2, R2)
      BY <1>1 DEF RunLeads
    <2>4. t.pool.total_lendable = L2 /\ t.pool.total_rex = R2
      OBVIOUS
    <2> HIDE DEF L, R, L1, R1, L2, R2
    <2>5. PriceKept(L, R, L2, R2)
      BY ONLY <2>2, <2>3, PriceKeptTwice
    <2> QED
      BY <2>4, <2>5 DEF L, R
  <1>2. s.queue # << >> => LoansFollow(s, t)
    BY DEF RunLeads, LoansFollow
  <1>3. Priced(s.pool) => /\ t.pool.total_rent > 0
                          /\ t.pool.total_lent >= KeptPart => t.pool.total_unlent > 0
    BY DEF RunLeads
  <1> QED
    BY <1>1, <1>2, <1>3 DEF FairStep

LEMMA PoolBuyRexStep ==
  ASSUME RexPoolConstants, PoolInv, NEW o \in Owners, NEW amount \in Purchases, BuyRex(o, amount)
  PROVE  StepKeeps /\ VotesKept
  <1> DEFINE s == [rex EXCEPT !.fund[o] = @ - amount]
             b == Bought(s, o, amount)
             left == rex.fund[o] - amount
             delta == b.vote_stake[o] - rex.vote_stake[o]
             t == rex'
  <1>1. /\ amount <= rex.fund[o] /\ (rex_available(rex) => rex.pool.total_lendable > 0)
        /\ vault' = vault + NamebidTransfer(b) /\ UNCHANGED <<tokens, delegated>>
    BY DEF BuyRex
  <1>2. PICK m \in RunRex(b, 2) : t = Settled(m, o, 0) /\ UpdateStaked(m, o, delta)
    BY DEF BuyRex
  <1>3. Sound(rex) /\ rex \in Tables /\ rex.fund[o] \in Nat /\ amount \in Nat \ {0} /\ left \in Nat
        /\ OthersOK /\ vault \in Nat /\ vault >= Owed(rex) /\ Owed(rex) \in Nat
    <2>1. Sound(rex) /\ rex \in Tables /\ rex.fund[o] \in Nat /\ amount \in Nat \ {0}
          /\ OthersOK /\ vault \in Nat /\ vault >= Owed(rex) /\ Owed(rex) \in Nat
      BY InvParts DEF RexPoolConstants, OthersOK
    <2> QED
      BY <1>1, <2>1
  <1>4. s = TablesFunded(rex, o, left)
    BY <1>3 DEF TablesFunded, TablesPaid, Tables
  <1>5. rex' = t /\ b = Bought(s, o, amount) /\ left = rex.fund[o] - amount
        /\ delta = b.vote_stake[o] - rex.vote_stake[o]
    OBVIOUS
  <1> HIDE DEF s, b, left, delta, t
  <1>6. AreFunded(rex, o, left, s)
    BY <1>3, <1>4, FundsChanged
  <1>7. IsBought(s, o, amount, b)
    <2>1. Sound(s) /\ (rex_available(s) => s.pool.total_lendable > 0)
      BY <1>1, <1>6 DEF AreFunded, rex_available
    <2> QED
      BY <1>3, <1>5, <2>1, BoughtIsSound
  <1>8. RunLeads(b, m) /\ Sound(m)
    <2>1. Sound(b) /\ 2 \in Nat
      BY <1>7 DEF IsBought
    <2>2. RunLeads(b, m)
      BY <2>1, RunRexLeads
    <2> QED
      BY <2>2 DEF RunLeads
  <1>9. AreSettled(m, o, 0, t)
    <2>1. 0 \in Nat
      OBVIOUS
    <2> QED
      BY <1>2, <1>8, <2>1, SettledIsSound
  <1>10. b.vote_stake[o] \in Nat /\ m.vote_stake[o] \in Nat /\ m.stake_change[o] \in Int
         /\ rex.vote_stake[o] \in Nat /\ rex.stake_change[o] \in Int /\ delta \in Int
    <2>1. b.vote_stake \in [Owners -> Nat] /\ m.vote_stake \in [Owners -> Nat] /\ m.stake_change \in [Owners -> Int]
      BY <1>7, <1>8, TableTypes DEF IsBought, Sound
    <2>2. b.vote_stake[o] \in Nat /\ m.vote_stake[o] \in Nat /\ m.stake_change[o] \in Int
      BY <2>1
    <2>3. rex.vote_stake[o] \in Nat /\ rex.stake_change[o] \in Int
      BY InvParts
    <2> QED
      BY <1>5, <2>2, <2>3
  <1>11. StakeMoves(o, delta + m.stake_change[o])
    BY <1>2, <1>8, <1>10, StakedUpdated DEF UpdateStaked
  <1>12. FairStep(rex, t)
    <2>1. Sound(b) /\ b.loans = rex.loans /\ b.queue = rex.queue
      BY <1>6, <1>7 DEF AreFunded, IsBought
    <2>2. s.pool = rex.pool
      BY <1>6 DEF AreFunded
    <2>3. /\ rex_available(rex) =>
               PriceKept(rex.pool.total_lendable, rex.pool.total_rex, b.pool.total_lendable, b.pool.total_rex)
          /\ Priced(b.pool) \/ ~Priced(rex.pool)
      BY <1>7, <2>2 DEF IsBought, rex_available
    <2>4. t.loans = m.loans /\ t.pool = m.pool
      BY <1>9 DEF AreSettled
    <2> QED
      BY <1>3, <1>8, <2>1, <2>3, <2>4, FairPurchase
  <1>13. OthersOK' /\ vault' >= Owed(t)
    <2>1. NamebidTransfer(b) \in Nat /\ Owed(m) = Owed(b) + NamebidTransfer(b)
      BY <1>8 DEF RunLeads
    <2>2. Owed(t) = Owed(m) + 0 /\ Owed(b) <= Owed(s) + amount /\ Owed(s) = Owed(rex) - rex.fund[o] + left
      BY <1>6, <1>7, <1>9 DEF AreSettled, IsBought, AreFunded
    <2>3. Owed(b) \in Nat
      BY <1>7, OwedIsNat DEF IsBought, Sound
    <2>4. vault' >= Owed(t) /\ vault' \in Nat
      BY <1>1, <1>3, <1>5, <2>1, <2>2, <2>3
    <2> QED
      BY <1>1, <1>3, <1>11, <2>4 DEF OthersOK, StakeMoves
  <1>14. VotesKept
    <2>1. VotesDue(t, o) <= VotesDue(rex, o) + (delta + m.stake_change[o])
      <3>1. VotesDue(t, o) = m.vote_stake[o]
        BY <1>9 DEF AreSettled
      <3>2. m.vote_stake[o] - m.stake_change[o] = b.vote_stake[o] - b.stake_change[o]
        BY <1>8 DEF RunLeads, VotesDue
      <3>3. b.stake_change[o] = rex.stake_change[o]
        BY <1>6, <1>7 DEF AreFunded, IsBought
      <3>4. VotesDue(rex, o) = rex.vote_stake[o] - rex.stake_change[o]
        BY DEF VotesDue
      <3> QED
        BY <1>5, <1>10, <3>1, <3>2, <3>3, <3>4
    <2>2. \A y \in Owners : y # o => VotesDue(t, y) = VotesDue(rex, y)
      <3> SUFFICES ASSUME NEW y \in Owners, y # o
                   PROVE  VotesDue(t, y) = VotesDue(rex, y)
        OBVIOUS
      <3>1. VotesDue(t, y) = VotesDue(m, y) /\ VotesDue(m, y) = VotesDue(b, y)
        BY <1>8, <1>9 DEF AreSettled, RunLeads
      <3>2. VotesDue(b, y) = VotesDue(rex, y)
        BY <1>6, <1>7 DEF IsBought, AreFunded, VotesDue
      <3> QED
        BY <3>1, <3>2
    <2>3. Sound(t)
      BY <1>9 DEF AreSettled
    <2> QED
      BY <1>1, <1>5, <1>11, <2>1, <2>2, <2>3, VotesFollow
  <1>15. Sound(t)
    BY <1>9 DEF AreSettled
  <1> QED
    BY <1>5, <1>12, <1>13, <1>14, <1>15, StepMade

LEMMA UnstakeToRexStep ==
  ASSUME RexPoolConstants, PoolInv, NEW o \in Owners, NEW amount \in Purchases, UnstakeToRex(o, amount)
  PROVE  StepKeeps
  <1> DEFINE b == Bought(rex, o, amount)
             t == rex'
  <1>1. /\ amount <= delegated[o] /\ (rex_available(rex) => rex.pool.total_lendable > 0)
        /\ vault' = vault + amount + NamebidTransfer(b) /\ UNCHANGED tokens
        /\ delegated' = [delegated EXCEPT ![o] = @ - amount]
    BY DEF UnstakeToRex
  <1>2. PICK m \in RunRex(b, 2) : t = Settled(m, o, 0) /\ UpdateStakedIf(TRUE, m, o, 0)
    BY DEF UnstakeToRex
  <1>3. Sound(rex) /\ amount \in Nat \ {0}
        /\ OthersOK /\ vault \in Nat /\ vault >= Owed(rex) /\ Owed(rex) \in Nat
    BY InvParts DEF RexPoolConstants, OthersOK
  <1>4. rex' = t /\ b = Bought(rex, o, amount)
    OBVIOUS
  <1> HIDE DEF b, t
  <1>5. IsBought(rex, o, amount, b)
    BY <1>1, <1>3, <1>4, BoughtIsSound
  <1>6. RunLeads(b, m) /\ Sound(m)
    <2>1. Sound(b) /\ 2 \in Nat
      BY <1>5 DEF IsBought
    <2>2. RunLeads(b, m)
      BY <2>1, RunRexLeads
    <2> QED
      BY <2>2 DEF RunLeads
  <1>7. AreSettled(m, o, 0, t)
    <2>1. 0 \in Nat
      OBVIOUS
    <2> QED
      BY <1>2, <1>6, <2>1, SettledIsSound
  <1>8. StakeMoves(o, 0 + m.stake_change[o])
    <2>1. 0 \in Int
      OBVIOUS
    <2> QED
      BY <1>2, <1>6, <2>1, StakedUpdated
  <1>9. FairStep(rex, t)
    <2>1. Sound(b) /\ b.loans = rex.loans /\ b.queue = rex.queue
      BY <1>5 DEF IsBought
    <2>2. /\ rex_available(rex) =>
               PriceKept(rex.pool.total_lendable, rex.pool.total_rex, b.pool.total_lendable, b.pool.total_rex)
          /\ Priced(b.pool) \/ ~Priced(rex.pool)
      BY <1>5 DEF IsBought
    <2>3. t.loans = m.loans /\ t.pool = m.pool
      BY <1>7 DEF AreSettled
    <2> QED
      BY <1>3, <1>6, <2>1, <2>2, <2>3, FairPurchase
  <1>10. OthersOK' /\ vault' >= Owed(t)
    <2>1. NamebidTransfer(b) \in Nat /\ Owed(m) = Owed(b) + NamebidTransfer(b)
      BY <1>6 DEF RunLeads
    <2>2. Owed(t) = Owed(m) + 0 /\ Owed(b) <= Owed(rex) + amount
      BY <1>5, <1>7 DEF AreSettled, IsBought
    <2>3. Owed(b) \in Nat
      BY <1>5, OwedIsNat DEF IsBought, Sound
    <2>4. vault' >= Owed(t) /\ vault' \in Nat
      BY <1>1, <1>3, <2>1, <2>2, <2>3
    <2>5. delegated' \in [Owners -> Nat]
      <3>1. delegated \in [Owners -> Nat]
        BY <1>3 DEF OthersOK
      <3>2. delegated[o] - amount \in Nat
        BY <1>1, <1>3, <3>1
      <3> QED
        BY <1>1, <3>1, <3>2
    <2> QED
      BY <1>1, <1>3, <1>8, <2>4, <2>5 DEF OthersOK, StakeMoves
  <1>11. Sound(t)
    BY <1>7 DEF AreSettled
  <1> QED
    BY <1>4, <1>9, <1>10, <1>11, StepMade

\* A sale after runrex.
LEMMA FairSale ==
  ASSUME NEW s, Sound(s), NEW m, RunLeads(s, m), NEW o, NEW amount, NEW u, IsSold(m, o, amount, u),
         NEW t, t.loans = u.loans, t.pool = u.pool
  PROVE  FairStep(s, t)
  <1>1. PriceKept(s.pool.total_lendable, s.pool.total_rex, t.pool.total_lendable, t.pool.total_rex)
    <2> DEFINE L == s.pool.total_lendable
               R == s.pool.total_rex
               L1 == m.pool.total_lendable
               R1 == m.pool.total_rex
               L2 == u.pool.total_lendable
               R2 == u.pool.total_rex
    <2>1. s.pool \in PoolRow /\ m.pool \in PoolRow /\ u.pool \in PoolRow
      BY TableTypes DEF Sound, RunLeads, IsSold
    <2>2. L \in Nat /\ R \in Nat /\ L1 \in Nat /\ R1 \in Nat /\ L2 \in Nat /\ R2 \in Nat
      BY <2>1, PoolTypes
    <2>3. PriceKept(L, R, L1, R1) /\ PriceKept(L1, R1, L2, R2)
      BY DEF RunLeads, IsSold
    <2>4. t.pool.total_lendable = L2 /\ t.pool.total_rex = R2
      OBVIOUS
    <2> HIDE DEF L, R, L1, R1, L2, R2
    <2>5. PriceKept(L, R, L2, R2)
      BY ONLY <2>2, <2>3, PriceKeptTwice
    <2> QED
      BY <2>4, <2>5 DEF L, R
  <1>2. s.queue # << >> => LoansFollow(s, t)
    BY DEF RunLeads, LoansFollow, IsSold
  <1>3. Priced(s.pool) => /\ t.pool.total_rent > 0
                          /\ t.pool.total_lent >= KeptPart => t.pool.total_unlent > 0
    BY DEF RunLeads, IsSold
  <1> QED
    BY <1>1, <1>2, <1>3 DEF FairStep

LEMMA SellNowStep ==
  ASSUME RexPoolConstants, PoolInv, NEW o \in Owners, NEW amount \in RexAmounts,
         NEW s, RunLeads(rex, s), amount <= s.owned[o], SellNow(s, o, amount),
         vault' = VaultAfterRun, UNCHANGED <<tokens, delegated>>
  PROVE  StepKeeps /\ VotesKept
  <1> DEFINE u == Filled(s, o, amount)
             x == ValueOf(s, amount)
             delta == StakeChange(s, o, amount)
             t == rex'
  <1>1. /\ CanFill(s, amount) /\ Uncommitted(u, o) >= 0 /\ UpdateStaked(u, o, delta)
        /\ t = Settled(u, o, x)
    BY DEF SellNow
  <1>2. Sound(s) /\ s \in Tables /\ s.pool.namebid_proceeds = 0 /\ amount \in Nat \ {0}
        /\ s.owned \in [Owners -> Nat] /\ s.vote_stake \in [Owners -> Nat] /\ s.stake_change \in [Owners -> Int]
    BY TableTypes DEF RunLeads, Sound, RexPoolConstants
  <1>3. u.queue = s.queue /\ u.owned[o] = s.owned[o] - amount
    BY <1>2 DEF Filled, Tables
  <1>4. u = Filled(s, o, amount) /\ x = ValueOf(s, amount) /\ delta = StakeChange(s, o, amount) /\ rex' = t
    OBVIOUS
  <1> HIDE DEF u, x, delta, t
  <1>5. MaySell(s, o, amount)
    <2>1. ASSUME NEW i \in DOMAIN s.queue, s.queue[i].owner = o
          PROVE  s.queue[i].rex <= s.owned[o] - amount
      <3>1. HasOrder(s, o) /\ HasOrder(u, o) /\ PlaceOf(u, o) = PlaceOf(s, o)
        BY <1>3, <2>1 DEF HasOrder, PlaceOf
      <3>2. i = PlaceOf(s, o) /\ InOrder(s, o) = s.queue[PlaceOf(s, o)].rex /\ InOrder(s, o) \in Nat
        BY <1>2, <2>1, <3>1, OrderIsThere
      <3>3. InOrder(u, o) = InOrder(s, o)
        BY <1>3, <3>1 DEF InOrder
      <3>4. s.owned[o] - amount - InOrder(s, o) >= 0
        BY <1>1, <1>3, <3>3 DEF Uncommitted
      <3>5. s.owned[o] \in Nat
        BY <1>2
      <3> QED
        BY <1>2, <3>2, <3>4, <3>5
    <2> QED
      BY <1>1, <1>2, <2>1 DEF MaySell
  <1>6. IsSold(s, o, amount, u)
    BY <1>4, <1>5, FilledIsSound
  <1>7. AreSettled(u, o, x, t)
    <2>1. Sound(u) /\ x \in Nat
      BY <1>4, <1>6 DEF IsSold
    <2> QED
      BY <1>1, <2>1, SettledIsSound
  <1>8. u.vote_stake[o] \in Nat /\ s.vote_stake[o] \in Nat /\ delta = u.vote_stake[o] - s.vote_stake[o]
        /\ delta \in Int /\ u.stake_change = s.stake_change
    BY <1>2, <1>4, <1>6 DEF IsSold
  <1>9. StakeMoves(o, delta + s.stake_change[o])
    <2>1. Sound(u)
      BY <1>6 DEF IsSold
    <2>2. StakeMoves(o, delta + u.stake_change[o])
      BY <1>1, <1>8, <2>1, StakedUpdated DEF UpdateStaked
    <2> QED
      BY <1>8, <2>2
  <1>10. FairStep(rex, t)
    <2>1. Sound(rex) /\ t.loans = u.loans /\ t.pool = u.pool
      BY <1>7, InvParts DEF AreSettled
    <2> QED
      BY <1>6, <2>1, FairSale
  <1>11. OthersOK' /\ vault' >= Owed(t)
    <2>1. OthersOK /\ vault \in Nat /\ vault >= Owed(rex) /\ Owed(rex) \in Nat
      BY InvParts DEF OthersOK
    <2>2. NamebidTransfer(rex) \in Nat /\ Owed(s) = Owed(rex) + NamebidTransfer(rex)
      BY DEF RunLeads
    <2>3. Owed(t) = Owed(u) + x /\ Owed(u) = Owed(s) - x /\ x \in Nat
      BY <1>4, <1>6, <1>7 DEF AreSettled, IsSold
    <2>4. vault' = vault + NamebidTransfer(rex)
      BY DEF VaultAfterRun
    <2>5. vault' >= Owed(t) /\ vault' \in Nat
      BY ONLY <2>1, <2>2, <2>3, <2>4
    <2> QED
      BY <1>9, <2>1, <2>5 DEF OthersOK, StakeMoves
  <1>12. Sound(t)
    BY <1>7 DEF AreSettled
  <1>13. VotesKept
    <2>1. VotesDue(t, o) <= s.vote_stake[o] + delta
      <3>1. VotesDue(t, o) = u.vote_stake[o]
        BY <1>7 DEF AreSettled
      <3> QED
        BY <1>8, <3>1
    <2>2. \A y \in Owners : y # o => VotesDue(t, y) = VotesDue(s, y)
      <3>1. \A y \in Owners : y # o => VotesDue(u, y) = VotesDue(s, y)
        BY <1>6 DEF IsSold, VotesDue
      <3> QED
        BY <1>7, <3>1 DEF AreSettled
    <2> QED
      BY <1>4, <1>8, <1>9, <1>12, <2>1, <2>2, VotesAfterRun
  <1> QED
    BY <1>4, <1>10, <1>11, <1>12, <1>13, StepMade

\* An order for REX that the owner has beyond an open order.
LEMMA QueuedIsSound ==
  ASSUME RexPoolConstants, NEW s, Sound(s), NEW o \in Owners, NEW amount \in Nat \ {0},
         amount <= Uncommitted(s, o), s.proceeds[o] = 0, s.stake_change[o] = 0,
         NEW t, t = TablesQueued(s, Queued(s, o, amount))
  PROVE  /\ Sound(t) /\ Owed(t) = Owed(s) /\ t.pool = s.pool /\ t.loans = s.loans
         /\ t.vote_stake = s.vote_stake /\ t.stake_change = s.stake_change
  <1> DEFINE q == Queued(s, o, amount)
             old == s.queue
  <1>1. s \in Tables /\ s.owned \in [Owners -> Nat] /\ s.owned[o] \in Nat /\ old \in Seq(Order)
    BY TableTypes DEF Sound, Order
  <1>2. /\ \A i \in DOMAIN old :
             /\ old[i] \in Order /\ old[i].owner \in Owners /\ old[i].rex \in Nat
             /\ old[i].rex > 0 /\ old[i].rex <= s.owned[old[i].owner]
             /\ s.proceeds[old[i].owner] = 0 /\ s.stake_change[old[i].owner] = 0
        /\ \A i \in DOMAIN old, j \in DOMAIN old : old[i].owner = old[j].owner => i = j
    <2>1. \A i \in DOMAIN old : old[i] \in Order /\ old[i].owner \in Owners /\ old[i].rex \in Nat
      <3> SUFFICES ASSUME NEW i \in DOMAIN old
                   PROVE  old[i] \in Order /\ old[i].owner \in Owners /\ old[i].rex \in Nat
        OBVIOUS
      <3>1. old[i] \in Order
        BY <1>1
      <3> QED
        BY <3>1 DEF Order
    <2> QED
      BY <2>1 DEF Sound, OrdersStand
  <1>3. \* The orders after it: one of the owner, covered, the others as before.
        /\ q \in Seq(Order)
        /\ \A i \in DOMAIN q :
             \/ i \in DOMAIN old /\ q[i] = old[i] /\ old[i].owner # o
             \/ q[i].owner = o /\ q[i].rex > 0 /\ q[i].rex <= s.owned[o]
        /\ \A i \in DOMAIN q, j \in DOMAIN q : q[i].owner = o /\ q[j].owner = o => i = j
    <2>1. CASE HasOrder(s, o)
      <3> DEFINE k == PlaceOf(s, o)
      <3>1. /\ k \in DOMAIN old /\ old[k].owner = o /\ InOrder(s, o) = old[k].rex
            /\ \A i \in DOMAIN old : old[i].owner = o => i = k
        BY <2>1, OrderIsThere
      <3>2. q = [old EXCEPT ![k].rex = @ + amount]
        BY <2>1 DEF Queued
      <3> HIDE DEF k, q
      <3>3. old[k].rex \in Nat /\ old[k].rex > 0
        BY <1>2, <3>1
      <3>4. old[k].rex + amount \in Nat /\ old[k].rex + amount > 0 /\ old[k].rex + amount <= s.owned[o]
        BY <1>1, <3>1, <3>3 DEF Uncommitted
      <3> DEFINE e == [old[k] EXCEPT !.rex = old[k].rex + amount]
      <3>5. e \in Order /\ e.owner = o /\ e.rex = old[k].rex + amount
        BY <1>2, <3>1, <3>4 DEF Order
      <3>6. q = [old EXCEPT ![k] = e]
        BY <3>2
      <3> HIDE DEF e
      <3>7. q \in Seq(Order) /\ DOMAIN q = DOMAIN old /\ q[k] = e /\ \A i \in DOMAIN old : i # k => q[i] = old[i]
        <4> HIDE DEF old
        <4>1. q \in Seq(Order)
          BY <1>1, <3>1, <3>5, <3>6, ExceptSeq
        <4> QED
          BY <1>1, <3>1, <3>6, <4>1
      <3> QED
        BY <3>1, <3>4, <3>5, <3>7
    <2>2. CASE ~HasOrder(s, o)
      <3> DEFINE e == [owner |-> o, rex |-> amount]
      <3>1. q = Append(old, e)
        BY <2>2 DEF Queued
      <3>2. e \in Order /\ e.owner = o /\ e.rex = amount
        BY DEF Order
      <3>3. amount <= s.owned[o]
        BY <1>1, <2>2 DEF Uncommitted, InOrder
      <3>4. \A i \in DOMAIN old : old[i].owner # o
        BY <2>2 DEF HasOrder
      <3> HIDE DEF e, q, old
      <3>5. /\ q \in Seq(Order) /\ Len(q) = Len(old) + 1 /\ q[Len(q)] = e
            /\ \A i \in 1 .. Len(old) : q[i] = old[i]
            /\ DOMAIN q = 1 .. Len(q) /\ DOMAIN old = 1 .. Len(old) /\ Len(old) \in Nat
        BY <1>1, <3>1, <3>2
      <3>6. \A i \in DOMAIN q : i \in DOMAIN old \/ i = Len(q)
        BY <3>5
      <3> QED
        BY <3>2, <3>3, <3>4, <3>5, <3>6
    <2> QED
      BY <2>1, <2>2
  <1> HIDE DEF q
  <1>4. t.queue = q /\ t.owned = s.owned /\ t.proceeds = s.proceeds /\ t.stake_change = s.stake_change
    BY <1>1 DEF TablesQueued, Tables, q
  <1>5. OrdersStand(t)
    <2>1. ASSUME NEW i \in DOMAIN q
          PROVE  /\ q[i].rex > 0 /\ q[i].rex <= s.owned[q[i].owner]
                 /\ s.proceeds[q[i].owner] = 0 /\ s.stake_change[q[i].owner] = 0
      BY <1>2, <1>3
    <2>2. ASSUME NEW i \in DOMAIN q, NEW j \in DOMAIN q, q[i].owner = q[j].owner
          PROVE  i = j
      BY <1>2, <1>3, <2>2
    <2> QED
      BY <1>4, <2>1, <2>2 DEF OrdersStand
  <1>6. t = TablesQueued(s, q)
    BY DEF q
  <1> QED
    BY <1>3, <1>5, <1>6, QueueChanged

LEMMA SellLaterStep ==
  ASSUME RexPoolConstants, PoolInv, NEW o \in Owners, NEW amount \in RexAmounts,
         NEW s, RunLeads(rex, s), SellLater(s, o, amount),
         vault' = VaultAfterRun, UNCHANGED <<tokens, delegated>>
  PROVE  StepKeeps /\ VotesKept
  <1> DEFINE u == Settled(s, o, 0)
             t == rex'
  <1>1. /\ amount <= Uncommitted(u, o) /\ UpdateStaked(s, o, 0)
        /\ t = TablesQueued(u, Queued(u, o, amount)) /\ rex' = t
    BY DEF SellLater, TablesQueued
  <1>2. Sound(s) /\ amount \in Nat \ {0} /\ 0 \in Nat /\ 0 \in Int
    BY DEF RunLeads, RexPoolConstants
  <1>3. u = Settled(s, o, 0)
    OBVIOUS
  <1> HIDE DEF u, t
  <1>4. AreSettled(s, o, 0, u)
    BY <1>2, <1>3, SettledIsSound
  <1>5. /\ Sound(t) /\ Owed(t) = Owed(u) /\ t.pool = u.pool /\ t.loans = u.loans
        /\ t.vote_stake = u.vote_stake /\ t.stake_change = u.stake_change
    <2>1. Sound(u) /\ u.proceeds[o] = 0 /\ u.stake_change[o] = 0
      BY <1>4 DEF AreSettled
    <2> QED
      BY <1>1, <1>2, <2>1, QueuedIsSound
  <1>6. StakeMoves(o, 0 + s.stake_change[o])
    BY <1>1, <1>2, StakedUpdated DEF UpdateStaked
  <1>7. StaysAfterRun(s, t)
    <2>1. Owed(s) \in Nat
      BY <1>2, OwedIsNat DEF Sound
    <2>2. Owed(t) = Owed(s)
      BY <1>4, <1>5, <2>1 DEF AreSettled
    <2> QED
      BY <1>4, <1>5, <2>2 DEF AreSettled, StaysAfterRun
  <1>8. staked' \in [Owners -> Int]
    BY <1>6 DEF StakeMoves
  <1>9. VotesKept
    <2>1. VotesDue(t, o) <= s.vote_stake[o] + 0
      <3>1. s.vote_stake[o] \in Nat
        <4>1. s.vote_stake \in [Owners -> Nat]
          BY <1>2, TableTypes DEF Sound
        <4> QED
          BY <4>1
      <3>2. VotesDue(t, o) = VotesDue(u, o)
        BY <1>5 DEF VotesDue
      <3> QED
        BY <1>4, <3>1, <3>2 DEF AreSettled
    <2>2. \A y \in Owners : y # o => VotesDue(t, y) = VotesDue(s, y)
      <3>1. \A y \in Owners : VotesDue(t, y) = VotesDue(u, y)
        BY <1>5 DEF VotesDue
      <3> QED
        BY <1>4, <3>1 DEF AreSettled
    <2> QED
      BY <1>1, <1>2, <1>5, <1>6, <2>1, <2>2, VotesAfterRun
  <1> QED
    BY <1>1, <1>7, <1>8, <1>9, AfterRunStep

LEMMA PoolSellRexStep ==
  ASSUME RexPoolConstants, PoolInv, NEW o \in Owners, NEW amount \in RexAmounts, SellRex(o, amount)
  PROVE  StepKeeps /\ VotesKept
  <1>1. PICK s \in RunRex(rex, 2) : amount <= s.owned[o] /\ (SellNow(s, o, amount) \/ SellLater(s, o, amount))
    BY DEF SellRex
  <1>2. RunLeads(rex, s)
    <2>1. 2 \in Nat
      OBVIOUS
    <2> QED
      BY <2>1, RunOfRex
  <1>3. vault' = VaultAfterRun /\ UNCHANGED <<tokens, delegated>>
    BY DEF SellRex
  <1> QED
    BY <1>1, <1>2, <1>3, SellNowStep, SellLaterStep

\* A change of loans without runrex.
LEMMA FairLoans ==
  ASSUME NEW s, NEW t, LoansLead(s, t)
  PROVE  FairStep(s, t)
  BY DEF LoansLead, Leads, FairStep, Priced

\* A new loan after runrex.
LEMMA FairLoan ==
  ASSUME NEW s, Sound(s), NEW m, RunLeads(s, m), m.queue = << >>, m.pool.total_unlent > 0,
         NEW t, LoansLead(m, t)
  PROVE  FairStep(s, t)
  <1>1. PriceKept(s.pool.total_lendable, s.pool.total_rex, t.pool.total_lendable, t.pool.total_rex)
    <2> DEFINE L == s.pool.total_lendable
               R == s.pool.total_rex
               L1 == m.pool.total_lendable
               R1 == m.pool.total_rex
               L2 == t.pool.total_lendable
               R2 == t.pool.total_rex
    <2>1. s.pool \in PoolRow /\ m.pool \in PoolRow /\ t.pool \in PoolRow
      BY TableTypes DEF Sound, RunLeads, LoansLead, Leads
    <2>2. L \in Nat /\ R \in Nat /\ L1 \in Nat /\ R1 \in Nat /\ L2 \in Nat /\ R2 \in Nat
      BY <2>1, PoolTypes
    <2>3. PriceKept(L, R, L1, R1) /\ PriceKept(L1, R1, L2, R2)
      BY DEF RunLeads, LoansLead, Leads
    <2> HIDE DEF L, R, L1, R1, L2, R2
    <2>4. PriceKept(L, R, L2, R2)
      BY ONLY <2>2, <2>3, PriceKeptTwice
    <2> QED
      BY <2>4 DEF L, R, L2, R2
  <1>2. t.queue = << >>
    BY DEF LoansLead
  <1>3. Priced(s.pool) => t.pool.total_rent > 0 /\ t.pool.total_unlent > 0
    BY DEF RunLeads, LoansLead, Priced
  <1> QED
    BY <1>1, <1>2, <1>3 DEF FairStep

\* The tables with a new loan.
LoanMade(s, r, new, amount, p, spent) ==
  [s EXCEPT !.pool = p, !.fund[new.from] = @ - spent, !.loans[r] = Append(@, new),
            !.rented[r][new.receiver] = @ + amount]

LEMMA LoanMadeLeads ==
  ASSUME RexPoolConstants, NEW s, Sound(s), rex_loans_available(s), NEW r \in Resources,
         NEW new \in Loan, new.payment > 0, NEW spent, spent = new.payment + new.balance,
         spent <= s.fund[new.from], NEW amount, amount = RentedFor(s, new.payment),
         amount > 0, new.total_staked = amount,
         NEW p, p = LoanAdded(s, new.payment, amount).pool, NEW t, t = LoanMade(s, r, new, amount, p, spent)
  PROVE  LoansLead(s, t) /\ s.pool.total_unlent > 0
  <1> DEFINE old == s.loans[r]
             q == Append(old, new)
             o == new.from
             y == new.receiver
             left == s.fund[o] - spent
             f == [s.fund EXCEPT ![o] = left]
             w == [s.rented[r] EXCEPT ![y] = @ + amount]
  <1>1. s \in Tables /\ s.pool \in PoolRow /\ s.fund \in [Owners -> Nat]
        /\ s.rented \in [Resources -> [Owners -> Nat]] /\ s.loans \in [Resources -> Seq(Loan)]
    BY TableTypes DEF Sound
  <1>2. /\ o \in Owners /\ y \in Owners /\ new.balance \in Nat /\ new.payment \in Nat \ {0}
    BY LoanFields
  <1>3. /\ s.pool.total_rent \in Nat /\ s.pool.total_unlent \in Nat /\ s.pool.total_lent \in Nat
        /\ s.pool.held \in Nat /\ s.pool.total_lendable \in Nat /\ s.pool.total_rex \in Nat
    BY <1>1, PoolTypes
  <1>4. /\ amount \in Nat \ {0} /\ amount <= s.pool.total_unlent /\ s.pool.total_unlent > 0
        /\ s.pool.total_rent > 0 /\ s.pool.total_unlent > 0 => amount < s.pool.total_unlent
    <2>1. amount = BancorOutput(s.pool.total_rent, s.pool.total_unlent, new.payment)
      BY DEF RentedFor
    <2> DEFINE R == s.pool.total_rent
               U == s.pool.total_unlent
               n == new.payment
    <2>2. R \in Nat /\ U \in Nat /\ n \in Nat \ {0} /\ amount = BancorOutput(R, U, n)
      BY <1>2, <1>3, <2>1
    <2> HIDE DEF R, U, n
    <2>3. amount \in Nat /\ amount <= U /\ (R > 0 /\ U > 0 => amount < U)
      BY ONLY <2>2, BancorBounds
    <2>4. amount > 0
      OBVIOUS
    <2>5. amount \in Nat \ {0} /\ U > 0
      BY ONLY <2>2, <2>3, <2>4
    <2> QED
      BY <2>3, <2>5 DEF R, U
  <1>5. p = [s.pool EXCEPT !.held = @ + new.payment, !.total_rent = @ + new.payment,
                           !.total_unlent = @ - amount, !.total_lent = @ + amount]
    BY <1>1 DEF LoanAdded, Tables, PoolRow
  <1>6. /\ p.exists = s.pool.exists /\ p.total_rex = s.pool.total_rex
        /\ p.total_lendable = s.pool.total_lendable /\ p.held = s.pool.held + new.payment
        /\ p.namebid_proceeds = s.pool.namebid_proceeds
        /\ p.total_rent = s.pool.total_rent + new.payment
        /\ p.total_unlent = s.pool.total_unlent - amount
        /\ p.total_lent = s.pool.total_lent + amount
    BY <1>1, <1>5 DEF PoolRow
  <1>7. p \in PoolRow
    <2>1. /\ s.pool.held + new.payment \in Nat /\ s.pool.total_rent + new.payment \in Nat
          /\ s.pool.total_unlent - amount \in Nat /\ s.pool.total_lent + amount \in Nat
      BY <1>2, <1>3, <1>4
    <2> QED
      BY <1>1, <1>5, <2>1 DEF PoolRow
  <1>8. s.queue = << >> /\ s.pool.total_rex > 0
    BY DEF rex_loans_available, rex_available
  <1>9. t = [s EXCEPT !.pool = p, !.loans = [s.loans EXCEPT ![r] = q], !.fund = f,
                      !.rented = [s.rented EXCEPT ![r] = w]]
    BY <1>1 DEF LoanMade, Tables
  <1>10. GoodLoans(old) /\ \A x \in Owners : s.rented[r][x] = Total(StakedTo(x), old)
    BY SoundLoans
  <1>11. old \in Seq(Loan)
    BY <1>1
  <1>12. GoodLoans(q)
    <2>1. q \in Seq(Loan) /\ Len(q) = Len(old) + 1 /\ q[Len(q)] = new
          /\ (\A i \in 1 .. Len(old) : q[i] = old[i])
          /\ DOMAIN q = 1 .. Len(q) /\ DOMAIN old = 1 .. Len(old) /\ Len(old) \in Nat
      <3> HIDE DEF old
      <3> QED
        BY <1>11
    <2> HIDE DEF q, old
    <2>2. ASSUME NEW k \in DOMAIN q PROVE q[k].total_staked > 0 /\ q[k].payment > 0
      <3>1. k \in DOMAIN old \/ k = Len(q)
        BY <2>1
      <3> QED
        BY <1>10, <2>1, <3>1 DEF GoodLoans
    <2> QED
      BY <2>1, <2>2 DEF GoodLoans
  <1>13. ASSUME NEW V \in [Loan -> Nat]
         PROVE  Total(V, q) = Total(V, old) + V[new] /\ Total(V, old) \in Nat
    <2>1. V \in [Loan -> Nat] /\ new \in Loan
      OBVIOUS
    <2> HIDE DEF old
    <2>2. Total(V, Append(old, new)) = Total(V, old) + V[new]
      BY ONLY <1>11, <2>1, TotalAppended
    <2>3. Total(V, old) \in Nat
      BY ONLY <1>11, <2>1, TotalIsNat
    <2> QED
      BY <2>2, <2>3
  <1>14. /\ Total(Staked, q) = Total(Staked, old) + amount
         /\ Total(Left, q) = Total(Left, old) + new.balance
         /\ Total(Staked, old) \in Nat /\ Total(Left, old) \in Nat
    <2>1. Staked \in [Loan -> Nat] /\ Left \in [Loan -> Nat]
          /\ Staked[new] = amount /\ Left[new] = new.balance
      BY LoanFields
    <2> QED
      BY <1>13, <2>1
  <1>15. w \in [Owners -> Nat] /\ \A x \in Owners : w[x] = Total(StakedTo(x), q)
    <2>1. ASSUME NEW x \in Owners PROVE w[x] = Total(StakedTo(x), q) /\ w[x] \in Nat
      <3>1. /\ StakedTo(x) \in [Loan -> Nat]
            /\ StakedTo(x)[new] = IF y = x THEN amount ELSE 0
        BY LoanFields
      <3>2. w[x] = IF x = y THEN s.rented[r][x] + amount ELSE s.rented[r][x]
        BY <1>1, <1>2
      <3>3. s.rented[r][x] = Total(StakedTo(x), old)
        BY <1>10
      <3>4. /\ Total(StakedTo(x), q) = Total(StakedTo(x), old) + StakedTo(x)[new]
            /\ Total(StakedTo(x), old) \in Nat
        BY <1>13, <3>1
      <3> HIDE DEF q, old, w
      <3> QED
        BY <1>2, <1>4, <3>1, <3>2, <3>3, <3>4
    <2>2. w = [x \in Owners |-> w[x]]
      BY <1>1
    <2> HIDE DEF w
    <2> QED
      BY <2>1, <2>2
  <1>16. /\ f \in [Owners -> Nat] /\ SumOf(f) = SumOf(s.fund) - s.fund[o] + left
         /\ SumOf(s.fund) \in Nat /\ s.fund[o] \in Nat /\ left = s.fund[o] - spent
    <2>1. left \in Nat /\ s.fund[o] \in Nat
      BY <1>1, <1>2
    <2>2. f \in [Owners -> Nat] /\ f[o] = left /\ \A x \in Owners \ {o} : f[x] = s.fund[x]
      BY <1>1, <1>2, <2>1
    <2> DEFINE g == s.fund
    <2> HIDE DEF f, left
    <2>3. g \in [Owners -> Nat] /\ o \in Owners /\ f \in [Owners -> Nat] /\ \A x \in Owners \ {o} : f[x] = g[x]
      BY <1>1, <1>2, <2>2
    <2> HIDE DEF g, o
    <2>4. IsFiniteSet(Units(g)) /\ SumOf(g) \in Nat
      BY <2>3, SumIsFinite, OwnerSums DEF RexPoolConstants
    <2>5. SumOf(f) = SumOf(g) - g[o] + f[o]
      BY ONLY <2>3, <2>4, SumOneEntry
    <2> QED
      BY <2>1, <2>2, <2>4, <2>5 DEF left, g, o
  <1>17. LoansMake(s, r, p, q, f, w, t)
    <2>1. /\ p.total_lendable = p.total_lent + p.total_unlent
          /\ p.total_lent = s.pool.total_lent - Total(Staked, old) + Total(Staked, q)
      <3>1. s.pool.total_lendable = s.pool.total_lent + s.pool.total_unlent
        BY DEF Sound, TablesAddUp
      <3> HIDE DEF q, old
      <3> QED
        BY <1>3, <1>4, <1>6, <1>14, <3>1
    <2>2. s.pool.total_rex = 0 => p.total_lent = 0
      BY <1>8
    <2> HIDE DEF w, q, f
    <2> QED
      BY <1>6, <1>7, <1>9, <1>12, <1>15, <1>16, <2>1, <2>2 DEF LoansMake
  <1>18. Priced(s.pool) => Priced(p)
    BY <1>2, <1>3, <1>4, <1>6 DEF Priced
  <1>19. SumOf(f) + p.held + Total(Left, q) = SumOf(s.fund) + s.pool.held + Total(Left, old)
    <2> HIDE DEF q, old, f, left
    <2> QED
      BY <1>2, <1>3, <1>6, <1>14, <1>16
  <1> HIDE DEF q, w, f
  <1> QED
    BY <1>4, <1>6, <1>8, <1>17, <1>18, <1>19, LoansChangedLead

LEMMA RentStep ==
  ASSUME RexPoolConstants, PoolInv, NEW r \in Resources, NEW o \in Owners, NEW receiver \in Owners,
         NEW payment \in Payments, NEW fund \in {0} \union LoanFunds, Rent(r, o, receiver, payment, fund)
  PROVE  StepKeeps /\ VotesKept
  <1> DEFINE New(amount) == [from |-> o, receiver |-> receiver, payment |-> payment,
                             balance |-> fund, total_staked |-> amount, left |-> LoanTime]
  <1>1. PICK s \in RunRex(rex, 2) :
          /\ rex_loans_available(s)
          /\ payment + fund <= s.fund[o]
          /\ payment < RentedFor(s, payment)
          /\ rex' = [LoanAdded(s, payment, RentedFor(s, payment)) EXCEPT
                       !.fund[o] = @ - (payment + fund),
                       !.loans[r] = Append(@, New(RentedFor(s, payment))),
                       !.rented[r][receiver] = @ + RentedFor(s, payment)]
    BY DEF Rent
  <1> DEFINE amount == RentedFor(s, payment)
             new == New(amount)
             p == LoanAdded(s, payment, amount).pool
             spent == payment + fund
             t == rex'
  <1>2. RunLeads(rex, s) /\ Sound(s)
    <2>1. 2 \in Nat
      OBVIOUS
    <2> QED
      BY <2>1, RunOfRex
  <1>3. payment \in Nat \ {0} /\ fund \in Nat /\ LoanTime \in Nat \ {0}
    BY DEF RexPoolConstants
  <1>4. s \in Tables /\ s.pool \in PoolRow
    BY <1>2, TableTypes DEF Sound
  <1>5. amount \in Nat /\ amount > 0
    <2> DEFINE R == s.pool.total_rent
               U == s.pool.total_unlent
    <2>1. R \in Nat /\ U \in Nat /\ amount = BancorOutput(R, U, payment)
      BY <1>4, PoolTypes DEF RentedFor
    <2>2. payment < amount
      BY <1>1
    <2> HIDE DEF R, U, amount
    <2>3. amount \in Nat
      BY ONLY <1>3, <2>1, BancorBounds
    <2> QED
      BY <1>3, <2>2, <2>3
  <1>6. /\ rex_loans_available(s) /\ spent <= s.fund[o] /\ spent = payment + fund
        /\ amount = RentedFor(s, payment) /\ rex' = t /\ p = LoanAdded(s, payment, amount).pool
    BY <1>1
  <1>7. t = [LoanAdded(s, payment, amount) EXCEPT !.fund[o] = @ - spent, !.loans[r] = Append(@, new),
                                                  !.rented[r][receiver] = @ + amount]
    BY <1>1
  <1> HIDE DEF amount, t
  <1>8. new \in Loan /\ new.from = o /\ new.receiver = receiver /\ new.payment = payment
        /\ new.balance = fund /\ new.total_staked = amount
    <2>1. LoanTime \in -LoanTime .. LoanTime
      BY <1>3
    <2> QED
      BY <1>3, <1>5, <2>1 DEF Loan
  <1> HIDE DEF new, spent
  <1>9. t = LoanMade(s, r, new, amount, p, spent)
    <2>1. LoanAdded(s, payment, amount) = [s EXCEPT !.pool = p]
      BY <1>4 DEF LoanAdded, Tables
    <2> HIDE DEF p
    <2>2. t = [[s EXCEPT !.pool = p] EXCEPT !.fund[o] = @ - spent, !.loans[r] = Append(@, new),
                                            !.rented[r][receiver] = @ + amount]
      BY <1>7, <2>1
    <2>3. LoanMade(s, r, new, amount, p, spent) =
            [s EXCEPT !.pool = p, !.fund[o] = @ - spent, !.loans[r] = Append(@, new),
                      !.rented[r][receiver] = @ + amount]
      BY <1>8 DEF LoanMade
    <2> QED
      BY <1>4, <2>2, <2>3 DEF Tables
  <1> HIDE DEF p
  <1>10. LoansLead(s, t) /\ s.pool.total_unlent > 0
    <2>1. /\ new.payment > 0 /\ spent = new.payment + new.balance /\ spent <= s.fund[new.from]
          /\ amount = RentedFor(s, new.payment) /\ amount > 0 /\ new.total_staked = amount
          /\ p = LoanAdded(s, new.payment, amount).pool
      BY <1>3, <1>5, <1>6, <1>8
    <2> QED
      BY <1>2, <1>6, <1>8, <1>9, <2>1, LoanMadeLeads
  <1>11. FairStep(rex, t)
    <2>1. s.queue = << >>
      BY <1>6 DEF rex_loans_available
    <2> QED
      BY <1>2, <1>10, <2>1, InvParts, FairLoan
  <1>12. OthersOK' /\ vault' >= Owed(t)
    <2>1. OthersOK /\ vault \in Nat /\ vault >= Owed(rex) /\ Owed(rex) \in Nat
      BY InvParts DEF OthersOK
    <2>2. NamebidTransfer(rex) \in Nat /\ Owed(s) = Owed(rex) + NamebidTransfer(rex)
      BY <1>2 DEF RunLeads
    <2>3. Owed(t) = Owed(s)
      BY <1>10 DEF LoansLead, Leads
    <2>4. vault' = vault + NamebidTransfer(rex)
      BY DEF Rent, VaultAfterRun
    <2>5. vault' >= Owed(t) /\ vault' \in Nat
      BY ONLY <2>1, <2>2, <2>3, <2>4
    <2> QED
      BY <2>1, <2>5 DEF Rent, OthersOK
  <1>13. Sound(t)
    BY <1>10 DEF LoansLead, Leads
  <1>14. VotesKept
    <2>1. \A y \in Owners : VotesDue(t, y) = VotesDue(rex, y)
      BY <1>2, <1>10 DEF LoansLead, Leads, RunLeads
    <2> QED
      BY <1>6, <1>13, <2>1, VotesStay DEF Rent
  <1> QED
    BY <1>6, <1>11, <1>12, <1>13, <1>14, StepMade

\* Tokens move between a loan and its owner's fund.
Refunded(s, r, i, left, new) ==
  [s EXCEPT !.fund = [s.fund EXCEPT ![s.loans[r][i].from] = left], !.loans[r] = [s.loans[r] EXCEPT ![i] = new]]

LEMMA LoanRefunded ==
  ASSUME RexPoolConstants, NEW s, Sound(s), NEW r \in Resources, NEW i \in DOMAIN s.loans[r],
         NEW new, new \in Loan, NEW loan, loan = s.loans[r][i],
         new.total_staked = loan.total_staked, new.payment = loan.payment,
         new.receiver = loan.receiver, new.left = loan.left,
         NEW left, left \in Nat, left + new.balance = s.fund[loan.from] + loan.balance,
         NEW t, t = Refunded(s, r, i, left, new)
  PROVE  LoansLead(s, t)
  <1> DEFINE old == s.loans[r]
             q == [old EXCEPT ![i] = new]
             o == loan.from
             f == [s.fund EXCEPT ![o] = left]
             w == s.rented[r]
             p == s.pool
  <1>1. s \in Tables /\ p \in PoolRow /\ s.fund \in [Owners -> Nat]
        /\ s.rented \in [Resources -> [Owners -> Nat]] /\ s.loans \in [Resources -> Seq(Loan)]
    BY TableTypes DEF Sound
  <1>2. loan \in Loan /\ old \in Seq(Loan) /\ i \in DOMAIN old /\ old[i] = loan
    <2>1. old \in Seq(Loan)
      BY <1>1
    <2> HIDE DEF old
    <2>2. i \in DOMAIN old => old[i] \in Loan
      BY <2>1
    <2> QED
      BY <2>1, <2>2 DEF old
  <1>3. /\ o \in Owners /\ loan.balance \in Nat /\ new.balance \in Nat /\ loan.left \in -LoanTime .. LoanTime
        /\ loan.total_staked \in Nat
    BY <1>2, LoanFields
  <1>4. GoodLoans(old) /\ \A x \in Owners : s.rented[r][x] = Total(StakedTo(x), old)
    BY SoundLoans
  <1>5. q \in Seq(Loan) /\ DOMAIN q = DOMAIN old /\ \A k \in DOMAIN old : q[k] = IF k = i THEN new ELSE old[k]
    <2> HIDE DEF old
    <2>1. q \in Seq(Loan)
      BY <1>2, ExceptSeq
    <2> QED
      BY <1>2, <2>1
  <1>6. GoodLoans(q)
    <2>1. ASSUME NEW k \in DOMAIN q PROVE q[k].total_staked > 0 /\ q[k].payment > 0
      <3>1. q[k].total_staked = old[k].total_staked /\ q[k].payment = old[k].payment /\ k \in DOMAIN old
        BY <1>2, <1>5
      <3> HIDE DEF q, old
      <3> QED
        BY <1>4, <3>1 DEF GoodLoans
    <2> HIDE DEF q
    <2> QED
      BY <1>5, <2>1 DEF GoodLoans
  <1>7. ASSUME NEW V \in [Loan -> Nat]
        PROVE  Total(V, q) = Total(V, old) - V[loan] + V[new] /\ Total(V, old) \in Nat
    <2>1. V \in [Loan -> Nat] /\ old \in Seq(Loan) /\ i \in DOMAIN old /\ new \in Loan
      BY <1>2
    <2>2. IsReplaced(q, old, i, new)
      BY <1>2 DEF IsReplaced
    <2> HIDE DEF old, q
    <2>3. Total(V, q) = Total(V, old) - V[old[i]] + V[new]
      BY ONLY <2>1, <2>2, TotalReplaced
    <2>4. Total(V, old) \in Nat
      BY ONLY <2>1, TotalIsNat
    <2> QED
      BY <1>2, <2>3, <2>4
  <1>8. /\ Total(Staked, q) = Total(Staked, old)
        /\ Total(Left, q) = Total(Left, old) - loan.balance + new.balance
        /\ Total(Staked, old) \in Nat /\ Total(Left, old) \in Nat
    <2>1. Staked \in [Loan -> Nat] /\ Left \in [Loan -> Nat]
          /\ Staked[loan] = loan.total_staked /\ Left[loan] = loan.balance
          /\ Staked[new] = loan.total_staked /\ Left[new] = new.balance
      BY <1>2, LoanFields
    <2>2. /\ Total(Staked, q) = Total(Staked, old) - Staked[loan] + Staked[new]
          /\ Total(Left, q) = Total(Left, old) - Left[loan] + Left[new]
          /\ Total(Staked, old) \in Nat /\ Total(Left, old) \in Nat
      BY <1>7, <2>1
    <2> HIDE DEF q, old
    <2> QED
      BY <1>3, <2>1, <2>2
  <1>9. w \in [Owners -> Nat] /\ \A x \in Owners : w[x] = Total(StakedTo(x), q)
    <2>1. w \in [Owners -> Nat]
      BY <1>1
    <2>2. ASSUME NEW x \in Owners PROVE w[x] = Total(StakedTo(x), q)
      <3>1. StakedTo(x) \in [Loan -> Nat] /\ StakedTo(x)[loan] = StakedTo(x)[new] /\ StakedTo(x)[new] \in Nat
        <4>1. StakedTo(x) \in [Loan -> Nat]
          BY LoanFields
        <4>2. \A l \in Loan : StakedTo(x)[l] = IF l.receiver = x THEN l.total_staked ELSE 0
          BY LoanFields
        <4> QED
          BY <1>2, <4>1, <4>2
      <3>2. w[x] = Total(StakedTo(x), old)
        BY <1>4
      <3>3. /\ Total(StakedTo(x), q) = Total(StakedTo(x), old) - StakedTo(x)[loan] + StakedTo(x)[new]
            /\ Total(StakedTo(x), old) \in Nat
        BY <1>7, <3>1
      <3> HIDE DEF q, old, w
      <3> QED
        BY <3>1, <3>2, <3>3
    <2> QED
      BY <2>1, <2>2
  <1>10. /\ f \in [Owners -> Nat] /\ SumOf(f) = SumOf(s.fund) - s.fund[o] + left
         /\ SumOf(s.fund) \in Nat /\ s.fund[o] \in Nat
    <2>1. f \in [Owners -> Nat] /\ f[o] = left /\ s.fund[o] \in Nat
      BY <1>1, <1>3
    <2> DEFINE g == s.fund
    <2>2. g \in [Owners -> Nat] /\ o \in Owners /\ f \in [Owners -> Nat] /\ \A x \in Owners \ {o} : f[x] = g[x]
      BY <1>1, <1>3, <2>1
    <2> HIDE DEF g, o, f
    <2>3. IsFiniteSet(Units(g)) /\ SumOf(g) \in Nat
      BY <2>2, SumIsFinite, OwnerSums DEF RexPoolConstants
    <2>4. SumOf(f) = SumOf(g) - g[o] + f[o]
      BY ONLY <2>2, <2>3, SumOneEntry
    <2> QED
      BY <2>1, <2>3, <2>4 DEF g
  <1>11. t = [s EXCEPT !.pool = p, !.loans = [s.loans EXCEPT ![r] = q], !.fund = f,
                       !.rented = [s.rented EXCEPT ![r] = w]]
    BY <1>1 DEF Refunded, Tables
  <1>12. LoansMake(s, r, p, q, f, w, t)
    <2>1. /\ p.total_lendable = p.total_lent + p.total_unlent
          /\ s.pool.total_rex = 0 => p.total_lent = 0
      BY DEF Sound, TablesAddUp, PoolStands
    <2>2. p.total_lent = s.pool.total_lent - Total(Staked, old) + Total(Staked, q)
      <3>1. s.pool.total_lent \in Nat
        BY <1>1, PoolTypes
      <3> HIDE DEF q, old
      <3> QED
        BY <1>8, <3>1
    <2> HIDE DEF w, q, f
    <2> QED
      BY <1>1, <1>6, <1>9, <1>10, <1>11, <2>1, <2>2 DEF LoansMake
  <1>13. TableFollows(old, q)
    <2> SUFFICES ASSUME NEW k \in DOMAIN q
                 PROVE  k >= k /\ q[k].left <= old[k].left /\ q[k].total_staked = old[k].total_staked
                        /\ k \in DOMAIN old
      BY DEF TableFollows
    <2>1. k \in DOMAIN old /\ q[k].left = old[k].left /\ q[k].total_staked = old[k].total_staked
      BY <1>2, <1>5
    <2> HIDE DEF q, old
    <2>2. k \in Int /\ old[k] \in Loan
      BY <1>2, <2>1
    <2>3. old[k].left \in Int
      BY <2>2, LoanFields
    <2> QED
      BY <2>1, <2>2, <2>3
  <1>14. SumOf(f) + p.held + Total(Left, q) = SumOf(s.fund) + s.pool.held + Total(Left, old)
    <2>1. p.held \in Nat
      BY <1>1, PoolTypes
    <2> HIDE DEF q, old, f
    <2> QED
      BY <1>3, <1>8, <1>10, <2>1
  <1> HIDE DEF q, w, f
  <1> QED
    BY <1>12, <1>13, <1>14, LoansChangedLead

\* It leads to a sound step.
LEMMA LoanStep ==
  ASSUME RexPoolConstants, PoolInv, NEW t, rex' = t, LoansLead(rex, t),
         UNCHANGED <<tokens, vault, delegated, staked>>
  PROVE  StepKeeps /\ VotesKept
  <1>1. FairStep(rex, t)
    BY FairLoans
  <1>2. OthersOK' /\ vault' >= Owed(t)
    BY InvParts DEF OthersOK, LoansLead, Leads
  <1>3. Sound(t) /\ \A y \in Owners : VotesDue(t, y) = VotesDue(rex, y)
    BY DEF LoansLead, Leads
  <1>4. VotesKept
    BY <1>3, VotesStay
  <1> QED
    BY <1>1, <1>2, <1>3, <1>4, StepMade

LEMMA FundLoanStep ==
  ASSUME RexPoolConstants, PoolInv, NEW r \in Resources, NEW i \in DOMAIN rex.loans[r],
         NEW amount \in LoanFunds, FundLoan(r, i, amount)
  PROVE  StepKeeps /\ VotesKept
  <1> DEFINE loan == rex.loans[r][i]
             new == [loan EXCEPT !.balance = @ + amount]
             left == rex.fund[loan.from] - amount
             t == rex'
  <1>1. Sound(rex) /\ rex \in Tables /\ rex.fund \in [Owners -> Nat] /\ amount \in Nat
        /\ rex.loans \in [Resources -> Seq(Loan)]
    BY InvParts, TableTypes DEF RexPoolConstants
  <1>2. loan \in Loan
    BY <1>1, SoundLoans
  <1>3. loan.from \in Owners /\ loan.balance \in Nat
    BY <1>2, LoanFields
  <1>4. amount <= rex.fund[loan.from] /\ UNCHANGED <<tokens, vault, delegated, staked>>
        /\ t = [rex EXCEPT !.fund[loan.from] = @ - amount, !.loans[r][i].balance = @ + amount]
    BY DEF FundLoan
  <1>5. t = Refunded(rex, r, i, left, new) /\ rex' = t
    BY <1>1, <1>4 DEF Refunded, Tables
  <1>6. new \in Loan /\ new.balance = loan.balance + amount
        /\ new.total_staked = loan.total_staked /\ new.payment = loan.payment
        /\ new.receiver = loan.receiver /\ new.left = loan.left
    <2>1. loan.balance + amount \in Nat
      BY <1>1, <1>3
    <2> HIDE DEF loan
    <2> QED
      BY <1>2, <2>1 DEF Loan
  <1>7. left \in Nat /\ left + new.balance = rex.fund[loan.from] + loan.balance
    <2>1. rex.fund[loan.from] \in Nat
      BY <1>1, <1>3
    <2> HIDE DEF loan, new
    <2> QED
      BY <1>1, <1>3, <1>4, <1>6, <2>1
  <1>8. loan = rex.loans[r][i]
    OBVIOUS
  <1> HIDE DEF loan, new, left, t
  <1>9. LoansLead(rex, t)
    BY <1>1, <1>5, <1>6, <1>7, <1>8, LoanRefunded
  <1> QED
    BY <1>4, <1>5, <1>9, LoanStep

LEMMA DefundLoanStep ==
  ASSUME RexPoolConstants, PoolInv, NEW r \in Resources, NEW i \in DOMAIN rex.loans[r],
         NEW amount \in LoanFunds, DefundLoan(r, i, amount)
  PROVE  StepKeeps /\ VotesKept
  <1> DEFINE loan == rex.loans[r][i]
             new == [loan EXCEPT !.balance = @ - amount]
             left == rex.fund[loan.from] + amount
             t == rex'
  <1>1. Sound(rex) /\ rex \in Tables /\ rex.fund \in [Owners -> Nat] /\ amount \in Nat
        /\ rex.loans \in [Resources -> Seq(Loan)]
    BY InvParts, TableTypes DEF RexPoolConstants
  <1>2. loan \in Loan
    BY <1>1, SoundLoans
  <1>3. loan.from \in Owners /\ loan.balance \in Nat
    BY <1>2, LoanFields
  <1>4. amount <= loan.balance /\ UNCHANGED <<tokens, vault, delegated, staked>>
        /\ t = [rex EXCEPT !.fund[loan.from] = @ + amount, !.loans[r][i].balance = @ - amount]
    BY DEF DefundLoan
  <1>5. t = Refunded(rex, r, i, left, new) /\ rex' = t
    BY <1>1, <1>4 DEF Refunded, Tables
  <1>6. new \in Loan /\ new.balance = loan.balance - amount
        /\ new.total_staked = loan.total_staked /\ new.payment = loan.payment
        /\ new.receiver = loan.receiver /\ new.left = loan.left
    <2>1. loan.balance - amount \in Nat
      BY <1>1, <1>3, <1>4
    <2> HIDE DEF loan
    <2> QED
      BY <1>2, <2>1 DEF Loan
  <1>7. left \in Nat /\ left + new.balance = rex.fund[loan.from] + loan.balance
    <2>1. rex.fund[loan.from] \in Nat
      BY <1>1, <1>3
    <2> HIDE DEF loan, new
    <2> QED
      BY <1>1, <1>3, <1>4, <1>6, <2>1
  <1>8. loan = rex.loans[r][i]
    OBVIOUS
  <1> HIDE DEF loan, new, left, t
  <1>9. LoansLead(rex, t)
    BY <1>1, <1>5, <1>6, <1>7, <1>8, LoanRefunded
  <1> QED
    BY <1>4, <1>5, <1>9, LoanStep

\* Time passes.
AgedLoans(s) == [r \in Resources |-> [i \in DOMAIN s.loans[r] |-> Aged(s.loans[r][i])]]

LEMMA AgedIsLoan ==
  ASSUME RexPoolConstants, NEW l \in Loan
  PROVE  /\ Aged(l) \in Loan /\ Aged(l).left <= l.left
         /\ Aged(l).total_staked = l.total_staked /\ Aged(l).balance = l.balance
         /\ Aged(l).receiver = l.receiver /\ Aged(l).payment = l.payment
  <1>1. LoanTime \in Nat \ {0}
    BY DEF RexPoolConstants
  <1>2. l.left \in -LoanTime .. LoanTime
    BY LoanFields
  <1> DEFINE x == IF l.left > -LoanTime THEN l.left - 1 ELSE l.left
  <1>3. x \in -LoanTime .. LoanTime /\ x <= l.left
    BY <1>1, <1>2
  <1>4. Aged(l) = [l EXCEPT !.left = x]
    BY DEF Aged
  <1> HIDE DEF x
  <1> QED
    BY <1>3, <1>4 DEF Loan

LEMMA AgedLead ==
  ASSUME RexPoolConstants, NEW s, Sound(s),
         NEW t, t = TablesWith(s, s.pool, AgedLoans(s), s.fund, s.rented)
  PROVE  LoansLead(s, t)
  <1> DEFINE L == AgedLoans(s)
  <1>1. s \in Tables /\ s.pool \in PoolRow /\ s.fund \in [Owners -> Nat]
        /\ s.rented \in [Resources -> [Owners -> Nat]] /\ s.loans \in [Resources -> Seq(Loan)]
    BY TableTypes DEF Sound
  <1>2. ASSUME NEW r \in Resources
        PROVE  /\ L[r] \in Seq(Loan) /\ DOMAIN L[r] = DOMAIN s.loans[r]
               /\ \A i \in DOMAIN s.loans[r] :
                    /\ i \in Nat /\ s.loans[r][i] \in Loan /\ s.loans[r][i].left \in Int
                    /\ L[r][i].left <= s.loans[r][i].left
                    /\ L[r][i].total_staked = s.loans[r][i].total_staked
                    /\ L[r][i].balance = s.loans[r][i].balance
                    /\ L[r][i].receiver = s.loans[r][i].receiver
                    /\ L[r][i].payment = s.loans[r][i].payment
    <2> DEFINE old == s.loans[r]
               q == [i \in DOMAIN old |-> Aged(old[i])]
    <2>1. L[r] = q
      BY DEF AgedLoans
    <2>2. old \in Seq(Loan)
      BY <1>1
    <2> HIDE DEF old, L
    <2>3. \A i \in DOMAIN old : i \in Nat /\ old[i] \in Loan
      BY <2>2
    <2>4. \A i \in DOMAIN old :
            /\ Aged(old[i]) \in Loan /\ Aged(old[i]).left <= old[i].left /\ old[i].left \in Int
            /\ Aged(old[i]).total_staked = old[i].total_staked /\ Aged(old[i]).balance = old[i].balance
            /\ Aged(old[i]).receiver = old[i].receiver /\ Aged(old[i]).payment = old[i].payment
      <3> TAKE i \in DOMAIN old
      <3>1. old[i] \in Loan
        BY <2>3
      <3>2. old[i].left \in Int
        BY <3>1, LoanFields
      <3> QED
        BY <3>1, <3>2, AgedIsLoan
    <2>5. q \in Seq(Loan)
      <3>1. DOMAIN old = 1 .. Len(old) /\ Len(old) \in Nat
        BY <2>2
      <3>2. q \in [1 .. Len(old) -> Loan]
        BY <2>4, <3>1
      <3> HIDE DEF q
      <3> QED
        BY <3>1, <3>2, SeqDef
    <2>6. DOMAIN q = DOMAIN old /\ \A i \in DOMAIN old : q[i] = Aged(old[i])
      OBVIOUS
    <2> HIDE DEF q
    <2> QED
      BY <2>1, <2>3, <2>4, <2>5, <2>6 DEF old
  <1>3. L \in [Resources -> Seq(Loan)]
    <2>1. L = [r \in Resources |-> L[r]]
      BY DEF AgedLoans
    <2> HIDE DEF L
    <2> QED
      BY <1>2, <2>1
  <1> HIDE DEF L
  <1>4. AreTablesWith(t, s, s.pool, L, s.fund, s.rented)
    BY <1>1, <1>3, LoansSet DEF L
  <1>5. t \in Tables /\ t.pool = s.pool /\ t.loans = L /\ t.fund = s.fund /\ t.rented = s.rented
        /\ t.owned = s.owned /\ t.queue = s.queue /\ t.proceeds = s.proceeds
        /\ t.stake_change = s.stake_change /\ t.vote_stake = s.vote_stake
    BY <1>4 DEF AreTablesWith
  <1>6. ASSUME NEW r \in Resources
        PROVE  /\ LentBy(t, r) = LentBy(s, r) /\ BalancesOf(t, r) = BalancesOf(s, r)
               /\ \A o \in Owners : LentTo(t, r, o) = LentTo(s, r, o)
    <2> DEFINE old == s.loans[r]
               q == L[r]
    <2>1. /\ DOMAIN q = DOMAIN old
          /\ \A i \in DOMAIN old : /\ q[i].total_staked = old[i].total_staked
                                   /\ q[i].balance = old[i].balance
                                   /\ q[i].receiver = old[i].receiver
      BY <1>2
    <2>2. t.loans[r] = q
      BY <1>5
    <2> HIDE DEF q, old
    <2>3. [i \in DOMAIN q |-> q[i].total_staked] = [i \in DOMAIN old |-> old[i].total_staked]
      BY <2>1
    <2>4. [i \in DOMAIN q |-> q[i].balance] = [i \in DOMAIN old |-> old[i].balance]
      BY <2>1
    <2>5. ASSUME NEW o \in Owners
          PROVE  LentTo(t, r, o) = LentTo(s, r, o)
      <3>1. [i \in DOMAIN q |-> IF q[i].receiver = o THEN q[i].total_staked ELSE 0]
              = [i \in DOMAIN old |-> IF old[i].receiver = o THEN old[i].total_staked ELSE 0]
        BY <2>1
      <3> QED
        BY <2>2, <3>1 DEF LentTo, old
    <2> QED
      BY <2>2, <2>3, <2>4, <2>5 DEF LentBy, BalancesOf, old
  <1>7. AllLent(t) = AllLent(s) /\ AllLeft(t) = AllLeft(s)
    <2>1. [r \in Resources |-> LentBy(t, r)] = [r \in Resources |-> LentBy(s, r)]
      BY <1>6
    <2>2. [r \in Resources |-> BalancesOf(t, r)] = [r \in Resources |-> BalancesOf(s, r)]
      BY <1>6
    <2> QED
      BY <2>1, <2>2 DEF AllLent, AllLeft
  <1>8. Sound(t)
    <2>1. TablesAddUp(t)
      <3>1. TablesAddUp(s)
        BY DEF Sound
      <3>2. t.pool.total_lent = AllLent(t)
        BY <1>5, <1>7, <3>1 DEF TablesAddUp, AllLent
      <3>3. \A r \in Resources, o \in Owners : t.rented[r][o] = LentTo(t, r, o)
        BY <1>5, <1>6, <3>1 DEF TablesAddUp
      <3> QED
        BY <1>5, <3>1, <3>2, <3>3 DEF TablesAddUp, AllLent
    <2>2. PoolStands(t)
      BY <1>5 DEF Sound, PoolStands, NamebidsHaveOwners, rex_available
    <2>3. LoansStand(t)
      <3> SUFFICES ASSUME NEW r \in Resources, NEW i \in DOMAIN t.loans[r]
                   PROVE  t.loans[r][i].total_staked > 0 /\ t.loans[r][i].payment > 0
        BY DEF LoansStand
      <3>1. i \in DOMAIN s.loans[r] /\ t.loans[r][i].total_staked = s.loans[r][i].total_staked
            /\ t.loans[r][i].payment = s.loans[r][i].payment
        BY <1>2, <1>5
      <3> QED
        BY <3>1 DEF Sound, LoansStand
    <2>4. OrdersStand(t)
      BY <1>5 DEF Sound, OrdersStand
    <2> QED
      BY <1>5, <2>1, <2>2, <2>3, <2>4 DEF Sound
  <1>9. Owed(t) = Owed(s)
    BY <1>1, <1>5, <1>7, OwedIsNat
  <1>10. LoansFollow(s, t)
    <2> SUFFICES ASSUME NEW r \in Resources, NEW i \in DOMAIN t.loans[r]
                 PROVE  /\ i \in DOMAIN s.loans[r] /\ i >= i
                        /\ t.loans[r][i].left <= s.loans[r][i].left
                        /\ t.loans[r][i].total_staked = s.loans[r][i].total_staked
      BY DEF LoansFollow
    <2> QED
      BY <1>2, <1>5
  <1>11. Leads(s, t)
    <2>1. PriceKept(s.pool.total_lendable, s.pool.total_rex, s.pool.total_lendable, s.pool.total_rex)
      BY LeadsToSame DEF Leads
    <2> QED
      BY <1>5, <1>8, <1>9, <1>10, <2>1 DEF Leads, VotesDue
  <1> QED
    BY <1>5, <1>11 DEF LoansLead

LEMMA TickStep ==
  ASSUME RexPoolConstants, PoolInv, Tick
  PROVE  StepKeeps /\ VotesKept
  <1> DEFINE t == rex'
  <1>1. Sound(rex) /\ rex \in Tables
    BY InvParts
  <1>2. t = TablesWith(rex, rex.pool, AgedLoans(rex), rex.fund, rex.rented) /\ rex' = t
    <2> DEFINE L == AgedLoans(rex)
    <2>1. t = [rex EXCEPT !.loans = L]
      BY DEF Tick, AgedLoans
    <2> HIDE DEF L, t
    <2>2. t = TablesWith(rex, rex.pool, L, rex.fund, rex.rented)
      BY <1>1, <2>1 DEF TablesWith, Tables
    <2> QED
      BY <2>2 DEF L, t
  <1> HIDE DEF t
  <1>3. LoansLead(rex, t)
    BY <1>1, <1>2, AgedLead
  <1> QED
    BY <1>2, <1>3, LoanStep DEF Tick

-----------------------------------------------------------------------------
(* All behaviours.                                                         *)

\* Nothing is lent before there are loans.
LEMMA NothingLent ==
  ASSUME NEW s, \A r \in Resources : s.loans[r] = << >>
  PROVE  /\ \A r \in Resources : LentBy(s, r) = 0 /\ BalancesOf(s, r) = 0
         /\ \A r \in Resources : \A o : LentTo(s, r, o) = 0
         /\ AllLent(s) = 0 /\ AllLeft(s) = 0
  <1>1. ASSUME NEW r \in Resources
        PROVE  LentBy(s, r) = 0 /\ BalancesOf(s, r) = 0 /\ \A o : LentTo(s, r, o) = 0
    <2>1. DOMAIN s.loans[r] = {}
      BY DEF Resources
    <2>2. [i \in DOMAIN s.loans[r] |-> s.loans[r][i].total_staked] = [a \in {} |-> 0]
      BY <2>1
    <2>3. [i \in DOMAIN s.loans[r] |-> s.loans[r][i].balance] = [a \in {} |-> 0]
      BY <2>1
    <2>4. ASSUME NEW o
          PROVE  [i \in DOMAIN s.loans[r] |->
                    IF s.loans[r][i].receiver = o THEN s.loans[r][i].total_staked ELSE 0] = [a \in {} |-> 0]
      BY <2>1
    <2>5. SumOf([a \in {} |-> 0]) = 0
      BY SumOfZeros
    <2> QED
      BY <2>2, <2>3, <2>4, <2>5 DEF LentBy, BalancesOf, LentTo
  <1>2. /\ [r \in Resources |-> LentBy(s, r)] = [r \in Resources |-> 0]
        /\ [r \in Resources |-> BalancesOf(s, r)] = [r \in Resources |-> 0]
    BY <1>1
  <1> QED
    BY <1>1, <1>2, SumOfZeros DEF AllLent, AllLeft

\* The tables at the start.
LEMMA PoolInit ==
  ASSUME RexPoolConstants, Init
  PROVE  PoolInv /\ VoteStakeIsCounted
  <1> DEFINE s == rex
             zero == [o \in Owners |-> 0]
  <1>1. /\ s.pool = [exists |-> FALSE, total_lent |-> 0, total_unlent |-> 0, total_rent |-> 0,
                     total_lendable |-> 0, total_rex |-> 0, namebid_proceeds |-> 0, held |-> 0]
        /\ s.fund = zero /\ s.owned = zero /\ s.has_row = {} /\ s.vote_stake = zero /\ s.queue = << >>
        /\ s.proceeds = zero /\ s.stake_change = zero
        /\ s.loans = [r \in Resources |-> << >>] /\ s.rented = [r \in Resources |-> zero]
    BY DEF Init
  <1>2. s \in Tables
    <2>1. s.pool \in PoolRow
      BY <1>1 DEF PoolRow
    <2>2. zero \in [Owners -> Nat] /\ zero \in [Owners -> Int]
      OBVIOUS
    <2>3. s.loans \in [Resources -> Seq(Loan)] /\ s.queue \in Seq([owner : Owners, rex : Nat])
      BY <1>1
    <2>4. s.rented \in [Resources -> [Owners -> Nat]]
      BY <1>1, <2>2
    <2>5. s = [pool |-> s.pool, fund |-> s.fund, owned |-> s.owned, has_row |-> s.has_row,
               vote_stake |-> s.vote_stake, queue |-> s.queue, proceeds |-> s.proceeds,
               stake_change |-> s.stake_change, loans |-> s.loans, rented |-> s.rented]
      BY DEF Init
    <2> HIDE DEF s, zero
    <2> QED
      BY <1>1, <2>1, <2>2, <2>3, <2>4, <2>5 DEF Tables
  <1>3. /\ s.pool.exists = FALSE /\ s.pool.total_lent = 0 /\ s.pool.total_unlent = 0
        /\ s.pool.total_lendable = 0 /\ s.pool.total_rex = 0 /\ s.pool.namebid_proceeds = 0 /\ s.pool.held = 0
    BY <1>1
  <1>4. \A o \in Owners : zero[o] = 0
    OBVIOUS
  <1>5. SumOf(zero) = 0
    BY SumOfZeros
  <1>6. \A r \in Resources : s.loans[r] = << >> /\ s.rented[r] = zero
    BY <1>1
  <1> HIDE DEF s, zero
  <1>7. /\ AllLent(s) = 0 /\ AllLeft(s) = 0
        /\ \A r \in Resources : \A o : LentTo(s, r, o) = 0
    BY <1>6, NothingLent
  <1>8. TablesAddUp(s)
    <2>1. \A r \in Resources, o \in Owners : s.rented[r][o] = LentTo(s, r, o)
      BY <1>4, <1>6, <1>7
    <2> QED
      BY <1>1, <1>3, <1>5, <1>7, <2>1 DEF TablesAddUp, AllLent
  <1>9. PoolStands(s)
    BY <1>3 DEF PoolStands, NamebidsHaveOwners
  <1>10. LoansStand(s) /\ OrdersStand(s)
    <2>1. s.queue = << >> /\ \A r \in Resources : DOMAIN s.loans[r] = {}
      BY <1>1, <1>6
    <2> QED
      BY <2>1 DEF LoansStand, OrdersStand
  <1>11. Owed(s) = 0
    <2>1. Owed(s) = SumOf(s.fund) + s.pool.total_lendable + s.pool.held + AllLeft(s) + SumOf(s.proceeds)
      BY <1>2, OwedIsNat
    <2> QED
      BY <2>1, <1>1, <1>3, <1>5, <1>7
  <1>12. Sound(s)
    BY <1>2, <1>8, <1>9, <1>10 DEF Sound
  <1>13. OthersOK /\ vault = 0 /\ delegated = InitStake /\ staked = InitStake
    BY DEF Init, OthersOK, RexPoolConstants
  <1>14. VoteStakeIsCounted
    <2> SUFFICES ASSUME NEW o \in Owners
                 PROVE  staked[o] + s.stake_change[o] >= delegated[o] + s.vote_stake[o]
      BY DEF VoteStakeIsCounted, s
    <2>1. InitStake[o] \in Nat
      BY DEF RexPoolConstants
    <2>2. s.stake_change[o] = 0 /\ s.vote_stake[o] = 0
      BY <1>1, <1>4
    <2> QED
      BY <2>1, <2>2, <1>13
  <1> QED
    BY <1>2, <1>11, <1>12, <1>13, <1>14 DEF PoolInv, TypeOK, OthersOK, s

\* Every action but unstaketorex.
LEMMA TradeStep ==
  ASSUME RexPoolConstants, PoolInv, Trade
  PROVE  StepKeeps /\ VotesKept
  <1>1. ASSUME NEW o \in Owners,
               \/ \E amount \in Transfers : Deposit(o, amount) \/ Withdraw(o, amount)
               \/ \E amount \in Purchases : BuyRex(o, amount)
               \/ \E amount \in RexAmounts : SellRex(o, amount)
        PROVE  StepKeeps /\ VotesKept
    BY <1>1, DepositStep, WithdrawStep, PoolBuyRexStep, PoolSellRexStep
  <1>2. ASSUME NEW o \in Owners, NEW r \in Resources, NEW receiver \in Owners, NEW payment \in Payments,
               NEW fund \in {0} \union LoanFunds, Rent(r, o, receiver, payment, fund)
        PROVE  StepKeeps /\ VotesKept
    BY <1>2, RentStep
  <1>3. ASSUME NEW o \in Owners,
               CancelRexOrder(o) \/ UpdateRex(o) \/ UpdateRexStake(o) \/ Maintain(o) \/ CloseRex(o)
        PROVE  StepKeeps /\ VotesKept
    BY <1>3, PoolCancelRexOrderStep, UpdateRexStep, UpdateRexStakeStep, MaintainStep, CloseRexStep
  <1>4. ASSUME NEW r \in Resources, NEW i \in DOMAIN rex.loans[r], NEW amount \in LoanFunds,
               FundLoan(r, i, amount) \/ DefundLoan(r, i, amount)
        PROVE  StepKeeps /\ VotesKept
    BY <1>4, FundLoanStep, DefundLoanStep
  <1>5. ASSUME \/ \E amount \in Rents : SetRex(amount)
               \/ \E max \in MaxRuns : RexExec(max)
               \/ \E fee \in Fees : ChannelToRex(fee) \/ ChannelNamebidToRex(fee)
               \/ Tick
        PROVE  StepKeeps /\ VotesKept
    BY <1>5, SetRexStep, RexExecStep, ChannelToRexStep, ChannelNamebidToRexStep, TickStep
  <1> QED
    BY <1>1, <1>2, <1>3, <1>4, <1>5 DEF Trade

\* A step that changes nothing.
LEMMA RexStutters ==
  ASSUME RexPoolConstants, PoolInv, UNCHANGED vars
  PROVE  StepKeeps /\ VotesKept
  <1>1. rex' = rex /\ Sound(rex) /\ OthersOK' /\ vault' >= Owed(rex)
    BY InvParts DEF vars, OthersOK
  <1>2. FairStep(rex, rex)
    <2>1. rex \in Tables
      BY <1>1 DEF Sound
    <2> QED
      BY <1>1, FairWithSamePool
  <1>3. StepKeeps
    BY <1>1, <1>2, StepMade
  <1>4. VotesKept
    BY DEF VotesKept, VoteStakeIsCounted, vars
  <1> QED
    BY <1>3, <1>4

LEMMA PoolStep ==
  ASSUME RexPoolConstants, PoolInv, [Next]_vars
  PROVE  StepKeeps
  <1>1. CASE Trade
    BY <1>1, TradeStep
  <1>2. CASE \E o \in Owners, amount \in Purchases : UnstakeToRex(o, amount)
    BY <1>2, UnstakeToRexStep
  <1>3. CASE UNCHANGED vars
    BY <1>3, RexStutters
  <1> QED
    BY <1>1, <1>2, <1>3 DEF Next

LEMMA PoolInvIsSound ==
  ASSUME RexPoolConstants, PoolInv
  PROVE  TypeOK /\ PoolIsSound
  <1>1. TypeOK /\ Sound(rex) /\ vault >= Owed(rex)
    BY DEF PoolInv
  <1>2. OrdersAreCovered(rex)
    BY <1>1, OrdersAreCoveredBySound
  <1>3. PoolAddsUp(rex)
    <2>1. DOMAIN rex.loans = Resources
      BY <1>1, TableTypes DEF TypeOK
    <2> QED
      BY <1>1, <2>1 DEF PoolAddsUp, Sound, TablesAddUp, AllLent
  <1> QED
    BY <1>1, <1>2, <1>3 DEF PoolIsSound, Sound, PoolStands

\* Every behaviour stays in PoolInv, and no step of it is unfair.
LEMMA PoolInvHolds ==
  ASSUME RexPoolConstants
  PROVE  Spec => []PoolInv /\ [][FairStep(rex, rex')]_vars
  <1>1. Init => PoolInv
    BY PoolInit
  <1>2. PoolInv /\ [Next]_vars => PoolInv' /\ FairStep(rex, rex')
    BY PoolStep DEF StepKeeps
  <1>3. PoolInv /\ [Next]_vars => [FairStep(rex, rex')]_vars
    BY <1>2
  <1>4. PoolInv /\ [Next]_vars => PoolInv'
    BY <1>2
  <1> QED
    BY <1>1, <1>3, <1>4, PTL DEF Spec

\* The pool is sound in every state (REX of any number of owners, any number
\* of loan tables, any rents and funds): what is lendable is lent or not, all
\* REX is owned, what is lent is in loans, and each account has the weights of
\* the loans it received; eosio.rex holds all that is owed to somebody; every
\* order in the queue is covered; and bids are promised to owners only.
THEOREM RexPoolStaysSound ==
  ASSUME RexPoolConstants
  PROVE  Spec => [](TypeOK /\ PoolIsSound)
  <1>1. PoolInv => TypeOK /\ PoolIsSound
    BY PoolInvIsSound
  <1> QED
    BY <1>1, PoolInvHolds, PTL

\* As long as nobody uses unstaketorex the vote of an owner counts all of the
\* stake and of the REX, whatever orders are filled in whose actions, once what
\* they change is collected.
THEOREM RexVotesAreCounted ==
  ASSUME RexPoolConstants
  PROVE  TradeSpec => []VoteStakeIsCounted
  <1> DEFINE Inv == PoolInv /\ VoteStakeIsCounted
  <1>1. Init => Inv
    BY PoolInit
  <1>2. Inv /\ [Trade]_vars => Inv'
    <2> SUFFICES ASSUME Inv, [Trade]_vars PROVE Inv'
      OBVIOUS
    <2>1. StepKeeps /\ VotesKept
      BY TradeStep, RexStutters
    <2> QED
      BY <2>1 DEF StepKeeps, VotesKept
  <1>3. Inv => VoteStakeIsCounted
    OBVIOUS
  <1> HIDE DEF Inv
  <1> QED
    BY <1>1, <1>2, <1>3, PTL DEF TradeSpec

\* Neither REX nor loans lose their price.  No step lets the price of REX fall,
\* while there is any: neither purchases nor sales, returns nor loans, whatever
\* get_bancor_output and the quotients of buyrex and fill_rex_order round.  And
\* while there are tokens to lend at a price, no step takes away the price, and
\* none that leaves anything to speak of lent takes the last token.
THEOREM RexPricesAreKept ==
  ASSUME RexPoolConstants
  PROVE  Spec => PricesAreKept
  <1>1. ASSUME PoolInv, FairStep(rex, rex')
        PROVE  PriceDoesNotFall
    <2> SUFFICES ASSUME rex_available(rex), rex_available(rex)'
                 PROVE  rex'.pool.total_lendable * rex.pool.total_rex >= rex.pool.total_lendable * rex'.pool.total_rex
      BY DEF PriceDoesNotFall
    <2>1. rex'.pool.total_rex > 0 /\ rex_available(rex')
      BY DEF rex_available
    <2> QED
      BY <1>1, <2>1 DEF FairStep, PriceKept
  <1>2. ASSUME FairStep(rex, rex')
        PROVE  LoansKeepAPrice
    BY <1>2 DEF FairStep, Priced, LoansKeepAPrice
  <1>3. PoolInv /\ [FairStep(rex, rex')]_vars => [PriceDoesNotFall /\ LoansKeepAPrice]_vars
    BY <1>1, <1>2
  <1> QED
    BY <1>3, PoolInvHolds, PTL DEF PricesAreKept

\* While an order waits in rexqueue, no step makes or renews a loan, in any
\* table.
THEOREM RexSellersComeFirst ==
  ASSUME RexPoolConstants
  PROVE  Spec => SellersAreFirst
  <1>1. ASSUME PoolInv, FairStep(rex, rex')
        PROVE  SellersComeFirst
    <2>1. DOMAIN rex.loans = Resources
      BY <1>1, TableTypes DEF PoolInv, TypeOK
    <2> QED
      BY <1>1, <2>1 DEF FairStep, LoansFollow, SellersComeFirst
  <1>2. PoolInv /\ [FairStep(rex, rex')]_vars => [SellersComeFirst]_vars
    BY <1>1
  <1> QED
    BY <1>2, PoolInvHolds, PTL DEF SellersAreFirst
==============================================================================
