------------------------- MODULE LedgerArithmetic ----------------------------
(***************************************************************************)
(* The arithmetic the system contract's bookkeeping rests on: sums over    *)
(* the rows of a table, truncated division, and the Bancor formula of      *)
(* exchange_state; and the recursion along the proxies that voters choose. *)
(***************************************************************************)
EXTENDS Integers, FiniteSets, FiniteSetTheorems, TLAPS

\* One element for each unit of each entry of f.
Units(f) == UNION { {a} \X (1 .. f[a]) : a \in DOMAIN f }

\* The sum of the entries of f, all naturals.  Counting units rather than
\* folding keeps the definition free of recursion, so it can be proved about.
SumOf(f) == Cardinality(Units(f))

\* How many numbers of a set are no larger than one.
Rank(S, i) == Cardinality({j \in S : j <= i})

\* The units of one entry.
LEMMA EntryUnits ==
  ASSUME NEW a, NEW n \in Nat
  PROVE  /\ IsFiniteSet({a} \X (1 .. n))
         /\ Cardinality({a} \X (1 .. n)) = n
  <1> DEFINE S == {a}
             T == 1 .. n
  <1>1. IsFiniteSet(S) /\ Cardinality(S) = 1
    BY FS_Singleton
  <1>2. IsFiniteSet(T) /\ Cardinality(T) = n
    BY FS_Interval
  <1> HIDE DEF S, T
  <1>3. IsFiniteSet(S \X T) /\ Cardinality(S \X T) = 1 * n
    BY <1>1, <1>2, FS_Product
  <1> QED
    BY <1>3 DEF S, T

\* Taking a part away from a finite set and adding a disjoint one.
LEMMA ReplacePart ==
  ASSUME NEW X, NEW B, NEW C, IsFiniteSet(X), IsFiniteSet(C),
         B \subseteq X, (X \ B) \intersect C = {}
  PROVE  /\ IsFiniteSet((X \ B) \union C)
         /\ Cardinality((X \ B) \union C)
              = Cardinality(X) - Cardinality(B) + Cardinality(C)
  <1> DEFINE Y == X \ B
  <1>1. Cardinality(X \intersect B) = Cardinality(B)
    <2>1. X \intersect B = B
      OBVIOUS
    <2> QED
      BY <2>1
  <1>2. IsFiniteSet(Y) /\ Cardinality(Y) = Cardinality(X) - Cardinality(B)
    BY <1>1, FS_Difference
  <1>3. Y \intersect C = {}
    OBVIOUS
  <1> HIDE DEF Y
  <1>4. /\ IsFiniteSet(Y \union C)
        /\ Cardinality(Y \union C)
             = Cardinality(Y) + Cardinality(C) - Cardinality(Y \intersect C)
    BY <1>2, FS_Union
  <1>5. Cardinality(Y \intersect C) = 0
    BY <1>3, FS_EmptySet
  <1>6. /\ Cardinality(Y) \in Nat /\ Cardinality(C) \in Nat
        /\ Cardinality(X) \in Nat /\ Cardinality(B) \in Nat
    BY <1>2, FS_CardinalityType, FS_Subset
  <1>7. /\ IsFiniteSet(Y \union C)
        /\ Cardinality(Y \union C) = Cardinality(X) - Cardinality(B) + Cardinality(C)
    BY <1>2, <1>4, <1>5, <1>6
  <1> QED
    BY <1>7 DEF Y

\* Setting one entry changes the sum by the change of that entry.
LEMMA SumUpdate ==
  ASSUME NEW A, NEW f \in [A -> Nat], IsFiniteSet(Units(f)),
         NEW a \in A, NEW v \in Nat
  PROVE  /\ IsFiniteSet(Units([f EXCEPT ![a] = v]))
         /\ SumOf([f EXCEPT ![a] = v]) = SumOf(f) - f[a] + v
  <1> DEFINE g == [f EXCEPT ![a] = v]
             X == Units(f)
             B == {a} \X (1 .. f[a])
             C == {a} \X (1 .. v)
  <1>1. f[a] \in Nat
    OBVIOUS
  <1>2. /\ Units(g) = (X \ B) \union C
        /\ (X \ B) \intersect C = {}
        /\ B \subseteq X
    BY DEF Units
  <1>3. /\ IsFiniteSet(B) /\ Cardinality(B) = f[a]
        /\ IsFiniteSet(C) /\ Cardinality(C) = v
    BY <1>1, EntryUnits
  <1>4. IsFiniteSet(X)
    OBVIOUS
  <1>5. SumOf(f) = Cardinality(X) /\ SumOf(g) = Cardinality(Units(g))
    BY DEF SumOf
  <1> HIDE DEF X, B, C
  <1>6. /\ IsFiniteSet((X \ B) \union C)
        /\ Cardinality((X \ B) \union C) = Cardinality(X) - Cardinality(B) + Cardinality(C)
    BY <1>2, <1>3, <1>4, ReplacePart
  <1> HIDE DEF g
  <1>7. IsFiniteSet(Units(g)) /\ SumOf(g) = SumOf(f) - f[a] + v
    BY <1>2, <1>3, <1>5, <1>6
  <1> QED
    BY <1>7 DEF g

\* Of two tables that differ in two entries at most, the sums differ by what
\* those entries differ by.
LEMMA SumTwoEntries ==
  ASSUME NEW A, NEW f \in [A -> Nat], NEW g \in [A -> Nat], IsFiniteSet(Units(f)),
         NEW a \in A, NEW b \in A, a # b,
         \A x \in A \ {a, b} : g[x] = f[x]
  PROVE  /\ IsFiniteSet(Units(g))
         /\ SumOf(g) - g[a] - g[b] = SumOf(f) - f[a] - f[b]
  <1> DEFINE u == g[a]
             v == g[b]
             fa == f[a]
             fb == f[b]
             h == [f EXCEPT ![a] = u]
  <1>1. u \in Nat /\ v \in Nat /\ fa \in Nat /\ fb \in Nat
    OBVIOUS
  <1>2. h \in [A -> Nat] /\ h[b] = fb
    BY <1>1
  <1>3. g = [h EXCEPT ![b] = v]
    OBVIOUS
  <1>4. IsFiniteSet(Units(h)) /\ SumOf(h) = SumOf(f) - fa + u
    <2> HIDE DEF u
    <2> QED
      BY <1>1, SumUpdate
  <1>5. IsFiniteSet(Units(g)) /\ SumOf(g) = SumOf(h) - fb + v
    <2>1. h \in [A -> Nat] /\ IsFiniteSet(Units(h)) /\ v \in Nat
      BY <1>1, <1>2, <1>4
    <2> HIDE DEF h, v
    <2>2. /\ IsFiniteSet(Units([h EXCEPT ![b] = v]))
          /\ SumOf([h EXCEPT ![b] = v]) = SumOf(h) - h[b] + v
      BY ONLY <2>1, b \in A, SumUpdate
    <2> HIDE DEF fb
    <2> QED
      BY <1>2, <1>3, <2>2
  <1>6. SumOf(f) \in Nat
    BY FS_CardinalityType DEF SumOf
  <1>7. SumOf(g) - u - v = SumOf(f) - fa - fb
    <2> HIDE DEF u, v, fa, fb, h
    <2> QED
      BY <1>1, <1>4, <1>5, <1>6
  <1> QED
    BY <1>5, <1>7

\* No entry exceeds the sum.
LEMMA SumBoundsEntry ==
  ASSUME NEW A, NEW f \in [A -> Nat], IsFiniteSet(Units(f)), NEW a \in A
  PROVE  /\ SumOf(f) \in Nat
         /\ f[a] <= SumOf(f)
  <1> DEFINE g == [f EXCEPT ![a] = 0]
  <1>1. 0 \in Nat /\ f[a] \in Nat
    OBVIOUS
  <1>2. IsFiniteSet(Units(g)) /\ SumOf(g) = SumOf(f) - f[a] + 0
    BY <1>1, SumUpdate
  <1> HIDE DEF g
  <1>3. SumOf(f) \in Nat /\ SumOf(g) \in Nat
    BY <1>2, FS_CardinalityType DEF SumOf
  <1> QED
    BY <1>1, <1>2, <1>3

\* A table of zeros sums to zero.
LEMMA SumOfZeros ==
  ASSUME NEW A
  PROVE  /\ IsFiniteSet(Units([a \in A |-> 0]))
         /\ SumOf([a \in A |-> 0]) = 0
  <1>1. Units([a \in A |-> 0]) = {}
    BY DEF Units
  <1> QED
    BY <1>1, FS_EmptySet DEF SumOf

\* Of two tables that differ in one entry at most, the sums differ by what
\* that entry differs by.
LEMMA SumOneEntry ==
  ASSUME NEW A, NEW f \in [A -> Nat], NEW g \in [A -> Nat], IsFiniteSet(Units(f)),
         NEW a \in A, \A x \in A \ {a} : g[x] = f[x]
  PROVE  /\ IsFiniteSet(Units(g))
         /\ SumOf(g) = SumOf(f) - f[a] + g[a]
  <1> DEFINE v == g[a]
  <1>1. v \in Nat
    OBVIOUS
  <1>2. g = [f EXCEPT ![a] = v]
    OBVIOUS
  <1> HIDE DEF v
  <1>3. /\ IsFiniteSet(Units([f EXCEPT ![a] = v]))
        /\ SumOf([f EXCEPT ![a] = v]) = SumOf(f) - f[a] + v
    BY <1>1, SumUpdate
  <1> QED
    BY <1>2, <1>3 DEF v

\* A table that selects entries of another, none twice and each in part at
\* most, has a finite sum with it, and no larger one.
LEMMA SumOfSelection ==
  ASSUME NEW A, NEW f \in [A -> Nat], IsFiniteSet(Units(f)),
         NEW B, NEW g \in [B -> Nat], NEW at \in [B -> A],
         \A b \in B : \A c \in B : at[b] = at[c] => b = c,
         \A b \in B : g[b] <= f[at[b]]
  PROVE  /\ IsFiniteSet(Units(g))
         /\ SumOf(g) <= SumOf(f)
  <1> DEFINE into == [u \in Units(g) |-> <<at[u[1]], u[2]>>]
  <1>1. ASSUME NEW u \in Units(g)
        PROVE  /\ u[1] \in B /\ u[2] \in 1 .. g[u[1]]
               /\ u = <<u[1], u[2]>>
    BY DEF Units
  <1>2. ASSUME NEW u \in Units(g)
        PROVE  into[u] \in Units(f)
    <2>1. u[1] \in B /\ u[2] \in 1 .. g[u[1]]
      BY <1>1
    <2>2. at[u[1]] \in A /\ f[at[u[1]]] \in Nat /\ g[u[1]] \in Nat
      BY <2>1
    <2>3. u[2] \in 1 .. f[at[u[1]]]
      BY <2>1, <2>2
    <2>4. DOMAIN f = A
      OBVIOUS
    <2> QED
      BY <2>2, <2>3, <2>4 DEF Units
  <1>3. ASSUME NEW u \in Units(g), NEW w \in Units(g), into[u] = into[w]
        PROVE  u = w
    <2>1. u[1] \in B /\ w[1] \in B /\ u = <<u[1], u[2]>> /\ w = <<w[1], w[2]>>
      BY <1>1
    <2>2. at[u[1]] = at[w[1]] /\ u[2] = w[2]
      BY <1>3
    <2>3. u[1] = w[1]
      BY <2>1, <2>2
    <2> QED
      BY <2>1, <2>2, <2>3
  <1>4. into \in Injection(Units(g), Units(f))
    <2>1. into \in [Units(g) -> Units(f)]
      BY <1>2
    <2>2. IsInjective(into)
      BY <1>3 DEF IsInjective
    <2> QED
      BY <2>1, <2>2 DEF Injection
  <1> HIDE DEF into
  <1> QED
    BY <1>4, FS_Injection DEF SumOf

\* Lowering entries of a table does not raise its sum.
LEMMA SumOfSmaller ==
  ASSUME NEW A, NEW f \in [A -> Nat], IsFiniteSet(Units(f)),
         NEW g \in [A -> Nat], \A a \in A : g[a] <= f[a]
  PROVE  /\ IsFiniteSet(Units(g))
         /\ SumOf(g) <= SumOf(f)
  <1> DEFINE at == [a \in A |-> a]
  <1>1. /\ at \in [A -> A]
        /\ \A b \in A : \A c \in A : at[b] = at[c] => b = c
        /\ \A b \in A : g[b] <= f[at[b]]
    OBVIOUS
  <1> HIDE DEF at
  <1> QED
    BY ONLY <1>1, f \in [A -> Nat], IsFiniteSet(Units(f)), g \in [A -> Nat], SumOfSelection

\* The sum of a table with at most one entry that is not zero.
LEMMA SumOfOneEntry ==
  ASSUME NEW A, NEW g \in [A -> Nat], NEW a \in A, \A x \in A \ {a} : g[x] = 0
  PROVE  /\ IsFiniteSet(Units(g))
         /\ SumOf(g) = g[a]
  <1> DEFINE f == [x \in A |-> 0]
  <1>1. /\ f \in [A -> Nat] /\ f[a] = 0
        /\ \A x \in A \ {a} : g[x] = f[x]
    OBVIOUS
  <1>2. IsFiniteSet(Units(f)) /\ SumOf(f) = 0
    BY SumOfZeros
  <1>3. g[a] \in Nat
    OBVIOUS
  <1> HIDE DEF f
  <1>4. IsFiniteSet(Units(g)) /\ SumOf(g) = SumOf(f) - f[a] + g[a]
    BY ONLY <1>1, <1>2, a \in A, g \in [A -> Nat], SumOneEntry
  <1> QED
    BY <1>1, <1>2, <1>3, <1>4

\* The sum over a finite table is finite.
LEMMA SumIsFinite ==
  ASSUME NEW A, IsFiniteSet(A), NEW f \in [A -> Nat]
  PROVE  IsFiniteSet(Units(f))
  <1> DEFINE part == [a \in A |-> {a} \X (1 .. f[a])]
             P == { part[a] : a \in A }
  <1>1. IsFiniteSet(P)
    <2>1. part \in Surjection(A, P)
      BY DEF Surjection
    <2> QED
      BY <2>1, FS_Surjection
  <1>2. ASSUME NEW T \in P
        PROVE  IsFiniteSet(T)
    <2>1. PICK a \in A : T = part[a]
      OBVIOUS
    <2>2. f[a] \in Nat
      OBVIOUS
    <2> QED
      BY <2>1, <2>2, EntryUnits
  <1>3. Units(f) = UNION P
    BY DEF Units
  <1> HIDE DEF P
  <1> QED
    BY <1>1, <1>2, <1>3, FS_UNION

\* The sum over a table is that over a part of it and that over the rest.
LEMMA SumOfParts ==
  ASSUME NEW A, NEW f \in [A -> Nat], IsFiniteSet(Units(f)),
         NEW B, NEW C, B \union C = A, B \intersect C = {}
  PROVE  /\ IsFiniteSet(Units([b \in B |-> f[b]]))
         /\ IsFiniteSet(Units([c \in C |-> f[c]]))
         /\ SumOf(f) = SumOf([b \in B |-> f[b]]) + SumOf([c \in C |-> f[c]])
  <1> DEFINE X == Units([b \in B |-> f[b]])
             Y == Units([c \in C |-> f[c]])
  <1>1. Units(f) = X \union Y
    BY DEF Units
  <1>2. X \intersect Y = {}
    BY DEF Units
  <1> HIDE DEF X, Y
  <1>3. IsFiniteSet(X) /\ IsFiniteSet(Y)
    BY <1>1, FS_Subset
  <1>4. Cardinality(X \intersect Y) = 0
    BY <1>2, FS_EmptySet
  <1>5. Cardinality(X \union Y) = Cardinality(X) + Cardinality(Y) - Cardinality(X \intersect Y)
    BY <1>3, FS_Union
  <1>6. Cardinality(X) \in Nat /\ Cardinality(Y) \in Nat
    BY <1>3, FS_CardinalityType
  <1>7. Cardinality(X \union Y) = Cardinality(X) + Cardinality(Y)
    BY <1>4, <1>5, <1>6
  <1> QED
    BY <1>1, <1>3, <1>7 DEF SumOf, X, Y

\* Adding two tables entry by entry adds their sums.
LEMMA SumOfBoth ==
  ASSUME NEW A, NEW f \in [A -> Nat], NEW g \in [A -> Nat],
         IsFiniteSet(Units(f)), IsFiniteSet(Units(g))
  PROVE  /\ IsFiniteSet(Units([a \in A |-> f[a] + g[a]]))
         /\ SumOf([a \in A |-> f[a] + g[a]]) = SumOf(f) + SumOf(g)
  <1> DEFINE h == [a \in A |-> f[a] + g[a]]
             X == Units(f)
             Y == { u \in Units(h) : u[2] > f[u[1]] }
             on == [u \in Units(g) |-> <<u[1], f[u[1]] + u[2]>>]
  <1>0. ASSUME NEW k, NEW u, k \in [A -> Nat]
        PROVE  u \in Units(k) <=> \E a \in A : \E n \in 1 .. k[a] : u = <<a, n>>
    BY <1>0 DEF Units
  <1>1. h \in [A -> Nat] /\ \A a \in A : f[a] \in Nat /\ g[a] \in Nat /\ h[a] = f[a] + g[a]
    OBVIOUS
  <1> HIDE DEF h
  <1>2. X \subseteq Units(h)
    <2> SUFFICES ASSUME NEW u \in X
                 PROVE  u \in Units(h)
      OBVIOUS
    <2>1. PICK a \in A : \E n \in 1 .. f[a] : u = <<a, n>>
      BY <1>0
    <2>2. PICK n \in 1 .. f[a] : u = <<a, n>>
      BY <2>1
    <2>3. n \in 1 .. h[a]
      BY <1>1
    <2> QED
      BY <1>0, <1>1, <2>2, <2>3
  <1>3. Units(h) = X \union Y /\ X \intersect Y = {}
    <2>1. ASSUME NEW u \in Units(h)
          PROVE  u \in X <=> ~(u[2] > f[u[1]])
      <3>1. PICK a \in A : \E n \in 1 .. h[a] : u = <<a, n>>
        BY <1>0, <1>1
      <3>2. PICK n \in 1 .. h[a] : u = <<a, n>>
        BY <3>1
      <3>3. u[1] = a /\ u[2] = n
        BY <3>2
      <3>4. n \in 1 .. f[a] <=> ~(n > f[a])
        BY <1>1
      <3>5. u \in X <=> n \in 1 .. f[a]
        <4>1. ASSUME u \in X
              PROVE  n \in 1 .. f[a]
          <5>1. PICK b \in A : \E m \in 1 .. f[b] : u = <<b, m>>
            BY <1>0, <4>1
          <5> QED
            BY <3>2, <5>1
        <4>2. ASSUME n \in 1 .. f[a]
              PROVE  u \in X
          BY <1>0, <3>2, <4>2
        <4> QED
          BY <4>1, <4>2
      <3> QED
        BY <3>3, <3>4, <3>5
    <2> QED
      BY <1>2, <2>1
  <1>4. on \in Bijection(Units(g), Y)
    <2>1. ASSUME NEW u \in Units(g)
          PROVE  /\ u[1] \in A /\ u[2] \in 1 .. g[u[1]] /\ u = <<u[1], u[2]>>
                 /\ on[u] \in Y
      <3>1. PICK a \in A : \E n \in 1 .. g[a] : u = <<a, n>>
        BY <1>0
      <3>2. PICK n \in 1 .. g[a] : u = <<a, n>>
        BY <3>1
      <3>3. u[1] = a /\ u[2] = n
        BY <3>2
      <3> DEFINE m == f[a] + n
      <3>4. m \in 1 .. h[a] /\ m > f[a]
        BY <1>1
      <3>5. on[u] = <<a, m>>
        BY <3>3
      <3> HIDE DEF m, on
      <3>6. on[u] \in Units(h)
        BY <1>0, <1>1, <3>4, <3>5
      <3>7. on[u] \in Y
        BY <3>4, <3>5, <3>6
      <3> QED
        BY <3>2, <3>3, <3>7
    <2>2. on \in [Units(g) -> Y]
      BY <2>1
    <2>3. ASSUME NEW u \in Units(g), NEW w \in Units(g), on[u] = on[w]
          PROVE  u = w
      <3>1. u[1] = w[1] /\ f[u[1]] + u[2] = f[w[1]] + w[2]
        BY <2>3
      <3>2. u[1] \in A /\ f[u[1]] \in Nat /\ g[u[1]] \in Nat /\ g[w[1]] \in Nat
        BY <1>1, <2>1
      <3>3. u[2] \in 1 .. g[u[1]] /\ w[2] \in 1 .. g[w[1]]
        BY <2>1
      <3>4. u[2] = w[2]
        BY <3>1, <3>2, <3>3
      <3> QED
        BY <2>1, <3>1, <3>4
    <2>4. ASSUME NEW y \in Y
          PROVE  \E u \in Units(g) : on[u] = y
      <3>1. PICK a \in A : \E n \in 1 .. h[a] : y = <<a, n>>
        BY <1>0, <1>1
      <3>2. PICK n \in 1 .. h[a] : y = <<a, n>>
        BY <3>1
      <3>3. y[1] = a /\ y[2] = n /\ n > f[a]
        BY <3>2
      <3> DEFINE m == n - f[a]
                 u == <<a, m>>
      <3>4. m \in 1 .. g[a] /\ f[a] + m = n
        BY <1>1, <3>3
      <3> HIDE DEF m
      <3>5. u \in Units(g)
        BY <1>0, <3>4
      <3>6. on[u] = <<a, n>>
        BY <3>4, <3>5
      <3> QED
        BY <3>2, <3>5, <3>6
    <2> HIDE DEF on, Y
    <2> QED
      BY <2>2, <2>3, <2>4 DEF Bijection, Injection, Surjection, IsInjective
  <1> HIDE DEF on, X, Y
  <1>5. IsFiniteSet(Y) /\ Cardinality(Y) = Cardinality(Units(g))
    BY <1>4, FS_Bijection DEF ExistsBijection
  <1>6. IsFiniteSet(X)
    BY DEF X
  <1>7. /\ IsFiniteSet(X \union Y)
        /\ Cardinality(X \union Y) = Cardinality(X) + Cardinality(Y) - Cardinality(X \intersect Y)
    BY <1>5, <1>6, FS_Union
  <1>8. Cardinality(X \intersect Y) = 0
    BY <1>3, FS_EmptySet
  <1>9. Cardinality(X) \in Nat /\ Cardinality(Y) \in Nat
    BY <1>5, <1>6, FS_CardinalityType
  <1>10. Cardinality(X \union Y) = Cardinality(X) + Cardinality(Y)
    BY <1>7, <1>8, <1>9
  <1>11. IsFiniteSet(Units(h)) /\ SumOf(h) = SumOf(f) + SumOf(g)
    BY <1>3, <1>5, <1>7, <1>10 DEF SumOf, X
  <1> QED
    BY <1>11 DEF h

\* A table that names the entries of another anew has its sum.
LEMMA SumOfRenamed ==
  ASSUME NEW A, NEW f \in [A -> Nat], IsFiniteSet(Units(f)),
         NEW B, NEW g \in [B -> Nat], NEW at \in [B -> A], NEW back \in [A -> B],
         \A b \in B : back[at[b]] = b /\ g[b] = f[at[b]],
         \A a \in A : at[back[a]] = a
  PROVE  /\ IsFiniteSet(Units(g))
         /\ SumOf(g) = SumOf(f)
  <1>1. /\ \A b \in B : \A c \in B : at[b] = at[c] => b = c
        /\ \A b \in B : g[b] <= f[at[b]]
    <2>1. \A b \in B : \A c \in B : at[b] = at[c] => b = c
      <3> SUFFICES ASSUME NEW b \in B, NEW c \in B, at[b] = at[c]
                   PROVE  b = c
        OBVIOUS
      <3>1. back[at[b]] = b /\ back[at[c]] = c
        OBVIOUS
      <3> QED
        BY <3>1
    <2>2. ASSUME NEW b \in B
          PROVE  g[b] <= f[at[b]]
      <3>1. g[b] \in Nat /\ g[b] = f[at[b]]
        OBVIOUS
      <3> QED
        BY <3>1
    <2> QED
      BY <2>1, <2>2
  <1>2. IsFiniteSet(Units(g)) /\ SumOf(g) <= SumOf(f)
    BY <1>1, SumOfSelection
  <1>3. /\ \A a \in A : \A c \in A : back[a] = back[c] => a = c
        /\ \A a \in A : f[a] <= g[back[a]]
    <2>1. \A a \in A : \A c \in A : back[a] = back[c] => a = c
      <3> SUFFICES ASSUME NEW b \in A, NEW c \in A, back[b] = back[c]
                   PROVE  b = c
        OBVIOUS
      <3>1. at[back[b]] = b /\ at[back[c]] = c
        OBVIOUS
      <3> QED
        BY <3>1
    <2>2. ASSUME NEW a \in A
          PROVE  f[a] <= g[back[a]]
      <3>1. f[a] \in Nat /\ back[a] \in B
        OBVIOUS
      <3>2. g[back[a]] = f[at[back[a]]]
        BY <3>1
      <3>3. at[back[a]] = a
        OBVIOUS
      <3> QED
        BY <3>1, <3>2, <3>3
    <2> QED
      BY <2>1, <2>2
  <1>4. SumOf(f) <= SumOf(g)
    BY <1>2, <1>3, SumOfSelection
  <1>5. SumOf(f) \in Nat /\ SumOf(g) \in Nat
    BY <1>2, FS_CardinalityType DEF SumOf
  <1> QED
    BY <1>2, <1>4, <1>5

\* Truncated division, as the products it lies between.
LEMMA DivisionBounds ==
  ASSUME NEW n \in Nat, NEW d \in Nat \ {0}
  PROVE  /\ n \div d \in Nat
         /\ d * (n \div d) <= n
         /\ n < d * (n \div d) + d
  OBVIOUS

\* A product of naturals is monotonic in its factors.
LEMMA ProductMonotonic ==
  ASSUME NEW k \in Nat, NEW m \in Nat, NEW n \in Nat, m <= n
  PROVE  k * m <= k * n
  <1> DEFINE more == n - m
  <1>1. more \in Nat /\ n = m + more
    OBVIOUS
  <1> HIDE DEF more
  <1>2. k * n = k * m + k * more
    BY <1>1
  <1>3. k * m \in Nat /\ k * more \in Nat
    BY <1>1
  <1> QED
    BY <1>2, <1>3

\* Truncated division is monotonic in the dividend.
LEMMA DivisionMonotonic ==
  ASSUME NEW m \in Nat, NEW n \in Nat, NEW d \in Nat \ {0}, m <= n
  PROVE  m \div d <= n \div d
  <1> DEFINE q == m \div d
             r == n \div d
  <1>1. q \in Nat /\ d * q <= m
    BY DivisionBounds
  <1>2. r \in Nat /\ n < d * r + d
    BY DivisionBounds
  <1> HIDE DEF q, r
  <1>3. SUFFICES ASSUME q >= r + 1
                 PROVE  FALSE
    BY <1>1, <1>2 DEF q, r
  <1>4. d * q >= d * (r + 1)
    BY <1>1, <1>2, <1>3
  <1>5. d * (r + 1) = d * r + d
    BY <1>2
  <1>6. d * r \in Nat /\ d * q \in Nat
    BY <1>1, <1>2
  <1> QED
    BY <1>1, <1>2, <1>4, <1>5, <1>6

\* The difference of ordered naturals is a natural.
LEMMA DifferenceIsNat ==
  ASSUME NEW m \in Nat, NEW n \in Nat, n >= m
  PROVE  n - m \in Nat
  OBVIOUS

\* The product of naturals is a natural.
LEMMA ProductIsNat ==
  ASSUME NEW m \in Nat, NEW n \in Nat
  PROVE  m * n \in Nat
  OBVIOUS

\* The sum of a table whose entries are all multiplied by the same factor.
LEMMA SumOfScaled ==
  ASSUME NEW A, NEW f \in [A -> Nat], IsFiniteSet(Units(f)), NEW k \in Nat
  PROVE  /\ IsFiniteSet(Units([a \in A |-> f[a] * k]))
         /\ SumOf([a \in A |-> f[a] * k]) = SumOf(f) * k
  <1> DEFINE h == [a \in A |-> f[a] * k]
             K == 1 .. k
             X == Units(f) \X K
             at == [x \in X |-> <<x[1][1], (x[1][2] - 1) * k + x[2]>>]
  <1>1. /\ \A a \in A : f[a] \in Nat /\ f[a] * k \in Nat /\ h[a] = f[a] * k
        /\ h \in [A -> Nat]
    <2>1. \A a \in A : f[a] \in Nat /\ f[a] * k \in Nat
      BY ProductIsNat
    <2> QED
      BY <2>1
  <1> HIDE DEF h, K
  <1>2. IsFiniteSet(K) /\ Cardinality(K) = k
    <2>1. IsFiniteSet(1 .. k) /\ Cardinality(1 .. k) = IF 1 > k THEN 0 ELSE k - 1 + 1
      BY FS_Interval
    <2> QED
      BY <2>1 DEF K
  <1>3. IsFiniteSet(X) /\ Cardinality(X) = SumOf(f) * k
    BY <1>2, FS_Product DEF SumOf
  <1>4. ASSUME NEW x \in X
        PROVE  \E a \in A : \E n \in Int : \E m \in Int :
                 /\ x = <<<<a, n>>, m>> /\ 1 <= n /\ n <= f[a] /\ 1 <= m /\ m <= k
                 /\ at[x] = <<a, (n - 1) * k + m>>
    <2>1. x[1] \in Units(f) /\ x[2] \in K /\ x = <<x[1], x[2]>>
      OBVIOUS
    <2>2. PICK a \in A : \E n \in 1 .. f[a] : x[1] = <<a, n>>
      BY <2>1 DEF Units
    <2>3. PICK n \in 1 .. f[a] : x[1] = <<a, n>>
      BY <2>2
    <2>4. n \in Int /\ 1 <= n /\ n <= f[a] /\ x[2] \in Int /\ 1 <= x[2] /\ x[2] <= k
      BY <1>1, <2>1, <2>3 DEF K
    <2>5. x = <<<<a, n>>, x[2]>> /\ at[x] = <<a, (n - 1) * k + x[2]>>
      BY <2>1, <2>3
    <2> QED
      BY <2>4, <2>5
  <1>5. ASSUME NEW n \in Int, NEW m \in Int, NEW l \in Nat, 1 <= n, n <= l, 1 <= m, m <= k
        PROVE  /\ (n - 1) * k + m \in Int
               /\ 1 <= (n - 1) * k + m /\ (n - 1) * k + m <= l * k
    <2> DEFINE p == n - 1
               q == l - 1
    <2>1. p \in Nat /\ q \in Nat /\ p <= q /\ l = q + 1
      BY <1>5
    <2> HIDE DEF p, q
    <2>2. k * p <= k * q /\ k * p \in Nat /\ k * q \in Nat
      BY <2>1, ProductMonotonic, ProductIsNat
    <2>3. p * k = k * p /\ l * k = k * q + k
      BY <2>1
    <2>4. p * k + m \in Int /\ 1 <= p * k + m /\ p * k + m <= l * k
      BY <1>5, <2>2, <2>3
    <2> QED
      BY <2>4 DEF p
  <1>6. at \in [X -> Units(h)]
    <2> SUFFICES ASSUME NEW x \in X
                 PROVE  at[x] \in Units(h)
      OBVIOUS
    <2>1. PICK a \in A : \E n \in Int : \E m \in Int :
            /\ x = <<<<a, n>>, m>> /\ 1 <= n /\ n <= f[a] /\ 1 <= m /\ m <= k
            /\ at[x] = <<a, (n - 1) * k + m>>
      BY <1>4
    <2>2. PICK n \in Int, m \in Int :
            /\ x = <<<<a, n>>, m>> /\ 1 <= n /\ n <= f[a] /\ 1 <= m /\ m <= k
            /\ at[x] = <<a, (n - 1) * k + m>>
      BY <2>1
    <2> DEFINE v == (n - 1) * k + m
    <2>3. v \in Int /\ 1 <= v /\ v <= h[a] /\ h[a] \in Nat
      BY <1>1, <1>5, <2>2
    <2>4. at[x] = <<a, v>>
      BY <2>2
    <2> HIDE DEF v, at
    <2>5. v \in 1 .. h[a]
      BY <2>3
    <2> QED
      BY <1>1, <2>4, <2>5 DEF Units
  <1>7. ASSUME NEW x \in X, NEW y \in X, at[x] = at[y]
        PROVE  x = y
    <2>1. PICK a \in A : \E n \in Int : \E m \in Int :
            /\ x = <<<<a, n>>, m>> /\ 1 <= n /\ n <= f[a] /\ 1 <= m /\ m <= k
            /\ at[x] = <<a, (n - 1) * k + m>>
      BY <1>4
    <2>2. PICK n \in Int, m \in Int :
            /\ x = <<<<a, n>>, m>> /\ 1 <= n /\ 1 <= m /\ m <= k
            /\ at[x] = <<a, (n - 1) * k + m>>
      BY <2>1
    <2>3. PICK b \in A : \E p \in Int : \E q \in Int :
            /\ y = <<<<b, p>>, q>> /\ 1 <= p /\ p <= f[b] /\ 1 <= q /\ q <= k
            /\ at[y] = <<b, (p - 1) * k + q>>
      BY <1>4
    <2>4. PICK p \in Int, q \in Int :
            /\ y = <<<<b, p>>, q>> /\ 1 <= p /\ 1 <= q /\ q <= k
            /\ at[y] = <<b, (p - 1) * k + q>>
      BY <2>3
    <2> HIDE DEF at
    <2>5. a = b /\ (n - 1) * k + m = (p - 1) * k + q
      BY <1>7, <2>2, <2>4
    <2>6. n = p
      <3>1. ASSUME NEW i \in Int, NEW j \in Int, NEW u \in Int, NEW w \in Int, 1 <= i, i < j,
                   u <= k, 1 <= w
            PROVE  (i - 1) * k + u < (j - 1) * k + w
        <4> DEFINE d == j - 1
        <4>1. i \in Nat /\ d \in Nat /\ i <= d
          BY <3>1
        <4> HIDE DEF d
        <4>2. k * i <= k * d /\ k * i \in Nat /\ k * d \in Nat
          BY <4>1, ProductMonotonic, ProductIsNat
        <4>3. (i - 1) * k = k * i - k /\ d * k = k * d
          BY <4>1
        <4>4. (i - 1) * k + u < d * k + w
          BY <3>1, <4>2, <4>3
        <4> QED
          BY <4>4 DEF d
      <3>2. /\ n < p => (n - 1) * k + m < (p - 1) * k + q
            /\ p < n => (p - 1) * k + q < (n - 1) * k + m
        BY <2>2, <2>4, <3>1
      <3>3. (n - 1) * k + m \in Int /\ (p - 1) * k + q \in Int
        BY <2>2, <2>4
      <3> QED
        BY <2>5, <3>2, <3>3
    <2>7. m = q
      <3> DEFINE c == (n - 1) * k
      <3>1. c \in Int /\ c + m = c + q
        BY <2>5, <2>6
      <3> HIDE DEF c
      <3> QED
        BY <3>1
    <2> QED
      BY <2>2, <2>4, <2>5, <2>6, <2>7
  <1>8. ASSUME NEW u \in Units(h)
        PROVE  \E x \in X : at[x] = u
    <2>1. PICK a \in A : \E v \in 1 .. h[a] : u = <<a, v>>
      BY <1>1 DEF Units
    <2>2. PICK v \in 1 .. h[a] : u = <<a, v>>
      BY <2>1
    <2> DEFINE w == v - 1
               p == w \div k
    <2>3. h[a] = f[a] * k /\ f[a] \in Nat /\ v \in Nat /\ 1 <= v /\ v <= f[a] * k
      BY <1>1, <2>2
    <2>4. k \in Nat \ {0}
      BY <2>3
    <2>5. w \in Nat /\ w < f[a] * k /\ v = w + 1
      BY <2>3
    <2> HIDE DEF w
    <2>6. p \in Nat /\ k * p <= w /\ w < k * p + k
      BY <2>4, <2>5, DivisionBounds
    <2> HIDE DEF p
    <2>7. p < f[a]
      <3> SUFFICES ASSUME f[a] <= p
                   PROVE  FALSE
        BY <2>3, <2>6
      <3>1. k * f[a] <= k * p
        BY <2>3, <2>6, ProductMonotonic
      <3>2. k * f[a] = f[a] * k /\ f[a] * k \in Nat /\ k * p \in Nat
        BY <2>3, <2>6, ProductIsNat
      <3> QED
        BY <2>5, <2>6, <3>1, <3>2
    <2> DEFINE n == p + 1
               m == v - k * p
    <2>8. n \in 1 .. f[a] /\ m \in 1 .. k
      <3>1. k * p \in Nat
        BY <2>6, ProductIsNat
      <3> QED
        BY <2>3, <2>4, <2>5, <2>6, <2>7, <3>1
    <2>9. (n - 1) * k + m = v
      <3>1. k * p \in Nat /\ (n - 1) * k = k * p
        BY <2>6, ProductIsNat
      <3> QED
        BY <2>3, <3>1
    <2> HIDE DEF n, m
    <2> DEFINE x == <<<<a, n>>, m>>
    <2>10. x \in X
      BY <2>8 DEF Units, K
    <2>11. at[x] = u
      BY <2>2, <2>9, <2>10
    <2> HIDE DEF x
    <2> QED
      BY <2>10, <2>11
  <1> HIDE DEF at, X
  <1>9. at \in Bijection(X, Units(h))
    BY <1>6, <1>7, <1>8 DEF Bijection, Injection, Surjection, IsInjective
  <1>10. IsFiniteSet(Units(h)) /\ Cardinality(Units(h)) = Cardinality(X)
    BY <1>3, <1>9, FS_Bijection DEF ExistsBijection
  <1> QED
    BY <1>3, <1>10 DEF SumOf, h

\* The same amount in every entry.
LEMMA SumOfConstant ==
  ASSUME NEW A, IsFiniteSet(A), NEW k \in Nat
  PROVE  /\ IsFiniteSet(Units([a \in A |-> k]))
         /\ SumOf([a \in A |-> k]) = Cardinality(A) * k
  <1> DEFINE K == 1 .. k
  <1>1. IsFiniteSet(K) /\ Cardinality(K) = k
    BY FS_Interval
  <1>2. Units([a \in A |-> k]) = A \X K
    BY DEF Units
  <1> HIDE DEF K
  <1>3. IsFiniteSet(A \X K) /\ Cardinality(A \X K) = Cardinality(A) * Cardinality(K)
    BY <1>1, FS_Product
  <1> QED
    BY <1>1, <1>2, <1>3 DEF SumOf

\* A sum is that over a part of a table outside of which all entries are zero.
LEMMA SumOfSupport ==
  ASSUME NEW A, NEW f \in [A -> Nat], IsFiniteSet(Units(f)),
         NEW B, B \subseteq A, \A a \in A \ B : f[a] = 0
  PROVE  SumOf([b \in B |-> f[b]]) = SumOf(f)
  <1> DEFINE C == A \ B
             g == [b \in B |-> f[b]]
             z == [c \in C |-> f[c]]
  <1>1. B \union C = A /\ B \intersect C = {}
    OBVIOUS
  <1>2. z = [c \in C |-> 0]
    OBVIOUS
  <1> HIDE DEF C
  <1>3. IsFiniteSet(Units(g)) /\ SumOf(f) = SumOf(g) + SumOf(z)
    BY <1>1, SumOfParts
  <1>4. SumOf(z) = 0
    BY <1>2, SumOfZeros
  <1> HIDE DEF g, z
  <1>5. SumOf(g) \in Nat
    BY <1>3, FS_CardinalityType DEF SumOf
  <1>6. SumOf(g) = SumOf(f)
    BY <1>3, <1>4, <1>5
  <1> QED
    BY <1>6 DEF g

\* The sum of a table with one entry more.
LEMMA SumWithEntry ==
  ASSUME NEW A, IsFiniteSet(A), NEW p, p \notin A, NEW g \in [A \union {p} -> Nat]
  PROVE  /\ IsFiniteSet(Units(g))
         /\ SumOf([a \in A |-> g[a]]) \in Nat
         /\ SumOf(g) = SumOf([a \in A |-> g[a]]) + g[p]
  <1> DEFINE B == {p}
             D == A \union B
             h == [b \in B |-> g[b]]
  <1>1. IsFiniteSet(D) /\ g \in [D -> Nat]
    BY FS_AddElement
  <1>2. A \union B = D /\ A \intersect B = {}
    OBVIOUS
  <1>3. h \in [B -> Nat] /\ p \in B /\ h[p] = g[p] /\ \A x \in B \ {p} : h[x] = 0
    OBVIOUS
  <1> HIDE DEF B, D
  <1>4. IsFiniteSet(Units(g))
    BY <1>1, SumIsFinite
  <1>5. /\ IsFiniteSet(Units([a \in A |-> g[a]]))
        /\ SumOf(g) = SumOf([a \in A |-> g[a]]) + SumOf([b \in B |-> g[b]])
    BY ONLY <1>1, <1>2, <1>4, SumOfParts
  <1>6. SumOf(h) = g[p]
    <2> HIDE DEF h
    <2> QED
      BY <1>3, SumOfOneEntry
  <1> QED
    BY <1>4, <1>5, <1>6, FS_CardinalityType DEF SumOf

\* Of two parts that make up a whole, either is the whole less the other.
LEMMA PartOfWhole ==
  ASSUME NEW part \in Nat, NEW rest \in Nat, NEW whole \in Nat, part + rest = whole
  PROVE  /\ part = whole - rest
         /\ part # 0 => rest < whole
  OBVIOUS

\* An integer quotient is at most q when the dividend is below (q + 1) times
\* the divisor.
LEMMA DivisionAtMost ==
  ASSUME NEW n \in Nat, NEW d \in Nat \ {0}, NEW q \in Nat, n < (q + 1) * d
  PROVE  n \div d <= q
  <1> DEFINE r == n \div d
  <1>1. r \in Nat /\ d * r <= n
    BY DivisionBounds
  <1>2. SUFFICES ASSUME r >= q + 1
                 PROVE  FALSE
    BY <1>1
  <1> HIDE DEF r
  <1>3. d * r >= d * (q + 1)
    BY <1>1, <1>2
  <1>4. QED
    BY <1>1, <1>3

\* When two tables add up entry by entry to what two others do, so do the sums.
LEMMA SumsBalance ==
  ASSUME NEW A, IsFiniteSet(A), NEW f \in [A -> Nat], NEW g \in [A -> Nat],
         NEW h \in [A -> Nat], NEW k \in [A -> Nat],
         \A a \in A : f[a] + g[a] = h[a] + k[a]
  PROVE  /\ SumOf(f) \in Nat /\ SumOf(g) \in Nat /\ SumOf(h) \in Nat /\ SumOf(k) \in Nat
         /\ SumOf(f) + SumOf(g) = SumOf(h) + SumOf(k)
  <1>1. /\ IsFiniteSet(Units(f)) /\ IsFiniteSet(Units(g))
        /\ IsFiniteSet(Units(h)) /\ IsFiniteSet(Units(k))
    BY SumIsFinite
  <1>2. SumOf([a \in A |-> f[a] + g[a]]) = SumOf(f) + SumOf(g)
    BY <1>1, SumOfBoth
  <1>3. SumOf([a \in A |-> h[a] + k[a]]) = SumOf(h) + SumOf(k)
    BY <1>1, SumOfBoth
  <1>4. [a \in A |-> f[a] + g[a]] = [a \in A |-> h[a] + k[a]]
    OBVIOUS
  <1>5. SumOf(f) \in Nat /\ SumOf(g) \in Nat /\ SumOf(h) \in Nat /\ SumOf(k) \in Nat
    BY <1>1, FS_CardinalityType DEF SumOf
  <1> QED
    BY <1>2, <1>3, <1>4, <1>5

\* Of an amount shared out in proportion, no part is more than the whole.
LEMMA PartAtMost ==
  ASSUME NEW amount \in Nat, NEW n \in Nat, NEW d \in Nat \ {0}, n <= d
  PROVE  /\ (amount * n) \div d \in Nat
         /\ (amount * n) \div d <= amount
  <1> DEFINE m == amount * n
  <1>1. m \in Nat /\ m <= amount * d /\ amount * d \in Nat
    BY ProductMonotonic, ProductIsNat
  <1>2. (amount + 1) * d = amount * d + d
    OBVIOUS
  <1> HIDE DEF m
  <1>3. m < (amount + 1) * d
    BY <1>1, <1>2
  <1>4. m \div d <= amount /\ m \div d \in Nat
    BY <1>1, <1>3, DivisionAtMost, DivisionBounds
  <1> QED
    BY <1>4 DEF m

\* A quotient is at least q when the dividend is q times the divisor.
LEMMA QuotientAtLeast ==
  ASSUME NEW n \in Nat, NEW d \in Nat \ {0}, NEW q \in Nat, d * q <= n
  PROVE  q <= n \div d
  <1> DEFINE r == n \div d
  <1>1. r \in Nat /\ n < d * r + d
    BY DivisionBounds
  <1> HIDE DEF r
  <1>2. ~(q > r)
    <2> SUFFICES ASSUME q >= r + 1 PROVE FALSE
      BY <1>1
    <2>1. d * (r + 1) <= d * q
      BY <1>1, ProductMonotonic
    <2>2. d * (r + 1) = d * r + d /\ d * r \in Nat /\ d * q \in Nat
      BY <1>1
    <2> QED
      BY <1>1, <2>1, <2>2
  <1> QED
    BY <1>1, <1>2 DEF r

\* A common positive factor cancels.
LEMMA FactorCancels ==
  ASSUME NEW k \in Nat \ {0}, NEW m \in Nat, NEW n \in Nat, k * m <= k * n
  PROVE  m <= n
  <1>1. ~(m > n)
    <2> SUFFICES ASSUME m >= n + 1 PROVE FALSE
      OBVIOUS
    <2>1. k * (n + 1) <= k * m
      BY ProductMonotonic
    <2>2. k * (n + 1) = k * n + k /\ k * n \in Nat /\ k * m \in Nat
      OBVIOUS
    <2> QED
      BY <2>1, <2>2
  <1> QED
    BY <1>1

\* Ranks number a finite set of naturals, in their order.
LEMMA RanksAreNumbers ==
  ASSUME NEW S \in SUBSET Nat, IsFiniteSet(S)
  PROVE  /\ \A i \in S : Rank(S, i) \in 1 .. Cardinality(S)
         /\ \A i \in S : \A j \in S : i < j => Rank(S, i) <= Rank(S, j) - 1
         /\ \A k \in 1 .. Cardinality(S) : \E i \in S : Rank(S, i) = k
  <1> DEFINE Upto(i) == {j \in S : j <= i}
             n == Cardinality(S)
  <1>0. \A i \in S : i \in Nat
    OBVIOUS
  <1>1. n \in Nat
    BY FS_CardinalityType
  <1>2. \A i \in S : IsFiniteSet(Upto(i)) /\ Rank(S, i) \in 1 .. n
    <2> TAKE i \in S
    <2>1. Upto(i) \in SUBSET S /\ i \in Upto(i)
      OBVIOUS
    <2>2. IsFiniteSet(Upto(i)) /\ Cardinality(Upto(i)) <= n
      BY <2>1, FS_Subset
    <2>3. Cardinality(Upto(i)) \in Nat /\ Cardinality(Upto(i)) # 0
      BY <2>1, <2>2, FS_CardinalityType, FS_EmptySet
    <2> DEFINE c == Cardinality(Upto(i))
    <2>4. c \in 1 .. n
      <3>1. c \in Nat /\ c # 0 /\ c <= n
        BY <2>2, <2>3
      <3> HIDE DEF c, n
      <3> QED
        BY <1>1, <3>1
    <2>5. Rank(S, i) = c
      BY DEF Rank
    <2> HIDE DEF c, n
    <2> QED
      BY <2>2, <2>4, <2>5
  <1>3. ASSUME NEW i \in S, NEW j \in S, i < j
        PROVE  Rank(S, i) <= Rank(S, j) - 1
    <2>1. Upto(i) \in SUBSET (Upto(j) \ {j}) /\ j \in Upto(j)
      <3>1. ASSUME NEW x \in S, x <= i PROVE x <= j /\ x # j
        BY <1>0, <1>3, <3>1
      <3>2. j <= j
        BY <1>0
      <3> QED
        BY <3>1, <3>2
    <2>2. /\ IsFiniteSet(Upto(j) \ {j})
          /\ Cardinality(Upto(j) \ {j}) = Cardinality(Upto(j)) - 1
      BY <1>2, <2>1, FS_RemoveElement
    <2>3. Cardinality(Upto(i)) <= Cardinality(Upto(j) \ {j})
      BY <2>1, <2>2, FS_Subset
    <2> QED
      BY <2>2, <2>3 DEF Rank
  <1>4. ASSUME NEW k \in 1 .. n
        PROVE  \E i \in S : Rank(S, i) = k
    <2> DEFINE rank == [i \in S |-> Rank(S, i)]
    <2>1. rank \in [S -> 1 .. n]
      <3> HIDE DEF n
      <3> QED
        BY <1>2
    <2>2. \A i \in S : \A j \in S : rank[i] = rank[j] => i = j
      <3> SUFFICES ASSUME NEW i \in S, NEW j \in S, rank[i] = rank[j], i # j PROVE FALSE
        OBVIOUS
      <3>1. i < j \/ j < i
        BY <1>0
      <3>2. Rank(S, i) = Rank(S, j) /\ Rank(S, i) \in Int /\ Rank(S, j) \in Int
        <4>1. Rank(S, i) \in 1 .. n /\ Rank(S, j) \in 1 .. n
          BY <1>2
        <4>2. Rank(S, i) = Rank(S, j)
          OBVIOUS
        <4> HIDE DEF n
        <4> QED
          BY <4>1, <4>2
      <3>3. i < j => Rank(S, i) <= Rank(S, j) - 1
        BY <1>3
      <3>4. j < i => Rank(S, j) <= Rank(S, i) - 1
        BY <1>3
      <3> QED
        BY <3>1, <3>2, <3>3, <3>4
    <2>3. rank \in Injection(S, 1 .. n)
      BY <2>1, <2>2 DEF Injection, IsInjective
    <2>4. IsFiniteSet(1 .. n) /\ Cardinality(1 .. n) = n
      <3>1. 1 \in Int /\ n \in Int
        BY <1>1
      <3>2. IsFiniteSet(1 .. n) /\ Cardinality(1 .. n) = IF 1 > n THEN 0 ELSE n - 1 + 1
        BY <3>1, FS_Interval
      <3> QED
        BY <1>1, <3>2
    <2>5. rank \in Surjection(S, 1 .. n)
      <3> HIDE DEF rank
      <3> QED
        BY <2>3, <2>4, FS_Injection
    <2>6. PICK i \in S : rank[i] = k
      BY <2>5 DEF Surjection
    <2> QED
      BY <2>6
  <1> QED
    BY <1>2, <1>3, <1>4

\* The Bancor formula leaves something on the side it pays from and never
\* lowers the product of the two sides.
LEMMA BancorKeepsProduct ==
  ASSUME NEW inp \in Nat, NEW ib \in Nat \ {0}, NEW ob \in Nat
  PROVE  LET out == (inp * ob) \div (ib + inp)
         IN  /\ out \in Nat
             /\ out <= ob
             /\ ob > 0 => out < ob
             /\ (ib + inp) * (ob - out) >= ib * ob
  <1> DEFINE out == (inp * ob) \div (ib + inp)
  <1>1. inp * ob \in Nat /\ ib * ob \in Nat /\ ib + inp \in Nat \ {0}
    OBVIOUS
  <1>2. out \in Nat /\ (ib + inp) * out <= inp * ob
    BY <1>1, DivisionBounds
  <1> HIDE DEF out
  <1>3. (ib + inp) * (ob - out) = ib * ob + inp * ob - (ib + inp) * out
    BY <1>2
  <1>4. (ib + inp) * (ob - out) >= ib * ob
    BY <1>1, <1>2, <1>3
  <1>5. ob > 0 => out < ob
    <2> SUFFICES ASSUME ob > 0, out >= ob PROVE FALSE
      BY <1>2
    <2>1. ib * ob > 0
      OBVIOUS
    <2>2. (ib + inp) * (ob - out) <= 0
      BY <1>2
    <2>3. (ib + inp) * (ob - out) \in Int
      BY <1>2
    <2> QED
      BY <1>1, <1>4, <2>1, <2>2, <2>3
  <1>6. out <= ob
    <2>1. CASE ob > 0
      BY <1>2, <1>5, <2>1
    <2>2. CASE ob = 0
      <3>1. inp * ob = 0
        BY <2>2
      <3>2. out = 0
        BY <1>1, <1>2, <3>1
      <3> QED
        BY <2>2, <3>2
    <2> QED
      BY <2>1, <2>2
  <1> QED
    BY <1>2, <1>4, <1>5, <1>6 DEF out

\* The multiples of a number.
Multiples(grain) == { n * grain : n \in Nat }

LEMMA MultiplesAdd ==
  ASSUME NEW grain \in Nat, NEW x \in Multiples(grain), NEW y \in Multiples(grain)
  PROVE  x \in Nat /\ x + y \in Multiples(grain)
  <1>1. PICK m \in Nat, n \in Nat : x = m * grain /\ y = n * grain
    BY DEF Multiples
  <1>2. m * grain \in Nat /\ n * grain \in Nat
    BY ProductIsNat
  <1>3. m * grain + n * grain = (m + n) * grain /\ m + n \in Nat
    OBVIOUS
  <1> QED
    BY <1>1, <1>2, <1>3 DEF Multiples

LEMMA MultiplesScale ==
  ASSUME NEW grain \in Nat, NEW x \in Multiples(grain), NEW k \in Nat
  PROVE  k * x \in Multiples(grain) /\ 0 \in Multiples(grain)
  <1>1. PICK m \in Nat : x = m * grain
    BY DEF Multiples
  <1>2. k * (m * grain) = (k * m) * grain /\ k * m \in Nat
    OBVIOUS
  <1>3. 0 = 0 * grain
    OBVIOUS
  <1> QED
    BY <1>1, <1>2, <1>3 DEF Multiples

\* Multiples of a number above one do not lie next to one another.
LEMMA MultiplesLieApart ==
  ASSUME NEW grain \in Nat \ {0, 1}, NEW x \in Multiples(grain), NEW y \in Multiples(grain),
         y - x \in -1 .. 1
  PROVE  y = x
  <1>1. PICK m \in Nat, n \in Nat : x = m * grain /\ y = n * grain
    BY DEF Multiples
  <1>2. m * grain \in Nat /\ n * grain \in Nat
    BY ProductIsNat
  <1>3. ASSUME NEW i \in Nat, NEW j \in Nat, i + 1 <= j
        PROVE  i * grain + 2 <= j * grain
    <2>1. grain * (i + 1) <= grain * j
      BY <1>3, ProductMonotonic
    <2>2. /\ grain * (i + 1) = i * grain + grain /\ grain * j = j * grain
          /\ i * grain \in Nat /\ j * grain \in Nat /\ grain >= 2
      BY ProductIsNat
    <2> QED
      BY <2>1, <2>2
  <1>4. CASE m + 1 <= n
    BY <1>1, <1>2, <1>3, <1>4
  <1>5. CASE n + 1 <= m
    BY <1>1, <1>2, <1>3, <1>5
  <1> QED
    BY <1>1, <1>4, <1>5

\* The sum of multiples is one.
LEMMA SumOfMultiples ==
  ASSUME NEW grain \in Nat, NEW A, IsFiniteSet(A), NEW f \in [A -> Multiples(grain)]
  PROVE  SumOf(f) \in Multiples(grain)
  <1> DEFINE h == [a \in A |-> CHOOSE n \in Nat : f[a] = n * grain]
  <1>1. \A a \in A : h[a] \in Nat /\ f[a] = h[a] * grain
    BY DEF Multiples
  <1>2. f = [a \in A |-> h[a] * grain] /\ h \in [A -> Nat]
    BY <1>1
  <1> HIDE DEF h
  <1>3. SumOf(f) = SumOf(h) * grain
    BY <1>2, SumIsFinite, SumOfScaled
  <1>4. SumOf(h) \in Nat
    BY <1>2, SumIsFinite, FS_CardinalityType DEF SumOf
  <1> QED
    BY <1>3, <1>4 DEF Multiples

\* Every one of some entries changing by the same.
LEMMA SumOfShifted ==
  ASSUME NEW A, IsFiniteSet(A), NEW f \in [A -> Nat], NEW g \in [A -> Nat],
         NEW V \in SUBSET A, NEW m \in Nat, NEW n \in Nat,
         \A a \in A : g[a] = IF a \in V THEN f[a] + (n - m) ELSE f[a]
  PROVE  SumOf(g) = SumOf(f) + Cardinality(V) * (n - m)
  <1> DEFINE h(k) == [a \in A |-> IF a \in V THEN k ELSE 0]
  <1>1. ASSUME NEW k \in Nat
        PROVE  h(k) \in [A -> Nat] /\ SumOf(h(k)) = Cardinality(V) * k
    <2>1. h(k) \in [A -> Nat] /\ \A a \in A \ V : h(k)[a] = 0
      OBVIOUS
    <2>2. [a \in V |-> h(k)[a]] = [a \in V |-> k]
      OBVIOUS
    <2> HIDE DEF h
    <2>3. SumOf([a \in V |-> h(k)[a]]) = SumOf(h(k))
      BY <2>1, SumIsFinite, SumOfSupport
    <2>4. SumOf([a \in V |-> k]) = Cardinality(V) * k
      BY FS_Subset, SumOfConstant
    <2> QED
      BY <2>1, <2>2, <2>3, <2>4
  <1>2. \A a \in A : g[a] + h(m)[a] = f[a] + h(n)[a]
    OBVIOUS
  <1>3. Cardinality(V) \in Nat
    BY FS_Subset, FS_CardinalityType
  <1> DEFINE hm == h(m)
             hn == h(n)
  <1>4. /\ hm \in [A -> Nat] /\ SumOf(hm) = Cardinality(V) * m
        /\ hn \in [A -> Nat] /\ SumOf(hn) = Cardinality(V) * n
    BY <1>1
  <1>5. \A a \in A : g[a] + hm[a] = f[a] + hn[a]
    BY <1>2
  <1> HIDE DEF hm, hn, h
  <1>6. SumOf(g) \in Nat /\ SumOf(f) \in Nat /\ SumOf(g) + SumOf(hm) = SumOf(f) + SumOf(hn)
    BY <1>4, <1>5, SumsBalance
  <1> DEFINE card == Cardinality(V)
  <1>7. card * m \in Nat /\ card * n \in Nat /\ card * (n - m) = card * n - card * m
    BY <1>3, ProductIsNat
  <1>8. SumOf(hm) = card * m /\ SumOf(hn) = card * n
    BY <1>4
  <1> HIDE DEF card
  <1>9. SumOf(g) = SumOf(f) + card * (n - m)
    BY <1>6, <1>7, <1>8
  <1> QED
    BY <1>9 DEF card

-----------------------------------------------------------------------------
(* Functions defined by recursion along links.                            *)

\* No elements of A are linked in a circle.
NoCircle(A, link) == \A S \in SUBSET A : S # {} => \E a \in S : link[a] \notin S

\* A recursion along links that form no circle: it ends at once, or goes on
\* with other data at the next element.
Recursion(A, D, link, stop, base, step, finish) ==
  /\ NoCircle(A, link)
  /\ base \in [D \X A -> D] /\ step \in [D \X A -> D] /\ finish \in [D \X A \X D -> D]
  /\ \A d \in D : \A a \in A : <<d, a>> \notin stop => link[a] \in A

\* The function such a recursion defines.
Defines(A, D, link, stop, base, step, finish, f) ==
  /\ f \in [D \X A -> D]
  /\ \A d \in D : \A a \in A :
       f[<<d, a>>] = IF <<d, a>> \in stop THEN base[<<d, a>>]
                     ELSE finish[<<d, a, f[<<step[<<d, a>>], link[a]>>]>>]

\* It defines one.
LEMMA ChainRecursion ==
  ASSUME NEW A, NEW D, NEW link, NEW stop, NEW base, NEW step, NEW finish,
         Recursion(A, D, link, stop, base, step, finish)
  PROVE  \E f : Defines(A, D, link, stop, base, step, finish, f)
  <1> DEFINE Val(f, d, a) == IF <<d, a>> \in stop THEN base[<<d, a>>]
                             ELSE finish[<<d, a, f[<<step[<<d, a>>], link[a]>>]>>]
             Closed(C) == \A a \in C : link[a] \in A => link[a] \in C
             Solves(f, C) == /\ C \in SUBSET A /\ Closed(C) /\ f \in [D \X C -> D]
                             /\ \A d \in D : \A a \in C : f[<<d, a>>] = Val(f, d, a)
             Solved == { a \in A : \E C \in SUBSET A : \E f : Solves(f, C) /\ a \in C }
  <1> HIDE DEF Val, Closed, Solves, Solved
  <1>a. /\ NoCircle(A, link)
        /\ base \in [D \X A -> D] /\ step \in [D \X A -> D] /\ finish \in [D \X A \X D -> D]
        /\ \A d \in D : \A a \in A : <<d, a>> \notin stop => link[a] \in A
    BY DEF Recursion
  <1>0. /\ \A d \in D : \A a \in A : base[<<d, a>>] \in D /\ step[<<d, a>>] \in D
        /\ \A d \in D : \A a \in A : \A e \in D : finish[<<d, a, e>>] \in D
    BY <1>a
  <1>1. ASSUME NEW f, NEW C, Solves(f, C)
        PROVE  /\ C \subseteq A
               /\ \A a \in C : link[a] \in A => link[a] \in C
               /\ \A d \in D : \A a \in C : f[<<d, a>>] \in D /\ f[<<d, a>>] = Val(f, d, a)
    <2>1. /\ C \in SUBSET A /\ Closed(C) /\ f \in [D \X C -> D]
          /\ \A d \in D : \A a \in C : f[<<d, a>>] = Val(f, d, a)
      BY <1>1 DEF Solves
    <2> QED
      BY <2>1 DEF Closed
  <1>2. ASSUME NEW f, NEW g, NEW a \in A, link[a] \in A => \A d \in D : f[<<d, link[a]>>] = g[<<d, link[a]>>]
        PROVE  \A d \in D : Val(f, d, a) = Val(g, d, a)
    BY <1>0, <1>a, <1>2 DEF Val
  <1>3. ASSUME NEW f, NEW a \in A, link[a] \in A => \A d \in D : f[<<d, link[a]>>] \in D
        PROVE  \A d \in D : Val(f, d, a) \in D
    BY <1>0, <1>a, <1>3 DEF Val
  <1>4. \A f, C, g, E : Solves(f, C) /\ Solves(g, E) =>
          \A a \in C : a \in E => \A d \in D : f[<<d, a>>] = g[<<d, a>>]
    <2> SUFFICES ASSUME NEW f, NEW C, NEW g, NEW E, Solves(f, C), Solves(g, E)
                 PROVE  \A a \in C : a \in E => \A d \in D : f[<<d, a>>] = g[<<d, a>>]
      OBVIOUS
    <2> DEFINE S == { a \in C \cap E : \E d \in D : f[<<d, a>>] # g[<<d, a>>] }
    <2>1. SUFFICES ASSUME S # {} PROVE FALSE
      OBVIOUS
    <2>2. C \subseteq A /\ E \subseteq A /\ S \in SUBSET A
      BY <1>1
    <2>3. PICK a \in S : link[a] \notin S
      BY <1>a, <2>1, <2>2 DEF NoCircle
    <2>4. a \in C /\ a \in E /\ a \in A
      BY <2>2
    <2>5. link[a] \in A => link[a] \in C \cap E
      BY <1>1, <2>4
    <2>6. link[a] \in A => \A d \in D : f[<<d, link[a]>>] = g[<<d, link[a]>>]
      BY <2>3, <2>5
    <2>7. \A d \in D : Val(f, d, a) = Val(g, d, a)
      BY <1>2, <2>4, <2>6
    <2>8. \A d \in D : f[<<d, a>>] = Val(f, d, a) /\ g[<<d, a>>] = Val(g, d, a)
      BY <1>1, <2>4
    <2> QED
      BY <2>3, <2>7, <2>8
  <1>5. \A a \in A : \E C, f : Solves(f, C) /\ a \in C
    <2> DEFINE S == { a \in A : ~ \E C, f : Solves(f, C) /\ a \in C }
    <2>1. SUFFICES ASSUME S # {} PROVE FALSE
      OBVIOUS
    <2>2. PICK a \in S : link[a] \notin S
      BY <1>a, <2>1 DEF NoCircle
    <2>3. \E C, f : Solves(f, C) /\ (link[a] \in A => link[a] \in C)
      <3>1. CASE link[a] \in A
        BY <2>2, <3>1
      <3>2. CASE link[a] \notin A
        <4>1. Solves([x \in D \X {} |-> base[x]], {})
          BY DEF Solves, Closed
        <4> QED
          BY <3>2, <4>1
      <3> QED
        BY <3>1, <3>2
    <2>4. PICK C, f : Solves(f, C) /\ (link[a] \in A => link[a] \in C)
      BY <2>3
    <2>5. a \in A /\ a \notin C /\ C \subseteq A
      BY <1>1, <2>2, <2>4
    <2> DEFINE E == C \cup {a}
               g == [x \in D \X E |-> IF x[2] = a THEN Val(f, x[1], a) ELSE f[x]]
    <2>6. /\ \A d \in D : \A b \in C : g[<<d, b>>] = f[<<d, b>>]
          /\ \A d \in D : g[<<d, a>>] = Val(f, d, a)
      BY <2>5
    <2>7. \A b \in E : link[b] \in A => link[b] \in C
      BY <1>1, <2>4
    <2>8. \A d \in D : \A b \in E : g[<<d, b>>] \in D /\ g[<<d, b>>] = Val(f, d, b)
      <3>1. \A d \in D : Val(f, d, a) \in D
        <4>1. link[a] \in A => \A d \in D : f[<<d, link[a]>>] \in D
          BY <1>1, <2>4
        <4> QED
          BY <1>3, <2>5, <4>1
      <3>2. \A d \in D : \A b \in C : f[<<d, b>>] \in D /\ f[<<d, b>>] = Val(f, d, b)
        BY <1>1, <2>4
      <3> HIDE DEF g
      <3> QED
        BY <2>6, <3>1, <3>2
    <2>9. ASSUME NEW d \in D, NEW b \in E
          PROVE  g[<<d, b>>] = Val(g, d, b)
      <3> HIDE DEF g
      <3>1. b \in A
        BY <2>5
      <3>2. link[b] \in A => \A e \in D : g[<<e, link[b]>>] = f[<<e, link[b]>>]
        BY <2>6, <2>7
      <3> HIDE DEF E
      <3>3. \A e \in D : Val(g, e, b) = Val(f, e, b)
        BY <1>2, <3>1, <3>2, Zenon
      <3> QED
        BY <2>8, <2>9, <3>3
    <2>10. g \in [D \X E -> D]
      <3>1. \A x \in D \X E : g[x] \in D
        <4> SUFFICES ASSUME NEW x \in D \X E PROVE g[x] \in D
          OBVIOUS
        <4>1. x[1] \in D /\ x[2] \in E /\ x = <<x[1], x[2]>>
          OBVIOUS
        <4> HIDE DEF g, E
        <4> QED
          BY <2>8, <4>1
      <3>2. g = [x \in D \X E |-> g[x]]
        OBVIOUS
      <3> HIDE DEF g
      <3> QED
        BY <3>1, <3>2
    <2>11. E \in SUBSET A
      BY <2>5
    <2> HIDE DEF g
    <2>12. Closed(E)
      BY <2>7 DEF Closed
    <2> HIDE DEF E
    <2>13. Solves(g, E)
      BY <2>9, <2>10, <2>11, <2>12 DEF Solves
    <2>14. a \in E
      BY DEF E
    <2> QED
      BY <2>2, <2>13, <2>14
  <1> DEFINE Pick(a) == CHOOSE p : Solves(p[1], p[2]) /\ a \in p[2]
             h == [x \in D \X A |-> Pick(x[2])[1][x]]
  <1>6. \A a \in A : Solves(Pick(a)[1], Pick(a)[2]) /\ a \in Pick(a)[2]
    <2> SUFFICES ASSUME NEW a \in A
                 PROVE  Solves(Pick(a)[1], Pick(a)[2]) /\ a \in Pick(a)[2]
      OBVIOUS
    <2>1. PICK C, f : Solves(f, C) /\ a \in C
      BY <1>5
    <2> DEFINE p == <<f, C>>
    <2>2. p[1] = f /\ p[2] = C
      OBVIOUS
    <2> HIDE DEF p
    <2>3. Solves(p[1], p[2]) /\ a \in p[2]
      BY <2>1, <2>2
    <2> QED
      BY <2>3
  <1> HIDE DEF Pick
  <1>7. ASSUME NEW f, NEW C, Solves(f, C)
        PROVE  \A d \in D : \A b \in C : h[<<d, b>>] = f[<<d, b>>]
    <2> SUFFICES ASSUME NEW d \in D, NEW b \in C PROVE h[<<d, b>>] = f[<<d, b>>]
      OBVIOUS
    <2>1. b \in A
      BY <1>1, <1>7
    <2>2. h[<<d, b>>] = Pick(b)[1][<<d, b>>]
      BY <2>1
    <2> HIDE DEF h
    <2>3. PICK g, E : Solves(g, E) /\ b \in E /\ h[<<d, b>>] = g[<<d, b>>]
      BY <1>6, <2>1, <2>2
    <2>4. Solves(f, C) /\ Solves(g, E)
      BY <1>7, <2>3
    <2>5. \A c \in C : c \in E => \A e \in D : f[<<e, c>>] = g[<<e, c>>]
      BY <1>4, <2>4
    <2> QED
      BY <2>3, <2>5
  <1>8. ASSUME NEW d \in D, NEW a \in A
        PROVE  h[<<d, a>>] \in D /\ h[<<d, a>>] = Val(h, d, a)
    <2> HIDE DEF h
    <2>1. PICK f, C : Solves(f, C) /\ a \in C
      BY <1>5
    <2>2. f[<<d, a>>] = Val(f, d, a) /\ f[<<d, a>>] \in D
      BY <1>1, <2>1
    <2>3. \A e \in D : \A b \in C : h[<<e, b>>] = f[<<e, b>>]
      BY <1>7, <2>1
    <2>4. link[a] \in A => \A e \in D : h[<<e, link[a]>>] = f[<<e, link[a]>>]
      BY <1>1, <2>1, <2>3
    <2>5. Val(h, d, a) = Val(f, d, a)
      BY <1>2, <2>4
    <2> QED
      BY <2>1, <2>2, <2>3, <2>5
  <1>9. h \in [D \X A -> D]
    <2>1. \A x \in D \X A : h[x] \in D
      <3> SUFFICES ASSUME NEW x \in D \X A PROVE h[x] \in D
        OBVIOUS
      <3>1. x[1] \in D /\ x[2] \in A /\ x = <<x[1], x[2]>>
        OBVIOUS
      <3> HIDE DEF h
      <3> QED
        BY <1>8, <3>1
    <2>2. h = [x \in D \X A |-> h[x]]
      OBVIOUS
    <2> HIDE DEF h
    <2> QED
      BY <2>1, <2>2
  <1> HIDE DEF h
  <1>10. \A d \in D : \A a \in A : h[<<d, a>>] = Val(h, d, a)
    BY <1>8
  <1> QED
    BY <1>9, <1>10 DEF Val, Defines

\* The elements reached from one of them along links.
Reached(A, link, x) ==
  { b \in A : \A C \in SUBSET A :
      x \in C /\ (\A c \in C : link[c] \in A => link[c] \in C) => b \in C }

\* They have x and are closed under links.
LEMMA ReachedIsClosed ==
  ASSUME NEW A, NEW link, NEW x \in A
  PROVE  /\ Reached(A, link, x) \subseteq A
         /\ x \in Reached(A, link, x)
         /\ \A b \in Reached(A, link, x) : link[b] \in A => link[b] \in Reached(A, link, x)
  BY DEF Reached

\* No smaller set is.
LEMMA ReachedIsLeast ==
  ASSUME NEW A, NEW link, NEW x \in A,
         NEW C, C \subseteq A, x \in C, \A c \in C : link[c] \in A => link[c] \in C
  PROVE  Reached(A, link, x) \subseteq C
  BY DEF Reached

\* What x reaches is x itself and what the next element reaches.
LEMMA ReachedFromNext ==
  ASSUME NEW A, NEW link, NEW x \in A
  PROVE  /\ link[x] \in A => /\ Reached(A, link, link[x]) \subseteq Reached(A, link, x)
                             /\ Reached(A, link, x) \subseteq {x} \cup Reached(A, link, link[x])
         /\ link[x] \notin A => Reached(A, link, x) = {x}
  <1>1. CASE link[x] \in A
    <2> DEFINE C == {x} \cup Reached(A, link, link[x])
    <2>1. /\ x \in C /\ C \subseteq A
          /\ \A c \in C : link[c] \in A => link[c] \in C
      BY <1>1, ReachedIsClosed
    <2> HIDE DEF C
    <2>2. Reached(A, link, x) \subseteq C
      BY <2>1, ReachedIsLeast
    <2>3. Reached(A, link, link[x]) \subseteq Reached(A, link, x)
      <3>1. link[x] \in Reached(A, link, x)
        BY <1>1, ReachedIsClosed
      <3> QED
        BY <1>1, <3>1, ReachedIsClosed, ReachedIsLeast
    <2> QED
      BY <1>1, <2>2, <2>3 DEF C
  <1>2. CASE link[x] \notin A
    <2> DEFINE C == {x}
    <2>1. x \in C /\ C \subseteq A /\ \A c \in C : link[c] \in A => link[c] \in C
      BY <1>2
    <2> HIDE DEF C
    <2>2. Reached(A, link, x) \subseteq C
      BY <2>1, ReachedIsLeast
    <2> QED
      BY <1>2, <2>2, ReachedIsClosed DEF C
  <1> QED
    BY <1>1, <1>2

\* A new link that closes no circle does not lead back to where it begins.
LEMMA ReachedAvoids ==
  ASSUME NEW A, NEW link, NEW new, NEW a \in A, NoCircle(A, new),
         \A b \in A : b # a => new[b] = link[b], new[a] \in A
  PROVE  a \notin Reached(A, link, new[a])
  <1> DEFINE S == { b \in A : a \in Reached(A, link, b) }
  <1>1. a \in S /\ S \in SUBSET A
    BY ReachedIsClosed
  <1> HIDE DEF S
  <1>2. PICK b \in S : new[b] \notin S
    BY <1>1 DEF NoCircle
  <1> USE DEF S
  <1>3. CASE b = a
    BY <1>2, <1>3
  <1>4. CASE b # a
    <2>1. new[b] = link[b] /\ a \in Reached(A, link, b)
      BY <1>4
    <2>2. link[b] \in A /\ a \in Reached(A, link, link[b])
      BY <1>4, <2>1, ReachedFromNext
    <2> QED
      BY <1>2, <2>1, <2>2
  <1> QED
    BY <1>3, <1>4

\* Nor does any link, when there is no circle.
LEMMA ReachedIsAhead ==
  ASSUME NEW A, NEW link, NoCircle(A, link), NEW a \in A, link[a] \in A
  PROVE  a \notin Reached(A, link, link[a])
  BY ReachedAvoids

\* What holds wherever it holds for the next element holds for every one.
LEMMA ChainInduction ==
  ASSUME NEW A, NEW link, NoCircle(A, link), NEW G,
         \A x \in A : (link[x] \in A => link[x] \in G) => x \in G
  PROVE  \A x \in A : x \in G
  <1> DEFINE S == A \ G
  <1>1. SUFFICES ASSUME S # {} PROVE FALSE
    OBVIOUS
  <1>2. PICK a \in S : link[a] \notin S
    BY <1>1 DEF NoCircle
  <1> QED
    BY <1>2
==============================================================================
