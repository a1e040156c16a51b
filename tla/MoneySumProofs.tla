--------------------------- MODULE MoneySumProofs ---------------------------
(***************************************************************************)
(* The laws of Sum: a total is a natural number, it is at least each of    *)
(* its terms, it moves by what one term moves by, it is monotonic, and it  *)
(* splits, adds, groups and renames as totals do.                          *)
(***************************************************************************)
EXTENDS MoneySum, FiniteSetTheorems, TLAPS

Pile(f, S) == UNION {Coins(f, x) : x \in S}

\* What lies on the pile.
LEMMA PileMember ==
  ASSUME NEW f, NEW S, NEW c
  PROVE  c \in Pile(f, S) <=> \E x \in S : c \in Coins(f, x)
BY Zenon DEF Pile

\* Members with nothing on them put no coin on the pile.
LEMMA SumIsPile ==
  ASSUME NEW S, NEW f \in [S -> Nat]
  PROVE  Sum(f) = Cardinality(Pile(f, S))
<1>1. \A x \in S : f[x] = 0 => Coins(f, x) = {}
  BY DEF Coins
<1>2. \A x \in S : f[x] > 0 \/ f[x] = 0
  OBVIOUS
<1>3. UNION {Coins(f, x) : x \in {y \in DOMAIN f : f[y] > 0}} = Pile(f, S)
  BY <1>1, <1>2, Zenon DEF Pile
<1> QED
  BY <1>3 DEF Sum

\* A term f[x] is counted by exactly f[x] coins.
LEMMA CoinsCount ==
  ASSUME NEW S, NEW f \in [S -> Nat], NEW x \in S
  PROVE  IsFiniteSet(Coins(f, x)) /\ Cardinality(Coins(f, x)) = f[x]
<1>1. IsFiniteSet({x}) /\ Cardinality({x}) = 1
  BY FS_Singleton
<1>2. IsFiniteSet(1..f[x]) /\ Cardinality(1..f[x]) = f[x]
  BY FS_Interval
<1>3. IsFiniteSet({x} \X (1..f[x]))
      /\ Cardinality({x} \X (1..f[x])) = 1 * f[x]
  BY <1>1, <1>2, FS_Product
<1> QED
  BY <1>3 DEF Coins

\* A finite set of finite coin sets makes a finite pile.
LEMMA PileFinite ==
  ASSUME NEW S, IsFiniteSet(S), NEW f, \A x \in S : IsFiniteSet(Coins(f, x))
  PROVE  IsFiniteSet(Pile(f, S))
<1> DEFINE T == {Coins(f, x) : x \in S}
           g == [x \in S |-> Coins(f, x)]
<1>1. g \in Surjection(S, T)
  BY Zenon DEF Surjection
<1>2. IsFiniteSet(T)
  BY <1>1, FS_Surjection
<1>3. \A t \in T : IsFiniteSet(t)
  OBVIOUS
<1> QED
  BY <1>2, <1>3, FS_UNION DEF Pile

\* A total of amounts is an amount.
THEOREM SumNat ==
  ASSUME NEW S, IsFiniteSet(S), NEW f \in [S -> Nat]
  PROVE  Sum(f) \in Nat
<1>1. IsFiniteSet(Pile(f, S))
  BY CoinsCount, PileFinite
<1> QED
  BY <1>1, FS_CardinalityType, SumIsPile

\* One term and the others: the pile splits without overlap.
LEMMA SumSplit ==
  ASSUME NEW S, IsFiniteSet(S), NEW f \in [S -> Nat], NEW x \in S
  PROVE  /\ Sum(f) = Cardinality(Pile(f, S \ {x})) + f[x]
         /\ Cardinality(Pile(f, S \ {x})) \in Nat
<1> DEFINE R == Pile(f, S \ {x})
<1>1. IsFiniteSet(S \ {x})
  BY FS_RemoveElement
<1>2. IsFiniteSet(R)
  BY <1>1, CoinsCount, PileFinite
<1>3. IsFiniteSet(Coins(f, x)) /\ Cardinality(Coins(f, x)) = f[x]
  BY CoinsCount
<1>4. Pile(f, S) = R \cup Coins(f, x)
  BY Zenon DEF Pile
<1>5. R \cap Coins(f, x) = {}
  <2>1. ASSUME NEW c \in R, c \in Coins(f, x) PROVE FALSE
    <3>1. PICK y \in S \ {x} : c \in Coins(f, y)
      BY Zenon DEF Pile
    <3> QED
      BY <2>1, <3>1 DEF Coins
  <2> QED
    BY <2>1, Zenon
<1>6. Cardinality(R \cap Coins(f, x)) = 0
  BY <1>5, FS_EmptySet
<1>7. Cardinality(R) \in Nat
  BY <1>2, FS_CardinalityType
<1>8. Cardinality(R \cup Coins(f, x))
        = Cardinality(R) + Cardinality(Coins(f, x)) - Cardinality(R \cap Coins(f, x))
  BY <1>2, <1>3, FS_Union
<1>9. f[x] \in Nat /\ Sum(f) = Cardinality(Pile(f, S))
  BY SumIsPile
<1> HIDE DEF R
<1>10. Sum(f) = Cardinality(R) + f[x]
  BY <1>3, <1>4, <1>6, <1>7, <1>8, <1>9
<1> QED
  BY <1>7, <1>10 DEF R

\* Two functions that differ at one member have totals that differ by it.
THEOREM SumChange ==
  ASSUME NEW S, IsFiniteSet(S), NEW f \in [S -> Nat], NEW g \in [S -> Nat],
         NEW x \in S, \A y \in S : y # x => g[y] = f[y]
  PROVE  Sum(g) + f[x] = Sum(f) + g[x]
<1>1. Pile(f, S \ {x}) = Pile(g, S \ {x})
  <2>1. \A y \in S \ {x} : Coins(f, y) = Coins(g, y)
    BY Zenon DEF Coins
  <2> QED
    BY <2>1, Zenon DEF Pile
<1>2. /\ Sum(f) = Cardinality(Pile(f, S \ {x})) + f[x]
      /\ Sum(g) = Cardinality(Pile(g, S \ {x})) + g[x]
      /\ Cardinality(Pile(f, S \ {x})) \in Nat
  BY SumSplit
<1> QED
  BY <1>1, <1>2

\* No term exceeds the total.
THEOREM SumTerm ==
  ASSUME NEW S, IsFiniteSet(S), NEW f \in [S -> Nat], NEW x \in S
  PROVE  f[x] <= Sum(f)
<1>1. f[x] \in Nat
  OBVIOUS
<1>2. /\ Sum(f) = Cardinality(Pile(f, S \ {x})) + f[x]
      /\ Cardinality(Pile(f, S \ {x})) \in Nat
  BY SumSplit
<1> QED
  BY <1>1, <1>2

\* Totals are monotonic.
THEOREM SumMono ==
  ASSUME NEW S, IsFiniteSet(S), NEW f \in [S -> Nat], NEW g \in [S -> Nat],
         \A x \in S : f[x] <= g[x]
  PROVE  Sum(f) <= Sum(g)
<1>1. \A x \in S : Coins(f, x) \subseteq Coins(g, x)
  BY DEF Coins
<1>2. Pile(f, S) \subseteq Pile(g, S)
  BY <1>1, Zenon DEF Pile
<1>3. IsFiniteSet(Pile(g, S))
  BY CoinsCount, PileFinite
<1>4. Cardinality(Pile(f, S)) <= Cardinality(Pile(g, S))
  BY <1>2, <1>3, FS_Subset
<1> QED
  BY <1>4, SumIsPile

\* Nothing adds up to nothing.
THEOREM SumZero ==
  ASSUME NEW S, NEW f \in [S -> Nat], \A x \in S : f[x] = 0
  PROVE  Sum(f) = 0
<1>1. \A x \in S : Coins(f, x) = {}
  BY DEF Coins
<1>2. Pile(f, S) = {}
  BY <1>1, Zenon DEF Pile
<1> QED
  BY <1>2, SumIsPile, FS_EmptySet

\* Where only one member has something on it, that is the total.
THEOREM SumOnly ==
  ASSUME NEW S, IsFiniteSet(S), NEW f \in [S -> Nat], NEW x \in S,
         \A y \in S : y # x => f[y] = 0
  PROVE  Sum(f) = f[x]
<1> DEFINE g == [y \in S |-> 0]
<1>1. g \in [S -> Nat] /\ (\A y \in S : g[y] = 0) /\ \A y \in S : y # x => g[y] = f[y]
  OBVIOUS
<1>2. f[x] \in Nat /\ Sum(f) \in Nat
  BY SumNat
<1> HIDE DEF g
<1>3. Sum(g) = 0
  BY <1>1, SumZero
<1>4. Sum(g) + f[x] = Sum(f) + g[x]
  BY <1>1, SumChange
<1> QED BY <1>1, <1>2, <1>3, <1>4

\* Members with nothing on them may be left out of a total.
THEOREM SumWithin ==
  ASSUME NEW S, NEW T \in SUBSET S, NEW f \in [S -> Nat], NEW g \in [T -> Nat],
         \A x \in T : g[x] = f[x], \A x \in S \ T : f[x] = 0
  PROVE  Sum(f) = Sum(g)
<1>1. \A x \in S \ T : Coins(f, x) = {}
  BY DEF Coins
<1>2. \A x \in T : Coins(f, x) = Coins(g, x)
  BY Zenon DEF Coins
<1>3. Pile(f, S) \subseteq Pile(g, T)
  <2>1. ASSUME NEW c \in Pile(f, S) PROVE c \in Pile(g, T)
    <3>1. PICK x \in S : c \in Coins(f, x)
      BY Zenon DEF Pile
    <3>2. x \in T
      BY <1>1, <3>1
    <3> QED BY <1>2, <3>1, <3>2, Zenon DEF Pile
  <2> QED BY <2>1
<1>4. Pile(g, T) \subseteq Pile(f, S)
  BY <1>2, Zenon DEF Pile
<1> QED
  BY <1>3, <1>4, SumIsPile

\* Totals add when no member has something in both.
THEOREM SumDisjoint ==
  ASSUME NEW S, IsFiniteSet(S), NEW f \in [S -> Nat], NEW g \in [S -> Nat], NEW h \in [S -> Nat],
         \A x \in S : (f[x] = 0 /\ h[x] = g[x]) \/ (g[x] = 0 /\ h[x] = f[x])
  PROVE  Sum(h) = Sum(f) + Sum(g)
<1>1. \A x \in S : (f[x] = 0 => Coins(f, x) = {}) /\ (g[x] = 0 => Coins(g, x) = {})
  BY DEF Coins
<1>2. \A x \in S : \/ Coins(f, x) = {} /\ Coins(h, x) = Coins(g, x)
                   \/ Coins(g, x) = {} /\ Coins(h, x) = Coins(f, x)
  <2> TAKE x \in S
  <2>1. (h[x] = g[x] => Coins(h, x) = Coins(g, x)) /\ (h[x] = f[x] => Coins(h, x) = Coins(f, x))
    BY Zenon DEF Coins
  <2> QED BY <1>1, <2>1
<1>3. Pile(h, S) = Pile(f, S) \cup Pile(g, S)
  <2>1. \A x \in S : Coins(h, x) = Coins(f, x) \cup Coins(g, x)
    BY <1>2
  <2>2. ASSUME NEW c PROVE c \in Pile(h, S) <=> c \in Pile(f, S) \/ c \in Pile(g, S)
    <3>1. \A x \in S : c \in Coins(h, x) <=> c \in Coins(f, x) \/ c \in Coins(g, x)
      BY <2>1
    <3> QED BY <3>1, PileMember
  <2> QED BY <2>2
<1>4. Pile(f, S) \cap Pile(g, S) = {}
  <2>1. ASSUME NEW c \in Pile(f, S), c \in Pile(g, S) PROVE FALSE
    <3>1. PICK x \in S : c \in Coins(f, x)
      BY Zenon DEF Pile
    <3>2. PICK y \in S : c \in Coins(g, y)
      BY <2>1, Zenon DEF Pile
    <3>3. x = y
      BY <3>1, <3>2 DEF Coins
    <3> QED BY <1>2, <3>1, <3>2, <3>3
  <2> QED BY <2>1, Zenon
<1>5. IsFiniteSet(Pile(f, S)) /\ IsFiniteSet(Pile(g, S))
  BY CoinsCount, PileFinite
<1>6. /\ Cardinality(Pile(f, S)) \in Nat /\ Cardinality(Pile(g, S)) \in Nat
      /\ Cardinality(Pile(f, S) \cap Pile(g, S)) = 0
  BY <1>4, <1>5, FS_CardinalityType, FS_EmptySet
<1>7. Cardinality(Pile(f, S) \cup Pile(g, S))
        = Cardinality(Pile(f, S)) + Cardinality(Pile(g, S)) - Cardinality(Pile(f, S) \cap Pile(g, S))
  BY <1>5, FS_Union
<1>8. Cardinality(Pile(h, S)) = Cardinality(Pile(f, S)) + Cardinality(Pile(g, S))
  BY <1>3, <1>6, <1>7
<1>9. /\ Sum(h) = Cardinality(Pile(h, S))
      /\ Sum(f) = Cardinality(Pile(f, S)) /\ Sum(g) = Cardinality(Pile(g, S))
  BY SumIsPile
<1> QED BY <1>8, <1>9

\* A total does not depend on how its members are named.
THEOREM SumRenamed ==
  ASSUME NEW S, IsFiniteSet(S), NEW T, NEW f \in [S -> Nat], NEW g \in [T -> Nat],
         NEW b \in [S -> T], \A x, y \in S : b[x] = b[y] => x = y,
         \A x \in S : g[b[x]] = f[x],
         \A y \in T : g[y] = 0 \/ \E x \in S : y = b[x]
  PROVE  Sum(f) = Sum(g)
<1> DEFINE P == Pile(f, S)
           Q == Pile(g, T)
           m == [c \in P |-> <<b[c[1]], c[2]>>]
<1>1. \A c \in P : \E x \in S : \E k \in 1..f[x] : c = <<x, k>>
  BY PileMember DEF Coins
<1>2. \A x \in S : \A k \in 1..f[x] : <<x, k>> \in P
  BY PileMember DEF Coins
<1>3. \A c \in Q : \E y \in T : \E k \in 1..g[y] : c = <<y, k>>
  BY PileMember DEF Coins
<1>4. \A y \in T : \A k \in 1..g[y] : <<y, k>> \in Q
  BY PileMember DEF Coins
<1>5. IsFiniteSet(P)
  BY CoinsCount, PileFinite
<1> HIDE DEF P, Q
<1>6. m \in [P -> Q]
  <2>1. ASSUME NEW c \in P PROVE <<b[c[1]], c[2]>> \in Q
    <3>1. PICK x \in S : \E k \in 1..f[x] : c = <<x, k>>
      BY <1>1
    <3>2. PICK k \in 1..f[x] : c = <<x, k>>
      BY <3>1
    <3>3. b[x] \in T /\ k \in 1..g[b[x]]
      BY <3>2
    <3> QED BY <1>4, <3>2, <3>3
  <2> QED BY <2>1
<1>7. \A c, d \in P : m[c] = m[d] => c = d
  <2>1. ASSUME NEW c \in P, NEW d \in P, m[c] = m[d] PROVE c = d
    <3>1. PICK x \in S : \E k \in 1..f[x] : c = <<x, k>>
      BY <1>1
    <3>2. PICK k \in 1..f[x] : c = <<x, k>>
      BY <3>1
    <3>3. PICK y \in S : \E l \in 1..f[y] : d = <<y, l>>
      BY <1>1
    <3>4. PICK l \in 1..f[y] : d = <<y, l>>
      BY <3>3
    <3>5. b[x] = b[y] /\ k = l
      BY <2>1, <3>2, <3>4
    <3> QED BY <3>2, <3>4, <3>5
  <2> QED BY <2>1
<1>8. \A d \in Q : \E c \in P : m[c] = d
  <2>1. ASSUME NEW d \in Q PROVE \E c \in P : m[c] = d
    <3>1. PICK y \in T : \E k \in 1..g[y] : d = <<y, k>>
      BY <1>3
    <3>2. PICK k \in 1..g[y] : d = <<y, k>>
      BY <3>1
    <3>3. PICK x \in S : y = b[x]
      <4>1. g[y] # 0
        BY <3>2
      <4> QED BY <4>1
    <3>4. g[y] = f[x]
      BY <3>3
    <3>5. <<x, k>> \in P
      BY <1>2, <3>2, <3>4
    <3>6. m[<<x, k>>] = d
      BY <3>2, <3>3, <3>5
    <3> QED BY <3>5, <3>6
  <2> QED BY <2>1
<1> HIDE DEF m
<1>9. m \in Bijection(P, Q)
  BY <1>6, <1>7, <1>8 DEF Bijection, Injection, Surjection, IsInjective
<1>10. ExistsBijection(P, Q)
  BY <1>9 DEF ExistsBijection
<1>11. Cardinality(P) = Cardinality(Q)
  BY <1>5, <1>10, FS_Bijection
<1> QED BY <1>11, SumIsPile DEF P, Q

\* Amounts on the same member add up: the coins of g go on top of those of f.
THEOREM SumPlus ==
  ASSUME NEW S, IsFiniteSet(S), NEW f \in [S -> Nat], NEW g \in [S -> Nat], NEW h \in [S -> Nat],
         \A x \in S : h[x] = f[x] + g[x]
  PROVE  Sum(h) = Sum(f) + Sum(g)
<1> DEFINE P == Pile(f, S)
           Q == Pile(g, S)
           H == Pile(h, S)
           R == H \ P
           m == [c \in Q |-> <<c[1], f[c[1]] + c[2]>>]
<1>1. /\ \A c \in P : \E x \in S : \E k \in 1..f[x] : c = <<x, k>>
      /\ \A c \in Q : \E x \in S : \E k \in 1..g[x] : c = <<x, k>>
      /\ \A c \in H : \E x \in S : \E k \in 1..h[x] : c = <<x, k>>
  BY PileMember DEF Coins
<1>2. /\ \A x \in S : \A k \in 1..f[x] : <<x, k>> \in P
      /\ \A x \in S : \A k \in 1..g[x] : <<x, k>> \in Q
      /\ \A x \in S : \A k \in 1..h[x] : <<x, k>> \in H
  BY PileMember DEF Coins
<1>3. IsFiniteSet(P) /\ IsFiniteSet(Q) /\ IsFiniteSet(H)
  BY CoinsCount, PileFinite
<1> HIDE DEF P, Q, H
<1>4. P \subseteq H
  <2>1. ASSUME NEW c \in P PROVE c \in H
    <3>1. PICK x \in S : \E k \in 1..f[x] : c = <<x, k>>
      BY <1>1
    <3>2. PICK k \in 1..f[x] : c = <<x, k>>
      BY <3>1
    <3>3. k \in 1..h[x]
      BY <3>2
    <3> QED BY <1>2, <3>2, <3>3
  <2> QED BY <2>1
<1>5. \A x, y \in S : \A k \in 1..f[x], l \in 1..g[y] : <<x, k>> # <<y, f[y] + l>>
  OBVIOUS
<1>6. m \in [Q -> R]
  <2>1. ASSUME NEW c \in Q PROVE <<c[1], f[c[1]] + c[2]>> \in R
    <3>1. PICK x \in S : \E l \in 1..g[x] : c = <<x, l>>
      BY <1>1
    <3>2. PICK l \in 1..g[x] : c = <<x, l>>
      BY <3>1
    <3>3. f[x] + l \in 1..h[x] /\ c[1] = x /\ c[2] = l
      BY <3>2
    <3>4. <<x, f[x] + l>> \in H
      BY <1>2, <3>3
    <3>5. <<x, f[x] + l>> \notin P
      BY <1>1, <1>5
    <3> QED BY <3>3, <3>4, <3>5
  <2> QED BY <2>1
<1>7. \A c, d \in Q : m[c] = m[d] => c = d
  <2>1. ASSUME NEW c \in Q, NEW d \in Q, m[c] = m[d] PROVE c = d
    <3>1. PICK x \in S : \E k \in 1..g[x] : c = <<x, k>>
      BY <1>1
    <3>2. PICK k \in 1..g[x] : c = <<x, k>>
      BY <3>1
    <3>3. PICK y \in S : \E l \in 1..g[y] : d = <<y, l>>
      BY <1>1
    <3>4. PICK l \in 1..g[y] : d = <<y, l>>
      BY <3>3
    <3>5. m[c] = <<x, f[x] + k>> /\ m[d] = <<y, f[y] + l>>
      BY <3>2, <3>4
    <3>6. x = y /\ f[x] + k = f[y] + l
      BY <2>1, <3>5
    <3>7. k = l
      BY <3>6
    <3> QED BY <3>2, <3>4, <3>6, <3>7
  <2> QED BY <2>1
<1>8. \A d \in R : \E c \in Q : m[c] = d
  <2>1. ASSUME NEW d \in R PROVE \E c \in Q : m[c] = d
    <3>1. PICK x \in S : \E k \in 1..h[x] : d = <<x, k>>
      BY <1>1
    <3>2. PICK k \in 1..h[x] : d = <<x, k>>
      BY <3>1
    <3>3. k \notin 1..f[x]
      BY <1>2, <3>2
    <3>4. PICK l \in Int : l = k - f[x]
      BY <3>2
    <3>5. l \in 1..g[x] /\ f[x] + l = k
      BY <3>2, <3>3, <3>4
    <3>6. <<x, l>> \in Q
      BY <1>2, <3>5
    <3>7. m[<<x, l>>] = <<x, f[x] + l>>
      BY <3>6
    <3> QED BY <3>2, <3>5, <3>6, <3>7
  <2> QED BY <2>1
<1> HIDE DEF m
<1>9. ExistsBijection(Q, R)
  <2>1. m \in Bijection(Q, R)
    BY <1>6, <1>7, <1>8 DEF Bijection, Injection, Surjection, IsInjective
  <2> QED BY <2>1 DEF ExistsBijection
<1>10. IsFiniteSet(R) /\ Cardinality(R) = Cardinality(Q)
  BY <1>3, <1>9, FS_Bijection
<1>11. Cardinality(H) = Cardinality(P) + Cardinality(Q)
  <2>1. H = P \cup R /\ P \cap R = {}
    BY <1>4
  <2>2. /\ Cardinality(P) \in Nat /\ Cardinality(R) \in Nat
        /\ Cardinality(P \cap R) = 0
    BY <1>3, <1>10, <2>1, FS_CardinalityType, FS_EmptySet
  <2>3. IsFiniteSet(P) /\ IsFiniteSet(R)
    BY <1>3, <1>10
  <2> HIDE DEF R
  <2>4. Cardinality(P \cup R) = Cardinality(P) + Cardinality(R) - Cardinality(P \cap R)
    BY <2>3, FS_Union
  <2> QED BY <1>10, <2>1, <2>2, <2>4
<1> QED BY <1>11, SumIsPile DEF P, Q, H

\* A total may be taken group by group: the coins of a group are counted once more, each
\* group on its own.
THEOREM SumGrouped ==
  ASSUME NEW S, IsFiniteSet(S), NEW T, IsFiniteSet(T),
         NEW f \in [S -> Nat], NEW k \in [S -> T], NEW g \in [T -> Nat],
         \A t \in T : g[t] = Sum([x \in S |-> IF k[x] = t THEN f[x] ELSE 0])
  PROVE  Sum(f) = Sum(g)
<1> DEFINE P == Pile(f, S)
           Q == Pile(g, T)
           Part(t) == {c \in P : k[c[1]] = t}
           b == [t \in T |-> CHOOSE h : h \in Bijection(Part(t), 1..g[t])]
           m == [c \in P |-> <<k[c[1]], b[k[c[1]]][c]>>]
<1>1. \A c \in P : c[1] \in S /\ k[c[1]] \in T
  BY PileMember DEF Coins
<1>2. /\ \A c \in Q : \E t \in T : \E j \in 1..g[t] : c = <<t, j>>
      /\ \A t \in T : \A j \in 1..g[t] : <<t, j>> \in Q
  BY PileMember DEF Coins
<1>3. IsFiniteSet(P)
  BY CoinsCount, PileFinite
<1>4. ASSUME NEW t \in T PROVE b[t] \in Bijection(Part(t), 1..g[t])
  <2> DEFINE e == [x \in S |-> IF k[x] = t THEN f[x] ELSE 0]
  <2>1. e \in [S -> Nat]
    OBVIOUS
  <2>2. Part(t) = Pile(e, S)
    <3>1. ASSUME NEW c PROVE c \in Part(t) <=> c \in Pile(e, S)
      <4>1. c \in P <=> \E x \in S : c \in Coins(f, x)
        BY PileMember
      <4>2. c \in Pile(e, S) <=> \E x \in S : c \in Coins(e, x)
        BY PileMember
      <4>3. \A x \in S : c \in Coins(f, x) => c[1] = x
        BY DEF Coins
      <4>4. \A x \in S : c \in Coins(e, x) <=> c \in Coins(f, x) /\ k[x] = t
        BY DEF Coins
      <4> QED BY <4>1, <4>2, <4>3, <4>4
    <3> QED BY <3>1
  <2> HIDE DEF e, P
  <2>3. IsFiniteSet(Part(t)) /\ Cardinality(Part(t)) = g[t]
    <3>1. Cardinality(Pile(e, S)) = g[t]
      BY <2>1, SumIsPile DEF e
    <3>2. IsFiniteSet(Part(t))
      BY <1>3, FS_Subset
    <3> QED BY <2>2, <3>1, <3>2
  <2>4. IsFiniteSet(1..g[t]) /\ Cardinality(1..g[t]) = g[t]
    BY FS_Interval
  <2>5. ExistsBijection(Part(t), 1..g[t])
    BY <2>3, <2>4, FS_SameCardinalityBij
  <2> QED BY <2>5 DEF ExistsBijection
<1> HIDE DEF P, Q, b
<1>5. ASSUME NEW t \in T
      PROVE  /\ \A c \in P : k[c[1]] = t => b[t][c] \in 1..g[t]
             /\ \A c, d \in P : k[c[1]] = t /\ k[d[1]] = t /\ b[t][c] = b[t][d] => c = d
             /\ \A j \in 1..g[t] : \E c \in P : k[c[1]] = t /\ b[t][c] = j
  <2>1. b[t] \in Bijection(Part(t), 1..g[t])
    BY <1>4
  <2>2. /\ \A c \in Part(t) : b[t][c] \in 1..g[t]
        /\ \A c, d \in Part(t) : b[t][c] = b[t][d] => c = d
        /\ \A j \in 1..g[t] : \E c \in Part(t) : b[t][c] = j
    BY <2>1 DEF Bijection, Injection, Surjection, IsInjective
  <2> QED BY <2>2
<1>6. m \in [P -> Q]
  BY <1>1, <1>2, <1>5
<1>7. \A c, d \in P : m[c] = m[d] => c = d
  BY <1>1, <1>5
<1>8. \A d \in Q : \E c \in P : m[c] = d
  <2>1. ASSUME NEW d \in Q PROVE \E c \in P : m[c] = d
    <3>1. PICK t \in T : \E j \in 1..g[t] : d = <<t, j>>
      BY <1>2
    <3>2. PICK j \in 1..g[t] : d = <<t, j>>
      BY <3>1
    <3>3. PICK c \in P : k[c[1]] = t /\ b[t][c] = j
      BY <1>5
    <3> QED BY <3>2, <3>3
  <2> QED BY <2>1
<1> HIDE DEF m
<1>9. m \in Bijection(P, Q)
  BY <1>6, <1>7, <1>8 DEF Bijection, Injection, Surjection, IsInjective
<1>10. Cardinality(P) = Cardinality(Q)
  BY <1>3, <1>9, FS_Bijection DEF ExistsBijection
<1> QED BY <1>10, SumIsPile DEF P, Q

\* As many coins on each member as there are: so many times that.
THEOREM SumConstant ==
  ASSUME NEW S, IsFiniteSet(S), NEW n \in Nat
  PROVE  Sum([x \in S |-> n]) = n * Cardinality(S)
<1> DEFINE f == [x \in S |-> n]
<1>1. f \in [S -> Nat] /\ \A x \in S : f[x] = n
  OBVIOUS
<1>2. Pile(f, S) = S \X (1..n)
  <2>1. \A x \in S : Coins(f, x) = {x} \X (1..n)
    BY <1>1 DEF Coins
  <2>2. ASSUME NEW c PROVE c \in Pile(f, S) <=> c \in S \X (1..n)
    <3>1. c \in Pile(f, S) <=> \E x \in S : c \in {x} \X (1..n)
      BY <2>1, PileMember
    <3> QED BY <3>1
  <2> QED BY <2>2
<1>3. IsFiniteSet(1..n) /\ Cardinality(1..n) = n
  BY FS_Interval
<1>4. Cardinality(S \X (1..n)) = Cardinality(S) * n
  BY <1>3, FS_Product
<1>5. Cardinality(S) \in Nat
  BY FS_CardinalityType
<1>6. Sum(f) = Cardinality(S) * n
  BY <1>1, <1>2, <1>4, SumIsPile
<1>7. \A m \in Nat : m * n = n * m
  OBVIOUS
<1> QED BY <1>5, <1>6, <1>7

\* What is left of n on each member of T, when f takes at most n from a member and nothing
\* outside T: so many times n, less the total of f.
THEOREM SumLeft ==
  ASSUME NEW S, IsFiniteSet(S), NEW T \in SUBSET S, NEW n \in Nat, NEW f \in [S -> 0..n],
         \A x \in S \ T : f[x] = 0
  PROVE  /\ Sum(f) \in Nat /\ Sum([x \in T |-> n - f[x]]) \in Nat
         /\ Sum([x \in T |-> n - f[x]]) = n * Cardinality(T) - Sum(f)
<1>1. PICK g : g = [x \in T |-> f[x]]
  OBVIOUS
<1>2. PICK h : h = [x \in T |-> n - f[x]]
  OBVIOUS
<1>3. PICK c : c = [x \in T |-> n]
  OBVIOUS
<1>4. /\ f \in [S -> Nat] /\ g \in [T -> Nat] /\ h \in [T -> Nat] /\ c \in [T -> Nat]
      /\ \A x \in T : g[x] = f[x] /\ c[x] = g[x] + h[x]
  BY <1>1, <1>2, <1>3
<1>5. IsFiniteSet(T) /\ Cardinality(T) \in Nat
  BY FS_Subset, FS_CardinalityType
<1>6. Sum(c) = n * Cardinality(T)
  BY <1>3, <1>5, SumConstant
<1>7. Sum(f) = Sum(g)
  BY <1>4, SumWithin
<1>8. Sum(c) = Sum(g) + Sum(h)
  BY <1>4, <1>5, SumPlus
<1>9. Sum(g) \in Nat /\ Sum(h) \in Nat
  BY <1>4, <1>5, SumNat
<1> QED BY <1>2, <1>6, <1>7, <1>8, <1>9

=============================================================================
