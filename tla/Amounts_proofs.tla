--------------------------- MODULE Amounts_proofs ---------------------------
(***************************************************************************)
(* The laws of totals and of decimals that the accounting proofs of the    *)
(* other modules rest on.  A total (SumOf) is a natural number, changes by *)
(* one summand at a time, and depends on nothing but the summands.  Of the *)
(* decimals: what stays non-negative, and which way the roundings go.      *)
(***************************************************************************)
EXTENDS Decimals, Sums, FiniteSetTheorems, FunctionTheorems, TLAPS

-----------------------------------------------------------------------------
(***************************************************************************)
(* Totals                                                                  *)
(***************************************************************************)
\* One holder has as many single coins as its amount says.
LEMMA CoinsOfOne ==
  ASSUME NEW f, NEW x, f[x] \in Nat
  PROVE  IsFiniteSet(Coins(f, x)) /\ Cardinality(Coins(f, x)) = f[x]
<1>1. IsFiniteSet({x}) /\ Cardinality({x}) = 1
  BY FS_Singleton
<1>2. IsFiniteSet(1 .. f[x]) /\ Cardinality(1 .. f[x]) = f[x]
  BY FS_Interval, SMT
<1>3. /\ IsFiniteSet({x} \X (1 .. f[x]))
      /\ Cardinality({x} \X (1 .. f[x])) = Cardinality({x}) * Cardinality(1 .. f[x])
  BY <1>1, <1>2, FS_Product
<1> QED
  BY <1>1, <1>2, <1>3 DEF Coins

\* A finite set of holders has finitely many single coins.
LEMMA AllCoinsFinite ==
  ASSUME NEW f, NEW S, IsFiniteSet(S), \A x \in S : f[x] \in Nat
  PROVE  IsFiniteSet(AllCoins(f, S))
<1> DEFINE T == {Coins(f, x) : x \in S}
           g == [x \in S |-> Coins(f, x)]
<1>1. g \in Surjection(S, T)
  <2>1. g \in [S -> T]
    OBVIOUS
  <2>2. \A t \in T : \E s \in S : g[s] = t
    OBVIOUS
  <2> QED
    BY <2>1, <2>2 DEF Surjection
<1> HIDE DEF g
<1>2. IsFiniteSet(T)
  <2> HIDE DEF T
  <2> QED
    BY <1>1, FS_Surjection
<1>3. \A t \in T : IsFiniteSet(t)
  BY CoinsOfOne
<1> QED
  <2>1. IsFiniteSet(UNION T)
    <3> HIDE DEF T
    <3> QED
      BY <1>2, <1>3, FS_UNION
  <2> QED
    BY <2>1 DEF AllCoins

\* A total is a natural number.
LEMMA SumType ==
  ASSUME NEW f, NEW S, IsFiniteSet(S), \A x \in S : f[x] \in Nat
  PROVE  SumOf(f, S) \in Nat
BY AllCoinsFinite, FS_CardinalityType DEF SumOf

\* The total over no holder is zero.
LEMMA SumEmpty ==
  ASSUME NEW f
  PROVE  SumOf(f, {}) = 0
<1>1. AllCoins(f, {}) = {}
  BY DEF AllCoins
<1> QED
  BY <1>1, FS_EmptySet DEF SumOf

\* A further holder adds its amount.
LEMMA SumAdd ==
  ASSUME NEW f, NEW S, IsFiniteSet(S), \A x \in S : f[x] \in Nat,
         NEW y, y \notin S, f[y] \in Nat
  PROVE  SumOf(f, S \cup {y}) = SumOf(f, S) + f[y]
<1>1. AllCoins(f, S \cup {y}) = AllCoins(f, S) \cup Coins(f, y)
  BY DEF AllCoins
<1>2. AllCoins(f, S) \cap Coins(f, y) = {}
  BY DEF AllCoins, Coins
<1>3. IsFiniteSet(AllCoins(f, S))
  BY AllCoinsFinite
<1>4. IsFiniteSet(Coins(f, y)) /\ Cardinality(Coins(f, y)) = f[y]
  BY CoinsOfOne
<1>5. Cardinality(AllCoins(f, S) \cup Coins(f, y))
        = Cardinality(AllCoins(f, S)) + Cardinality(Coins(f, y))
            - Cardinality(AllCoins(f, S) \cap Coins(f, y))
  BY <1>3, <1>4, FS_Union
<1>6. Cardinality(AllCoins(f, S)) \in Nat
  BY <1>3, FS_CardinalityType
<1>7. Cardinality(AllCoins(f, S) \cap Coins(f, y)) = 0
  BY <1>2, FS_EmptySet
<1>8. Cardinality(AllCoins(f, S) \cup Coins(f, y)) = Cardinality(AllCoins(f, S)) + f[y]
  BY <1>4, <1>5, <1>6, <1>7
<1> QED
  BY <1>1, <1>8, Zenon DEF SumOf

\* Taking a holder out subtracts its amount.
LEMMA SumRemove ==
  ASSUME NEW f, NEW S, IsFiniteSet(S), \A x \in S : f[x] \in Nat, NEW y \in S
  PROVE  SumOf(f, S) = SumOf(f, S \ {y}) + f[y]
<1>1. IsFiniteSet(S \ {y})
  BY FS_RemoveElement
<1>2. (S \ {y}) \cup {y} = S
  OBVIOUS
<1>3. SumOf(f, (S \ {y}) \cup {y}) = SumOf(f, S \ {y}) + f[y]
  BY <1>1, SumAdd
<1> QED
  BY <1>2, <1>3

\* A total depends only on the amounts it adds up.
LEMMA SumCongruence ==
  ASSUME NEW f, NEW g, NEW S, \A x \in S : f[x] = g[x]
  PROVE  SumOf(f, S) = SumOf(g, S)
<1>1. AllCoins(f, S) = AllCoins(g, S)
  BY DEF AllCoins, Coins
<1> QED
  BY <1>1 DEF SumOf

\* The total over two disjoint groups of holders.
LEMMA SumUnion ==
  ASSUME NEW f, NEW S, NEW T, IsFiniteSet(S), IsFiniteSet(T), S \cap T = {},
         \A x \in S \cup T : f[x] \in Nat
  PROVE  SumOf(f, S \cup T) = SumOf(f, S) + SumOf(f, T)
<1>1. AllCoins(f, S \cup T) = AllCoins(f, S) \cup AllCoins(f, T)
  BY DEF AllCoins
<1>2. AllCoins(f, S) \cap AllCoins(f, T) = {}
  BY DEF AllCoins, Coins
<1>3. IsFiniteSet(AllCoins(f, S)) /\ IsFiniteSet(AllCoins(f, T))
  BY AllCoinsFinite
<1>4. /\ Cardinality(AllCoins(f, S)) \in Nat
      /\ Cardinality(AllCoins(f, T)) \in Nat
  BY <1>3, FS_CardinalityType
<1>5. Cardinality(AllCoins(f, S) \cap AllCoins(f, T)) = 0
  BY <1>2, FS_EmptySet
<1>6. Cardinality(AllCoins(f, S) \cup AllCoins(f, T))
        = Cardinality(AllCoins(f, S)) + Cardinality(AllCoins(f, T))
            - Cardinality(AllCoins(f, S) \cap AllCoins(f, T))
  BY <1>3, FS_Union
<1>7. Cardinality(AllCoins(f, S) \cup AllCoins(f, T))
        = Cardinality(AllCoins(f, S)) + Cardinality(AllCoins(f, T))
  BY <1>4, <1>5, <1>6
<1> QED
  BY <1>1, <1>7, Zenon DEF SumOf

\* Part of the holders have at most the total of all of them.
LEMMA SumSubset ==
  ASSUME NEW f, NEW S, IsFiniteSet(S), \A x \in S : f[x] \in Nat,
         NEW T \in SUBSET S
  PROVE  SumOf(f, T) <= SumOf(f, S)
<1>1. IsFiniteSet(AllCoins(f, S))
  BY AllCoinsFinite
<1>2. AllCoins(f, T) \in SUBSET AllCoins(f, S)
  BY DEF AllCoins
<1> QED
  BY <1>1, <1>2, FS_Subset DEF SumOf

\* Changing one holder's amount changes the total by the difference.
LEMMA SumUpdate ==
  ASSUME NEW f, NEW g, NEW S, IsFiniteSet(S), NEW y \in S,
         \A x \in S : f[x] \in Nat /\ g[x] \in Nat,
         \A x \in S \ {y} : g[x] = f[x]
  PROVE  SumOf(g, S) = SumOf(f, S) - f[y] + g[y]
<1>1. SumOf(f, S) = SumOf(f, S \ {y}) + f[y]
  BY SumRemove
<1>2. SumOf(g, S) = SumOf(g, S \ {y}) + g[y]
  BY SumRemove
<1>3. SumOf(g, S \ {y}) = SumOf(f, S \ {y})
  BY SumCongruence
<1>4. SumOf(f, S \ {y}) \in Nat
  <2>1. IsFiniteSet(S \ {y})
    BY FS_RemoveElement
  <2> QED
    BY <2>1, SumType
<1> QED
  BY <1>1, <1>2, <1>3, <1>4

\* Larger amounts have a larger total.
LEMMA SumMonotone ==
  ASSUME NEW f, NEW g, NEW S, IsFiniteSet(S),
         \A x \in S : f[x] \in Nat /\ g[x] \in Nat /\ f[x] <= g[x]
  PROVE  SumOf(f, S) <= SumOf(g, S)
<1>1. IsFiniteSet(AllCoins(g, S))
  BY AllCoinsFinite
<1>2. \A x \in S : 1 .. f[x] \subseteq 1 .. g[x]
  BY SMT
<1>3. AllCoins(f, S) \in SUBSET AllCoins(g, S)
  BY <1>2 DEF AllCoins, Coins
<1> QED
  BY <1>1, <1>3, FS_Subset DEF SumOf

\* What one holder gives another leaves the total as it was.
LEMMA SumMove ==
  ASSUME NEW f, NEW g, NEW S, IsFiniteSet(S), NEW y \in S, NEW z \in S, y # z,
         \A x \in S : f[x] \in Nat /\ g[x] \in Nat,
         NEW n \in Nat, g[y] = f[y] - n, g[z] = f[z] + n,
         \A x \in S \ {y, z} : g[x] = f[x]
  PROVE  SumOf(g, S) = SumOf(f, S)
<1> DEFINE m == [x \in S |-> IF x = y THEN g[y] ELSE f[x]]
<1>1. /\ \A x \in S : m[x] \in Nat
      /\ m[y] = g[y] /\ m[z] = f[z]
      /\ \A x \in S \ {y} : m[x] = f[x]
      /\ \A x \in S \ {z} : g[x] = m[x]
  OBVIOUS
<1> HIDE DEF m
<1>2. SumOf(m, S) = SumOf(f, S) - f[y] + m[y]
  BY <1>1, SumUpdate
<1>3. SumOf(g, S) = SumOf(m, S) - m[z] + g[z]
  BY <1>1, SumUpdate
<1>4. SumOf(f, S) \in Nat /\ SumOf(m, S) \in Nat /\ f[y] \in Nat /\ f[z] \in Nat
  BY <1>1, SumType
<1> QED
  BY <1>1, <1>2, <1>3, <1>4

\* The same amount for everyone.
LEMMA SumConstant ==
  ASSUME NEW f, NEW S, IsFiniteSet(S), NEW n \in Nat, \A x \in S : f[x] = n
  PROVE  SumOf(f, S) = Cardinality(S) * n
<1>1. AllCoins(f, S) = S \X (1 .. n)
  BY DEF AllCoins, Coins
<1>2. IsFiniteSet(1 .. n) /\ Cardinality(1 .. n) = n
  BY FS_Interval, SMT
<1> QED
  BY <1>1, <1>2, FS_Product DEF SumOf

\* The total of the sums is the sum of the totals.
LEMMA SumPlus ==
  ASSUME NEW f, NEW g, NEW h, NEW S, IsFiniteSet(S),
         \A x \in S : f[x] \in Nat /\ g[x] \in Nat /\ h[x] = f[x] + g[x]
  PROVE  SumOf(h, S) = SumOf(f, S) + SumOf(g, S)
<1> DEFINE upper == {c \in AllCoins(h, S) : f[c[1]] < c[2]}
           lift == [c \in AllCoins(g, S) |-> <<c[1], f[c[1]] + c[2]>>]
<1>1. \A x \in S : h[x] \in Nat
  OBVIOUS
<1>2. \A c : c \in AllCoins(f, S) <=>
        \E x \in S : \E k \in 1 .. f[x] : c = <<x, k>>
  BY DEF AllCoins, Coins
<1>3. \A c : c \in AllCoins(g, S) <=>
        \E x \in S : \E k \in 1 .. g[x] : c = <<x, k>>
  BY DEF AllCoins, Coins
<1>4. \A c : c \in AllCoins(h, S) <=>
        \E x \in S : \E k \in 1 .. h[x] : c = <<x, k>>
  BY DEF AllCoins, Coins
<1>5. AllCoins(h, S) = AllCoins(f, S) \cup upper
  <2>1. ASSUME NEW x \in S, NEW k \in 1 .. h[x]
        PROVE  <<x, k>> \in AllCoins(f, S) \/ <<x, k>> \in upper
    <3>1. f[x] \in Nat /\ k \in Nat /\ 1 <= k
      OBVIOUS
    <3>2. CASE k <= f[x]
      BY <3>1, <3>2, <1>2
    <3>3. CASE f[x] < k
      BY <3>3, <1>4
    <3> QED
      BY <3>1, <3>2, <3>3
  <2>2. ASSUME NEW x \in S, NEW k \in 1 .. f[x]
        PROVE  <<x, k>> \in AllCoins(h, S)
    <3>1. k \in 1 .. h[x]
      BY SMT
    <3> QED
      BY <3>1, <1>4
  <2>3. AllCoins(h, S) \subseteq AllCoins(f, S) \cup upper
    BY <2>1, <1>4
  <2>4. AllCoins(f, S) \subseteq AllCoins(h, S)
    BY <2>2, <1>2
  <2> QED
    BY <2>3, <2>4
<1>6. AllCoins(f, S) \cap upper = {}
  <2>1. ASSUME NEW x \in S, NEW k \in 1 .. f[x], <<x, k>> \in upper
        PROVE  FALSE
    BY <2>1, SMT
  <2> QED
    BY <2>1, <1>2
<1>7. lift \in Bijection(AllCoins(g, S), upper)
  <2>1. lift \in [AllCoins(g, S) -> upper]
    <3>1. ASSUME NEW x \in S, NEW k \in 1 .. g[x]
          PROVE  <<x, f[x] + k>> \in upper
      <4>1. f[x] + k \in 1 .. h[x] /\ f[x] < f[x] + k
        BY SMT
      <4> QED
        BY <4>1, <1>4
    <3> QED
      BY <3>1, <1>3
  <2>2. ASSUME NEW c \in AllCoins(g, S), NEW e \in AllCoins(g, S), lift[c] = lift[e]
        PROVE  c = e
    <3>a. PICK x \in S : \E k \in 1 .. g[x] : c = <<x, k>>
      BY <1>3
    <3>1. PICK k \in 1 .. g[x] : c = <<x, k>>
      BY <3>a
    <3>b. PICK y \in S : \E l \in 1 .. g[y] : e = <<y, l>>
      BY <1>3
    <3>2. PICK l \in 1 .. g[y] : e = <<y, l>>
      BY <3>b
    <3>3. <<x, f[x] + k>> = <<y, f[y] + l>>
      BY <2>2, <3>1, <3>2
    <3>4. x = y /\ f[x] + k = f[x] + l
      BY <3>3
    <3>5. k = l
      BY <3>4, SMT
    <3> QED
      BY <3>1, <3>2, <3>4, <3>5
  <2>3. ASSUME NEW e \in upper
        PROVE  \E c \in AllCoins(g, S) : lift[c] = e
    <3>a. PICK x \in S : \E k \in 1 .. h[x] : e = <<x, k>>
      BY <1>4
    <3>1. PICK k \in 1 .. h[x] : e = <<x, k>>
      BY <3>a
    <3>2. f[x] < k
      BY <3>1
    <3>3. k - f[x] \in 1 .. g[x] /\ f[x] + (k - f[x]) = k
      BY <3>2, SMT
    <3>4. <<x, k - f[x]>> \in AllCoins(g, S)
      BY <3>3, <1>3
    <3>5. lift[<<x, k - f[x]>>] = <<x, f[x] + (k - f[x])>>
      BY <3>4
    <3> QED
      BY <3>1, <3>3, <3>4, <3>5
  <2>4. lift \in Injection(AllCoins(g, S), upper)
    BY <2>1, <2>2 DEF Injection, IsInjective
  <2>5. lift \in Surjection(AllCoins(g, S), upper)
    BY <2>1, <2>3 DEF Surjection
  <2> QED
    BY <2>4, <2>5 DEF Bijection
<1>8. /\ IsFiniteSet(AllCoins(f, S)) /\ IsFiniteSet(AllCoins(g, S))
  BY AllCoinsFinite
<1>9. IsFiniteSet(upper) /\ Cardinality(upper) = Cardinality(AllCoins(g, S))
  <2>1. ExistsBijection(AllCoins(g, S), upper)
    BY <1>7 DEF ExistsBijection
  <2> HIDE DEF upper
  <2> QED
    BY <2>1, <1>8, FS_Bijection
<1> HIDE DEF upper
<1>10. Cardinality(AllCoins(f, S) \cap upper) = 0
  BY <1>6, FS_EmptySet
<1>11. /\ Cardinality(AllCoins(f, S)) \in Nat /\ Cardinality(AllCoins(g, S)) \in Nat
  BY <1>8, FS_CardinalityType
<1>12. Cardinality(AllCoins(f, S) \cup upper)
         = Cardinality(AllCoins(f, S)) + Cardinality(upper)
             - Cardinality(AllCoins(f, S) \cap upper)
  BY <1>8, <1>9, FS_Union
<1> QED
  BY <1>5, <1>9, <1>10, <1>11, <1>12 DEF SumOf

\* n times the amounts have n times the total.
LEMMA SumTimes ==
  ASSUME NEW f, NEW g, NEW S, IsFiniteSet(S), NEW n \in Nat \ {0},
         \A x \in S : f[x] \in Nat /\ g[x] = n * f[x]
  PROVE  SumOf(g, S) = n * SumOf(f, S)
<1> DEFINE T == AllCoins(f, S) \X (1 .. n)
           split == [c \in AllCoins(g, S) |->
                       << <<c[1], ((c[2] - 1) \div n) + 1>>, ((c[2] - 1) % n) + 1 >>]
           join == [t \in T |-> <<t[1][1], n * (t[1][2] - 1) + t[2]>>]
<1>1. \A c : c \in AllCoins(f, S) <=> \E x \in S : \E k \in 1 .. f[x] : c = <<x, k>>
  BY DEF AllCoins, Coins
<1>2. \A c : c \in AllCoins(g, S) <=> \E x \in S : \E k \in 1 .. g[x] : c = <<x, k>>
  BY DEF AllCoins, Coins
<1>3. ASSUME NEW m \in Nat, NEW k \in 1 .. (n * m)
      PROVE  /\ ((k - 1) \div n) + 1 \in 1 .. m /\ ((k - 1) % n) + 1 \in 1 .. n
             /\ k = n * ((k - 1) \div n) + ((k - 1) % n) + 1
  <2>1. n * m \in Nat /\ k \in Nat /\ 1 <= k /\ k <= n * m
    OBVIOUS
  <2>2. k - 1 \in Nat
    BY <2>1
  <2> DEFINE q == (k - 1) \div n
             r == (k - 1) % n
  <2>3. q \in Nat /\ r \in 0 .. (n - 1) /\ k - 1 = n * q + r
    BY <2>2, SMT
  <2> HIDE DEF q, r
  <2>4. q < m
    <3>1. n * q < n * m
      BY <2>1, <2>3
    <3>2. SUFFICES ASSUME m <= q PROVE FALSE
      BY <2>3
    <3>3. n * m <= n * q
      BY <2>3, <3>2
    <3> QED
      BY <2>1, <2>3, <3>1, <3>3
  <2>5. q + 1 \in 1 .. m /\ r + 1 \in 1 .. n
    BY <2>3, <2>4
  <2>6. k = n * q + r + 1
    BY <2>1, <2>3
  <2> QED
    BY <2>5, <2>6 DEF q, r
<1>4. split \in [AllCoins(g, S) -> T]
  <2>1. ASSUME NEW x \in S, NEW k \in 1 .. g[x]
        PROVE  << <<x, ((k - 1) \div n) + 1>>, ((k - 1) % n) + 1 >> \in T
    <3>1. ((k - 1) \div n) + 1 \in 1 .. f[x] /\ ((k - 1) % n) + 1 \in 1 .. n
      BY <1>3
    <3>2. <<x, ((k - 1) \div n) + 1>> \in AllCoins(f, S)
      BY <1>1, <3>1
    <3> QED
      BY <3>1, <3>2
  <2> HIDE DEF T
  <2> QED
    BY <2>1, <1>2
<1>5. ASSUME NEW c \in AllCoins(g, S), NEW e \in AllCoins(g, S), split[c] = split[e]
      PROVE  c = e
  <2>1. PICK x \in S : \E k \in 1 .. g[x] : c = <<x, k>>
    BY <1>2
  <2>2. PICK k \in 1 .. g[x] : c = <<x, k>>
    BY <2>1
  <2>3. PICK y \in S : \E l \in 1 .. g[y] : e = <<y, l>>
    BY <1>2
  <2>4. PICK l \in 1 .. g[y] : e = <<y, l>>
    BY <2>3
  <2>5. << <<x, ((k - 1) \div n) + 1>>, ((k - 1) % n) + 1 >>
          = << <<y, ((l - 1) \div n) + 1>>, ((l - 1) % n) + 1 >>
    BY <1>5, <2>2, <2>4
  <2>6. /\ x = y /\ ((k - 1) \div n) + 1 = ((l - 1) \div n) + 1
        /\ ((k - 1) % n) + 1 = ((l - 1) % n) + 1
    BY <2>5
  <2>7. /\ k = n * ((k - 1) \div n) + ((k - 1) % n) + 1
        /\ l = n * ((l - 1) \div n) + ((l - 1) % n) + 1
        /\ ((k - 1) \div n) + 1 \in 1 .. f[x] /\ ((k - 1) % n) + 1 \in 1 .. n
        /\ ((l - 1) \div n) + 1 \in 1 .. f[y] /\ ((l - 1) % n) + 1 \in 1 .. n
    BY <1>3
  <2>8. (k - 1) \div n = (l - 1) \div n /\ (k - 1) % n = (l - 1) % n
    <3>1. /\ (k - 1) \div n \in Int /\ (l - 1) \div n \in Int
          /\ (k - 1) % n \in Int /\ (l - 1) % n \in Int
      BY SMT
    <3> QED
      BY <2>6, <3>1
  <2>9. k = l
    BY <2>7, <2>8
  <2> QED
    BY <2>2, <2>4, <2>6, <2>9
<1>6. split \in Injection(AllCoins(g, S), T)
  BY <1>4, <1>5 DEF Injection, IsInjective
<1>7. IsFiniteSet(AllCoins(f, S)) /\ Cardinality(AllCoins(f, S)) \in Nat
  BY AllCoinsFinite, FS_CardinalityType
<1>8. IsFiniteSet(1 .. n) /\ Cardinality(1 .. n) = n
  BY FS_Interval, SMT
<1>9. IsFiniteSet(T) /\ Cardinality(T) = Cardinality(AllCoins(f, S)) * n
  BY <1>7, <1>8, FS_Product
<1>10. ASSUME NEW m \in Nat, NEW j \in 1 .. m, NEW i \in 1 .. n
       PROVE  n * (j - 1) + i \in 1 .. (n * m)
  <2>1. j \in Nat /\ i \in Nat /\ m - j \in Nat /\ j - 1 \in Nat /\ 1 <= i /\ i <= n
    OBVIOUS
  <2>2. n * (m - j) >= 0 /\ n * (j - 1) >= 0
    BY <2>1
  <2>3. n * m = n * (m - j) + n * (j - 1) + n
    BY <2>1
  <2>4. n * (m - j) \in Nat /\ n * (j - 1) \in Nat /\ n * m \in Nat
    BY <2>1
  <2> QED
    BY <2>1, <2>2, <2>3, <2>4
<1>11. ASSUME NEW j \in Nat, NEW l \in Nat, NEW i \in 1 .. n, NEW k \in 1 .. n,
              n * j + i = n * l + k
       PROVE  j = l /\ i = k
  <2>1. ASSUME NEW a \in Nat, NEW b \in Nat, a < b PROVE n * a + n <= n * b
    <3>1. a + 1 <= b
      BY <2>1
    <3>2. n * (a + 1) <= n * b
      BY <2>1, <3>1
    <3> QED
      BY <2>1, <3>2
  <2>2. n * j \in Nat /\ n * l \in Nat
    OBVIOUS
  <2>3. ~(j < l)
    BY <1>11, <2>1, <2>2
  <2>4. ~(l < j)
    BY <1>11, <2>1, <2>2
  <2>5. j = l
    BY <2>3, <2>4
  <2> QED
    BY <1>11, <2>2, <2>5
<1>12. join \in [T -> AllCoins(g, S)]
  <2>1. ASSUME NEW x \in S, NEW j \in 1 .. f[x], NEW i \in 1 .. n
        PROVE  <<x, n * (j - 1) + i>> \in AllCoins(g, S)
    <3>1. n * (j - 1) + i \in 1 .. g[x]
      BY <1>10
    <3> QED
      BY <1>2, <3>1
  <2>2. \A t \in T : <<t[1][1], n * (t[1][2] - 1) + t[2]>> \in AllCoins(g, S)
    BY <1>1, <2>1
  <2> HIDE DEF T
  <2> QED
    BY <2>2
<1>13. ASSUME NEW c \in T, NEW e \in T, join[c] = join[e]
       PROVE  c = e
  <2>1. PICK x \in S : \E j \in 1 .. f[x] : \E i \in 1 .. n : c = << <<x, j>>, i >>
    BY <1>1
  <2>2. PICK j \in 1 .. f[x] : \E i \in 1 .. n : c = << <<x, j>>, i >>
    BY <2>1
  <2>3. PICK i \in 1 .. n : c = << <<x, j>>, i >>
    BY <2>2
  <2>4. PICK y \in S : \E l \in 1 .. f[y] : \E k \in 1 .. n : e = << <<y, l>>, k >>
    BY <1>1
  <2>5. PICK l \in 1 .. f[y] : \E k \in 1 .. n : e = << <<y, l>>, k >>
    BY <2>4
  <2>6. PICK k \in 1 .. n : e = << <<y, l>>, k >>
    BY <2>5
  <2>7. join[c] = <<x, n * (j - 1) + i>> /\ join[e] = <<y, n * (l - 1) + k>>
    BY <2>3, <2>6
  <2>8. x = y /\ n * (j - 1) + i = n * (l - 1) + k
    BY <1>13, <2>7
  <2>9. j - 1 \in Nat /\ l - 1 \in Nat
    OBVIOUS
  <2>10. j - 1 = l - 1 /\ i = k
    BY <1>11, <2>8, <2>9
  <2> QED
    BY <2>3, <2>6, <2>8, <2>10
<1>14. join \in Injection(T, AllCoins(g, S))
  BY <1>12, <1>13 DEF Injection, IsInjective
<1>15. IsFiniteSet(AllCoins(g, S)) /\ Cardinality(AllCoins(g, S)) \in Nat
  <2>1. \A x \in S : g[x] \in Nat
    OBVIOUS
  <2> QED
    BY <2>1, AllCoinsFinite, FS_CardinalityType
<1> HIDE DEF T, split, join
<1>16. /\ Cardinality(AllCoins(g, S)) <= Cardinality(T)
       /\ Cardinality(T) <= Cardinality(AllCoins(g, S))
  BY <1>6, <1>9, <1>14, <1>15, FS_Injection
<1> QED
  BY <1>7, <1>9, <1>15, <1>16 DEF SumOf

\* Members of S have holders in A: the totals of the holders' parts are the
\* total.
LEMMA SumByGroup ==
  ASSUME NEW f, NEW S, IsFiniteSet(S), \A x \in S : f[x] \in Nat,
         NEW A, IsFiniteSet(A), NEW holder, \A x \in S : holder[x] \in A,
         NEW group, \A a \in A : \A x : x \in group[a] <=> x \in S /\ holder[x] = a,
         NEW g, \A a \in A : g[a] = SumOf(f, group[a])
  PROVE  SumOf(g, A) = SumOf(f, S)
<1> DEFINE part(a) == AllCoins(f, group[a])
           number == [a \in A |-> CHOOSE b : b \in Bijection(1 .. g[a], part(a))]
           deal == [c \in AllCoins(g, A) |-> number[c[1]][c[2]]]
<1>1. ASSUME NEW a \in A
      PROVE  g[a] \in Nat /\ number[a] \in Bijection(1 .. g[a], part(a))
  <2>1. IsFiniteSet(group[a])
    <3>1. group[a] \subseteq S
      OBVIOUS
    <3> QED
      BY <3>1, FS_Subset
  <2>2. IsFiniteSet(part(a))
    BY <2>1, AllCoinsFinite
  <2>3. g[a] = Cardinality(part(a))
    BY DEF SumOf
  <2> HIDE DEF part
  <2>4. g[a] \in Nat /\ ExistsBijection(1 .. g[a], part(a))
    BY <2>2, <2>3, FS_CardinalityType
  <2> QED
    BY <2>4 DEF ExistsBijection
<1>2. \A c : c \in AllCoins(g, A) <=> \E a \in A : \E k \in 1 .. g[a] : c = <<a, k>>
  BY DEF AllCoins, Coins
<1>3. \A a \in A : \A c : c \in part(a) <=>
        \E x \in S : holder[x] = a /\ \E k \in 1 .. f[x] : c = <<x, k>>
  BY DEF AllCoins, Coins
<1>4. \A c : c \in AllCoins(f, S) <=> \E x \in S : \E k \in 1 .. f[x] : c = <<x, k>>
  BY DEF AllCoins, Coins
<1>5. /\ \A a \in A : part(a) \subseteq AllCoins(f, S)
      /\ \A c \in AllCoins(f, S) : \E a \in A : c \in part(a)
      /\ \A a, b \in A : \A c : c \in part(a) /\ c \in part(b) => a = b
  <2> HIDE DEF part
  <2>1. \A a \in A : part(a) \subseteq AllCoins(f, S)
    BY <1>3, <1>4
  <2>2. \A c \in AllCoins(f, S) : \E a \in A : c \in part(a)
    BY <1>3, <1>4
  <2>3. ASSUME NEW a \in A, NEW b \in A, NEW c, c \in part(a), c \in part(b)
        PROVE  a = b
    <3>1. PICK x \in S : holder[x] = a /\ \E k \in 1 .. f[x] : c = <<x, k>>
      BY <1>3, <2>3
    <3>2. PICK y \in S : holder[y] = b /\ \E k \in 1 .. f[y] : c = <<y, k>>
      BY <1>3, <2>3
    <3>3. x = y
      BY <3>1, <3>2
    <3> QED
      BY <3>1, <3>2, <3>3
  <2> QED
    BY <2>1, <2>2, <2>3
<1> HIDE DEF part, number
<1>6. \A a \in A : \A k : k \in 1 .. g[a] => number[a][k] \in part(a)
  BY <1>1 DEF Bijection, Surjection
<1>7. deal \in [AllCoins(g, A) -> AllCoins(f, S)]
  <2>1. ASSUME NEW a \in A, NEW k \in 1 .. g[a] PROVE number[a][k] \in AllCoins(f, S)
    BY <1>5, <1>6
  <2> QED
    BY <2>1, <1>2
<1>8. ASSUME NEW c \in AllCoins(g, A), NEW e \in AllCoins(g, A), deal[c] = deal[e]
      PROVE  c = e
  <2>1. PICK a \in A : \E k \in 1 .. g[a] : c = <<a, k>>
    BY <1>2
  <2>2. PICK k \in 1 .. g[a] : c = <<a, k>>
    BY <2>1
  <2>3. PICK b \in A : \E l \in 1 .. g[b] : e = <<b, l>>
    BY <1>2
  <2>4. PICK l \in 1 .. g[b] : e = <<b, l>>
    BY <2>3
  <2>5. number[a][k] = number[b][l]
    BY <1>8, <2>2, <2>4
  <2>6. a = b
    BY <1>5, <1>6, <2>5
  <2>7. k = l
    BY <1>1, <2>5, <2>6 DEF Bijection, Injection, IsInjective
  <2> QED
    BY <2>2, <2>4, <2>6, <2>7
<1>9. ASSUME NEW e \in AllCoins(f, S)
      PROVE  \E c \in AllCoins(g, A) : deal[c] = e
  <2>1. PICK a \in A : e \in part(a)
    BY <1>5
  <2>2. PICK k \in 1 .. g[a] : number[a][k] = e
    BY <1>1, <2>1 DEF Bijection, Surjection
  <2>3. <<a, k>> \in AllCoins(g, A)
    BY <1>2
  <2>4. deal[<<a, k>>] = e
    BY <2>2, <2>3
  <2> QED
    BY <2>3, <2>4
<1>10. deal \in Bijection(AllCoins(g, A), AllCoins(f, S))
  BY <1>7, <1>8, <1>9 DEF Bijection, Injection, IsInjective, Surjection
<1> HIDE DEF deal
<1>11. IsFiniteSet(AllCoins(g, A))
  BY <1>1, AllCoinsFinite
<1>12. ExistsBijection(AllCoins(g, A), AllCoins(f, S))
  BY <1>10 DEF ExistsBijection
<1> QED
  BY <1>11, <1>12, FS_Bijection DEF SumOf

-----------------------------------------------------------------------------
(***************************************************************************)
(* Decimals                                                                *)
(***************************************************************************)
\* The integer quotient of natural numbers is a natural number, and the largest
\* whose multiple does not exceed the dividend.
LEMMA Division ==
  ASSUME NEW n \in Nat, NEW d \in Nat \ {0}
  PROVE  /\ n \div d \in Nat /\ n % d \in 0 .. (d - 1)
         /\ n = d * (n \div d) + (n % d)
         /\ d * (n \div d) <= n
BY SMT

\* A number that is a multiple of d is divided without a rest.
LEMMA ExactDivision ==
  ASSUME NEW n \in Nat, NEW d \in Nat \ {0}
  PROVE  (d * n) \div d = n /\ (d * n) % d = 0
BY SMT

\* Rounding to the nearest integer keeps a non-negative number non-negative.
LEMMA RoundType ==
  ASSUME NEW n \in Nat
  PROVE  RoundHalfEven(n) \in Nat
<1>1. n \div Unit \in Nat
  BY Division, UnitAssumption
<1> QED
  BY <1>1 DEF RoundHalfEven

\* Products, quotients and sums of non-negative decimals are non-negative.
LEMMA MulType ==
  ASSUME NEW a \in Nat, NEW b \in Nat
  PROVE  Mul(a, b) \in Nat
<1>1. a * b \in Nat
  OBVIOUS
<1>2. RoundHalfEven(a * b) \in Nat
  BY <1>1, RoundType
<1> QED
  BY <1>1, <1>2 DEF Mul, ChopPrecisionAndRound

LEMMA QuoType ==
  ASSUME NEW a \in Nat, NEW b \in Nat \ {0}
  PROVE  Quo(a, b) \in Nat
<1> DEFINE n == a * Unit * Unit
<1>1. n \in Nat
  BY UnitAssumption
<1>2. n \div b \in Nat
  BY <1>1, Division
<1>3. QuoTrunc(n, b) = n \div b
  BY <1>1 DEF QuoTrunc
<1>4. RoundHalfEven(n \div b) \in Nat
  BY <1>2, RoundType
<1> QED
  BY <1>2, <1>3, <1>4 DEF Quo, ChopPrecisionAndRound

LEMMA ToDecType ==
  ASSUME NEW n \in Nat
  PROVE  ToDec(n) \in Nat
BY UnitAssumption DEF ToDec

LEMMA CeilType ==
  ASSUME NEW a \in Nat
  PROVE  /\ CeilInt(a) \in Nat /\ TruncateInt(a) \in Nat
         /\ TruncateInt(a) <= CeilInt(a)
<1>1. a \div Unit \in Nat
  BY Division, UnitAssumption
<1> QED
  BY <1>1 DEF CeilInt, TruncateInt

\* Zero is rounded up to zero.
LEMMA CeilOfZero == CeilInt(0) = 0
<1>1. 0 % Unit = 0 /\ 0 \div Unit = 0
  BY UnitAssumption
<1> QED
  BY <1>1 DEF CeilInt

\* Truncating does not make a decimal larger.
LEMMA TruncateBelow ==
  ASSUME NEW a \in Nat
  PROVE  Unit * TruncateInt(a) <= a
BY Division, UnitAssumption DEF TruncateInt

\* An integer times a decimal is exact: no rounding takes place.
LEMMA MulByInteger ==
  ASSUME NEW n \in Nat, NEW b \in Nat
  PROVE  Mul(ToDec(n), b) = n * b
<1> DEFINE k == n * b
<1>1. k \in Nat /\ Unit * k \in Nat
  BY UnitAssumption
<1>2. ToDec(n) * b = Unit * k
  BY UnitAssumption DEF ToDec
<1>3. (Unit * k) \div Unit = k /\ (Unit * k) % Unit = 0
  BY <1>1, ExactDivision, UnitAssumption
<1>4. RoundHalfEven(Unit * k) = k
  BY <1>3, UnitAssumption DEF RoundHalfEven
<1> QED
  BY <1>1, <1>2, <1>4 DEF Mul, ChopPrecisionAndRound

\* Rounding up does not make a decimal smaller.
LEMMA CeilAbove ==
  ASSUME NEW a \in Nat
  PROVE  a <= Unit * CeilInt(a)
<1> DEFINE q == a \div Unit
           r == a % Unit
<1>1. q \in Nat /\ r \in 0 .. (Unit - 1) /\ a = Unit * q + r /\ Unit \in Nat \ {0}
  BY Division, UnitAssumption
<1>2. CeilInt(a) = IF r = 0 THEN q ELSE q + 1
  BY DEF CeilInt
<1> HIDE DEF q, r
<1>3. Unit * (q + 1) = Unit * q + Unit
  BY <1>1
<1> QED
  BY <1>1, <1>2, <1>3

\* Rounding to the nearest integer moves a number by at most one half.
LEMMA RoundNear ==
  ASSUME NEW n \in Nat
  PROVE  /\ 2 * (Unit * RoundHalfEven(n)) <= 2 * n + Unit
         /\ 2 * n <= 2 * (Unit * RoundHalfEven(n)) + Unit
<1> DEFINE q == n \div Unit
           r == n % Unit
<1>1. q \in Nat /\ r \in 0 .. (Unit - 1) /\ n = Unit * q + r /\ Unit \in Nat \ {0}
  BY Division, UnitAssumption
<1>2. \/ RoundHalfEven(n) = q /\ 2 * r <= Unit
      \/ RoundHalfEven(n) = q + 1 /\ 2 * r >= Unit
  <2>1. RoundHalfEven(n)
          = IF 2 * r < Unit \/ (2 * r = Unit /\ q % 2 = 0) THEN q ELSE q + 1
    BY DEF RoundHalfEven
  <2> HIDE DEF q, r
  <2> QED
    BY <1>1, <2>1
<1> HIDE DEF q, r
<1>3. Unit * (q + 1) = Unit * q + Unit /\ Unit * q \in Nat
  BY <1>1
<1> QED
  BY <1>1, <1>2, <1>3

\* A number of at most n times Unit is rounded to at most n.
LEMMA RoundBelow ==
  ASSUME NEW x \in Nat, NEW n \in Nat, x <= n * Unit
  PROVE  RoundHalfEven(x) <= n
<1> DEFINE q == x \div Unit
           r == x % Unit
<1>1. q \in Nat /\ r \in 0 .. (Unit - 1) /\ x = Unit * q + r /\ Unit \in Nat \ {0}
  BY Division, UnitAssumption
<1>2. RoundHalfEven(x) = q \/ (RoundHalfEven(x) = q + 1 /\ r # 0)
  <2>1. RoundHalfEven(x)
          = IF 2 * r < Unit \/ (2 * r = Unit /\ q % 2 = 0) THEN q ELSE q + 1
    BY DEF RoundHalfEven
  <2> HIDE DEF q, r
  <2> QED
    BY <1>1, <2>1
<1> HIDE DEF q, r
<1>3. q <= n
  BY <1>1
<1>4. CASE r = 0
  BY <1>2, <1>3, <1>4
<1>5. CASE r # 0
  <2>1. Unit * q < Unit * n
    BY <1>1, <1>5
  <2>2. q < n
    BY <1>1, <2>1
  <2> QED
    BY <1>1, <1>2, <2>2
<1> QED
  BY <1>4, <1>5

\* The quotient of a decimal and an integer is off by less than one unit.
LEMMA QuoByInteger ==
  ASSUME NEW a \in Nat, NEW n \in Nat \ {0}
  PROVE  LET q == Quo(a, ToDec(n))
         IN  /\ q \in Nat
             /\ 2 * (n * q) <= 2 * a + n
             /\ 2 * (Unit * a) + 2 <= (2 * (Unit * (n * q)) + Unit * n) + 2 * n
<1> DEFINE q == Quo(a, ToDec(n))
           m == a * Unit * Unit
           d == n * Unit
           x == m \div d
<1>1. Unit \in Nat \ {0} /\ m \in Nat /\ d \in Nat \ {0}
  BY UnitAssumption
<1>2. x \in Nat /\ m % d \in 0 .. (d - 1) /\ m = d * x + (m % d)
  BY <1>1, Division
<1>3. q = RoundHalfEven(x)
  <2>1. QuoTrunc(m, d) = x
    BY <1>1 DEF QuoTrunc
  <2> QED
    BY <1>2, <2>1 DEF Quo, ChopPrecisionAndRound, ToDec
<1>4. q \in Nat /\ 2 * (Unit * q) <= 2 * x + Unit /\ 2 * x <= 2 * (Unit * q) + Unit
  BY <1>2, <1>3, RoundType, RoundNear
<1>5. n * x <= a * Unit /\ a * Unit < n * x + n
  <2> HIDE DEF x
  <2>1. d * x <= m /\ m < d * x + d
    BY <1>1, <1>2
  <2>2. d * x = Unit * (n * x) /\ m = Unit * (a * Unit) /\ d * x + d = Unit * (n * x + n)
    BY <1>1, <1>2
  <2>3. n * x \in Nat /\ a * Unit \in Nat
    BY <1>1, <1>2
  <2>4. \A i, j \in Nat : Unit * i <= Unit * j => i <= j
    BY <1>1
  <2>5. \A i, j \in Nat : Unit * i < Unit * j => i < j
    BY <1>1
  <2> QED
    BY <2>1, <2>2, <2>3, <2>4, <2>5
<1> HIDE DEF q, x, m, d
<1> DEFINE y == n * x
           z == n * q
<1>6. y \in Nat /\ z \in Nat /\ y <= a * Unit /\ a * Unit < y + n
  BY <1>2, <1>4, <1>5
<1>7. 2 * (Unit * z) <= 2 * y + Unit * n /\ 2 * y <= 2 * (Unit * z) + Unit * n
  <2>1. \A i, j \in Nat : i <= j => n * i <= n * j
    OBVIOUS
  <2>2. /\ n * (2 * (Unit * q)) = 2 * (Unit * z)
        /\ n * (2 * x + Unit) = 2 * y + Unit * n
        /\ n * (2 * x) = 2 * y
        /\ n * (2 * (Unit * q) + Unit) = 2 * (Unit * z) + Unit * n
    BY <1>1, <1>2, <1>4
  <2>3. /\ 2 * (Unit * q) \in Nat /\ 2 * x + Unit \in Nat /\ 2 * x \in Nat
        /\ 2 * (Unit * q) + Unit \in Nat
    BY <1>1, <1>2, <1>4
  <2>4. /\ n * (2 * (Unit * q)) <= n * (2 * x + Unit)
        /\ n * (2 * x) <= n * (2 * (Unit * q) + Unit)
    BY <1>4, <2>1, <2>3
  <2> QED
    BY <2>2, <2>4
<1> HIDE DEF y, z
<1>8. 2 * z <= 2 * a + n
  <2>1. 2 * (Unit * z) <= 2 * (a * Unit) + Unit * n
    BY <1>1, <1>6, <1>7
  <2>2. 2 * (Unit * z) = Unit * (2 * z) /\ 2 * (a * Unit) + Unit * n = Unit * (2 * a + n)
    BY <1>1, <1>6
  <2>3. \A i, j \in Nat : Unit * i <= Unit * j => i <= j
    BY <1>1
  <2>4. 2 * z \in Nat /\ 2 * a + n \in Nat
    BY <1>6
  <2> QED
    BY <2>1, <2>2, <2>3, <2>4
<1>9. 2 * (Unit * a) + 2 <= (2 * (Unit * z) + Unit * n) + 2 * n
  <2>1. Unit * a = a * Unit /\ a * Unit \in Nat /\ Unit * z \in Nat /\ Unit * n \in Nat
    BY <1>1, <1>6
  <2> QED
    BY <1>6, <1>7, <2>1
<1> QED
  BY <1>4, <1>8, <1>9 DEF q, z

\* A batch that is charged the rounded quotient for each of its n tokens pays the
\* dividend, but for less than one smallest unit for each of them.
LEMMA QuoNear ==
  ASSUME NEW a \in Nat, NEW n \in Nat \ {0}
  PROVE  /\ Quo(a, ToDec(n)) \in Nat
         /\ n * Quo(a, ToDec(n)) <= a + n
         /\ a <= n * Quo(a, ToDec(n)) + n
<1> DEFINE q == Quo(a, ToDec(n))
           m == a * Unit * Unit
           d == n * Unit
           x == m \div d
<1>1. Unit \in Nat \ {0} /\ m \in Nat /\ d \in Nat \ {0}
  BY UnitAssumption
<1>2. x \in Nat /\ m < d * x + d
  <2>1. x \in Nat /\ m % d \in 0 .. (d - 1) /\ m = d * x + (m % d)
    BY <1>1, Division
  <2> HIDE DEF x, m, d
  <2> QED
    BY <1>1, <2>1
<1>3. q = RoundHalfEven(x)
  <2>1. QuoTrunc(m, d) = x
    BY <1>1 DEF QuoTrunc
  <2> QED
    BY <1>2, <2>1 DEF Quo, ChopPrecisionAndRound, ToDec
<1>4. q \in Nat /\ 2 * x <= 2 * (Unit * q) + Unit
  BY <1>2, <1>3, RoundType, RoundNear
<1>5. n * q <= a + n /\ n * q \in Nat
  <2>1. 2 * (n * Quo(a, ToDec(n))) <= 2 * a + n
    BY QuoByInteger
  <2>2. 2 * (n * q) <= 2 * a + n
    BY <2>1
  <2> HIDE DEF q
  <2>3. n * q \in Nat
    BY <1>4
  <2> QED
    BY <2>2, <2>3
<1>6. x + 1 <= Unit * q + Unit
  <2> HIDE DEF x, q
  <2>1. Unit * q \in Nat
    BY <1>1, <1>4
  <2> QED
    BY <1>1, <1>2, <1>4, <2>1
<1>7. d * x + d = Unit * (n * (x + 1)) /\ m = Unit * (a * Unit)
  <2> HIDE DEF x
  <2> QED
    BY <1>1, <1>2
<1>8. a * Unit < n * (x + 1)
  <2> HIDE DEF x, m, d
  <2>1. n * (x + 1) \in Nat /\ a * Unit \in Nat
    BY <1>1, <1>2
  <2>2. \A i, j \in Nat : Unit * i < Unit * j => i < j
    BY <1>1
  <2> QED
    BY <1>2, <1>7, <2>1, <2>2
<1>9. n * (x + 1) <= n * (Unit * q + Unit)
  <2> HIDE DEF x, q
  <2>1. x + 1 \in Nat /\ Unit * q + Unit \in Nat
    BY <1>1, <1>2, <1>4
  <2>2. \A i, j \in Nat : i <= j => n * i <= n * j
    OBVIOUS
  <2> QED
    BY <1>6, <2>1, <2>2
<1> HIDE DEF q, x, m, d
<1>10. a < n * q + n
  <2>1. n * (Unit * q + Unit) = Unit * (n * q + n) /\ a * Unit = Unit * a
    BY <1>1, <1>4
  <2>2. n * q + n \in Nat /\ n * (x + 1) \in Nat /\ Unit * a \in Nat
    BY <1>1, <1>2, <1>5
  <2>3. \A i, j \in Nat : Unit * i < Unit * j => i < j
    BY <1>1
  <2>4. Unit * a < n * (x + 1) /\ n * (x + 1) <= Unit * (n * q + n)
    BY <1>8, <1>9, <2>1
  <2>5. Unit * (n * q + n) \in Nat
    BY <1>1, <2>2
  <2> HIDE <2>1
  <2>6. \A i, j, k \in Nat : i < j /\ j <= k => i < k
    OBVIOUS
  <2>7. Unit * a < Unit * (n * q + n)
    BY <2>2, <2>4, <2>5, <2>6
  <2> QED
    BY <2>2, <2>3, <2>7
<1> QED
  BY <1>4, <1>5, <1>10 DEF q

\* A multiple of an integer is divided by it without rounding.
LEMMA QuoExact ==
  ASSUME NEW a \in Nat, NEW n \in Nat \ {0}
  PROVE  Quo(MulInt(a, n), ToDec(n)) = a
<1> DEFINE d == n * Unit
           k == a * Unit
           m == (a * n) * Unit * Unit
<1>1. Unit \in Nat \ {0} /\ d \in Nat \ {0} /\ k \in Nat /\ m \in Nat
  BY UnitAssumption
<1>2. m = d * k
  BY <1>1
<1>3. m \div d = k
  <2> HIDE DEF d, k, m
  <2> QED
    BY <1>1, <1>2, ExactDivision
<1>4. (Unit * a) \div Unit = a /\ (Unit * a) % Unit = 0 /\ k = Unit * a
  BY <1>1, ExactDivision
<1>5. RoundHalfEven(k) = a
  BY <1>1, <1>4 DEF RoundHalfEven
<1>6. QuoTrunc(m, d) = k
  BY <1>1, <1>3 DEF QuoTrunc
<1> QED
  BY <1>1, <1>5, <1>6 DEF Quo, ChopPrecisionAndRound, MulInt, ToDec

\* The order of the factors does not matter.
LEMMA MulCommutes ==
  ASSUME NEW a \in Nat, NEW b \in Nat
  PROVE  Mul(a, b) = Mul(b, a)
<1>1. a * b = b * a
  OBVIOUS
<1> QED
  BY <1>1 DEF Mul

\* The least integer that is not below a decimal.
LEMMA CeilLeast ==
  ASSUME NEW a \in Nat, NEW c \in Nat, a <= Unit * c
  PROVE  CeilInt(a) <= c
<1> DEFINE q == a \div Unit
           r == a % Unit
<1>1. q \in Nat /\ r \in 0 .. (Unit - 1) /\ a = Unit * q + r /\ Unit \in Nat \ {0}
  BY Division, UnitAssumption
<1>2. CeilInt(a) = IF r = 0 THEN q ELSE q + 1
  BY DEF CeilInt
<1> HIDE DEF q, r
<1>3. CASE r = 0
  <2>1. Unit * q <= Unit * c
    BY <1>1, <1>3
  <2> QED
    BY <1>1, <1>2, <1>3, <2>1
<1>4. CASE r # 0
  <2>1. Unit * q < Unit * c
    BY <1>1, <1>4
  <2>2. q < c
    BY <1>1, <2>1
  <2> QED
    BY <1>1, <1>2, <1>4, <2>2
<1> QED
  BY <1>3, <1>4

\* Rounding to the nearest integer, and rounding up, keep the order of numbers.
LEMMA RoundMonotone ==
  ASSUME NEW a \in Nat, NEW b \in Nat, a <= b
  PROVE  RoundHalfEven(a) <= RoundHalfEven(b)
<1> DEFINE qa == a \div Unit
           ra == a % Unit
           qb == b \div Unit
           rb == b % Unit
<1>1. /\ qa \in Nat /\ ra \in 0 .. (Unit - 1) /\ a = Unit * qa + ra
      /\ qb \in Nat /\ rb \in 0 .. (Unit - 1) /\ b = Unit * qb + rb
      /\ Unit \in Nat \ {0}
  BY Division, UnitAssumption
<1>2. /\ RoundHalfEven(a)
           = IF 2 * ra < Unit \/ (2 * ra = Unit /\ qa % 2 = 0) THEN qa ELSE qa + 1
      /\ RoundHalfEven(b)
           = IF 2 * rb < Unit \/ (2 * rb = Unit /\ qb % 2 = 0) THEN qb ELSE qb + 1
  BY DEF RoundHalfEven
<1> HIDE DEF qa, ra, qb, rb
<1>3. CASE qa < qb
  BY <1>1, <1>2, <1>3
<1>4. CASE qa = qb
  <2>1. ra <= rb
    BY <1>1, <1>4
  <2> QED
    BY <1>1, <1>2, <1>4, <2>1
<1>5. CASE qb < qa
  <2>1. Unit * (qb + 1) <= Unit * qa /\ Unit * (qb + 1) = Unit * qb + Unit
    BY <1>1, <1>5
  <2> QED
    BY <1>1, <2>1
<1> QED
  BY <1>1, <1>3, <1>4, <1>5

LEMMA CeilMonotone ==
  ASSUME NEW a \in Nat, NEW b \in Nat, a <= b
  PROVE  CeilInt(a) <= CeilInt(b)
<1>1. CeilInt(b) \in Nat /\ b <= Unit * CeilInt(b)
  BY CeilType, CeilAbove
<1>2. a <= Unit * CeilInt(b)
  BY <1>1, UnitAssumption
<1> QED
  BY <1>1, <1>2, CeilLeast

\* A part of the whole is at most one.
LEMMA QuoBelowOne ==
  ASSUME NEW n \in Nat, NEW m \in Nat \ {0}, n <= m
  PROVE  Quo(ToDec(n), ToDec(m)) \in Nat /\ Quo(ToDec(n), ToDec(m)) <= Unit
<1> DEFINE k == n * Unit * Unit * Unit
           d == m * Unit
           x == k \div d
<1>1. Unit \in Nat \ {0} /\ k \in Nat /\ d \in Nat \ {0}
  BY UnitAssumption
<1>2. x \in Nat /\ d * x <= k
  BY <1>1, Division
<1>3. Quo(ToDec(n), ToDec(m)) = RoundHalfEven(x)
  <2>1. QuoTrunc(k, d) = x
    BY <1>1 DEF QuoTrunc
  <2> QED
    BY <1>2, <2>1 DEF Quo, ChopPrecisionAndRound, ToDec
<1>4. x <= Unit * Unit
  <2> DEFINE c == Unit * Unit * Unit
             s == Unit * Unit
  <2>1. c \in Nat /\ s \in Nat /\ k = n * c /\ d * s = m * c
    BY <1>1
  <2>2. n * c <= m * c
    <3> HIDE DEF c
    <3> QED
      BY <2>1
  <2> HIDE DEF x, k, d, c, s
  <2>3. d * x <= d * s
    BY <1>1, <1>2, <2>1, <2>2
  <2>4. x <= s
    BY <1>1, <1>2, <2>1, <2>3
  <2> QED
    BY <2>4 DEF s
<1>5. RoundHalfEven(x) <= Unit /\ RoundHalfEven(x) \in Nat
  BY <1>1, <1>2, <1>4, RoundBelow, RoundType
<1> QED
  BY <1>3, <1>5

\* Rounded prices against exact ones, over a number of orders at one price.
LEMMA SumOfCeilings ==
  ASSUME NEW p \in Nat, NEW f, NEW c, NEW S, IsFiniteSet(S),
         \A x \in S : f[x] \in Nat /\ c[x] = CeilInt(p * f[x])
  PROVE  /\ SumOf(f, S) \in Nat /\ SumOf(c, S) \in Nat
         /\ p * SumOf(f, S) <= Unit * SumOf(c, S)
<1> DEFINE u == [x \in S |-> Unit * c[x]]
           v == [x \in S |-> p * f[x]]
<1>1. Unit \in Nat \ {0}
  BY UnitAssumption
<1>2. \A x \in S : c[x] \in Nat
  BY CeilType
<1>3. SumOf(f, S) \in Nat /\ SumOf(c, S) \in Nat
  BY <1>2, SumType
<1>4. \A x \in S : /\ u[x] = Unit * c[x] /\ v[x] = p * f[x]
                   /\ u[x] \in Nat /\ v[x] \in Nat /\ v[x] <= u[x]
  BY <1>1, <1>2, CeilAbove
<1> HIDE DEF u, v
<1>5. SumOf(v, S) <= SumOf(u, S)
  BY <1>4, SumMonotone
<1>6. SumOf(u, S) = Unit * SumOf(c, S)
  BY <1>1, <1>2, <1>4, SumTimes
<1>7. CASE p = 0
  BY <1>1, <1>3, <1>7
<1>8. CASE p # 0
  <2>1. SumOf(v, S) = p * SumOf(f, S)
    BY <1>4, <1>8, SumTimes
  <2> QED
    BY <1>3, <1>5, <1>6, <2>1
<1> QED
  BY <1>7, <1>8

LEMMA SumOfTruncations ==
  ASSUME NEW p \in Nat, NEW f, NEW t, NEW S, IsFiniteSet(S),
         \A x \in S : f[x] \in Nat /\ t[x] = TruncateInt(p * f[x])
  PROVE  /\ SumOf(f, S) \in Nat /\ SumOf(t, S) \in Nat
         /\ Unit * SumOf(t, S) <= p * SumOf(f, S)
<1> DEFINE u == [x \in S |-> Unit * t[x]]
           v == [x \in S |-> p * f[x]]
<1>1. Unit \in Nat \ {0}
  BY UnitAssumption
<1>2. \A x \in S : t[x] \in Nat
  BY CeilType
<1>3. SumOf(f, S) \in Nat /\ SumOf(t, S) \in Nat
  BY <1>2, SumType
<1>4. \A x \in S : /\ u[x] = Unit * t[x] /\ v[x] = p * f[x]
                   /\ u[x] \in Nat /\ v[x] \in Nat /\ u[x] <= v[x]
  BY <1>1, <1>2, TruncateBelow
<1> HIDE DEF u, v
<1>5. SumOf(u, S) <= SumOf(v, S)
  BY <1>4, SumMonotone
<1>6. SumOf(u, S) = Unit * SumOf(t, S)
  BY <1>1, <1>2, <1>4, SumTimes
<1>7. CASE p = 0
  <2>1. \A x \in S : v[x] = 0
    BY <1>4, <1>7
  <2>2. SumOf(v, S) = Cardinality(S) * 0 /\ Cardinality(S) \in Nat
    BY <2>1, SumConstant, FS_CardinalityType
  <2> QED
    BY <1>3, <1>5, <1>6, <1>7, <2>2
<1>8. CASE p # 0
  <2>1. SumOf(v, S) = p * SumOf(f, S)
    BY <1>4, <1>8, SumTimes
  <2> QED
    BY <1>3, <1>5, <1>6, <2>1
<1> QED
  BY <1>7, <1>8

=============================================================================
