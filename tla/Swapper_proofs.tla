--------------------------- MODULE Swapper_proofs ---------------------------
(***************************************************************************)
(* Proofs about Swapper: for every fee, batch length, number of accounts   *)
(* and orders and for decimals of any precision, the books of the pool     *)
(* agree at every step, nobody pays without a return, EndBlocker halts the *)
(* chain only over prices that the rest of the batch has moved, and nobody *)
(* else's share of the pool is diluted.                                    *)
(*                                                                         *)
(* The coins of a denomination d are followed for a set A of accounts: the *)
(* whole of Account gives the books, one account its wealth.               *)
(***************************************************************************)
EXTENDS Swapper, Amounts_proofs

\* The positions of the orders of the accounts in A.
Holding(orders, A) == {i \in DOMAIN orders : orders[i].account \in A}

\* What the orders at the positions S lock of d, and what A has of it.
MaxPriceOf(orders, d) == [i \in DOMAIN orders |-> orders[i].maxPrices[d]]
SwappedOf(orders, d) ==
  [i \in DOMAIN orders |-> IF orders[i].from = d THEN orders[i].amount ELSE 0]
BuyLock(orders, S, A, d) == SumOf(MaxPriceOf(orders, d), S \cap Holding(orders, A))
SwapLock(orders, S, A, d) == SumOf(SwappedOf(orders, d), S \cap Holding(orders, A))
Held(balances, A, d) == SumOf([a \in Account |-> balances[a][d]], A)

\* n for a member of A, nothing for the others.
Part(a, A, n) == IF a \in A THEN n ELSE 0

Live(orders) == {i \in DOMAIN orders : ~orders[i].cancelled}

-----------------------------------------------------------------------------
(***************************************************************************)
(* Totals of orders and balances                                           *)
(***************************************************************************)
\* The positions of a sequence of orders are finite.
LEMMA OrdersFinite ==
  ASSUME NEW T, NEW orders \in Seq(T), NEW S \in SUBSET DOMAIN orders
  PROVE  IsFiniteSet(S) /\ \A i \in DOMAIN orders : orders[i] \in T
<1>1. DOMAIN orders = 1 .. Len(orders) /\ Len(orders) \in Nat
  OBVIOUS
<1>2. IsFiniteSet(1 .. Len(orders))
  BY <1>1, FS_Interval, SMT
<1>3. IsFiniteSet(DOMAIN orders)
  BY <1>1, <1>2
<1>4. IsFiniteSet(S)
  BY <1>3, FS_Subset
<1>5. \A i \in DOMAIN orders : orders[i] \in T
  OBVIOUS
<1> QED
  BY <1>4, <1>5

\* Holders of nothing can be left out of a total.
LEMMA SumZeroes ==
  ASSUME NEW f, NEW S, IsFiniteSet(S), \A x \in S : f[x] \in Nat, NEW T \in SUBSET S,
         \A x \in S \ T : f[x] = 0
  PROVE  SumOf(f, S) = SumOf(f, T)
<1>1. IsFiniteSet(T) /\ IsFiniteSet(S \ T)
  BY FS_Subset
<1>2. Cardinality(S \ T) \in Nat
  BY <1>1, FS_CardinalityType
<1>3. SumOf(f, S \ T) = Cardinality(S \ T) * 0
  BY <1>1, SumConstant
<1>4. T \cup (S \ T) = S /\ T \cap (S \ T) = {}
  OBVIOUS
<1>5. SumOf(f, T \cup (S \ T)) = SumOf(f, T) + SumOf(f, S \ T)
  BY <1>1, <1>4, SumUnion
<1>6. SumOf(f, T) \in Nat
  BY <1>1, SumType
<1>7. SumOf(f, S \ T) = 0
  BY <1>2, <1>3
<1>8. SumOf(f, S) = SumOf(f, T) + SumOf(f, S \ T)
  BY <1>4, <1>5
<1> QED
  BY <1>6, <1>7, <1>8

LEMMA BuyOrderType ==
  ASSUME NEW orders \in Seq(BuyOrder)
  PROVE  \A i \in DOMAIN orders :
           /\ orders[i].account \in Account /\ orders[i].amount \in Nat
           /\ orders[i].maxPrices \in CoinSet /\ orders[i].cancelled \in BOOLEAN
           /\ \A d \in Denom : orders[i].maxPrices[d] \in Nat
           /\ Amounts(orders)[i] \in Nat
           /\ \A d \in Denom : MaxPriceOf(orders, d)[i] \in Nat
<1>1. \A i \in DOMAIN orders : orders[i] \in BuyOrder
  BY OrdersFinite
<1>2. ASSUME NEW i \in DOMAIN orders
      PROVE  /\ orders[i].account \in Account /\ orders[i].amount \in Nat
             /\ orders[i].maxPrices \in CoinSet /\ orders[i].cancelled \in BOOLEAN
  BY <1>1 DEF BuyOrder
<1>3. \A c \in CoinSet : \A d \in Denom : c[d] \in Nat
  BY DEF CoinSet
<1> QED
  BY <1>2, <1>3 DEF Amounts, MaxPriceOf

LEMMA SellOrderType ==
  ASSUME NEW orders \in Seq(SellOrder)
  PROVE  \A i \in DOMAIN orders :
           /\ orders[i].account \in Account /\ orders[i].amount \in Nat
           /\ Amounts(orders)[i] \in Nat
<1>1. \A i \in DOMAIN orders : orders[i] \in SellOrder
  BY OrdersFinite
<1> QED
  BY <1>1 DEF SellOrder, Amounts

LEMMA SwapOrderType ==
  ASSUME NEW orders \in Seq(SwapOrder)
  PROVE  \A i \in DOMAIN orders :
           /\ orders[i].account \in Account /\ orders[i].amount \in Nat
           /\ orders[i].from \in Denom /\ orders[i].to \in Denom
           /\ orders[i].cancelled \in BOOLEAN
           /\ \A d \in Denom : SwappedOf(orders, d)[i] \in Nat
<1>1. \A i \in DOMAIN orders : orders[i] \in SwapOrder
  BY OrdersFinite
<1> QED
  BY <1>1 DEF SwapOrder, SwappedOf

\* What orders lock is a natural number.
LEMMA BuyLockType ==
  ASSUME NEW orders \in Seq(BuyOrder), NEW S \in SUBSET DOMAIN orders, NEW A, NEW d \in Denom
  PROVE  /\ IsFiniteSet(S) /\ SumOf(Amounts(orders), S) \in Nat
         /\ BuyLock(orders, S, A, d) \in Nat
<1>1. IsFiniteSet(S) /\ IsFiniteSet(S \cap Holding(orders, A))
  <2>1. S \cap Holding(orders, A) \in SUBSET DOMAIN orders
    OBVIOUS
  <2> QED
    BY <2>1, OrdersFinite
<1>2. \A i \in S : Amounts(orders)[i] \in Nat /\ MaxPriceOf(orders, d)[i] \in Nat
  BY BuyOrderType
<1> QED
  BY <1>1, <1>2, SumType DEF BuyLock

LEMMA SwapLockType ==
  ASSUME NEW orders \in Seq(SwapOrder), NEW S \in SUBSET DOMAIN orders, NEW A, NEW d \in Denom
  PROVE  IsFiniteSet(S) /\ SwapLock(orders, S, A, d) \in Nat
<1>1. IsFiniteSet(S) /\ IsFiniteSet(S \cap Holding(orders, A))
  <2>1. S \cap Holding(orders, A) \in SUBSET DOMAIN orders
    OBVIOUS
  <2> QED
    BY <2>1, OrdersFinite
<1>2. \A i \in S : SwappedOf(orders, d)[i] \in Nat
  BY SwapOrderType
<1> QED
  BY <1>1, <1>2, SumType DEF SwapLock

\* An order that is no longer pending takes out what it had locked.
LEMMA BuyLockRemove ==
  ASSUME NEW orders \in Seq(BuyOrder), NEW S \in SUBSET DOMAIN orders, NEW n \in S,
         NEW A, NEW d \in Denom
  PROVE  BuyLock(orders, S, A, d)
           = BuyLock(orders, S \ {n}, A, d) + Part(orders[n].account, A, orders[n].maxPrices[d])
<1> DEFINE f == MaxPriceOf(orders, d)
           H == Holding(orders, A)
<1>1. IsFiniteSet(S)
  BY OrdersFinite
<1>2. \A i \in S : f[i] \in Nat
  BY BuyOrderType
<1>3. f[n] = orders[n].maxPrices[d]
  BY DEF MaxPriceOf
<1>4. n \in H <=> orders[n].account \in A
  BY DEF Holding
<1> HIDE DEF f, H
<1>5. /\ n \in H => SumOf(f, S \cap H) = SumOf(f, (S \ {n}) \cap H) + f[n]
      /\ n \notin H => SumOf(f, S \cap H) = SumOf(f, (S \ {n}) \cap H)
  <2>1. IsFiniteSet(S \cap H) /\ \A i \in S \cap H : f[i] \in Nat
    BY <1>1, <1>2, FS_Subset
  <2>2. n \notin H => S \cap H = (S \ {n}) \cap H
    OBVIOUS
  <2>3. ASSUME n \in H PROVE SumOf(f, S \cap H) = SumOf(f, (S \ {n}) \cap H) + f[n]
    <3>1. n \in S \cap H /\ (S \cap H) \ {n} = (S \ {n}) \cap H
      BY <2>3
    <3>2. SumOf(f, S \cap H) = SumOf(f, (S \cap H) \ {n}) + f[n]
      BY <2>1, <3>1, SumRemove
    <3> QED
      BY <3>1, <3>2
  <2> QED
    BY <2>2, <2>3
<1>6. BuyLock(orders, S \ {n}, A, d) \in Nat
  <2>1. S \ {n} \in SUBSET DOMAIN orders
    OBVIOUS
  <2> QED
    BY <2>1, BuyLockType
<1> QED
  BY <1>3, <1>4, <1>5, <1>6 DEF BuyLock, Part, f, H

LEMMA SwapLockRemove ==
  ASSUME NEW orders \in Seq(SwapOrder), NEW S \in SUBSET DOMAIN orders, NEW n \in S,
         NEW A, NEW d \in Denom
  PROVE  SwapLock(orders, S, A, d)
           = SwapLock(orders, S \ {n}, A, d)
               + Part(orders[n].account, A, Single(orders[n].from, orders[n].amount)[d])
<1> DEFINE f == SwappedOf(orders, d)
           H == Holding(orders, A)
<1>1. IsFiniteSet(S)
  BY OrdersFinite
<1>2. \A i \in S : f[i] \in Nat
  BY SwapOrderType
<1>3. f[n] = Single(orders[n].from, orders[n].amount)[d]
  BY DEF SwappedOf, Single, NoCoins
<1>4. n \in H <=> orders[n].account \in A
  BY DEF Holding
<1> HIDE DEF f, H
<1>5. /\ n \in H => SumOf(f, S \cap H) = SumOf(f, (S \ {n}) \cap H) + f[n]
      /\ n \notin H => SumOf(f, S \cap H) = SumOf(f, (S \ {n}) \cap H)
  <2>1. IsFiniteSet(S \cap H) /\ \A i \in S \cap H : f[i] \in Nat
    BY <1>1, <1>2, FS_Subset
  <2>2. n \notin H => S \cap H = (S \ {n}) \cap H
    OBVIOUS
  <2>3. ASSUME n \in H PROVE SumOf(f, S \cap H) = SumOf(f, (S \ {n}) \cap H) + f[n]
    <3>1. n \in S \cap H /\ (S \cap H) \ {n} = (S \ {n}) \cap H
      BY <2>3
    <3>2. SumOf(f, S \cap H) = SumOf(f, (S \cap H) \ {n}) + f[n]
      BY <2>1, <3>1, SumRemove
    <3> QED
      BY <3>1, <3>2
  <2> QED
    BY <2>2, <2>3
<1>6. SwapLock(orders, S \ {n}, A, d) \in Nat
  <2>1. S \ {n} \in SUBSET DOMAIN orders
    OBVIOUS
  <2> QED
    BY <2>1, SwapLockType
<1> QED
  BY <1>3, <1>4, <1>5, <1>6 DEF SwapLock, Part, f, H

\* Locks depend only on the owners and the coins of the orders looked at.
LEMMA SameBuyLock ==
  ASSUME NEW orders, NEW new, NEW S \in SUBSET DOMAIN orders, S \in SUBSET DOMAIN new,
         \A i \in S : /\ new[i].account = orders[i].account
                      /\ new[i].maxPrices = orders[i].maxPrices,
         NEW A, NEW d
  PROVE  BuyLock(new, S, A, d) = BuyLock(orders, S, A, d)
<1>1. S \cap Holding(new, A) = S \cap Holding(orders, A)
  BY DEF Holding
<1>2. \A i \in S : MaxPriceOf(new, d)[i] = MaxPriceOf(orders, d)[i]
  BY DEF MaxPriceOf
<1> DEFINE R == S \cap Holding(orders, A)
           f == MaxPriceOf(new, d)
           g == MaxPriceOf(orders, d)
<1>3. \A i \in R : f[i] = g[i]
  BY <1>2
<1> HIDE DEF R, f, g
<1>4. SumOf(f, R) = SumOf(g, R)
  BY <1>3, SumCongruence
<1> QED
  BY <1>1, <1>4 DEF BuyLock, R, f, g

LEMMA SameSwapLock ==
  ASSUME NEW orders, NEW new, NEW S \in SUBSET DOMAIN orders, S \in SUBSET DOMAIN new,
         \A i \in S : /\ new[i].account = orders[i].account
                      /\ new[i].from = orders[i].from /\ new[i].amount = orders[i].amount,
         NEW A, NEW d
  PROVE  SwapLock(new, S, A, d) = SwapLock(orders, S, A, d)
<1>1. S \cap Holding(new, A) = S \cap Holding(orders, A)
  BY DEF Holding
<1>2. \A i \in S : SwappedOf(new, d)[i] = SwappedOf(orders, d)[i]
  BY DEF SwappedOf
<1> DEFINE R == S \cap Holding(orders, A)
           f == SwappedOf(new, d)
           g == SwappedOf(orders, d)
<1>3. \A i \in R : f[i] = g[i]
  BY <1>2
<1> HIDE DEF R, f, g
<1>4. SumOf(f, R) = SumOf(g, R)
  BY <1>3, SumCongruence
<1> QED
  BY <1>1, <1>4 DEF SwapLock, R, f, g

\* A buy that joins the batch adds its amount and locks its max prices.
LEMMA AppendBuy ==
  ASSUME NEW orders \in Seq(BuyOrder), NEW order \in BuyOrder, ~order.cancelled
  PROVE  /\ Append(orders, order) \in Seq(BuyOrder)
         /\ SumOf(Amounts(Append(orders, order)), Live(Append(orders, order)))
              = SumOf(Amounts(orders), Live(orders)) + order.amount
         /\ \A A : \A d \in Denom :
              BuyLock(Append(orders, order), Live(Append(orders, order)), A, d)
                = BuyLock(orders, Live(orders), A, d)
                    + Part(order.account, A, order.maxPrices[d])
<1> DEFINE new == Append(orders, order)
           n == Len(orders) + 1
           S == Live(orders)
<1>1. /\ new \in Seq(BuyOrder)
      /\ DOMAIN new = DOMAIN orders \cup {n} /\ n \notin DOMAIN orders
      /\ new[n] = order /\ \A i \in DOMAIN orders : new[i] = orders[i]
  OBVIOUS
<1> HIDE DEF new, n
<1>2. Live(new) = S \cup {n} /\ n \notin S
  BY <1>1 DEF Live
<1>3. S \in SUBSET DOMAIN orders /\ S \in SUBSET DOMAIN new
      /\ Live(new) \in SUBSET DOMAIN new /\ n \in Live(new) /\ Live(new) \ {n} = S
  BY <1>1, <1>2 DEF Live
<1> HIDE DEF S
<1>4. SumOf(Amounts(new), Live(new)) = SumOf(Amounts(orders), S) + order.amount
  <2>1. IsFiniteSet(Live(new)) /\ \A i \in Live(new) : Amounts(new)[i] \in Nat
    BY <1>1, <1>3, BuyOrderType, OrdersFinite
  <2>2. SumOf(Amounts(new), Live(new)) = SumOf(Amounts(new), Live(new) \ {n}) + Amounts(new)[n]
    BY <1>3, <2>1, SumRemove
  <2>3. Amounts(new)[n] = order.amount /\ \A i \in S : Amounts(new)[i] = Amounts(orders)[i]
    BY <1>1, <1>3 DEF Amounts
  <2>4. SumOf(Amounts(new), S) = SumOf(Amounts(orders), S)
    BY <2>3, SumCongruence
  <2> QED
    BY <1>3, <2>2, <2>3, <2>4
<1>5. ASSUME NEW A, NEW d \in Denom
      PROVE  BuyLock(new, Live(new), A, d)
               = BuyLock(orders, S, A, d) + Part(order.account, A, order.maxPrices[d])
  <2>1. BuyLock(new, Live(new), A, d)
          = BuyLock(new, Live(new) \ {n}, A, d) + Part(new[n].account, A, new[n].maxPrices[d])
    BY <1>1, <1>3, BuyLockRemove
  <2>2. \A i \in S : new[i] = orders[i]
    BY <1>1, <1>3
  <2>3. BuyLock(new, S, A, d) = BuyLock(orders, S, A, d)
    BY <1>3, <2>2, SameBuyLock
  <2> QED
    BY <1>1, <1>3, <2>1, <2>3
<1> QED
  BY <1>1, <1>4, <1>5 DEF new, S

\* Buys that are cancelled take their amounts and what they had locked with them.
LEMMA CancelBuys ==
  ASSUME NEW orders \in Seq(BuyOrder), NEW which \in SUBSET Live(orders)
  PROVE  /\ Cancel(orders, which) \in Seq(BuyOrder)
         /\ DOMAIN Cancel(orders, which) = DOMAIN orders
         /\ SumOf(Amounts(orders), which) \in Nat
         /\ SumOf(Amounts(orders), Live(orders))
              = SumOf(Amounts(Cancel(orders, which)), Live(Cancel(orders, which)))
                  + SumOf(Amounts(orders), which)
         /\ \A A : \A d \in Denom :
              BuyLock(orders, Live(orders), A, d)
                = BuyLock(Cancel(orders, which), Live(Cancel(orders, which)), A, d)
                    + BuyLock(orders, which, A, d)
<1> DEFINE new == Cancel(orders, which)
<1>0. DOMAIN orders = 1 .. Len(orders) /\ Len(orders) \in Nat
      /\ \A i \in DOMAIN orders : orders[i] \in BuyOrder
  OBVIOUS
<1>1. DOMAIN new = DOMAIN orders
  BY DEF Cancel
<1>2. \A i \in DOMAIN orders :
        new[i] = IF i \in which THEN [orders[i] EXCEPT !.cancelled = TRUE] ELSE orders[i]
  BY DEF Cancel
<1>3. \A i \in DOMAIN orders :
        /\ new[i] \in BuyOrder
        /\ new[i].amount = orders[i].amount /\ new[i].maxPrices = orders[i].maxPrices
        /\ new[i].account = orders[i].account
        /\ new[i].cancelled = (i \in which \/ orders[i].cancelled)
  BY <1>0, <1>2 DEF BuyOrder
<1>4. new \in [1 .. Len(orders) -> BuyOrder]
  BY <1>0, <1>3 DEF Cancel
<1>5. new \in Seq(BuyOrder)
  BY <1>0, <1>4
<1> HIDE DEF new
<1> DEFINE S == Live(orders)
           R == Live(orders) \ which
<1>6. Live(new) = R
  BY <1>1, <1>3 DEF Live
<1>7. Amounts(new) = Amounts(orders)
  BY <1>1, <1>3 DEF Amounts
<1>8. /\ which \in SUBSET DOMAIN orders /\ R \in SUBSET DOMAIN orders
      /\ R \in SUBSET DOMAIN new /\ R \cup which = S /\ R \cap which = {}
      /\ S \in SUBSET DOMAIN orders
  BY <1>1 DEF Live
<1> HIDE DEF S, R
<1>9. /\ IsFiniteSet(which) /\ IsFiniteSet(R) /\ IsFiniteSet(S)
  BY <1>8, OrdersFinite
<1>10. /\ \A i \in S : Amounts(orders)[i] \in Nat
       /\ \A i \in S : \A d \in Denom : MaxPriceOf(orders, d)[i] \in Nat
  BY <1>8, BuyOrderType
<1>11. SumOf(Amounts(orders), which) \in Nat
  BY <1>8, <1>9, <1>10, SumType
<1>12. SumOf(Amounts(orders), S) = SumOf(Amounts(orders), R) + SumOf(Amounts(orders), which)
  BY <1>8, <1>9, <1>10, SumUnion
<1>13. ASSUME NEW A, NEW d \in Denom
       PROVE  BuyLock(orders, S, A, d)
                = BuyLock(new, Live(new), A, d) + BuyLock(orders, which, A, d)
  <2>1. \A i \in R : /\ new[i].account = orders[i].account
                     /\ new[i].maxPrices = orders[i].maxPrices
    BY <1>3, <1>8
  <2>2. BuyLock(new, R, A, d) = BuyLock(orders, R, A, d)
    BY <1>8, <2>1, SameBuyLock
  <2> DEFINE H == Holding(orders, A)
             f == MaxPriceOf(orders, d)
             U == R \cap H
             V == which \cap H
  <2>3. /\ IsFiniteSet(U) /\ IsFiniteSet(V) /\ U \cap V = {} /\ U \cup V = S \cap H
        /\ \A i \in U \cup V : f[i] \in Nat
    BY <1>8, <1>9, <1>10, FS_Subset
  <2> HIDE DEF U, V, f
  <2>4. SumOf(f, U \cup V) = SumOf(f, U) + SumOf(f, V)
    BY <2>3, SumUnion
  <2>5. SumOf(f, S \cap H) = SumOf(f, U) + SumOf(f, V)
    BY <2>3, <2>4
  <2>6. BuyLock(orders, S, A, d) = BuyLock(orders, R, A, d) + BuyLock(orders, which, A, d)
    BY <2>5 DEF BuyLock, U, V, f
  <2> QED
    BY <1>6, <2>2, <2>6
<1>14. SumOf(Amounts(orders), S)
         = SumOf(Amounts(new), Live(new)) + SumOf(Amounts(orders), which)
  BY <1>6, <1>7, <1>12
<1> QED
  BY <1>1, <1>5, <1>11, <1>13, <1>14 DEF new, S

\* A swap that joins the batch locks its coins.
LEMMA AppendSwap ==
  ASSUME NEW orders \in Seq(SwapOrder), NEW order \in SwapOrder
  PROVE  /\ Append(orders, order) \in Seq(SwapOrder)
         /\ \A A : \A d \in Denom :
              SwapLock(Append(orders, order), DOMAIN Append(orders, order), A, d)
                = SwapLock(orders, DOMAIN orders, A, d)
                    + Part(order.account, A, Single(order.from, order.amount)[d])
<1> DEFINE new == Append(orders, order)
           n == Len(orders) + 1
           S == DOMAIN orders
           T == DOMAIN new
<1>1. /\ new \in Seq(SwapOrder)
      /\ T = S \cup {n} /\ n \notin S
      /\ new[n] = order /\ \A i \in S : new[i] = orders[i]
  OBVIOUS
<1> HIDE DEF new, n
<1>2. n \in T /\ T \ {n} = S /\ T \in SUBSET DOMAIN new
      /\ S \in SUBSET DOMAIN orders /\ S \in SUBSET DOMAIN new
  BY <1>1
<1> HIDE DEF S, T
<1>3. ASSUME NEW A, NEW d \in Denom
      PROVE  SwapLock(new, T, A, d)
               = SwapLock(orders, S, A, d)
                   + Part(order.account, A, Single(order.from, order.amount)[d])
  <2>1. SwapLock(new, T, A, d)
          = SwapLock(new, T \ {n}, A, d)
              + Part(new[n].account, A, Single(new[n].from, new[n].amount)[d])
    <3>1. new \in Seq(SwapOrder) /\ T \in SUBSET DOMAIN new /\ n \in T
      BY <1>1, <1>2
    <3> QED
      BY <3>1, SwapLockRemove
  <2>2. SwapLock(new, S, A, d) = SwapLock(orders, S, A, d)
    BY <1>1, <1>2, SameSwapLock
  <2> QED
    BY <1>1, <1>2, <2>1, <2>2
<1> QED
  BY <1>1, <1>3 DEF new, S, T

LEMMA HeldType ==
  ASSUME NEW balances \in [Account -> CoinSet], NEW A \in SUBSET Account, NEW d \in Denom
  PROVE  /\ IsFiniteSet(A) /\ \A a \in Account : balances[a][d] \in Nat
         /\ Held(balances, A, d) \in Nat
<1>1. IsFiniteSet(A)
  BY SwapperAssumption, FS_Subset
<1>2. \A a \in Account : balances[a] \in CoinSet
  OBVIOUS
<1>3. \A c \in CoinSet : c[d] \in Nat
  BY DEF CoinSet
<1>4. \A a \in Account : balances[a][d] \in Nat
  BY <1>2, <1>3
<1> DEFINE f == [a \in Account |-> balances[a][d]]
<1>5. \A a \in A : f[a] \in Nat
  BY <1>4
<1> HIDE DEF f
<1>6. SumOf(f, A) \in Nat
  BY <1>1, <1>5, SumType
<1> QED
  BY <1>1, <1>4, <1>6 DEF Held, f

\* Changing what one account has changes what A has, if it is one of them.
LEMMA HeldUpdate ==
  ASSUME NEW f \in [Account -> CoinSet], NEW g \in [Account -> CoinSet],
         NEW y \in Account, \A a \in Account \ {y} : g[a] = f[a],
         NEW A \in SUBSET Account, NEW d \in Denom
  PROVE  Held(g, A, d) = Held(f, A, d) + Part(y, A, g[y][d] - f[y][d])
<1>1. /\ IsFiniteSet(A)
      /\ \A a \in Account : f[a][d] \in Nat /\ g[a][d] \in Nat
      /\ Held(f, A, d) \in Nat /\ Held(g, A, d) \in Nat
  BY HeldType
<1> DEFINE m == [a \in Account |-> f[a][d]]
           n == [a \in Account |-> g[a][d]]
<1>2. /\ \A a \in A : m[a] \in Nat /\ n[a] \in Nat
      /\ \A a \in A \ {y} : n[a] = m[a]
      /\ n[y] = g[y][d] /\ m[y] = f[y][d]
      /\ Held(f, A, d) = SumOf(m, A) /\ Held(g, A, d) = SumOf(n, A)
  BY <1>1 DEF Held
<1> HIDE DEF m, n
<1>3. CASE y \in A
  <2>1. SumOf(n, A) = SumOf(m, A) - m[y] + n[y]
    BY <1>1, <1>2, <1>3, SumUpdate
  <2> QED
    BY <1>1, <1>2, <1>3, <2>1 DEF Part
<1>4. CASE y \notin A
  <2>1. \A a \in A : n[a] = m[a]
    BY <1>2, <1>4
  <2>2. SumOf(n, A) = SumOf(m, A)
    BY <2>1, SumCongruence
  <2> QED
    BY <1>1, <1>2, <1>4, <2>2 DEF Part
<1> QED
  BY <1>3, <1>4

\* What an account gets.
LEMMA MoveHeld ==
  ASSUME NEW f \in [Account -> CoinSet], NEW y \in Account, NEW c \in CoinSet
  PROVE  /\ Move(f, y, c) \in [Account -> CoinSet]
         /\ \A A \in SUBSET Account : \A d \in Denom :
              Held(Move(f, y, c), A, d) = Held(f, A, d) + Part(y, A, c[d])
<1> DEFINE g == Move(f, y, c)
<1>1. f[y] \in CoinSet /\ \A d \in Denom : f[y][d] \in Nat /\ c[d] \in Nat
  BY DEF CoinSet
<1>2. /\ g \in [Account -> CoinSet] /\ \A a \in Account \ {y} : g[a] = f[a]
      /\ \A d \in Denom : g[y][d] = f[y][d] + c[d]
  <2>1. Add(f[y], c) \in CoinSet /\ \A d \in Denom : Add(f[y], c)[d] = f[y][d] + c[d]
    BY <1>1 DEF Add, CoinSet
  <2> QED
    BY <2>1 DEF Move
<1> HIDE DEF g
<1>3. ASSUME NEW A \in SUBSET Account, NEW d \in Denom
      PROVE  Held(g, A, d) = Held(f, A, d) + Part(y, A, c[d])
  <2>1. Held(g, A, d) = Held(f, A, d) + Part(y, A, g[y][d] - f[y][d])
    BY <1>2, HeldUpdate
  <2>2. g[y][d] - f[y][d] = c[d]
    BY <1>1, <1>2
  <2> QED
    BY <2>1, <2>2
<1> QED
  BY <1>2, <1>3 DEF g

\* What an account gives.
LEMMA TakeHeld ==
  ASSUME NEW f \in [Account -> CoinSet], NEW y \in Account, NEW c \in CoinSet,
         Covers(f[y], c)
  PROVE  /\ Take(f, y, c) \in [Account -> CoinSet]
         /\ \A A \in SUBSET Account : \A d \in Denom :
              Held(f, A, d) = Held(Take(f, y, c), A, d) + Part(y, A, c[d])
<1> DEFINE g == Take(f, y, c)
<1>1. f[y] \in CoinSet /\ \A d \in Denom : f[y][d] \in Nat /\ c[d] \in Nat /\ f[y][d] >= c[d]
  BY DEF CoinSet, Covers
<1>2. /\ g \in [Account -> CoinSet] /\ \A a \in Account \ {y} : g[a] = f[a]
      /\ \A d \in Denom : g[y][d] = f[y][d] - c[d]
  <2>1. Sub(f[y], c) \in CoinSet /\ \A d \in Denom : Sub(f[y], c)[d] = f[y][d] - c[d]
    BY <1>1 DEF Sub, CoinSet
  <2> QED
    BY <2>1 DEF Take
<1> HIDE DEF g
<1>3. ASSUME NEW A \in SUBSET Account, NEW d \in Denom
      PROVE  Held(f, A, d) = Held(g, A, d) + Part(y, A, c[d])
  <2>1. Held(f, A, d) = Held(g, A, d) + Part(y, A, f[y][d] - g[y][d])
    BY <1>2, HeldUpdate
  <2>2. f[y][d] - g[y][d] = c[d]
    BY <1>1, <1>2
  <2> QED
    BY <2>1, <2>2
<1> QED
  BY <1>2, <1>3 DEF g

\* The coins locked by the orders of one account, and of all.
LEMMA LockedOfBuys ==
  ASSUME NEW orders \in Seq(BuyOrder), NEW S \in SUBSET DOMAIN orders
  PROVE  /\ LockedByBuys(orders, S) \in CoinSet
         /\ \A d \in Denom : LockedByBuys(orders, S)[d] = BuyLock(orders, S, Account, d)
         /\ \A a : \A d \in Denom :
              LockedByBuys(orders, {i \in S : orders[i].account = a})[d]
                = BuyLock(orders, S, {a}, d)
<1>1. S \cap Holding(orders, Account) = S
  BY BuyOrderType DEF Holding
<1>2. \A a : S \cap Holding(orders, {a}) = {i \in S : orders[i].account = a}
  BY DEF Holding
<1>3. ASSUME NEW R \in SUBSET S, NEW d \in Denom
      PROVE  LockedByBuys(orders, R)[d] = SumOf(MaxPriceOf(orders, d), R)
  <2> DEFINE f == [i \in R |-> orders[i].maxPrices[d]]
             g == MaxPriceOf(orders, d)
  <2>1. \A i \in R : f[i] = g[i]
    BY DEF MaxPriceOf
  <2>2. LockedByBuys(orders, R)[d] = SumOf(f, R)
    BY DEF LockedByBuys
  <2> HIDE DEF f, g
  <2>3. SumOf(f, R) = SumOf(g, R)
    BY <2>1, SumCongruence
  <2> QED
    BY <2>2, <2>3 DEF g
<1>4. \A d \in Denom : LockedByBuys(orders, S)[d] = BuyLock(orders, S, Account, d)
  BY <1>1, <1>3 DEF BuyLock
<1>5. ASSUME NEW a, NEW d \in Denom
      PROVE  LockedByBuys(orders, {i \in S : orders[i].account = a})[d]
               = BuyLock(orders, S, {a}, d)
  <2> DEFINE R == {i \in S : orders[i].account = a}
  <2>1. R \in SUBSET S
    OBVIOUS
  <2>2. S \cap Holding(orders, {a}) = R
    BY <1>2
  <2> HIDE DEF R
  <2>3. LockedByBuys(orders, R)[d] = BuyLock(orders, S, {a}, d)
    BY <1>3, <2>1, <2>2 DEF BuyLock
  <2> QED
    BY <2>3 DEF R
<1>6. LockedByBuys(orders, S) \in CoinSet
  <2>1. \A d \in Denom : BuyLock(orders, S, Account, d) \in Nat
    BY BuyLockType
  <2>2. LockedByBuys(orders, S) = [d \in Denom |-> LockedByBuys(orders, S)[d]]
    BY DEF LockedByBuys
  <2>3. \A d \in Denom : LockedByBuys(orders, S)[d] \in Nat
    BY <1>4, <2>1
  <2> QED
    BY <2>2, <2>3 DEF CoinSet
<1> QED
  BY <1>4, <1>5, <1>6

LEMMA LockedOfSwaps ==
  ASSUME swaps \in Seq(SwapOrder), NEW S \in SUBSET DOMAIN swaps
  PROVE  /\ LockedBySwaps(S) \in CoinSet
         /\ \A d \in Denom : LockedBySwaps(S)[d] = SwapLock(swaps, S, Account, d)
         /\ \A a : \A d \in Denom :
              LockedBySwaps({i \in S : swaps[i].account = a})[d] = SwapLock(swaps, S, {a}, d)
<1>1. S \cap Holding(swaps, Account) = S
  BY SwapOrderType DEF Holding
<1>2. \A a : S \cap Holding(swaps, {a}) = {i \in S : swaps[i].account = a}
  BY DEF Holding
<1>3. ASSUME NEW R \in SUBSET S, NEW d \in Denom
      PROVE  LockedBySwaps(R)[d] = SumOf(SwappedOf(swaps, d), R)
  <2> DEFINE f == [i \in R |-> swaps[i].amount]
             g == SwappedOf(swaps, d)
             T == {i \in R : swaps[i].from = d}
  <2>1. /\ \A i \in T : f[i] = g[i]
        /\ \A i \in R : g[i] \in Nat
        /\ \A i \in R \ T : g[i] = 0
        /\ T \in SUBSET R
    BY SwapOrderType DEF SwappedOf
  <2>2. LockedBySwaps(R)[d] = SumOf(f, T)
    BY DEF LockedBySwaps
  <2>3. IsFiniteSet(R)
    <3>1. R \in SUBSET DOMAIN swaps
      OBVIOUS
    <3> QED
      BY <3>1, OrdersFinite
  <2> HIDE DEF f, g, T
  <2>4. SumOf(f, T) = SumOf(g, T)
    BY <2>1, SumCongruence
  <2>5. SumOf(g, R) = SumOf(g, T)
    BY <2>1, <2>3, SumZeroes
  <2> QED
    BY <2>2, <2>4, <2>5 DEF g
<1>4. \A d \in Denom : LockedBySwaps(S)[d] = SwapLock(swaps, S, Account, d)
  BY <1>1, <1>3 DEF SwapLock
<1>5. ASSUME NEW a, NEW d \in Denom
      PROVE  LockedBySwaps({i \in S : swaps[i].account = a})[d] = SwapLock(swaps, S, {a}, d)
  <2> DEFINE R == {i \in S : swaps[i].account = a}
  <2>1. R \in SUBSET S
    OBVIOUS
  <2>2. S \cap Holding(swaps, {a}) = R
    BY <1>2
  <2> HIDE DEF R
  <2>3. LockedBySwaps(R)[d] = SwapLock(swaps, S, {a}, d)
    BY <1>3, <2>1, <2>2 DEF SwapLock
  <2> QED
    BY <2>3 DEF R
<1>6. LockedBySwaps(S) \in CoinSet
  <2>1. \A d \in Denom : SwapLock(swaps, S, Account, d) \in Nat
    BY SwapLockType
  <2>2. LockedBySwaps(S) = [d \in Denom |-> LockedBySwaps(S)[d]]
    BY DEF LockedBySwaps
  <2>3. \A d \in Denom : LockedBySwaps(S)[d] \in Nat
    BY <1>4, <2>1
  <2> QED
    BY <2>2, <2>3 DEF CoinSet
<1> QED
  BY <1>4, <1>5, <1>6

\* What one account holds.
LEMMA HeldOfOne ==
  ASSUME NEW f \in [Account -> CoinSet], NEW a \in Account, NEW d \in Denom
  PROVE  Held(f, {a}, d) = f[a][d]
<1> DEFINE m == [b \in Account |-> f[b][d]]
<1>1. IsFiniteSet({a}) /\ m[a] = f[a][d] /\ f[a][d] \in Nat /\ \A b \in {a} : m[b] \in Nat
  <2>1. IsFiniteSet({a})
    BY FS_Singleton
  <2> QED
    BY <2>1, HeldType
<1>2. Held(f, {a}, d) = SumOf(m, {a})
  BY DEF Held
<1> HIDE DEF m
<1>3. SumOf(m, {a}) = SumOf(m, {a} \ {a}) + m[a]
  BY <1>1, SumRemove
<1>4. {a} \ {a} = {} /\ SumOf(m, {}) = 0
  BY SumEmpty
<1> QED
  BY <1>1, <1>2, <1>3, <1>4

\* Refunds give every account what its cancelled orders had locked.
LEMMA RefundHeld ==
  ASSUME NEW f \in [Account -> CoinSet], NEW orders \in Seq(BuyOrder),
         NEW which \in SUBSET DOMAIN orders
  PROVE  /\ Refund(f, orders, which) \in [Account -> CoinSet]
         /\ \A A \in SUBSET Account : \A d \in Denom :
              Held(Refund(f, orders, which), A, d)
                = Held(f, A, d) + BuyLock(orders, which, A, d)
<1> DEFINE back(a) == LockedByBuys(orders, {i \in which : orders[i].account = a})
           g == Refund(f, orders, which)
<1>1. ASSUME NEW a \in Account
      PROVE  /\ g[a] \in CoinSet
             /\ \A d \in Denom : /\ back(a)[d] \in Nat
                                 /\ back(a)[d] = BuyLock(orders, which, {a}, d)
                                 /\ g[a][d] = f[a][d] + back(a)[d]
  <2>1. {i \in which : orders[i].account = a} \in SUBSET DOMAIN orders
    OBVIOUS
  <2>2. back(a) \in CoinSet
    BY <2>1, LockedOfBuys
  <2>3. \A d \in Denom : back(a)[d] \in Nat /\ f[a][d] \in Nat
    BY <2>2 DEF CoinSet
  <2>4. g[a] = Add(f[a], back(a))
    BY DEF Refund
  <2>5. \A d \in Denom : back(a)[d] = BuyLock(orders, which, {a}, d)
    BY LockedOfBuys
  <2> HIDE DEF back, g
  <2>6. g[a] \in CoinSet /\ \A d \in Denom : g[a][d] = f[a][d] + back(a)[d]
    BY <2>3, <2>4 DEF Add, CoinSet
  <2> QED
    BY <2>3, <2>5, <2>6
<1>2. g \in [Account -> CoinSet]
  <2>1. g = [a \in Account |-> g[a]]
    BY DEF Refund
  <2> HIDE DEF g
  <2> QED
    BY <1>1, <2>1
<1> HIDE DEF back, g
<1>3. ASSUME NEW A \in SUBSET Account, NEW d \in Denom
      PROVE  Held(g, A, d) = Held(f, A, d) + BuyLock(orders, which, A, d)
  <2> DEFINE m == [a \in Account |-> f[a][d]]
             r == [a \in Account |-> back(a)[d]]
             h == [a \in Account |-> g[a][d]]
             p == MaxPriceOf(orders, d)
             S == which \cap Holding(orders, A)
             holder == [i \in DOMAIN orders |-> orders[i].account]
             group == [a \in A |-> which \cap Holding(orders, {a})]
  <2>1. IsFiniteSet(A) /\ \A a \in Account : f[a][d] \in Nat
    BY HeldType
  <2>2. \A a \in A : m[a] \in Nat /\ r[a] \in Nat /\ h[a] = m[a] + r[a]
    BY <1>1, <2>1
  <2>3. \A a \in A : r[a] = SumOf(p, group[a])
    BY <1>1 DEF BuyLock
  <2>4. IsFiniteSet(S) /\ (\A i \in S : p[i] \in Nat) /\ (\A i \in S : holder[i] \in A)
    <3>1. S \in SUBSET DOMAIN orders
      OBVIOUS
    <3> QED
      BY <3>1, OrdersFinite, BuyOrderType DEF Holding
  <2>5. \A a \in A : \A i : i \in group[a] <=> i \in S /\ holder[i] = a
    BY DEF Holding
  <2>6. Held(g, A, d) = SumOf(h, A) /\ Held(f, A, d) = SumOf(m, A)
        /\ BuyLock(orders, which, A, d) = SumOf(p, S)
    BY DEF Held, BuyLock
  <2> HIDE DEF m, r, h, p, S, holder, group
  <2>7. SumOf(h, A) = SumOf(m, A) + SumOf(r, A)
    BY <2>1, <2>2, SumPlus
  <2>8. SumOf(r, A) = SumOf(p, S)
    <3>1. IsFiniteSet(A)
      BY <2>1
    <3> QED
      BY <2>3, <2>4, <2>5, <3>1, SumByGroup, Z3
  <2> QED
    BY <2>6, <2>7, <2>8
<1> QED
  BY <1>2, <1>3 DEF g

-----------------------------------------------------------------------------
(***************************************************************************)
(* Prices and fees                                                         *)
(***************************************************************************)
LEMMA CoinsType ==
  ASSUME NEW c \in CoinSet, NEW e \in CoinSet
  PROVE  /\ \A d \in Denom : c[d] \in Nat /\ e[d] \in Nat
         /\ Add(c, e) \in CoinSet /\ \A d \in Denom : Add(c, e)[d] = c[d] + e[d]
         /\ \A d \in Denom : Sub(c, e)[d] = c[d] - e[d]
         /\ Covers(c, e) => Sub(c, e) \in CoinSet
BY DEF CoinSet, Add, Sub, Covers

LEMMA SingleType ==
  ASSUME NEW x \in Denom, NEW n \in Nat
  PROVE  /\ Single(x, n) \in CoinSet
         /\ \A d \in Denom : Single(x, n)[d] = IF d = x THEN n ELSE 0
BY DEF Single, NoCoins, CoinSet

\* Fees are not negative, and what is taken from a swap is not more than the swap.
LEMMA FeeType ==
  ASSUME NEW amount \in Nat, NEW percentage \in Nat
  PROVE  Fee(amount, percentage) \in Nat
<1>1. QuoInt(percentage, 100) \in Nat
  BY Division DEF QuoInt
<1>2. Mul(QuoInt(percentage, 100), amount) \in Nat
  BY <1>1, MulType
<1> QED
  BY <1>2, CeilType DEF Fee

LEMMA CeilBelow ==
  ASSUME NEW a \in Nat, NEW n \in Nat, a <= n * Unit
  PROVE  CeilInt(a) <= n
<1> DEFINE q == a \div Unit
           r == a % Unit
<1>1. q \in Nat /\ r \in 0 .. (Unit - 1) /\ a = Unit * q + r
  BY Division, UnitAssumption
<1>2. CeilInt(a) = IF r = 0 THEN q ELSE q + 1
  BY DEF CeilInt
<1> HIDE DEF q, r
<1>3. Unit \in Nat \ {0}
  BY UnitAssumption
<1>4. CASE r = 0
  <2>1. Unit * q <= Unit * n
    BY <1>1, <1>3, <1>4
  <2>2. q <= n
    BY <1>1, <1>3, <2>1
  <2> QED
    BY <1>2, <1>4, <2>2
<1>5. CASE r # 0
  <2>1. Unit * q < Unit * n
    BY <1>1, <1>3, <1>5
  <2>2. q < n
    BY <1>1, <1>3, <2>1
  <2> QED
    BY <1>1, <1>2, <1>5, <2>2
<1> QED
  BY <1>4, <1>5

LEMMA SwapFeeType ==
  ASSUME NEW order, order.amount \in Nat
  PROVE  /\ SwapFee(order) \in Nat /\ SwapFee(order) <= order.amount
         /\ SwapInput(order) \in Nat
         /\ order.amount = SwapInput(order) + SwapFee(order)
<1> DEFINE p == QuoInt(TxFeePercentage, 100)
           n == order.amount
<1>1. TxFeePercentage \in Nat /\ TxFeePercentage < 100 * Unit /\ Unit \in Nat \ {0}
  BY SwapperAssumption, UnitAssumption DEF ToDec
<1>2. p \in Nat /\ p < Unit
  <2>1. p \in Nat /\ 100 * p <= TxFeePercentage
    BY <1>1, Division DEF QuoInt
  <2> HIDE DEF p
  <2> QED
    BY <1>1, <2>1
<1>3. Fee(ToDec(n), TxFeePercentage) \in Nat
  BY <1>1, FeeType, ToDecType
<1> HIDE DEF p, n
<1>4. n \in Nat
  BY DEF n
<1>5. Mul(ToDec(n), p) = n * p
  BY <1>2, <1>4, MulByInteger
<1>6. Mul(p, ToDec(n)) = n * p
  <2>1. ToDec(n) \in Nat
    BY <1>4, ToDecType
  <2>2. p * ToDec(n) = ToDec(n) * p
    BY <1>2, <2>1
  <2> QED
    BY <1>5, <2>2 DEF Mul
<1>7. n * p <= n * Unit /\ n * p \in Nat
  BY <1>1, <1>2, <1>4
<1>8. CeilInt(n * p) <= n
  BY <1>4, <1>7, CeilBelow
<1>9. Fee(ToDec(n), TxFeePercentage) = CeilInt(n * p)
  BY <1>6 DEF Fee, p
<1> QED
  BY <1>3, <1>4, <1>8, <1>9 DEF SwapFee, SwapInput, n

\* A product of shares is at most the whole: the pool pays out no more than it has.
LEMMA ShareBelow ==
  ASSUME NEW a \in Nat, NEW b \in Nat, NEW c \in Nat, c + a # 0
  PROVE  (a * b) \div (c + a) \in Nat /\ (a * b) \div (c + a) <= b
<1> DEFINE k == c + a
           m == a * b
           q == m \div k
<1>1. k \in Nat \ {0} /\ m \in Nat
  OBVIOUS
<1>2. q \in Nat /\ k * q <= m
  BY <1>1, Division
<1>3. m <= k * b
  <2>1. k * b = c * b + a * b /\ c * b \in Nat /\ a * b \in Nat
    OBVIOUS
  <2> QED
    BY <2>1
<1> HIDE DEF k, m, q
<1>4. k * q <= k * b
  BY <1>1, <1>2, <1>3
<1>5. q <= b
  BY <1>1, <1>2, <1>4
<1> QED
  BY <1>2, <1>5 DEF q, m, k

LEMMA SwapOutputType ==
  ASSUME currentReserve \in CoinSet, NEW order \in SwapOrder, SwapAllowed(order)
  PROVE  /\ SwapOutput(order) \in Nat \ {0}
         /\ SwapOutput(order) <= currentReserve[order.to]
<1>1. order.amount \in Nat /\ order.from \in Denom /\ order.to \in Denom
  BY DEF SwapOrder
<1>2. currentReserve[order.from] \in Nat /\ currentReserve[order.to] \in Nat
  BY <1>1 DEF CoinSet
<1>3. SwapInput(order) \in Nat /\ SwapInput(order) # 0 /\ SwapOutput(order) # 0
  BY <1>1, SwapFeeType DEF SwapAllowed
<1> DEFINE a == SwapInput(order)
           b == currentReserve[order.to]
           c == currentReserve[order.from]
<1>4. a \in Nat /\ b \in Nat /\ c \in Nat /\ c + a # 0
      /\ SwapOutput(order) = (a * b) \div (c + a)
  BY <1>2, <1>3 DEF SwapOutput
<1> HIDE DEF a, c
<1>5. (a * b) \div (c + a) \in Nat /\ (a * b) \div (c + a) <= b
  <2> HIDE DEF b
  <2> QED
    BY <1>4, ShareBelow
<1> QED
  BY <1>3, <1>4, <1>5

\* What an order costs or returns at the prices of a batch.
LEMMA OrderPrices ==
  ASSUME NEW order, order.amount \in Nat, NEW prices \in CoinSet
  PROVE  /\ ReservePrices(order, prices) \in CoinSet
         /\ TotalPrices(order, prices) \in CoinSet
         /\ Sub(TotalPrices(order, prices), ReservePrices(order, prices)) \in CoinSet
         /\ ReserveReturns(order, prices) \in CoinSet
         /\ SellFees(order, prices) \in CoinSet
         /\ Sub(ReserveReturns(order, prices), SellFees(order, prices)) \in CoinSet
<1> DEFINE value(d) == MulInt(prices[d], order.amount)
<1>0. TxFeePercentage \in Nat /\ ExitFeePercentage \in Nat
  BY SwapperAssumption
<1>1. \A d \in Denom : value(d) \in Nat
  BY DEF MulInt, CoinSet
<1>2. \A d \in Denom : /\ Fee(value(d), TxFeePercentage) \in Nat
                       /\ Fee(value(d), ExitFeePercentage) \in Nat
  BY <1>0, <1>1, FeeType
<1>3. \A d \in Denom : CeilInt(value(d)) \in Nat /\ TruncateInt(value(d)) \in Nat
  BY <1>1, CeilType
<1>4. \A d \in Denom :
        /\ ReservePrices(order, prices)[d] = CeilInt(value(d))
        /\ TotalPrices(order, prices)[d] = CeilInt(value(d)) + Fee(value(d), TxFeePercentage)
        /\ ReserveReturns(order, prices)[d] = TruncateInt(value(d))
        /\ SellFees(order, prices)[d]
             = IF Fee(value(d), TxFeePercentage) + Fee(value(d), ExitFeePercentage)
                    > TruncateInt(value(d))
               THEN TruncateInt(value(d))
               ELSE Fee(value(d), TxFeePercentage) + Fee(value(d), ExitFeePercentage)
  BY DEF ReservePrices, TotalPrices, ReserveReturns, SellFees
<1> HIDE DEF value
<1>5. \A d \in Denom :
        /\ ReservePrices(order, prices)[d] \in Nat /\ TotalPrices(order, prices)[d] \in Nat
        /\ ReservePrices(order, prices)[d] <= TotalPrices(order, prices)[d]
        /\ ReserveReturns(order, prices)[d] \in Nat /\ SellFees(order, prices)[d] \in Nat
        /\ SellFees(order, prices)[d] <= ReserveReturns(order, prices)[d]
  BY <1>2, <1>3, <1>4
<1>6. /\ ReservePrices(order, prices) \in CoinSet /\ TotalPrices(order, prices) \in CoinSet
      /\ ReserveReturns(order, prices) \in CoinSet /\ SellFees(order, prices) \in CoinSet
  <2>1. /\ ReservePrices(order, prices) = [d \in Denom |-> ReservePrices(order, prices)[d]]
        /\ TotalPrices(order, prices) = [d \in Denom |-> TotalPrices(order, prices)[d]]
        /\ ReserveReturns(order, prices) = [d \in Denom |-> ReserveReturns(order, prices)[d]]
        /\ SellFees(order, prices) = [d \in Denom |-> SellFees(order, prices)[d]]
    BY DEF ReservePrices, TotalPrices, ReserveReturns, SellFees
  <2> QED
    BY <1>5, <2>1 DEF CoinSet
<1>7. /\ Covers(TotalPrices(order, prices), ReservePrices(order, prices))
      /\ Covers(ReserveReturns(order, prices), SellFees(order, prices))
  BY <1>5 DEF Covers
<1> QED
  BY <1>6, <1>7, CoinsType

\* No tokens cost nothing.
LEMMA NothingCostsNothing ==
  ASSUME NEW order, order.amount = 0, NEW prices \in CoinSet, NEW d \in Denom
  PROVE  TotalPrices(order, prices)[d] = 0
<1>1. MulInt(prices[d], order.amount) = 0
  BY CoinsType DEF MulInt
<1>2. QuoInt(TxFeePercentage, 100) \in Nat
  BY SwapperAssumption, Division DEF QuoInt
<1>3. Mul(QuoInt(TxFeePercentage, 100), 0) = 0
  <2>1. \A q \in Nat : q * 0 = 0
    OBVIOUS
  <2>2. 0 \div Unit = 0 /\ 0 % Unit = 0 /\ Unit \in Nat \ {0}
    BY UnitAssumption, SMT
  <2>3. RoundHalfEven(0) = 0
    BY <2>2 DEF RoundHalfEven
  <2> QED
    BY <1>2, <2>1, <2>3 DEF Mul, ChopPrecisionAndRound
<1>4. Fee(0, TxFeePercentage) = 0
  BY <1>3, CeilOfZero DEF Fee
<1>5. TotalPrices(order, prices)[d]
        = CeilInt(MulInt(prices[d], order.amount))
            + Fee(MulInt(prices[d], order.amount), TxFeePercentage)
  BY DEF TotalPrices, ReservePrices
<1> QED
  BY <1>1, <1>4, <1>5, CeilOfZero

\* Once the pool has tokens its prices are not negative.
LEMMA DeltaType ==
  ASSUME currentSupply \in Nat \ {0}, currentReserve \in CoinSet, NEW n \in Nat
  PROVE  ReserveDelta(n) \in CoinSet
<1>1. ToDec(n) \in Nat /\ ToDec(currentSupply) \in Nat \ {0}
  BY UnitAssumption DEF ToDec
<1>2. Quo(ToDec(n), ToDec(currentSupply)) \in Nat
  BY <1>1, QuoType
<1>3. \A d \in Denom : ToDec(currentReserve[d]) \in Nat
  BY ToDecType DEF CoinSet
<1>4. \A d \in Denom :
        Mul(Quo(ToDec(n), ToDec(currentSupply)), ToDec(currentReserve[d])) \in Nat
  BY <1>2, <1>3, MulType
<1> QED
  BY <1>4 DEF ReserveDelta, CoinSet

LEMMA MatchedType ==
  ASSUME currentSupply \in Nat \ {0}, currentReserve \in CoinSet,
         NEW more \in Nat, NEW fewer \in Nat, more > fewer
  PROVE  MatchedPrices(more, fewer) \in CoinSet
<1>1. CurrentPricesPT \in CoinSet
  BY DeltaType DEF CurrentPricesPT
<1>2. more - fewer \in Nat
  OBVIOUS
<1>3. ReserveDelta(more - fewer) \in CoinSet
  BY <1>2, DeltaType
<1>4. ToDec(fewer) \in Nat /\ ToDec(more) \in Nat \ {0}
  BY UnitAssumption DEF ToDec
<1>5. ASSUME NEW d \in Denom
      PROVE  Quo(Mul(CurrentPricesPT[d], ToDec(fewer)) + ReserveDelta(more - fewer)[d],
                 ToDec(more)) \in Nat
  <2>1. CurrentPricesPT[d] \in Nat /\ ReserveDelta(more - fewer)[d] \in Nat
    BY <1>1, <1>3 DEF CoinSet
  <2>2. Mul(CurrentPricesPT[d], ToDec(fewer)) \in Nat
    BY <1>4, <2>1, MulType
  <2>3. Mul(CurrentPricesPT[d], ToDec(fewer)) + ReserveDelta(more - fewer)[d] \in Nat
    BY <2>1, <2>2
  <2> QED
    BY <1>4, <2>3, QuoType
<1> QED
  BY <1>5 DEF MatchedPrices, CoinSet

LEMMA BatchPrices ==
  ASSUME currentSupply \in Nat \ {0}, currentReserve \in CoinSet,
         NEW buy \in Nat, NEW sell \in Nat
  PROVE  BatchBuyPrices(buy, sell) \in CoinSet /\ BatchSellPrices(buy, sell) \in CoinSet
<1>1. CurrentPricesPT \in CoinSet
  BY DeltaType DEF CurrentPricesPT
<1>2. buy > sell => MatchedPrices(buy, sell) \in CoinSet
  BY MatchedType
<1>3. sell > buy => MatchedPrices(sell, buy) \in CoinSet
  BY MatchedType
<1> QED
  BY <1>1, <1>2, <1>3 DEF BatchBuyPrices, BatchSellPrices

-----------------------------------------------------------------------------
(***************************************************************************)
(* The invariant of the books                                              *)
(***************************************************************************)
\* Tokens of accounts and pending sells are the supply.
SupplyAgrees ==
  SumOf(tokens, Account) + SumOf(Amounts(sells), PendingSells) = currentSupply

\* What the accounts in A own of d: coins at hand and coins locked.
BuysOf(A, d) == BuyLock(buys, PendingBuys, A, d)
SwapsOf(A, d) == SwapLock(swaps, PendingSwaps, A, d)
Owned(A, d) == Held(funds, A, d) + (BuysOf(A, d) + SwapsOf(A, d))

LocksAgree ==
  \A d \in Denom : intermediary[d] = BuysOf(Account, d) + SwapsOf(Account, d)
CoinsAgree ==
  \A d \in Denom : Held(funds, Account, d) + (intermediary[d] + reserveAccount[d])
                     = Held(InitialFunds, Account, d)

\* The totals of the batch are those of its orders.
BatchTotals ==
  /\ totalBuy = SumOf(Amounts(buys), LiveBuys)
  /\ totalSell = SumOf(Amounts(sells), DOMAIN sells)

\* Between transactions the batch has blocks left, and before the bond is created
\* it has no orders.
BatchRuns ==
  /\ phase = "DeliverTx" => blocksRemaining # 0
  /\ bondState = "NONE" => buys = <<>> /\ sells = <<>> /\ swaps = <<>>

\* A swap changes one token for the other.
SwapsExchange == \A i \in DOMAIN swaps : swaps[i].from # swaps[i].to

\* The inductive invariant.  The books need the types of the coins; the types need
\* the books, which say that what is refunded or returned is there; and both need
\* the totals of the batch, whose sells are never more than the supply.
BooksInv ==
  /\ TypeOK
  /\ SupplyAgrees /\ LocksAgree /\ reserveAccount = currentReserve /\ CoinsAgree
  /\ BatchTotals /\ BatchRuns /\ SwapsExchange

\* One account has not paid for nothing in a step.
PaidFor(a) ==
  \/ \A d \in Denom : Owned({a}, d)' >= Owned({a}, d)
  \/ tokens'[a] > tokens[a]
  \/ \E e \in Denom : Owned({a}, e)' > Owned({a}, e)

LEMMA PendingType ==
  ASSUME TypeOK
  PROVE  /\ LiveBuys = Live(buys) /\ LiveBuys \in SUBSET DOMAIN buys
         /\ PendingBuys \in SUBSET DOMAIN buys /\ PendingBuys \in SUBSET LiveBuys
         /\ PendingSells \in SUBSET DOMAIN sells /\ PendingSwaps \in SUBSET DOMAIN swaps
         /\ buys \in Seq(BuyOrder) /\ sells \in Seq(SellOrder) /\ swaps \in Seq(SwapOrder)
BY DEF LiveBuys, Live, PendingBuys, PendingSells, PendingSwaps, TypeOK

LEMMA OwnedType ==
  ASSUME TypeOK, NEW A \in SUBSET Account, NEW d \in Denom
  PROVE  /\ BuysOf(A, d) \in Nat /\ SwapsOf(A, d) \in Nat
         /\ Held(funds, A, d) \in Nat /\ Owned(A, d) \in Nat
<1>1. BuysOf(A, d) \in Nat
  BY PendingType, BuyLockType DEF BuysOf
<1>2. SwapsOf(A, d) \in Nat
  BY PendingType, SwapLockType DEF SwapsOf
<1>3. Held(funds, A, d) \in Nat
  BY HeldType DEF TypeOK
<1> QED
  BY <1>1, <1>2, <1>3 DEF Owned

\* While transactions are delivered every order that is not cancelled is pending.
LEMMA OpenBooks ==
  ASSUME BooksInv, phase = "DeliverTx"
  PROVE  /\ PendingBuys = Live(buys) /\ PendingSells = DOMAIN sells
         /\ PendingSwaps = DOMAIN swaps
         /\ totalBuy = SumOf(Amounts(buys), Live(buys))
         /\ SumOf(tokens, Account) \in Nat
         /\ SumOf(tokens, Account) + totalSell = currentSupply
         /\ totalSell <= currentSupply
<1>1. PendingBuys = Live(buys) /\ PendingSells = DOMAIN sells /\ PendingSwaps = DOMAIN swaps
  BY DEF PendingBuys, PendingSells, PendingSwaps, LiveBuys, Live
<1>2. SumOf(tokens, Account) \in Nat
  BY SumType, SwapperAssumption DEF BooksInv, TypeOK
<1>3. SumOf(tokens, Account) + totalSell = currentSupply
  BY <1>1 DEF BooksInv, SupplyAgrees, BatchTotals
<1>4. totalSell \in Nat /\ currentSupply \in Nat
  BY DEF BooksInv, TypeOK
<1>5. totalBuy = SumOf(Amounts(buys), Live(buys))
  BY DEF BooksInv, BatchTotals, LiveBuys, Live
<1>6. totalSell <= currentSupply
  BY <1>2, <1>3, <1>4
<1> QED
  BY <1>1, <1>2, <1>3, <1>5, <1>6

\* A step that leaves the orders and the loop alone leaves what is locked alone.
LEMMA SameOrders ==
  ASSUME BooksInv, UNCHANGED <<buys, sells, swaps, totalBuy, totalSell, blocksRemaining,
                               phase, next>>,
         bondState' = "NONE" => bondState = "NONE"
  PROVE  /\ PendingSells' = PendingSells
         /\ BatchTotals' /\ BatchRuns' /\ SwapsExchange'
         /\ \A A : \A d : BuysOf(A, d)' = BuysOf(A, d) /\ SwapsOf(A, d)' = SwapsOf(A, d)
<1>1. LiveBuys' = LiveBuys
  BY DEF LiveBuys
<1>2. PendingBuys' = PendingBuys /\ PendingSells' = PendingSells /\ PendingSwaps' = PendingSwaps
  BY <1>1 DEF PendingBuys, PendingSells, PendingSwaps
<1>3. BatchTotals' /\ BatchRuns' /\ SwapsExchange'
  BY <1>1 DEF BooksInv, BatchTotals, BatchRuns, SwapsExchange
<1>4. ASSUME NEW A, NEW d
      PROVE  BuysOf(A, d)' = BuysOf(A, d) /\ SwapsOf(A, d)' = SwapsOf(A, d)
  BY <1>2 DEF BuysOf, SwapsOf
<1> QED
  BY <1>2, <1>3, <1>4

\* Nobody has paid if everything owned is as it was.
LEMMA NobodyPaid ==
  ASSUME BooksInv,
         \A a \in Account : \A d \in Denom :
           \E n \in Nat : Owned({a}, d)' = Owned({a}, d) + n
  PROVE  \A a \in Account : PaidFor(a)
<1>1. ASSUME NEW a \in Account, NEW d \in Denom
      PROVE  Owned({a}, d)' >= Owned({a}, d)
  <2>1. Owned({a}, d) \in Nat
    BY OwnedType DEF BooksInv
  <2>2. PICK n \in Nat : Owned({a}, d)' = Owned({a}, d) + n
    OBVIOUS
  <2> QED
    BY <2>1, <2>2
<1> QED
  BY <1>1 DEF PaidFor

\* Minting and burning change the total of the tokens.
LEMMA TokensChange ==
  ASSUME tokens \in [Account -> Nat], NEW a \in Account, NEW n \in Nat
  PROVE  /\ SumOf(tokens, Account) \in Nat
         /\ Mint(a, n) => /\ tokens' \in [Account -> Nat]
                          /\ tokens'[a] = tokens[a] + n
                          /\ \A b \in Account \ {a} : tokens'[b] = tokens[b]
                          /\ SumOf(tokens', Account) = SumOf(tokens, Account) + n
         /\ Burn(a, n) /\ n <= tokens[a] =>
              /\ tokens' \in [Account -> Nat]
              /\ SumOf(tokens, Account) = SumOf(tokens', Account) + n
<1>0. IsFiniteSet(Account) /\ SumOf(tokens, Account) \in Nat
  BY SwapperAssumption, SumType
<1>1. ASSUME Mint(a, n)
      PROVE  /\ tokens' \in [Account -> Nat] /\ tokens'[a] = tokens[a] + n
             /\ \A b \in Account \ {a} : tokens'[b] = tokens[b]
             /\ SumOf(tokens', Account) = SumOf(tokens, Account) + n
  <2>1. /\ tokens' \in [Account -> Nat] /\ tokens'[a] = tokens[a] + n
        /\ \A b \in Account \ {a} : tokens'[b] = tokens[b]
    BY <1>1 DEF Mint
  <2>2. SumOf(tokens', Account) = SumOf(tokens, Account) - tokens[a] + tokens'[a]
    BY <1>0, <2>1, SumUpdate
  <2> QED
    BY <1>0, <2>1, <2>2
<1>2. ASSUME Burn(a, n), n <= tokens[a]
      PROVE  /\ tokens' \in [Account -> Nat]
             /\ SumOf(tokens, Account) = SumOf(tokens', Account) + n
  <2>1. /\ tokens' \in [Account -> Nat] /\ tokens'[a] = tokens[a] - n
        /\ \A b \in Account \ {a} : tokens'[b] = tokens[b]
    BY <1>2 DEF Burn
  <2>2. SumOf(tokens', Account) = SumOf(tokens, Account) - tokens[a] + tokens'[a]
    BY <1>0, <2>1, SumUpdate
  <2> QED
    BY <1>0, <2>1, <2>2
<1> QED
  BY <1>0, <1>1, <1>2

\* A sell that joins the batch, and one that is performed.
LEMMA AppendSell ==
  ASSUME NEW orders \in Seq(SellOrder), NEW order \in SellOrder
  PROVE  /\ Append(orders, order) \in Seq(SellOrder)
         /\ SumOf(Amounts(Append(orders, order)), DOMAIN Append(orders, order))
              = SumOf(Amounts(orders), DOMAIN orders) + order.amount
<1> DEFINE new == Append(orders, order)
           n == Len(orders) + 1
           S == DOMAIN orders
           T == DOMAIN new
<1>1. /\ new \in Seq(SellOrder)
      /\ T = S \cup {n} /\ n \notin S
      /\ new[n] = order /\ \A i \in S : new[i] = orders[i]
  OBVIOUS
<1>2. IsFiniteSet(T) /\ \A i \in T : Amounts(new)[i] \in Nat
  BY <1>1, OrdersFinite, SellOrderType
<1>3. Amounts(new)[n] = order.amount /\ \A i \in S : Amounts(new)[i] = Amounts(orders)[i]
  BY <1>1 DEF Amounts
<1> HIDE DEF new, n, S, T
<1>4. n \in T /\ T \ {n} = S
  BY <1>1
<1>5. SumOf(Amounts(new), T) = SumOf(Amounts(new), T \ {n}) + Amounts(new)[n]
  BY <1>2, <1>4, SumRemove
<1>6. SumOf(Amounts(new), S) = SumOf(Amounts(orders), S)
  BY <1>3, SumCongruence
<1> QED
  BY <1>1, <1>3, <1>4, <1>5, <1>6 DEF new, S, T

LEMMA EmptyBatchBooks ==
  ASSUME EmptyBatch
  PROVE  /\ buys' \in Seq(BuyOrder) /\ sells' \in Seq(SellOrder) /\ swaps' \in Seq(SwapOrder)
         /\ PendingSells' = {} /\ SumOf(Amounts(sells'), {}) = 0
         /\ \A A : \A d : BuysOf(A, d)' = 0 /\ SwapsOf(A, d)' = 0
         /\ BatchTotals' /\ SwapsExchange'
         /\ buys' = <<>> /\ sells' = <<>> /\ swaps' = <<>>
         /\ totalBuy' = 0 /\ totalSell' = 0 /\ buyPrices' \in CoinSet /\ sellPrices' \in CoinSet
         /\ blocksRemaining' = BatchBlocks
<1>1. /\ buys' = <<>> /\ sells' = <<>> /\ swaps' = <<>> /\ totalBuy' = 0 /\ totalSell' = 0
      /\ buyPrices' = NoCoins /\ sellPrices' = NoCoins /\ blocksRemaining' = BatchBlocks
  BY DEF EmptyBatch
<1>2. buys' \in Seq(BuyOrder) /\ sells' \in Seq(SellOrder) /\ swaps' \in Seq(SwapOrder)
  BY <1>1
<1>3. DOMAIN buys' = {} /\ DOMAIN sells' = {} /\ DOMAIN swaps' = {}
  BY <1>1
<1>4. LiveBuys' = {} /\ PendingBuys' = {} /\ PendingSells' = {} /\ PendingSwaps' = {}
  BY <1>3 DEF LiveBuys, PendingBuys, PendingSells, PendingSwaps
<1>5. \A f : SumOf(f, {}) = 0
  BY SumEmpty
<1>6. ASSUME NEW A, NEW d
      PROVE  BuysOf(A, d)' = 0 /\ SwapsOf(A, d)' = 0
  <2>1. {} \cap Holding(buys', A) = {} /\ {} \cap Holding(swaps', A) = {}
    OBVIOUS
  <2> QED
    BY <1>4, <1>5, <2>1 DEF BuysOf, SwapsOf, BuyLock, SwapLock
<1>7. BatchTotals' /\ SwapsExchange'
  BY <1>1, <1>3, <1>4, <1>5 DEF BatchTotals, SwapsExchange
<1>8. NoCoins \in CoinSet
  BY DEF NoCoins, CoinSet
<1> QED
  BY <1>1, <1>2, <1>4, <1>5, <1>6, <1>7, <1>8

\* Nothing is locked by no orders.
LEMMA NothingLocked ==
  ASSUME NEW A, NEW d
  PROVE  /\ PendingBuys = {} => BuysOf(A, d) = 0
         /\ PendingSwaps = {} => SwapsOf(A, d) = 0
<1>1. \A f : SumOf(f, {}) = 0
  BY SumEmpty
<1>2. {} \cap Holding(buys, A) = {} /\ {} \cap Holding(swaps, A) = {}
  OBVIOUS
<1> QED
  BY <1>1, <1>2 DEF BuysOf, SwapsOf, BuyLock, SwapLock

-----------------------------------------------------------------------------
(***************************************************************************)
(* Transactions keep the books                                             *)
(***************************************************************************)
LEMMA CreateBondBooks ==
  ASSUME BooksInv, NEW allow \in BOOLEAN, NEW limits \in OrderLimits, NEW newSanity \in Sanity,
         CreateBond(allow, limits, newSanity)
  PROVE  BooksInv' /\ bondState' # bondState
<1>1. /\ phase = "DeliverTx" /\ bondState = "NONE" /\ bondState' = "OPEN"
      /\ allowSells' = allow /\ orderLimits' = limits /\ sanity' = newSanity /\ EmptyBatch
      /\ UNCHANGED <<currentSupply, currentReserve, bankVars, loopVars>>
  BY DEF CreateBond, DeliverTx
<1>2. /\ limits \in [Denom \cup {Token} -> Nat] /\ newSanity \in [rate : Nat, margin : Nat]
      /\ BatchBlocks \in Nat \ {0}
  BY SwapperAssumption
<1>3. /\ buys' \in Seq(BuyOrder) /\ sells' \in Seq(SellOrder) /\ swaps' \in Seq(SwapOrder)
      /\ PendingSells' = {} /\ SumOf(Amounts(sells'), {}) = 0
      /\ \A A : \A d : BuysOf(A, d)' = 0 /\ SwapsOf(A, d)' = 0
      /\ BatchTotals' /\ SwapsExchange'
      /\ buys' = <<>> /\ sells' = <<>> /\ swaps' = <<>>
      /\ totalBuy' = 0 /\ totalSell' = 0 /\ buyPrices' \in CoinSet /\ sellPrices' \in CoinSet
      /\ blocksRemaining' = BatchBlocks
  BY <1>1, EmptyBatchBooks
<1>4. TypeOK'
  BY <1>1, <1>2, <1>3 DEF BooksInv, TypeOK, bankVars, loopVars
<1>5. BatchRuns'
  BY <1>1, <1>2, <1>3 DEF BatchRuns
<1>6. buys = <<>> /\ sells = <<>> /\ swaps = <<>>
  BY <1>1 DEF BooksInv, BatchRuns
<1>7. PendingBuys = {} /\ PendingSells = {} /\ PendingSwaps = {}
  BY <1>6 DEF PendingBuys, PendingSells, PendingSwaps, LiveBuys
<1>8. SumOf(Amounts(sells), {}) = 0
  BY SumEmpty
<1>9. SupplyAgrees'
  BY <1>1, <1>3, <1>7, <1>8 DEF BooksInv, SupplyAgrees, bankVars
<1>10. \A d \in Denom : BuysOf(Account, d) = 0 /\ SwapsOf(Account, d) = 0
  BY <1>7, NothingLocked
<1>11. LocksAgree'
  BY <1>1, <1>3, <1>10 DEF BooksInv, LocksAgree, bankVars
<1>12. CoinsAgree' /\ (reserveAccount = currentReserve)'
  BY <1>1 DEF BooksInv, CoinsAgree, bankVars
<1> QED
  BY <1>1, <1>3, <1>4, <1>5, <1>9, <1>11, <1>12 DEF BooksInv

LEMMA EditBondBooks ==
  ASSUME BooksInv, NEW editor \in Account, NEW limits \in OrderLimits,
         NEW newSanity \in Sanity, EditBond(editor, limits, newSanity)
  PROVE  BooksInv' /\ \A a \in Account : PaidFor(a)
<1>1. /\ orderLimits' = limits /\ sanity' = newSanity
      /\ UNCHANGED <<bondState, allowSells, currentSupply, currentReserve,
                     batchVars, bankVars, loopVars>>
  BY DEF EditBond
<1>2. limits \in [Denom \cup {Token} -> Nat] /\ newSanity \in [rate : Nat, margin : Nat]
  BY SwapperAssumption
<1>3. TypeOK'
  BY <1>1, <1>2 DEF BooksInv, TypeOK, batchVars, bankVars, loopVars
<1>4. /\ PendingSells' = PendingSells
      /\ BatchTotals' /\ BatchRuns' /\ SwapsExchange'
      /\ \A A : \A d : BuysOf(A, d)' = BuysOf(A, d) /\ SwapsOf(A, d)' = SwapsOf(A, d)
  BY <1>1, SameOrders DEF batchVars, loopVars
<1>5. SupplyAgrees'
  BY <1>1, <1>4 DEF BooksInv, SupplyAgrees, bankVars, batchVars
<1>6. LocksAgree' /\ CoinsAgree' /\ (reserveAccount = currentReserve)'
  BY <1>1, <1>4 DEF BooksInv, LocksAgree, CoinsAgree, bankVars
<1>7. \A a \in Account : \A d \in Denom : Owned({a}, d)' = Owned({a}, d)
  BY <1>1, <1>4 DEF Owned, bankVars
<1>8. \A a \in Account : \A d \in Denom : Owned({a}, d) \in Nat
  BY OwnedType DEF BooksInv
<1>9. \A a \in Account : PaidFor(a)
  BY <1>7, <1>8 DEF PaidFor
<1> QED
  BY <1>3, <1>4, <1>5, <1>6, <1>9 DEF BooksInv

LEMMA FirstBuyBooks ==
  ASSUME BooksInv, NEW buyer \in Account, NEW amount \in OrderAmount,
         NEW maxPrices \in OrderMaxPrices, FirstBuy(buyer, amount, maxPrices)
  PROVE  BooksInv' /\ \A a \in Account : PaidFor(a)
<1>1. /\ phase = "DeliverTx" /\ Covers(funds[buyer], maxPrices) /\ currentSupply = 0
      /\ funds' = Take(funds, buyer, maxPrices)
      /\ DepositReserve(maxPrices) /\ Mint(buyer, amount) /\ currentSupply' = amount
      /\ UNCHANGED <<bondState, allowSells, orderLimits, sanity, batchVars,
                     intermediary, loopVars>>
  BY DEF FirstBuy, CanBuy, DeliverTx
<1>2. amount \in Nat \ {0} /\ maxPrices \in CoinSet
  BY SwapperAssumption DEF CoinSet
<1>3. funds \in [Account -> CoinSet] /\ tokens \in [Account -> Nat]
      /\ currentReserve \in CoinSet /\ reserveAccount \in CoinSet /\ intermediary \in CoinSet
      /\ reserveAccount = currentReserve
  BY DEF BooksInv, TypeOK
<1>4. /\ funds' \in [Account -> CoinSet]
      /\ \A A \in SUBSET Account : \A d \in Denom :
           Held(funds, A, d) = Held(funds', A, d) + Part(buyer, A, maxPrices[d])
  BY <1>1, <1>2, <1>3, TakeHeld
<1>5. /\ tokens' \in [Account -> Nat] /\ tokens'[buyer] = tokens[buyer] + amount
      /\ SumOf(tokens', Account) = SumOf(tokens, Account) + amount
      /\ SumOf(tokens, Account) \in Nat
  BY <1>1, <1>2, <1>3, TokensChange
<1>6. /\ currentReserve' \in CoinSet /\ reserveAccount' = currentReserve'
      /\ \A d \in Denom : reserveAccount'[d] = reserveAccount[d] + maxPrices[d]
  BY <1>1, <1>2, <1>3, CoinsType DEF DepositReserve
<1>7. TypeOK'
  BY <1>1, <1>2, <1>4, <1>5, <1>6 DEF BooksInv, TypeOK, batchVars, loopVars
<1>8. /\ PendingSells' = PendingSells
      /\ BatchTotals' /\ BatchRuns' /\ SwapsExchange'
      /\ \A A : \A d : BuysOf(A, d)' = BuysOf(A, d) /\ SwapsOf(A, d)' = SwapsOf(A, d)
  BY <1>1, SameOrders DEF batchVars, loopVars
<1>9. SupplyAgrees'
  <2>1. SumOf(Amounts(sells), PendingSells) = totalSell /\ totalSell \in Nat
    BY <1>1, OpenBooks DEF BooksInv, BatchTotals, TypeOK
  <2>2. SumOf(tokens, Account) + totalSell = 0
    BY <1>1, OpenBooks
  <2>3. totalSell = 0 /\ SumOf(tokens, Account) = 0
    BY <1>5, <2>1, <2>2
  <2>4. SumOf(Amounts(sells'), PendingSells') = 0
    BY <1>1, <1>8, <2>1, <2>3 DEF batchVars
  <2> QED
    BY <1>1, <1>2, <1>5, <2>3, <2>4 DEF SupplyAgrees
<1>10. LocksAgree'
  BY <1>1, <1>8 DEF BooksInv, LocksAgree
<1>11. CoinsAgree'
  <2> SUFFICES ASSUME NEW d \in Denom
               PROVE  Held(funds', Account, d) + (intermediary'[d] + reserveAccount'[d])
                        = Held(InitialFunds, Account, d)
    BY DEF CoinsAgree
  <2>1. Held(funds, Account, d) = Held(funds', Account, d) + maxPrices[d]
    BY <1>4 DEF Part
  <2>2. /\ Held(funds', Account, d) \in Nat /\ maxPrices[d] \in Nat
        /\ intermediary[d] \in Nat /\ reserveAccount[d] \in Nat
    BY <1>2, <1>3, <1>4, HeldType DEF CoinSet
  <2>3. Held(funds, Account, d) + (intermediary[d] + reserveAccount[d])
          = Held(InitialFunds, Account, d)
    BY DEF BooksInv, CoinsAgree
  <2> QED
    BY <1>1, <1>6, <2>1, <2>2, <2>3
<1>12. ASSUME NEW a \in Account PROVE PaidFor(a)
  <2>1. CASE a = buyer
    BY <1>2, <1>3, <1>5, <2>1 DEF PaidFor
  <2>2. CASE a # buyer
    <3>1. ASSUME NEW d \in Denom PROVE Owned({a}, d)' >= Owned({a}, d)
      <4>1. Held(funds, {a}, d) = Held(funds', {a}, d) + 0
        BY <1>4, <2>2 DEF Part
      <4>2. Held(funds', {a}, d) \in Nat
        BY <1>4, HeldType
      <4>3. Owned({a}, d)' = Owned({a}, d)
        BY <1>8, <4>1, <4>2 DEF Owned
      <4> QED
        BY <4>3, OwnedType DEF BooksInv
    <3> QED
      BY <3>1 DEF PaidFor
  <2> QED
    BY <2>1, <2>2
<1> QED
  BY <1>6, <1>7, <1>8, <1>9, <1>10, <1>11, <1>12 DEF BooksInv

LEMMA BuyBooks ==
  ASSUME BooksInv, NEW buyer \in Account, NEW amount \in OrderAmount,
         NEW maxPrices \in OrderMaxPrices, Buy(buyer, amount, maxPrices)
  PROVE  BooksInv' /\ \A a \in Account : PaidFor(a)
<1> DEFINE order     == [account |-> buyer, amount |-> amount,
                         maxPrices |-> maxPrices, cancelled |-> FALSE]
           buy       == totalBuy + amount
           orders    == Append(buys, order)
           cancelled == Unfulfillable(orders, BatchBuyPrices(buy, totalSell))
           remaining == buy - SumOf(Amounts(orders), cancelled)
           left      == Take(funds, buyer, maxPrices)
<1>1. amount \in Nat \ {0} /\ maxPrices \in CoinSet
  BY SwapperAssumption DEF CoinSet
<1>2. order \in BuyOrder /\ ~order.cancelled /\ order.account = buyer
      /\ order.amount = amount /\ order.maxPrices = maxPrices
  BY <1>1 DEF BuyOrder
<1>3. /\ phase = "DeliverTx" /\ bondState = "OPEN" /\ Covers(funds[buyer], maxPrices)
      /\ currentSupply # 0
      /\ buys' = Cancel(orders, cancelled) /\ totalBuy' = remaining
      /\ buyPrices' = BatchBuyPrices(remaining, totalSell)
      /\ sellPrices' = BatchSellPrices(remaining, totalSell)
      /\ funds' = Refund(left, orders, cancelled)
      /\ intermediary' = Sub(Add(intermediary, maxPrices), LockedByBuys(orders, cancelled))
      /\ UNCHANGED <<bondVars, blocksRemaining, totalSell, sells, swaps, tokens,
                     reserveAccount, loopVars>>
  BY DEF Buy, CanBuy, DeliverTx
<1>4. /\ totalBuy \in Nat /\ totalSell \in Nat /\ intermediary \in CoinSet
      /\ currentSupply \in Nat \ {0} /\ currentReserve \in CoinSet
      /\ buys \in Seq(BuyOrder) /\ funds \in [Account -> CoinSet]
  BY <1>3 DEF BooksInv, TypeOK
<1>5. PendingBuys = Live(buys) /\ totalBuy = SumOf(Amounts(buys), Live(buys))
  BY <1>3, OpenBooks
<1>6. /\ orders \in Seq(BuyOrder)
      /\ SumOf(Amounts(orders), Live(orders)) = totalBuy + amount
      /\ \A A : \A d \in Denom :
           BuyLock(orders, Live(orders), A, d) = BuysOf(A, d) + Part(buyer, A, maxPrices[d])
  <2>1. /\ orders \in Seq(BuyOrder)
        /\ SumOf(Amounts(orders), Live(orders)) = SumOf(Amounts(buys), Live(buys)) + order.amount
        /\ \A A : \A d \in Denom :
             BuyLock(orders, Live(orders), A, d)
               = BuyLock(buys, Live(buys), A, d) + Part(order.account, A, order.maxPrices[d])
    BY <1>2, <1>4, AppendBuy
  <2> QED
    BY <1>2, <1>5, <2>1 DEF BuysOf
<1>7. cancelled \in SUBSET Live(orders) /\ cancelled \in SUBSET DOMAIN orders
  BY DEF Unfulfillable, Live
<1>8. /\ left \in [Account -> CoinSet]
      /\ \A A \in SUBSET Account : \A d \in Denom :
           Held(funds, A, d) = Held(left, A, d) + Part(buyer, A, maxPrices[d])
  BY <1>1, <1>3, <1>4, TakeHeld
<1> HIDE DEF order, orders, cancelled, left
<1>9. /\ buys' \in Seq(BuyOrder) /\ DOMAIN buys' = DOMAIN orders
      /\ SumOf(Amounts(orders), cancelled) \in Nat
      /\ SumOf(Amounts(orders), Live(orders))
           = SumOf(Amounts(buys'), Live(buys')) + SumOf(Amounts(orders), cancelled)
      /\ \A A : \A d \in Denom :
           BuyLock(orders, Live(orders), A, d)
             = BuyLock(buys', Live(buys'), A, d) + BuyLock(orders, cancelled, A, d)
  <2> DEFINE new == Cancel(orders, cancelled)
  <2>1. buys' = new
    BY <1>3
  <2>2. /\ new \in Seq(BuyOrder) /\ DOMAIN new = DOMAIN orders
        /\ SumOf(Amounts(orders), cancelled) \in Nat
        /\ SumOf(Amounts(orders), Live(orders))
             = SumOf(Amounts(new), Live(new)) + SumOf(Amounts(orders), cancelled)
        /\ \A A : \A d \in Denom :
             BuyLock(orders, Live(orders), A, d)
               = BuyLock(new, Live(new), A, d) + BuyLock(orders, cancelled, A, d)
    BY <1>6, <1>7, CancelBuys
  <2> HIDE DEF new
  <2> QED
    BY <2>1, <2>2
<1>10. /\ funds' \in [Account -> CoinSet]
       /\ \A A \in SUBSET Account : \A d \in Denom :
            Held(funds', A, d) = Held(left, A, d) + BuyLock(orders, cancelled, A, d)
  BY <1>3, <1>6, <1>7, <1>8, RefundHeld
<1>11. LiveBuys' = Live(buys') /\ PendingBuys' = Live(buys')
       /\ PendingSells' = PendingSells /\ PendingSwaps' = PendingSwaps
  BY <1>3 DEF LiveBuys, Live, PendingBuys, PendingSells, PendingSwaps, loopVars
<1>12. SumOf(Amounts(buys'), Live(buys')) \in Nat
  <2>1. Live(buys') \in SUBSET DOMAIN buys'
    BY DEF Live
  <2>2. IsFiniteSet(Live(buys')) /\ \A i \in Live(buys') : Amounts(buys')[i] \in Nat
    BY <1>9, <2>1, OrdersFinite, BuyOrderType
  <2> QED
    BY <2>2, SumType
<1>13. remaining = SumOf(Amounts(buys'), Live(buys')) /\ remaining \in Nat
  BY <1>1, <1>4, <1>6, <1>9, <1>12
<1> HIDE DEF remaining
<1>14. buyPrices' \in CoinSet /\ sellPrices' \in CoinSet
  BY <1>3, <1>4, <1>13, BatchPrices
<1>15. ASSUME NEW A, NEW d \in Denom
       PROVE  /\ BuysOf(A, d)' = BuyLock(buys', Live(buys'), A, d)
              /\ SwapsOf(A, d)' = SwapsOf(A, d)
              /\ BuysOf(A, d) + Part(buyer, A, maxPrices[d])
                   = BuysOf(A, d)' + BuyLock(orders, cancelled, A, d)
              /\ BuysOf(A, d)' \in Nat /\ BuyLock(orders, cancelled, A, d) \in Nat
              /\ BuysOf(A, d) \in Nat /\ Part(buyer, A, maxPrices[d]) \in Nat
              /\ SwapsOf(A, d) \in Nat
  <2>1. BuysOf(A, d)' = BuyLock(buys', Live(buys'), A, d)
    BY <1>11 DEF BuysOf
  <2>2. SwapsOf(A, d)' = SwapsOf(A, d)
    BY <1>3, <1>11 DEF SwapsOf
  <2>3. BuysOf(A, d) + Part(buyer, A, maxPrices[d])
          = BuysOf(A, d)' + BuyLock(orders, cancelled, A, d)
    BY <1>6, <1>9, <2>1
  <2>4. Live(buys') \in SUBSET DOMAIN buys'
    BY DEF Live
  <2>5. BuysOf(A, d)' \in Nat
    BY <1>9, <2>1, <2>4, BuyLockType
  <2>6. BuyLock(orders, cancelled, A, d) \in Nat
    BY <1>6, <1>7, BuyLockType
  <2>7. BuysOf(A, d) \in Nat /\ SwapsOf(A, d) \in Nat
    BY PendingType, BuyLockType, SwapLockType DEF BuysOf, SwapsOf, BooksInv
  <2>8. Part(buyer, A, maxPrices[d]) \in Nat
    BY <1>1, CoinsType DEF Part
  <2> QED
    BY <2>1, <2>2, <2>3, <2>5, <2>6, <2>7, <2>8
<1>16. ASSUME NEW d \in Denom
       PROVE  /\ intermediary'[d] = BuysOf(Account, d)' + SwapsOf(Account, d)'
              /\ intermediary'[d] \in Nat
              /\ intermediary'[d] = (intermediary[d] + maxPrices[d]) - BuyLock(orders, cancelled, Account, d)
              /\ intermediary[d] \in Nat /\ maxPrices[d] \in Nat
  <2>1. LockedByBuys(orders, cancelled)[d] = BuyLock(orders, cancelled, Account, d)
    BY <1>6, <1>7, LockedOfBuys
  <2>2. intermediary'[d] = (intermediary[d] + maxPrices[d]) - LockedByBuys(orders, cancelled)[d]
    BY <1>3 DEF Sub, Add
  <2>3. intermediary[d] = BuysOf(Account, d) + SwapsOf(Account, d)
    BY DEF BooksInv, LocksAgree
  <2>4. Part(buyer, Account, maxPrices[d]) = maxPrices[d] /\ maxPrices[d] \in Nat
        /\ intermediary[d] \in Nat
    BY <1>1, <1>4, CoinsType DEF Part
  <2> QED
    BY <1>15, <2>1, <2>2, <2>3, <2>4
<1>17. intermediary' \in CoinSet
  <2>1. intermediary' = [d \in Denom |-> intermediary'[d]]
    BY <1>3 DEF Sub
  <2>2. \A d \in Denom : intermediary'[d] \in Nat
    BY <1>16
  <2> QED
    BY <2>1, <2>2 DEF CoinSet
<1>18. TypeOK'
  BY <1>3, <1>9, <1>10, <1>13, <1>14, <1>17 DEF BooksInv, TypeOK, bondVars, loopVars
<1>19. BatchTotals' /\ BatchRuns' /\ SwapsExchange'
  BY <1>3, <1>11, <1>13 DEF BooksInv, BatchTotals, BatchRuns, SwapsExchange, bondVars, loopVars
<1>20. SupplyAgrees'
  BY <1>3, <1>11 DEF BooksInv, SupplyAgrees, bondVars
<1>21. LocksAgree'
  BY <1>16 DEF LocksAgree
<1>22. ASSUME NEW A \in SUBSET Account, NEW d \in Denom
       PROVE  /\ Held(funds', A, d) + Part(buyer, A, maxPrices[d])
                   = Held(funds, A, d) + BuyLock(orders, cancelled, A, d)
              /\ Held(funds', A, d) \in Nat /\ Held(funds, A, d) \in Nat
  <2>1. /\ Held(funds', A, d) \in Nat /\ Held(funds, A, d) \in Nat /\ Held(left, A, d) \in Nat
    BY <1>4, <1>8, <1>10, HeldType
  <2> QED
    BY <1>8, <1>10, <1>15, <2>1
<1>23. CoinsAgree'
  <2> SUFFICES ASSUME NEW d \in Denom
               PROVE  Held(funds', Account, d) + (intermediary'[d] + reserveAccount'[d])
                        = Held(InitialFunds, Account, d)
    BY DEF CoinsAgree
  <2>1. Part(buyer, Account, maxPrices[d]) = maxPrices[d]
    BY DEF Part
  <2>2. Held(funds, Account, d) + (intermediary[d] + reserveAccount[d])
          = Held(InitialFunds, Account, d) /\ reserveAccount[d] \in Nat
    BY CoinsType DEF BooksInv, CoinsAgree, TypeOK
  <2>3. Held(funds', Account, d) + maxPrices[d]
          = Held(funds, Account, d) + BuyLock(orders, cancelled, Account, d)
        /\ Held(funds', Account, d) \in Nat /\ Held(funds, Account, d) \in Nat
    BY <1>22, <2>1
  <2> QED
    BY <1>3, <1>15, <1>16, <2>2, <2>3
<1>24. \A a \in Account : PaidFor(a)
  <2>1. ASSUME NEW a \in Account, NEW d \in Denom
        PROVE  Owned({a}, d)' >= Owned({a}, d)
    <3>1. Owned({a}, d)' = Held(funds', {a}, d) + (BuysOf({a}, d)' + SwapsOf({a}, d)')
      BY DEF Owned
    <3>2. Owned({a}, d) = Held(funds, {a}, d) + (BuysOf({a}, d) + SwapsOf({a}, d))
      BY DEF Owned
    <3> QED
      BY <1>15, <1>22, <3>1, <3>2
  <2> QED
    BY <2>1 DEF PaidFor
<1>25. (reserveAccount = currentReserve)'
  BY <1>3 DEF BooksInv, bondVars
<1> QED
  BY <1>18, <1>19, <1>20, <1>21, <1>23, <1>24, <1>25 DEF BooksInv

LEMMA SellBooks ==
  ASSUME BooksInv, NEW seller \in Account, NEW amount \in OrderAmount, Sell(seller, amount)
  PROVE  BooksInv' /\ \A a \in Account : PaidFor(a)
<1> DEFINE order == [account |-> seller, amount |-> amount]
           sell  == totalSell + amount
<1>1. amount \in Nat \ {0}
  BY SwapperAssumption
<1>2. order \in SellOrder /\ order.amount = amount
  BY <1>1 DEF SellOrder
<1>3. /\ phase = "DeliverTx" /\ bondState = "OPEN" /\ amount <= tokens[seller]
      /\ sell <= currentSupply /\ Burn(seller, amount)
      /\ sells' = Append(sells, order) /\ totalSell' = sell
      /\ buyPrices' = BatchBuyPrices(totalBuy, sell)
      /\ sellPrices' = BatchSellPrices(totalBuy, sell)
      /\ UNCHANGED <<bondVars, blocksRemaining, totalBuy, buys, swaps, funds,
                     intermediary, reserveAccount, loopVars>>
  BY DEF Sell, DeliverTx
<1>4. /\ totalBuy \in Nat /\ totalSell \in Nat /\ tokens \in [Account -> Nat]
      /\ currentSupply \in Nat /\ currentReserve \in CoinSet /\ sells \in Seq(SellOrder)
  BY DEF BooksInv, TypeOK
<1>5. sell \in Nat /\ currentSupply \in Nat \ {0}
  BY <1>1, <1>3, <1>4
<1>6. /\ sells' \in Seq(SellOrder)
      /\ SumOf(Amounts(sells'), DOMAIN sells') = SumOf(Amounts(sells), DOMAIN sells) + amount
  BY <1>2, <1>3, <1>4, AppendSell
<1>7. /\ tokens' \in [Account -> Nat]
      /\ SumOf(tokens, Account) = SumOf(tokens', Account) + amount
  BY <1>1, <1>3, <1>4, TokensChange
<1>8. buyPrices' \in CoinSet /\ sellPrices' \in CoinSet
  BY <1>3, <1>4, <1>5, BatchPrices
<1>9. LiveBuys' = LiveBuys /\ PendingBuys' = PendingBuys /\ PendingSwaps' = PendingSwaps
      /\ PendingSells' = DOMAIN sells'
  BY <1>3 DEF LiveBuys, PendingBuys, PendingSells, PendingSwaps, loopVars
<1>10. TypeOK'
  BY <1>3, <1>5, <1>6, <1>7, <1>8 DEF BooksInv, TypeOK, bondVars, loopVars
<1>11. SumOf(Amounts(sells), DOMAIN sells) = totalSell
  BY DEF BooksInv, BatchTotals
<1>12. BatchTotals' /\ BatchRuns' /\ SwapsExchange'
  BY <1>3, <1>6, <1>9, <1>11
  DEF BooksInv, BatchTotals, BatchRuns, SwapsExchange, bondVars, loopVars
<1>13. SupplyAgrees'
  <2>1. SumOf(tokens', Account) \in Nat
    BY <1>7, SumType, SwapperAssumption
  <2>2. SumOf(tokens, Account) + totalSell = currentSupply
    BY <1>3, OpenBooks
  <2>3. SumOf(Amounts(sells'), PendingSells') = totalSell + amount
    BY <1>6, <1>9, <1>11
  <2> QED
    BY <1>1, <1>3, <1>4, <1>7, <2>1, <2>2, <2>3 DEF SupplyAgrees, bondVars
<1>14. \A A : \A d : BuysOf(A, d)' = BuysOf(A, d) /\ SwapsOf(A, d)' = SwapsOf(A, d)
  BY <1>3, <1>9 DEF BuysOf, SwapsOf
<1>15. LocksAgree' /\ CoinsAgree' /\ (reserveAccount = currentReserve)'
  BY <1>3, <1>14 DEF BooksInv, LocksAgree, CoinsAgree, bondVars
<1>16. \A a \in Account : \A d \in Denom : Owned({a}, d)' = Owned({a}, d)
  BY <1>3, <1>14 DEF Owned
<1>17. \A a \in Account : \A d \in Denom : Owned({a}, d) \in Nat
  BY OwnedType DEF BooksInv
<1>18. \A a \in Account : PaidFor(a)
  BY <1>16, <1>17 DEF PaidFor
<1> QED
  BY <1>10, <1>12, <1>13, <1>15, <1>18 DEF BooksInv

LEMMA SwapBooks ==
  ASSUME BooksInv, NEW swapper \in Account, NEW from \in Denom, NEW to \in Denom,
         NEW amount \in SwapAmount, Swap(swapper, from, to, amount)
  PROVE  BooksInv' /\ \A a \in Account : PaidFor(a)
<1> DEFINE order == [account |-> swapper, from |-> from, to |-> to,
                     amount |-> amount, cancelled |-> FALSE]
           coins == Single(from, amount)
<1>1. amount \in Nat \ {0} /\ coins \in CoinSet
      /\ \A d \in Denom : coins[d] \in Nat /\ coins[d] = IF d = from THEN amount ELSE 0
  <2>1. amount \in Nat \ {0}
    BY SwapperAssumption
  <2> QED
    BY <2>1, SingleType
<1>2. order \in SwapOrder /\ order.account = swapper /\ order.from = from
      /\ order.to = to /\ order.amount = amount
  BY <1>1 DEF SwapOrder
<1>3. /\ phase = "DeliverTx" /\ bondState = "OPEN" /\ from # to
      /\ amount <= funds[swapper][from]
      /\ funds' = Take(funds, swapper, coins) /\ intermediary' = Add(intermediary, coins)
      /\ swaps' = Append(swaps, order)
      /\ UNCHANGED <<bondVars, blocksRemaining, totalBuy, totalSell, buyPrices, sellPrices,
                     buys, sells, tokens, reserveAccount, loopVars>>
  BY DEF Swap, DeliverTx
<1>4. /\ intermediary \in CoinSet /\ swaps \in Seq(SwapOrder) /\ funds \in [Account -> CoinSet]
  BY DEF BooksInv, TypeOK
<1>5. Covers(funds[swapper], coins)
  <2>1. \A d \in Denom : funds[swapper][d] \in Nat
    BY <1>4, CoinsType
  <2> HIDE DEF coins
  <2> QED
    BY <1>1, <1>3, <2>1 DEF Covers
<1>6. /\ swaps' \in Seq(SwapOrder)
      /\ \A A : \A d \in Denom :
           SwapLock(swaps', DOMAIN swaps', A, d)
             = SwapLock(swaps, DOMAIN swaps, A, d) + Part(swapper, A, coins[d])
  <2>1. coins = Single(order.from, order.amount)
    OBVIOUS
  <2> HIDE DEF order, coins
  <2> DEFINE new == Append(swaps, order)
  <2>2. /\ new \in Seq(SwapOrder)
        /\ \A A : \A d \in Denom :
             SwapLock(new, DOMAIN new, A, d)
               = SwapLock(swaps, DOMAIN swaps, A, d)
                   + Part(order.account, A, Single(order.from, order.amount)[d])
    BY <1>2, <1>4, AppendSwap
  <2>3. order.account = swapper /\ swaps' = new
    BY <1>2, <1>3
  <2> HIDE DEF new
  <2> QED
    BY <2>1, <2>2, <2>3
<1>7. SwapsExchange'
  <2>1. DOMAIN swaps' = DOMAIN swaps \cup {Len(swaps) + 1}
        /\ swaps'[Len(swaps) + 1] = order /\ \A i \in DOMAIN swaps : swaps'[i] = swaps[i]
    BY <1>3, <1>4
  <2> QED
    BY <1>2, <1>3, <2>1 DEF BooksInv, SwapsExchange
<1> HIDE DEF order, coins
<1>8. /\ funds' \in [Account -> CoinSet]
      /\ \A A \in SUBSET Account : \A d \in Denom :
           Held(funds, A, d) = Held(funds', A, d) + Part(swapper, A, coins[d])
  BY <1>1, <1>3, <1>4, <1>5, TakeHeld
<1>9. /\ LiveBuys' = LiveBuys /\ PendingBuys' = PendingBuys /\ PendingSells' = PendingSells
      /\ PendingSwaps' = DOMAIN swaps' /\ PendingSwaps = DOMAIN swaps
  BY <1>3 DEF LiveBuys, PendingBuys, PendingSells, PendingSwaps, loopVars
<1>10. intermediary' \in CoinSet
       /\ \A d \in Denom : intermediary'[d] = intermediary[d] + coins[d]
  BY <1>1, <1>3, <1>4, CoinsType
<1>11. TypeOK'
  BY <1>3, <1>6, <1>8, <1>10 DEF BooksInv, TypeOK, bondVars, loopVars
<1>12. BatchTotals' /\ BatchRuns'
  BY <1>3, <1>9 DEF BooksInv, BatchTotals, BatchRuns, bondVars, loopVars
<1>13. SupplyAgrees' /\ (reserveAccount = currentReserve)'
  BY <1>3, <1>9 DEF BooksInv, SupplyAgrees, bondVars
<1>14. ASSUME NEW A, NEW d \in Denom
       PROVE  /\ BuysOf(A, d)' = BuysOf(A, d)
              /\ SwapsOf(A, d)' = SwapsOf(A, d) + Part(swapper, A, coins[d])
              /\ BuysOf(A, d) \in Nat /\ SwapsOf(A, d) \in Nat
              /\ Part(swapper, A, coins[d]) \in Nat
  <2>1. BuysOf(A, d)' = BuysOf(A, d)
    BY <1>3, <1>9 DEF BuysOf
  <2>2. SwapsOf(A, d)' = SwapsOf(A, d) + Part(swapper, A, coins[d])
    BY <1>6, <1>9 DEF SwapsOf
  <2>3. BuysOf(A, d) \in Nat /\ SwapsOf(A, d) \in Nat
    BY PendingType, BuyLockType, SwapLockType DEF BuysOf, SwapsOf, BooksInv
  <2>4. Part(swapper, A, coins[d]) \in Nat
    BY <1>1, CoinsType DEF Part
  <2> QED
    BY <2>1, <2>2, <2>3, <2>4
<1>15. ASSUME NEW d \in Denom
       PROVE  /\ Part(swapper, Account, coins[d]) = coins[d]
              /\ coins[d] \in Nat /\ intermediary[d] \in Nat
              /\ intermediary[d] = BuysOf(Account, d) + SwapsOf(Account, d)
  BY <1>1, <1>4, CoinsType DEF Part, BooksInv, LocksAgree
<1>16. LocksAgree'
  <2> SUFFICES ASSUME NEW d \in Denom
               PROVE  intermediary'[d] = BuysOf(Account, d)' + SwapsOf(Account, d)'
    BY DEF LocksAgree
  <2> QED
    BY <1>10, <1>14, <1>15
<1>17. CoinsAgree'
  <2> SUFFICES ASSUME NEW d \in Denom
               PROVE  Held(funds', Account, d) + (intermediary'[d] + reserveAccount'[d])
                        = Held(InitialFunds, Account, d)
    BY DEF CoinsAgree
  <2>1. Held(funds, Account, d) = Held(funds', Account, d) + coins[d]
    BY <1>8, <1>15
  <2>2. Held(funds, Account, d) + (intermediary[d] + reserveAccount[d])
          = Held(InitialFunds, Account, d) /\ reserveAccount[d] \in Nat
    BY CoinsType DEF BooksInv, CoinsAgree, TypeOK
  <2>3. Held(funds', Account, d) \in Nat
    BY <1>8, HeldType
  <2> QED
    BY <1>3, <1>10, <1>15, <2>1, <2>2, <2>3
<1>18. \A a \in Account : PaidFor(a)
  <2>1. ASSUME NEW a \in Account, NEW d \in Denom
        PROVE  Owned({a}, d)' >= Owned({a}, d)
    <3>1. Owned({a}, d)' = Held(funds', {a}, d) + (BuysOf({a}, d)' + SwapsOf({a}, d)')
      BY DEF Owned
    <3>2. Owned({a}, d) = Held(funds, {a}, d) + (BuysOf({a}, d) + SwapsOf({a}, d))
      BY DEF Owned
    <3>3. Held(funds', {a}, d) \in Nat
      BY <1>8, HeldType
    <3>4. Held(funds, {a}, d) = Held(funds', {a}, d) + Part(swapper, {a}, coins[d])
      BY <1>8
    <3> QED
      BY <1>14, <3>1, <3>2, <3>3, <3>4
  <2> QED
    BY <2>1 DEF PaidFor
<1> QED
  BY <1>7, <1>11, <1>12, <1>13, <1>16, <1>17, <1>18 DEF BooksInv

LEMMA OutcomePaymentBooks ==
  ASSUME BooksInv, NEW sender \in Account, MakeOutcomePayment(sender)
  PROVE  BooksInv' /\ bondState' # bondState
<1>1. /\ phase = "DeliverTx" /\ bondState = "OPEN" /\ Covers(funds[sender], OutcomePayment)
      /\ funds' = Take(funds, sender, OutcomePayment)
      /\ DepositReserve(OutcomePayment) /\ bondState' = "SETTLE"
      /\ UNCHANGED <<allowSells, orderLimits, sanity, currentSupply, batchVars, tokens,
                     intermediary, loopVars>>
  BY DEF MakeOutcomePayment, DeliverTx
<1>2. OutcomePayment \in CoinSet
  BY SwapperAssumption
<1>3. /\ funds \in [Account -> CoinSet] /\ intermediary \in CoinSet
      /\ currentReserve \in CoinSet /\ reserveAccount \in CoinSet
      /\ reserveAccount = currentReserve
  BY DEF BooksInv, TypeOK
<1>4. /\ funds' \in [Account -> CoinSet]
      /\ \A A \in SUBSET Account : \A d \in Denom :
           Held(funds, A, d) = Held(funds', A, d) + Part(sender, A, OutcomePayment[d])
  BY <1>1, <1>2, <1>3, TakeHeld
<1>5. /\ currentReserve' \in CoinSet /\ reserveAccount' = currentReserve'
      /\ \A d \in Denom : reserveAccount'[d] = reserveAccount[d] + OutcomePayment[d]
  BY <1>1, <1>2, <1>3, CoinsType DEF DepositReserve
<1>6. TypeOK'
  BY <1>1, <1>4, <1>5 DEF BooksInv, TypeOK, batchVars, loopVars
<1>7. /\ PendingSells' = PendingSells
      /\ BatchTotals' /\ BatchRuns' /\ SwapsExchange'
      /\ \A A : \A d : BuysOf(A, d)' = BuysOf(A, d) /\ SwapsOf(A, d)' = SwapsOf(A, d)
  BY <1>1, SameOrders DEF batchVars, loopVars
<1>8. SupplyAgrees' /\ LocksAgree'
  BY <1>1, <1>7 DEF BooksInv, SupplyAgrees, LocksAgree, batchVars
<1>9. CoinsAgree'
  <2> SUFFICES ASSUME NEW d \in Denom
               PROVE  Held(funds', Account, d) + (intermediary'[d] + reserveAccount'[d])
                        = Held(InitialFunds, Account, d)
    BY DEF CoinsAgree
  <2>1. Held(funds, Account, d) = Held(funds', Account, d) + OutcomePayment[d]
    BY <1>4 DEF Part
  <2>2. /\ Held(funds', Account, d) \in Nat /\ OutcomePayment[d] \in Nat
        /\ intermediary[d] \in Nat /\ reserveAccount[d] \in Nat
    BY <1>2, <1>3, <1>4, HeldType DEF CoinSet
  <2>3. Held(funds, Account, d) + (intermediary[d] + reserveAccount[d])
          = Held(InitialFunds, Account, d)
    BY DEF BooksInv, CoinsAgree
  <2> QED
    BY <1>1, <1>5, <2>1, <2>2, <2>3
<1> QED
  BY <1>1, <1>5, <1>6, <1>7, <1>8, <1>9 DEF BooksInv

LEMMA WithdrawShareBooks ==
  ASSUME BooksInv, NEW recipient \in Account, WithdrawShare(recipient)
  PROVE  BooksInv' /\ \A a \in Account : PaidFor(a)
<1> DEFINE owned == tokens[recipient]
           share == QuoInt(ToDec(owned), currentSupply)
           owed  == [d \in Denom |-> TruncateInt(Mul(ToDec(currentReserve[d]), share))]
<1>1. /\ phase = "DeliverTx" /\ bondState = "SETTLE" /\ owned # 0
      /\ CanWithdraw(owed) /\ owned <= currentSupply /\ Burn(recipient, owned)
      /\ funds' = Move(funds, recipient, owed) /\ WithdrawReserve(owed)
      /\ currentSupply' = currentSupply - owned
      /\ UNCHANGED <<bondState, allowSells, orderLimits, sanity, batchVars,
                     intermediary, loopVars>>
  BY DEF WithdrawShare, DeliverTx
<1>2. /\ funds \in [Account -> CoinSet] /\ tokens \in [Account -> Nat]
      /\ intermediary \in CoinSet /\ currentSupply \in Nat
      /\ currentReserve \in CoinSet /\ reserveAccount \in CoinSet
      /\ reserveAccount = currentReserve
  BY DEF BooksInv, TypeOK
<1>3. owned \in Nat \ {0} /\ currentSupply \in Nat \ {0}
  BY <1>1, <1>2
<1>4. owed \in CoinSet
  <2>1. share \in Nat
    BY <1>3, ToDecType, Division DEF QuoInt
  <2>2. \A d \in Denom : ToDec(currentReserve[d]) \in Nat
    BY <1>2, ToDecType DEF CoinSet
  <2> HIDE DEF share
  <2>3. \A d \in Denom : TruncateInt(Mul(ToDec(currentReserve[d]), share)) \in Nat
    BY <2>1, <2>2, MulType, CeilType
  <2> QED
    BY <2>3 DEF CoinSet
<1> HIDE DEF owned, owed
<1>5. /\ funds' \in [Account -> CoinSet]
      /\ \A A \in SUBSET Account : \A d \in Denom :
           Held(funds', A, d) = Held(funds, A, d) + Part(recipient, A, owed[d])
  BY <1>1, <1>2, <1>4, MoveHeld
<1>6. /\ tokens' \in [Account -> Nat]
      /\ SumOf(tokens, Account) = SumOf(tokens', Account) + owned
  <2>1. owned \in Nat /\ owned <= tokens[recipient]
    BY <1>2, <1>3 DEF owned
  <2> QED
    BY <1>1, <1>2, <2>1, TokensChange
<1>7. /\ currentReserve' \in CoinSet /\ reserveAccount' = currentReserve'
      /\ \A d \in Denom : /\ reserveAccount'[d] = reserveAccount[d] - owed[d]
                          /\ reserveAccount[d] \in Nat /\ owed[d] \in Nat
  BY <1>1, <1>2, <1>4, CoinsType DEF WithdrawReserve, CanWithdraw
<1>8. currentSupply' \in Nat
  BY <1>1, <1>3
<1>9. TypeOK'
  BY <1>1, <1>5, <1>6, <1>7, <1>8 DEF BooksInv, TypeOK, batchVars, loopVars
<1>10. /\ PendingSells' = PendingSells
       /\ BatchTotals' /\ BatchRuns' /\ SwapsExchange'
       /\ \A A : \A d : BuysOf(A, d)' = BuysOf(A, d) /\ SwapsOf(A, d)' = SwapsOf(A, d)
  BY <1>1, SameOrders DEF batchVars, loopVars
<1>11. SupplyAgrees'
  <2>1. SumOf(Amounts(sells), PendingSells) = totalSell /\ totalSell \in Nat
    BY <1>1, OpenBooks DEF BooksInv, BatchTotals, TypeOK
  <2>2. SumOf(tokens, Account) + totalSell = currentSupply
    BY <1>1, OpenBooks
  <2>3. SumOf(tokens', Account) \in Nat
    BY <1>6, SumType, SwapperAssumption
  <2>4. SumOf(Amounts(sells'), PendingSells') = totalSell
    BY <1>1, <1>10, <2>1 DEF batchVars
  <2>5. SumOf(tokens', Account) + totalSell = currentSupply'
    BY <1>1, <1>2, <1>3, <1>6, <2>1, <2>2, <2>3
  <2> QED
    BY <2>4, <2>5 DEF SupplyAgrees
<1>12. LocksAgree'
  BY <1>1, <1>10 DEF BooksInv, LocksAgree
<1>13. CoinsAgree'
  <2> SUFFICES ASSUME NEW d \in Denom
               PROVE  Held(funds', Account, d) + (intermediary'[d] + reserveAccount'[d])
                        = Held(InitialFunds, Account, d)
    BY DEF CoinsAgree
  <2>1. Held(funds', Account, d) = Held(funds, Account, d) + owed[d]
    BY <1>5 DEF Part
  <2>2. /\ Held(funds, Account, d) \in Nat /\ intermediary[d] \in Nat
    BY <1>2, HeldType DEF CoinSet
  <2>3. Held(funds, Account, d) + (intermediary[d] + reserveAccount[d])
          = Held(InitialFunds, Account, d)
    BY DEF BooksInv, CoinsAgree
  <2> QED
    BY <1>1, <1>7, <2>1, <2>2, <2>3
<1>14. \A a \in Account : PaidFor(a)
  <2>1. ASSUME NEW a \in Account, NEW d \in Denom
        PROVE  \E n \in Nat : Owned({a}, d)' = Owned({a}, d) + n
    <3>1. Part(recipient, {a}, owed[d]) \in Nat
      BY <1>7 DEF Part
    <3>2. Held(funds', {a}, d) = Held(funds, {a}, d) + Part(recipient, {a}, owed[d])
      BY <1>5
    <3>3. /\ BuysOf({a}, d) \in Nat /\ SwapsOf({a}, d) \in Nat /\ Held(funds, {a}, d) \in Nat
      BY OwnedType DEF BooksInv
    <3>4. Owned({a}, d)' = Owned({a}, d) + Part(recipient, {a}, owed[d])
      BY <1>10, <3>1, <3>2, <3>3 DEF Owned
    <3> QED
      BY <3>1, <3>4
  <2> QED
    BY <2>1, NobodyPaid
<1> QED
  BY <1>7, <1>9, <1>10, <1>11, <1>12, <1>13, <1>14 DEF BooksInv

-----------------------------------------------------------------------------
(***************************************************************************)
(* EndBlocker keeps the books                                              *)
(***************************************************************************)
\* Where the batch is as it was and no coin or token has moved, the books agree.
LEMMA NothingMoved ==
  ASSUME BooksInv, TypeOK', UNCHANGED <<bondVars, bankVars, buys, sells, swaps,
                                        totalBuy, totalSell>>,
         phase' = "DeliverTx" => blocksRemaining' # 0,
         PendingBuys' = PendingBuys, PendingSells' = PendingSells,
         PendingSwaps' = PendingSwaps
  PROVE  BooksInv' /\ \A a \in Account : PaidFor(a)
<1>1. BatchTotals' /\ BatchRuns' /\ SwapsExchange'
  BY DEF BooksInv, BatchTotals, BatchRuns, SwapsExchange, LiveBuys, bondVars
<1>2. \A A : \A d : BuysOf(A, d)' = BuysOf(A, d) /\ SwapsOf(A, d)' = SwapsOf(A, d)
  BY DEF BuysOf, SwapsOf
<1>3. SupplyAgrees' /\ LocksAgree' /\ CoinsAgree' /\ (reserveAccount = currentReserve)'
  BY <1>2 DEF BooksInv, SupplyAgrees, LocksAgree, CoinsAgree, bondVars, bankVars
<1>4. \A a \in Account : \A d \in Denom : Owned({a}, d)' = Owned({a}, d)
  BY <1>2 DEF Owned, bankVars
<1>5. \A a \in Account : \A d \in Denom : Owned({a}, d) \in Nat
  BY OwnedType DEF BooksInv
<1>6. \A a \in Account : PaidFor(a)
  BY <1>4, <1>5 DEF PaidFor
<1> QED
  BY <1>1, <1>3, <1>6 DEF BooksInv

LEMMA EndBlockBooks ==
  ASSUME BooksInv, EndBlock
  PROVE  BooksInv' /\ \A a \in Account : PaidFor(a)
<1>1. /\ phase = "DeliverTx" /\ height < MaxHeight /\ height' = height + 1
      /\ blocksRemaining' = blocksRemaining - 1
      /\ phase' = IF blocksRemaining' = 0 THEN "Buys" ELSE "DeliverTx"
      /\ next' = 1
      /\ UNCHANGED <<bondVars, totalBuy, totalSell, buyPrices, sellPrices, buys, sells,
                     swaps, bankVars, halted>>
  BY DEF EndBlock, DeliverTx
<1>2. blocksRemaining \in 1 .. BatchBlocks /\ BatchBlocks \in Nat /\ MaxHeight \in Nat
      /\ height \in 0 .. MaxHeight
  BY <1>1, SwapperAssumption DEF BooksInv, TypeOK, BatchRuns
<1>3. blocksRemaining' \in 0 .. BatchBlocks /\ height' \in 0 .. MaxHeight
  BY <1>1, <1>2
<1>4. phase' \in {"DeliverTx", "Buys"} /\ (phase' = "DeliverTx" => blocksRemaining' # 0)
  BY <1>1
<1>5. TypeOK'
  BY <1>1, <1>3, <1>4 DEF BooksInv, TypeOK, bondVars, bankVars
<1>6. /\ \A i \in DOMAIN buys : i >= 1
      /\ \A i \in DOMAIN sells : i >= 1
      /\ \A i \in DOMAIN swaps : i >= 1
  BY DEF BooksInv, TypeOK
<1>7. LiveBuys' = LiveBuys /\ LiveBuys \in SUBSET DOMAIN buys
  BY <1>1 DEF LiveBuys
<1>8. PendingBuys' = PendingBuys /\ PendingSells' = PendingSells /\ PendingSwaps' = PendingSwaps
  BY <1>1, <1>4, <1>6, <1>7 DEF PendingBuys, PendingSells, PendingSwaps
<1> QED
  BY <1>1, <1>4, <1>5, <1>8, NothingMoved

\* No order of a loop is pending once the loop has passed the last one.
LEMMA LoopDone ==
  ASSUME TypeOK
  PROVE  /\ phase = "Buys" /\ next \notin DOMAIN buys => PendingBuys = {}
         /\ phase = "Sells" /\ next \notin DOMAIN sells => PendingSells = {}
         /\ phase = "Swaps" /\ next \notin DOMAIN swaps => PendingSwaps = {}
<1>1. /\ DOMAIN buys = 1 .. Len(buys) /\ Len(buys) \in Nat
      /\ DOMAIN sells = 1 .. Len(sells) /\ Len(sells) \in Nat
      /\ DOMAIN swaps = 1 .. Len(swaps) /\ Len(swaps) \in Nat
      /\ next \in Nat \ {0}
  BY DEF TypeOK
<1>2. ASSUME NEW n \in Nat, next \notin 1 .. n PROVE \A i \in 1 .. n : ~(i >= next)
  BY <1>1, <1>2
<1>3. LiveBuys \in SUBSET DOMAIN buys
  BY DEF LiveBuys
<1>4. ASSUME phase = "Buys", next \notin DOMAIN buys PROVE PendingBuys = {}
  <2>1. \A i \in DOMAIN buys : ~(i >= next)
    BY <1>1, <1>2, <1>4
  <2> QED
    BY <1>3, <1>4, <2>1 DEF PendingBuys
<1>5. ASSUME phase = "Sells", next \notin DOMAIN sells PROVE PendingSells = {}
  <2>1. \A i \in DOMAIN sells : ~(i >= next)
    BY <1>1, <1>2, <1>5
  <2> QED
    BY <1>5, <2>1 DEF PendingSells
<1>6. ASSUME phase = "Swaps", next \notin DOMAIN swaps PROVE PendingSwaps = {}
  <2>1. \A i \in DOMAIN swaps : ~(i >= next)
    BY <1>1, <1>2, <1>6
  <2> QED
    BY <1>6, <2>1 DEF PendingSwaps
<1> QED
  BY <1>4, <1>5, <1>6

LEMMA FinishLoopBooks ==
  ASSUME BooksInv, FinishLoop
  PROVE  BooksInv' /\ \A a \in Account : PaidFor(a)
<1>1. /\ next' = 1 /\ UNCHANGED <<bondVars, batchVars, bankVars, height, halted>>
      /\ \/ phase = "Buys" /\ next \notin DOMAIN buys /\ phase' = "Sells"
         \/ phase = "Sells" /\ next \notin DOMAIN sells /\ phase' = "Swaps"
  BY DEF FinishLoop
<1>2. TypeOK'
  BY <1>1 DEF BooksInv, TypeOK, bondVars, bankVars, batchVars
<1>3. /\ \A i \in DOMAIN sells : i >= 1
      /\ \A i \in DOMAIN swaps : i >= 1
  BY DEF BooksInv, TypeOK
<1>4. LiveBuys' = LiveBuys
  BY <1>1 DEF LiveBuys, batchVars
<1>5. PendingBuys' = PendingBuys /\ PendingSells' = PendingSells /\ PendingSwaps' = PendingSwaps
  <2>1. CASE phase = "Buys" /\ next \notin DOMAIN buys /\ phase' = "Sells"
    <3>1. PendingBuys = {}
      BY <2>1, LoopDone DEF BooksInv
    <3> QED
      BY <1>1, <1>3, <1>4, <2>1, <3>1 DEF PendingBuys, PendingSells, PendingSwaps, batchVars
  <2>2. CASE phase = "Sells" /\ next \notin DOMAIN sells /\ phase' = "Swaps"
    <3>1. PendingSells = {}
      BY <2>2, LoopDone DEF BooksInv
    <3>2. PendingBuys = {}
      BY <2>2 DEF PendingBuys
    <3>3. PendingBuys' = {} /\ PendingSells' = {}
      BY <2>2 DEF PendingBuys, PendingSells
    <3>4. PendingSwaps' = DOMAIN swaps /\ PendingSwaps = DOMAIN swaps
      BY <1>1, <1>3, <2>2 DEF PendingSwaps, batchVars
    <3> QED
      BY <3>1, <3>2, <3>3, <3>4
  <2> QED
    BY <1>1, <2>1, <2>2
<1>6. phase' # "DeliverTx"
  BY <1>1
<1> QED
  BY <1>1, <1>2, <1>5, <1>6, NothingMoved DEF batchVars

LEMMA PanicBooks ==
  ASSUME BooksInv, Panic
  PROVE  BooksInv' /\ \A a \in Account : PaidFor(a)
<1>1. halted' = TRUE /\ UNCHANGED <<bondVars, batchVars, bankVars, height, phase, next>>
  BY DEF Panic
<1>2. TypeOK'
  BY <1>1 DEF BooksInv, TypeOK, bondVars, bankVars, batchVars
<1>3. PendingBuys' = PendingBuys /\ PendingSells' = PendingSells /\ PendingSwaps' = PendingSwaps
  BY <1>1 DEF PendingBuys, PendingSells, PendingSwaps, LiveBuys, batchVars
<1>4. phase' = "DeliverTx" => blocksRemaining' # 0
  BY <1>1 DEF BooksInv, BatchRuns, batchVars
<1> QED
  BY <1>1, <1>2, <1>3, <1>4, NothingMoved DEF batchVars

LEMMA SkipCancelledBuyBooks ==
  ASSUME BooksInv, SkipCancelledBuy
  PROVE  BooksInv' /\ \A a \in Account : PaidFor(a)
<1>1. /\ phase = "Buys" /\ next \in DOMAIN buys /\ next \notin LiveBuys
      /\ next' = next + 1 /\ UNCHANGED <<height, phase, halted>>
      /\ UNCHANGED <<bondVars, batchVars, bankVars>>
  BY DEF SkipCancelledBuy, NextOrder
<1>2. next \in Nat \ {0} /\ \A i \in DOMAIN buys : i \in Nat
  BY DEF BooksInv, TypeOK
<1>3. TypeOK'
  BY <1>1, <1>2 DEF BooksInv, TypeOK, bondVars, bankVars, batchVars
<1>4. LiveBuys' = LiveBuys /\ LiveBuys \in SUBSET DOMAIN buys
  BY <1>1 DEF LiveBuys, batchVars
<1>5. \A i \in LiveBuys : i >= next <=> i >= next + 1
  BY <1>1, <1>2, <1>4
<1>6. PendingBuys' = PendingBuys /\ PendingSells' = PendingSells /\ PendingSwaps' = PendingSwaps
  BY <1>1, <1>4, <1>5 DEF PendingBuys, PendingSells, PendingSwaps, batchVars
<1> QED
  BY <1>1, <1>3, <1>6, NothingMoved DEF batchVars

LEMMA FinishBatchBooks ==
  ASSUME BooksInv, FinishBatch
  PROVE  BooksInv' /\ \A a \in Account : PaidFor(a)
<1>1. /\ phase = "Swaps" /\ next \notin DOMAIN swaps /\ EmptyBatch
      /\ phase' = "DeliverTx" /\ next' = 1
      /\ UNCHANGED <<bondVars, bankVars, height, halted>>
  BY DEF FinishBatch
<1>2. BatchBlocks \in Nat \ {0}
  BY SwapperAssumption
<1>3. /\ buys' \in Seq(BuyOrder) /\ sells' \in Seq(SellOrder) /\ swaps' \in Seq(SwapOrder)
      /\ PendingSells' = {} /\ SumOf(Amounts(sells'), {}) = 0
      /\ \A A : \A d : BuysOf(A, d)' = 0 /\ SwapsOf(A, d)' = 0
      /\ BatchTotals' /\ SwapsExchange'
      /\ buys' = <<>> /\ sells' = <<>> /\ swaps' = <<>>
      /\ totalBuy' = 0 /\ totalSell' = 0 /\ buyPrices' \in CoinSet /\ sellPrices' \in CoinSet
      /\ blocksRemaining' = BatchBlocks
  BY <1>1, EmptyBatchBooks
<1>4. TypeOK'
  BY <1>1, <1>2, <1>3 DEF BooksInv, TypeOK, bondVars, bankVars
<1>5. BatchRuns'
  BY <1>1, <1>2, <1>3 DEF BatchRuns
<1>6. PendingBuys = {} /\ PendingSells = {} /\ PendingSwaps = {}
  <2>1. PendingSwaps = {}
    BY <1>1, LoopDone DEF BooksInv
  <2> QED
    BY <1>1, <2>1 DEF PendingBuys, PendingSells
<1>7. SumOf(Amounts(sells), {}) = 0
  BY SumEmpty
<1>8. SupplyAgrees'
  BY <1>1, <1>3, <1>6, <1>7 DEF BooksInv, SupplyAgrees, bankVars, bondVars
<1>9. \A A : \A d : BuysOf(A, d) = 0 /\ SwapsOf(A, d) = 0
  BY <1>6, NothingLocked
<1>10. LocksAgree'
  BY <1>1, <1>3, <1>9 DEF BooksInv, LocksAgree, bankVars
<1>11. CoinsAgree' /\ (reserveAccount = currentReserve)'
  BY <1>1 DEF BooksInv, CoinsAgree, bankVars, bondVars
<1>12. \A a \in Account : \A d \in Denom : Owned({a}, d)' = Owned({a}, d)
  BY <1>1, <1>3, <1>9 DEF Owned, bankVars
<1>13. \A a \in Account : \A d \in Denom : Owned({a}, d) \in Nat
  BY OwnedType DEF BooksInv
<1>14. \A a \in Account : PaidFor(a)
  BY <1>12, <1>13 DEF PaidFor
<1> QED
  BY <1>3, <1>4, <1>5, <1>8, <1>10, <1>11, <1>14 DEF BooksInv

\* The order a loop performs is pending, and the ones after it are what remains.
LEMMA LoopStep ==
  ASSUME TypeOK, NextOrder
  PROVE  /\ next' \in Nat \ {0}
         /\ phase = "Buys" /\ next \in LiveBuys /\ buys' = buys =>
              /\ next \in PendingBuys /\ PendingBuys' = PendingBuys \ {next}
              /\ UNCHANGED <<LiveBuys, sells, swaps>> =>
                   PendingSells' = PendingSells /\ PendingSwaps' = PendingSwaps
         /\ phase = "Sells" /\ next \in DOMAIN sells /\ sells' = sells =>
              /\ next \in PendingSells /\ PendingSells' = PendingSells \ {next}
              /\ UNCHANGED <<buys, swaps>> =>
                   PendingBuys' = PendingBuys /\ PendingSwaps' = PendingSwaps
         /\ phase = "Swaps" /\ next \in DOMAIN swaps /\ DOMAIN swaps' = DOMAIN swaps =>
              /\ next \in PendingSwaps /\ PendingSwaps' = PendingSwaps \ {next}
              /\ UNCHANGED <<buys, sells>> =>
                   PendingBuys' = PendingBuys /\ PendingSells' = PendingSells
<1>1. /\ next' = next + 1 /\ phase' = phase
      /\ next \in Nat \ {0}
      /\ DOMAIN buys = 1 .. Len(buys) /\ Len(buys) \in Nat
      /\ DOMAIN sells = 1 .. Len(sells) /\ Len(sells) \in Nat
      /\ DOMAIN swaps = 1 .. Len(swaps) /\ Len(swaps) \in Nat
  BY DEF NextOrder, TypeOK
<1>2. \A i \in Nat : i >= next + 1 <=> i >= next /\ i # next
  BY <1>1
<1>3. LiveBuys \in SUBSET DOMAIN buys /\ (buys' = buys => LiveBuys' = LiveBuys)
  BY DEF LiveBuys
<1>4. ASSUME phase = "Buys", next \in LiveBuys, buys' = buys
      PROVE  next \in PendingBuys /\ PendingBuys' = PendingBuys \ {next}
  <2>1. \A i \in LiveBuys : i >= next + 1 <=> i >= next /\ i # next
    BY <1>1, <1>2, <1>3
  <2>2. PendingBuys = {i \in LiveBuys : i >= next}
    BY <1>4 DEF PendingBuys
  <2>3. PendingBuys' = {i \in LiveBuys : i >= next + 1}
    BY <1>1, <1>3, <1>4 DEF PendingBuys
  <2>4. PendingBuys' = {i \in LiveBuys : i >= next /\ i # next}
    BY <2>1, <2>3
  <2>5. next \in PendingBuys
    BY <1>1, <1>4, <2>2
  <2> QED
    BY <2>2, <2>4, <2>5
<1>5. ASSUME phase = "Sells", next \in DOMAIN sells, sells' = sells
      PROVE  next \in PendingSells /\ PendingSells' = PendingSells \ {next}
  <2>1. \A i \in DOMAIN sells : i >= next + 1 <=> i >= next /\ i # next
    BY <1>1, <1>2
  <2>2. PendingSells = {i \in DOMAIN sells : i >= next}
    BY <1>5 DEF PendingSells
  <2>3. PendingSells' = {i \in DOMAIN sells : i >= next + 1}
    BY <1>1, <1>5 DEF PendingSells
  <2> QED
    BY <1>1, <1>5, <2>1, <2>2, <2>3
<1>6. ASSUME phase = "Swaps", next \in DOMAIN swaps, DOMAIN swaps' = DOMAIN swaps
      PROVE  next \in PendingSwaps /\ PendingSwaps' = PendingSwaps \ {next}
  <2>1. \A i \in DOMAIN swaps : i >= next + 1 <=> i >= next /\ i # next
    BY <1>1, <1>2
  <2>2. PendingSwaps = {i \in DOMAIN swaps : i >= next}
    BY <1>6 DEF PendingSwaps
  <2>3. PendingSwaps' = {i \in DOMAIN swaps : i >= next + 1}
    BY <1>1, <1>6 DEF PendingSwaps
  <2> QED
    BY <1>1, <1>6, <2>1, <2>2, <2>3
<1>7. ASSUME phase = "Buys", UNCHANGED <<sells, swaps>>
      PROVE  PendingSells' = PendingSells /\ PendingSwaps' = PendingSwaps
  BY <1>1, <1>7 DEF PendingSells, PendingSwaps
<1>8. ASSUME phase = "Sells", UNCHANGED <<buys, swaps>>
      PROVE  PendingBuys' = PendingBuys /\ PendingSwaps' = PendingSwaps
  BY <1>1, <1>3, <1>8 DEF PendingBuys, PendingSwaps
<1>9. ASSUME phase = "Swaps", UNCHANGED <<buys, sells>>
      PROVE  PendingBuys' = PendingBuys /\ PendingSells' = PendingSells
  BY <1>1, <1>3, <1>9 DEF PendingBuys, PendingSells
<1>10. next' \in Nat \ {0}
  BY <1>1
<1> QED
  BY <1>4, <1>5, <1>6, <1>7, <1>8, <1>9, <1>10

LEMMA PerformBuyBooks ==
  ASSUME BooksInv, PerformBuy
  PROVE  BooksInv' /\ \A a \in Account : PaidFor(a)
<1>1. PICK order \in {buys[i] : i \in LiveBuys} :
        /\ phase = "Buys" /\ next \in DOMAIN buys /\ order = buys[next]
        /\ CanPerformBuy(order)
        /\ Mint(order.account, order.amount)
        /\ intermediary' = Sub(intermediary, order.maxPrices)
        /\ DepositReserve(ReservePrices(order, buyPrices))
        /\ funds' = Move(Move(funds, FeeAddress, Sub(TotalPrices(order, buyPrices),
                                                     ReservePrices(order, buyPrices))),
                         order.account, Sub(order.maxPrices, TotalPrices(order, buyPrices)))
        /\ currentSupply' = currentSupply + order.amount
        /\ NextOrder
        /\ UNCHANGED <<bondState, allowSells, orderLimits, sanity, batchVars>>
  BY DEF PerformBuy, Performing
<1> DEFINE buyer   == order.account
           n       == order.amount
           max     == order.maxPrices
           total   == TotalPrices(order, buyPrices)
           reserve == ReservePrices(order, buyPrices)
           fee     == Sub(total, reserve)
           change  == Sub(max, total)
           mid     == Move(funds, FeeAddress, fee)
<1>2. /\ TypeOK /\ funds \in [Account -> CoinSet] /\ tokens \in [Account -> Nat]
      /\ intermediary \in CoinSet /\ currentSupply \in Nat /\ buyPrices \in CoinSet
      /\ currentReserve \in CoinSet /\ reserveAccount = currentReserve
      /\ buys \in Seq(BuyOrder) /\ FeeAddress \in Account
  BY SwapperAssumption DEF BooksInv, TypeOK
<1>3. buyer \in Account /\ n \in Nat /\ max \in CoinSet /\ next \in LiveBuys
  BY <1>1, <1>2, BuyOrderType DEF LiveBuys
<1>4. total \in CoinSet /\ reserve \in CoinSet /\ fee \in CoinSet
  BY <1>2, <1>3, OrderPrices
<1>5. Covers(max, total) /\ Covers(intermediary, max)
  BY <1>1 DEF CanPerformBuy, FulfillableAtPrice
<1>6. change \in CoinSet
  BY <1>3, <1>4, <1>5, CoinsType
<1>7. \A d \in Denom : /\ fee[d] = total[d] - reserve[d] /\ change[d] = max[d] - total[d]
                       /\ fee[d] \in Nat /\ change[d] \in Nat /\ total[d] \in Nat
                       /\ reserve[d] \in Nat /\ max[d] \in Nat
  BY <1>3, <1>4, <1>6, CoinsType
<1> HIDE DEF total, reserve, fee, change
<1>8. /\ mid \in [Account -> CoinSet]
      /\ \A A \in SUBSET Account : \A d \in Denom :
           Held(mid, A, d) = Held(funds, A, d) + Part(FeeAddress, A, fee[d])
  BY <1>2, <1>4, MoveHeld
<1>9. funds' = Move(mid, buyer, change)
  BY <1>1 DEF change, fee, total, reserve
<1> HIDE DEF mid
<1>10. /\ funds' \in [Account -> CoinSet]
       /\ \A A \in SUBSET Account : \A d \in Denom :
            Held(funds', A, d) = Held(mid, A, d) + Part(buyer, A, change[d])
  BY <1>3, <1>6, <1>8, <1>9, MoveHeld
<1>11. /\ tokens' \in [Account -> Nat] /\ tokens'[buyer] = tokens[buyer] + n
       /\ SumOf(tokens', Account) = SumOf(tokens, Account) + n
       /\ SumOf(tokens, Account) \in Nat
  BY <1>1, <1>2, <1>3, TokensChange
<1>12. /\ currentReserve' \in CoinSet /\ reserveAccount' = currentReserve'
       /\ \A d \in Denom : reserveAccount'[d] = reserveAccount[d] + reserve[d]
  <2>1. DepositReserve(reserve)
    BY <1>1 DEF reserve
  <2> QED
    BY <1>2, <1>4, <2>1, CoinsType DEF DepositReserve
<1>13. /\ intermediary' \in CoinSet
       /\ \A d \in Denom : intermediary'[d] = intermediary[d] - max[d]
  BY <1>1, <1>2, <1>3, <1>5, CoinsType
<1>14. /\ next' \in Nat \ {0} /\ UNCHANGED <<height, phase, halted>> /\ LiveBuys' = LiveBuys
       /\ next \in PendingBuys /\ PendingBuys' = PendingBuys \ {next}
       /\ PendingSells' = PendingSells /\ PendingSwaps' = PendingSwaps
  <2>1. NextOrder /\ UNCHANGED <<buys, sells, swaps, LiveBuys>>
    BY <1>1 DEF batchVars, LiveBuys
  <2>2. UNCHANGED <<height, phase, halted>>
    BY <1>1 DEF NextOrder
  <2> QED
    BY <1>1, <1>2, <1>3, <2>1, <2>2, LoopStep
<1>15. currentSupply' \in Nat
  BY <1>1, <1>2, <1>3
<1>16. TypeOK'
  BY <1>1, <1>10, <1>11, <1>12, <1>13, <1>14, <1>15 DEF BooksInv, TypeOK, batchVars
<1>17. BatchTotals' /\ BatchRuns' /\ SwapsExchange'
  BY <1>1, <1>14 DEF BooksInv, BatchTotals, BatchRuns, SwapsExchange, batchVars
<1>18. SupplyAgrees'
  <2>1. SumOf(Amounts(sells'), PendingSells') = SumOf(Amounts(sells), PendingSells)
    BY <1>1, <1>14 DEF batchVars
  <2>2. SumOf(tokens, Account) + SumOf(Amounts(sells), PendingSells) = currentSupply
    BY DEF BooksInv, SupplyAgrees
  <2>3. SumOf(Amounts(sells), PendingSells) \in Nat
    <3>1. sells \in Seq(SellOrder) /\ PendingSells \in SUBSET DOMAIN sells
      BY <1>2, PendingType
    <3>2. IsFiniteSet(PendingSells) /\ \A i \in PendingSells : Amounts(sells)[i] \in Nat
      BY <3>1, OrdersFinite, SellOrderType
    <3> QED
      BY <3>2, SumType
  <2> QED
    BY <1>1, <1>3, <1>11, <2>1, <2>2, <2>3 DEF SupplyAgrees
<1>19. ASSUME NEW A, NEW d \in Denom
       PROVE  /\ BuysOf(A, d) = BuysOf(A, d)' + Part(buyer, A, max[d])
              /\ SwapsOf(A, d)' = SwapsOf(A, d)
              /\ BuysOf(A, d)' \in Nat /\ SwapsOf(A, d) \in Nat
              /\ Part(buyer, A, max[d]) \in Nat
  <2>1. PendingBuys \in SUBSET DOMAIN buys /\ PendingSwaps \in SUBSET DOMAIN swaps
        /\ PendingBuys \ {next} \in SUBSET DOMAIN buys /\ swaps \in Seq(SwapOrder)
    BY <1>2, PendingType
  <2>2. BuyLock(buys, PendingBuys, A, d)
          = BuyLock(buys, PendingBuys \ {next}, A, d) + Part(buys[next].account, A, buys[next].maxPrices[d])
    BY <1>2, <1>14, <2>1, BuyLockRemove
  <2>3. BuysOf(A, d)' = BuyLock(buys, PendingBuys \ {next}, A, d)
    BY <1>1, <1>14 DEF BuysOf, batchVars
  <2>4. SwapsOf(A, d)' = SwapsOf(A, d)
    BY <1>1, <1>14 DEF SwapsOf, batchVars
  <2>5. BuyLock(buys, PendingBuys \ {next}, A, d) \in Nat
    BY <1>2, <2>1, BuyLockType
  <2>6. SwapsOf(A, d) \in Nat
    BY <2>1, SwapLockType DEF SwapsOf
  <2>7. Part(buyer, A, max[d]) \in Nat
    BY <1>7 DEF Part
  <2>8. BuysOf(A, d) = BuysOf(A, d)' + Part(buyer, A, max[d])
    BY <1>1, <2>2, <2>3 DEF BuysOf
  <2> QED
    BY <2>3, <2>4, <2>5, <2>6, <2>7, <2>8
<1>20. LocksAgree'
  <2> SUFFICES ASSUME NEW d \in Denom
               PROVE  intermediary'[d] = BuysOf(Account, d)' + SwapsOf(Account, d)'
    BY DEF LocksAgree
  <2>1. Part(buyer, Account, max[d]) = max[d] /\ max[d] \in Nat
    BY <1>3, <1>7 DEF Part
  <2>2. intermediary[d] = BuysOf(Account, d) + SwapsOf(Account, d)
    BY DEF BooksInv, LocksAgree
  <2> QED
    BY <1>13, <1>19, <2>1, <2>2
<1>21. ASSUME NEW A \in SUBSET Account, NEW d \in Denom
       PROVE  /\ Held(funds', A, d)
                   = Held(funds, A, d) + (Part(FeeAddress, A, fee[d]) + Part(buyer, A, change[d]))
              /\ Held(funds, A, d) \in Nat
              /\ Part(FeeAddress, A, fee[d]) \in Nat /\ Part(buyer, A, change[d]) \in Nat
  <2>1. Part(FeeAddress, A, fee[d]) \in Nat /\ Part(buyer, A, change[d]) \in Nat
    BY <1>7 DEF Part
  <2>2. Held(funds, A, d) \in Nat /\ Held(mid, A, d) \in Nat
    BY <1>2, <1>8, HeldType
  <2> QED
    BY <1>8, <1>10, <2>1, <2>2
<1>22. CoinsAgree'
  <2> SUFFICES ASSUME NEW d \in Denom
               PROVE  Held(funds', Account, d) + (intermediary'[d] + reserveAccount'[d])
                        = Held(InitialFunds, Account, d)
    BY DEF CoinsAgree
  <2>1. Part(buyer, Account, change[d]) = change[d] /\ Part(FeeAddress, Account, fee[d]) = fee[d]
    BY <1>2, <1>3 DEF Part
  <2>2. Held(funds, Account, d) + (intermediary[d] + reserveAccount[d])
          = Held(InitialFunds, Account, d)
        /\ intermediary[d] \in Nat /\ reserveAccount[d] \in Nat
    BY <1>2, CoinsType DEF BooksInv, CoinsAgree
  <2>3. Held(funds', Account, d) = Held(funds, Account, d) + (fee[d] + change[d])
        /\ Held(funds, Account, d) \in Nat
    BY <1>21, <2>1
  <2> QED
    BY <1>7, <1>12, <1>13, <2>2, <2>3
<1>23. ASSUME NEW a \in Account PROVE PaidFor(a)
  <2>1. CASE tokens'[a] > tokens[a]
    BY <2>1 DEF PaidFor
  <2>2. CASE a # buyer
    <3>1. ASSUME NEW d \in Denom PROVE Owned({a}, d)' >= Owned({a}, d)
      <4>1. Part(buyer, {a}, max[d]) = 0 /\ Part(buyer, {a}, change[d]) = 0
        BY <2>2 DEF Part
      <4>2. Owned({a}, d)' = Held(funds', {a}, d) + (BuysOf({a}, d)' + SwapsOf({a}, d)')
        BY DEF Owned
      <4>3. Owned({a}, d) = Held(funds, {a}, d) + (BuysOf({a}, d) + SwapsOf({a}, d))
        BY DEF Owned
      <4> QED
        BY <1>19, <1>21, <4>1, <4>2, <4>3
    <3> QED
      BY <3>1 DEF PaidFor
  <2>3. CASE n # 0 /\ a = buyer
    BY <1>2, <1>3, <1>11, <2>1, <2>3
  <2>4. CASE n = 0 /\ a = buyer
    <3>1. ASSUME NEW d \in Denom PROVE Owned({a}, d)' >= Owned({a}, d)
      <4>1. total[d] = 0
        BY <1>2, <2>4, NothingCostsNothing DEF total
      <4>2. Part(buyer, {a}, max[d]) = max[d] /\ Part(buyer, {a}, change[d]) = max[d]
        BY <1>7, <2>4, <4>1 DEF Part
      <4>3. Owned({a}, d)' = Held(funds', {a}, d) + (BuysOf({a}, d)' + SwapsOf({a}, d)')
        BY DEF Owned
      <4>4. Owned({a}, d) = Held(funds, {a}, d) + (BuysOf({a}, d) + SwapsOf({a}, d))
        BY DEF Owned
      <4> QED
        BY <1>7, <1>19, <1>21, <4>2, <4>3, <4>4
    <3> QED
      BY <3>1 DEF PaidFor
  <2> QED
    BY <2>2, <2>3, <2>4
<1> QED
  BY <1>12, <1>16, <1>17, <1>18, <1>20, <1>22, <1>23 DEF BooksInv

LEMMA PerformSellBooks ==
  ASSUME BooksInv, PerformSell
  PROVE  BooksInv' /\ \A a \in Account : PaidFor(a)
<1>1. PICK order \in {sells[i] : i \in DOMAIN sells} :
        /\ phase = "Sells" /\ next \in DOMAIN sells /\ order = sells[next]
        /\ CanPerformSell(order)
        /\ funds' = Move(Move(funds, order.account, Sub(ReserveReturns(order, sellPrices),
                                                        SellFees(order, sellPrices))),
                         FeeAddress, SellFees(order, sellPrices))
        /\ WithdrawReserve(ReserveReturns(order, sellPrices))
        /\ currentSupply' = currentSupply - order.amount
        /\ NextOrder
        /\ UNCHANGED <<bondState, allowSells, orderLimits, sanity, batchVars, tokens,
                       intermediary>>
  BY DEF PerformSell, Performing
<1> DEFINE seller  == order.account
           n       == order.amount
           returns == ReserveReturns(order, sellPrices)
           fees    == SellFees(order, sellPrices)
           net     == Sub(returns, fees)
           mid     == Move(funds, seller, net)
<1>2. /\ TypeOK /\ funds \in [Account -> CoinSet] /\ tokens \in [Account -> Nat]
      /\ intermediary \in CoinSet /\ currentSupply \in Nat /\ sellPrices \in CoinSet
      /\ currentReserve \in CoinSet /\ reserveAccount = currentReserve
      /\ sells \in Seq(SellOrder) /\ FeeAddress \in Account
  BY SwapperAssumption DEF BooksInv, TypeOK
<1>3. seller \in Account /\ n \in Nat
  BY <1>1, <1>2, SellOrderType
<1>4. returns \in CoinSet /\ fees \in CoinSet /\ net \in CoinSet
  BY <1>2, <1>3, OrderPrices
<1>5. \A d \in Denom : /\ net[d] = returns[d] - fees[d] /\ net[d] \in Nat
                       /\ returns[d] \in Nat /\ fees[d] \in Nat
  BY <1>4, CoinsType
<1>6. CanWithdraw(returns) /\ n <= currentSupply
  BY <1>1 DEF CanPerformSell
<1> HIDE DEF returns, fees, net
<1>7. /\ mid \in [Account -> CoinSet]
      /\ \A A \in SUBSET Account : \A d \in Denom :
           Held(mid, A, d) = Held(funds, A, d) + Part(seller, A, net[d])
  BY <1>2, <1>3, <1>4, MoveHeld
<1>8. funds' = Move(mid, FeeAddress, fees)
  BY <1>1 DEF net, returns, fees
<1> HIDE DEF mid
<1>9. /\ funds' \in [Account -> CoinSet]
      /\ \A A \in SUBSET Account : \A d \in Denom :
           Held(funds', A, d) = Held(mid, A, d) + Part(FeeAddress, A, fees[d])
  <2>1. FeeAddress \in Account /\ fees \in CoinSet /\ mid \in [Account -> CoinSet]
        /\ funds' = Move(mid, FeeAddress, fees)
    BY <1>2, <1>4, <1>7, <1>8
  <2> QED
    BY <2>1, MoveHeld
<1>10. /\ currentReserve' \in CoinSet /\ reserveAccount' = currentReserve'
       /\ \A d \in Denom : reserveAccount'[d] = reserveAccount[d] - returns[d]
  <2>1. WithdrawReserve(returns)
    BY <1>1 DEF returns
  <2> QED
    BY <1>2, <1>4, <1>6, <2>1, CoinsType DEF WithdrawReserve, CanWithdraw
<1>11. /\ next' \in Nat \ {0} /\ UNCHANGED <<height, phase, halted>> /\ LiveBuys' = LiveBuys
       /\ next \in PendingSells /\ PendingSells' = PendingSells \ {next}
       /\ PendingBuys' = PendingBuys /\ PendingSwaps' = PendingSwaps
  <2>1. NextOrder /\ UNCHANGED <<buys, sells, swaps, LiveBuys>>
    BY <1>1 DEF batchVars, LiveBuys
  <2>2. UNCHANGED <<height, phase, halted>>
    BY <1>1 DEF NextOrder
  <2> QED
    BY <1>1, <1>2, <2>1, <2>2, LoopStep
<1>12. currentSupply' \in Nat
  BY <1>1, <1>2, <1>3, <1>6
<1>13. TypeOK'
  BY <1>1, <1>9, <1>10, <1>11, <1>12 DEF BooksInv, TypeOK, batchVars
<1>14. BatchTotals' /\ BatchRuns' /\ SwapsExchange'
  BY <1>1, <1>11 DEF BooksInv, BatchTotals, BatchRuns, SwapsExchange, batchVars
<1>15. SupplyAgrees'
  <2>1. PendingSells \in SUBSET DOMAIN sells /\ PendingSells \ {next} \in SUBSET DOMAIN sells
    BY <1>2, PendingType
  <2>2. /\ IsFiniteSet(PendingSells) /\ IsFiniteSet(PendingSells \ {next})
        /\ \A i \in DOMAIN sells : Amounts(sells)[i] \in Nat
    BY <1>2, <2>1, OrdersFinite, SellOrderType
  <2>3. Amounts(sells)[next] = n
    BY <1>1 DEF Amounts
  <2>4. SumOf(Amounts(sells), PendingSells)
          = SumOf(Amounts(sells), PendingSells \ {next}) + Amounts(sells)[next]
    BY <1>11, <2>1, <2>2, SumRemove
  <2>5. SumOf(tokens, Account) + SumOf(Amounts(sells), PendingSells) = currentSupply
    BY DEF BooksInv, SupplyAgrees
  <2>6. SumOf(tokens, Account) \in Nat /\ SumOf(Amounts(sells), PendingSells \ {next}) \in Nat
    BY <1>2, <2>1, <2>2, SumType, SwapperAssumption
  <2>7. SumOf(Amounts(sells'), PendingSells') = SumOf(Amounts(sells), PendingSells \ {next})
    BY <1>1, <1>11 DEF batchVars
  <2> QED
    BY <1>1, <1>2, <1>3, <2>3, <2>4, <2>5, <2>6, <2>7 DEF SupplyAgrees
<1>16. \A A : \A d : BuysOf(A, d)' = BuysOf(A, d) /\ SwapsOf(A, d)' = SwapsOf(A, d)
  BY <1>1, <1>11 DEF BuysOf, SwapsOf, batchVars
<1>17. LocksAgree'
  BY <1>1, <1>16 DEF BooksInv, LocksAgree
<1>18. ASSUME NEW A \in SUBSET Account, NEW d \in Denom
       PROVE  /\ Held(funds', A, d)
                   = Held(funds, A, d) + (Part(seller, A, net[d]) + Part(FeeAddress, A, fees[d]))
              /\ Held(funds, A, d) \in Nat
              /\ Part(FeeAddress, A, fees[d]) \in Nat /\ Part(seller, A, net[d]) \in Nat
  <2>1. Part(FeeAddress, A, fees[d]) \in Nat /\ Part(seller, A, net[d]) \in Nat
    BY <1>5 DEF Part
  <2>2. Held(funds, A, d) \in Nat /\ Held(mid, A, d) \in Nat
    BY <1>2, <1>7, HeldType
  <2> QED
    BY <1>7, <1>9, <2>1, <2>2
<1>19. CoinsAgree'
  <2> SUFFICES ASSUME NEW d \in Denom
               PROVE  Held(funds', Account, d) + (intermediary'[d] + reserveAccount'[d])
                        = Held(InitialFunds, Account, d)
    BY DEF CoinsAgree
  <2>1. Part(seller, Account, net[d]) = net[d] /\ Part(FeeAddress, Account, fees[d]) = fees[d]
    BY <1>2, <1>3 DEF Part
  <2>2. Held(funds, Account, d) + (intermediary[d] + reserveAccount[d])
          = Held(InitialFunds, Account, d)
        /\ intermediary[d] \in Nat /\ reserveAccount[d] \in Nat
    BY <1>2, CoinsType DEF BooksInv, CoinsAgree
  <2>3. Held(funds', Account, d) = Held(funds, Account, d) + (net[d] + fees[d])
        /\ Held(funds, Account, d) \in Nat
    BY <1>18, <2>1
  <2> QED
    BY <1>1, <1>5, <1>10, <2>2, <2>3
<1>20. \A a \in Account : PaidFor(a)
  <2>1. ASSUME NEW a \in Account, NEW d \in Denom
        PROVE  \E k \in Nat : Owned({a}, d)' = Owned({a}, d) + k
    <3>1. /\ BuysOf({a}, d) \in Nat /\ SwapsOf({a}, d) \in Nat
      BY OwnedType DEF BooksInv
    <3>2. Owned({a}, d)' = Held(funds', {a}, d) + (BuysOf({a}, d) + SwapsOf({a}, d))
      BY <1>16 DEF Owned
    <3>3. Owned({a}, d) = Held(funds, {a}, d) + (BuysOf({a}, d) + SwapsOf({a}, d))
      BY DEF Owned
    <3>4. Owned({a}, d)' = Owned({a}, d) + (Part(seller, {a}, net[d]) + Part(FeeAddress, {a}, fees[d]))
          /\ Part(seller, {a}, net[d]) + Part(FeeAddress, {a}, fees[d]) \in Nat
      BY <1>18, <3>1, <3>2, <3>3
    <3> QED
      BY <3>4
  <2> QED
    BY <2>1, NobodyPaid
<1> QED
  BY <1>10, <1>13, <1>14, <1>15, <1>17, <1>19, <1>20 DEF BooksInv

\* What a swap locks is given up by the intermediary account once it is done with.
LEMMA SwapDone ==
  ASSUME BooksInv, phase = "Swaps", next \in DOMAIN swaps, NextOrder,
         UNCHANGED <<buys, sells>>,
         swaps' \in Seq(SwapOrder), DOMAIN swaps' = DOMAIN swaps,
         \A i \in DOMAIN swaps : /\ swaps'[i].account = swaps[i].account
                                 /\ swaps'[i].from = swaps[i].from
                                 /\ swaps'[i].amount = swaps[i].amount,
         Covers(intermediary, Single(swaps[next].from, swaps[next].amount)),
         intermediary' = Sub(intermediary, Single(swaps[next].from, swaps[next].amount))
  PROVE  /\ next' \in Nat \ {0}
         /\ PendingSells' = PendingSells
         /\ intermediary' \in CoinSet /\ LocksAgree'
         /\ \A d \in Denom :
              /\ intermediary'[d] = intermediary[d] - Single(swaps[next].from, swaps[next].amount)[d]
              /\ intermediary[d] \in Nat /\ intermediary'[d] \in Nat
              /\ Single(swaps[next].from, swaps[next].amount)[d] \in Nat
         /\ \A A : \A d \in Denom :
              /\ BuysOf(A, d)' = BuysOf(A, d)
              /\ SwapsOf(A, d)
                   = SwapsOf(A, d)' + Part(swaps[next].account, A,
                                           Single(swaps[next].from, swaps[next].amount)[d])
              /\ SwapsOf(A, d)' \in Nat /\ BuysOf(A, d) \in Nat
<1> DEFINE coins == Single(swaps[next].from, swaps[next].amount)
           rest  == PendingSwaps \ {next}
<1>1. TypeOK /\ intermediary \in CoinSet /\ swaps \in Seq(SwapOrder)
  BY DEF BooksInv, TypeOK
<1>2. swaps[next].account \in Account /\ swaps[next].from \in Denom /\ swaps[next].amount \in Nat
  BY <1>1, SwapOrderType
<1>3. coins \in CoinSet
  BY <1>2, SingleType
<1>4. /\ next' \in Nat \ {0} /\ next \in PendingSwaps /\ PendingSwaps' = rest
      /\ PendingBuys' = PendingBuys /\ PendingSells' = PendingSells
  BY <1>1, LoopStep
<1>5. /\ PendingSwaps \in SUBSET DOMAIN swaps /\ rest \in SUBSET DOMAIN swaps
      /\ rest \in SUBSET DOMAIN swaps' /\ PendingBuys \in SUBSET DOMAIN buys
      /\ buys \in Seq(BuyOrder)
  BY <1>1, PendingType
<1>6. ASSUME NEW A, NEW d \in Denom
      PROVE  /\ BuysOf(A, d)' = BuysOf(A, d)
             /\ SwapsOf(A, d) = SwapsOf(A, d)' + Part(swaps[next].account, A, coins[d])
             /\ SwapsOf(A, d)' \in Nat /\ BuysOf(A, d) \in Nat
  <2>1. SwapLock(swaps, PendingSwaps, A, d)
          = SwapLock(swaps, rest, A, d) + Part(swaps[next].account, A, coins[d])
    BY <1>1, <1>4, <1>5, SwapLockRemove
  <2> HIDE DEF rest, coins
  <2>2. SwapLock(swaps', rest, A, d) = SwapLock(swaps, rest, A, d)
    <3>1. \A i \in rest : /\ swaps'[i].account = swaps[i].account
                          /\ swaps'[i].from = swaps[i].from
                          /\ swaps'[i].amount = swaps[i].amount
      BY <1>5
    <3> QED
      BY <1>5, <3>1, SameSwapLock
  <2>3. SwapsOf(A, d)' = SwapLock(swaps', rest, A, d)
    BY <1>4 DEF SwapsOf
  <2>4. SwapLock(swaps, rest, A, d) \in Nat
    BY <1>1, <1>5, SwapLockType
  <2>5. BuysOf(A, d)' = BuysOf(A, d)
    BY <1>4 DEF BuysOf
  <2>6. BuysOf(A, d) \in Nat
    BY <1>5, BuyLockType DEF BuysOf
  <2>7. SwapsOf(A, d) = SwapsOf(A, d)' + Part(swaps[next].account, A, coins[d])
    BY <2>1, <2>2, <2>3 DEF SwapsOf
  <2> QED
    BY <2>2, <2>3, <2>4, <2>5, <2>6, <2>7
<1> HIDE DEF coins, rest
<1>7. Covers(intermediary, coins) /\ intermediary' = Sub(intermediary, coins)
  BY DEF coins
<1>8. /\ intermediary' \in CoinSet
      /\ \A d \in Denom : /\ intermediary'[d] = intermediary[d] - coins[d]
                          /\ intermediary[d] \in Nat /\ intermediary'[d] \in Nat
                          /\ coins[d] \in Nat
  <2>1. Sub(intermediary, coins) \in CoinSet
    BY <1>1, <1>3, <1>7, CoinsType
  <2>2. \A d \in Denom : Sub(intermediary, coins)[d] = intermediary[d] - coins[d]
    BY DEF Sub
  <2>3. \A c \in CoinSet : \A d \in Denom : c[d] \in Nat
    BY DEF CoinSet
  <2> QED
    BY <1>1, <1>3, <1>7, <2>1, <2>2, <2>3
<1>9. LocksAgree'
  <2> SUFFICES ASSUME NEW d \in Denom
               PROVE  intermediary'[d] = BuysOf(Account, d)' + SwapsOf(Account, d)'
    BY DEF LocksAgree
  <2>1. Part(swaps[next].account, Account, coins[d]) = coins[d]
    BY <1>2 DEF Part
  <2>2. intermediary[d] = BuysOf(Account, d) + SwapsOf(Account, d)
    BY DEF BooksInv, LocksAgree
  <2> QED
    BY <1>6, <1>8, <2>1, <2>2
<1> QED
  BY <1>4, <1>6, <1>8, <1>9 DEF coins

LEMMA Gains ==
  ASSUME NEW o \in Nat, NEW n \in Nat, NEW x \in Nat, NEW y \in Nat, n + 0 = o + (x + y)
  PROVE  n >= o /\ (x # 0 => n > o)
OBVIOUS

LEMMA PerformSwapBooks ==
  ASSUME BooksInv, PerformSwap
  PROVE  BooksInv' /\ \A a \in Account : PaidFor(a)
<1>1. PICK order \in {swaps[i] : i \in DOMAIN swaps} :
        /\ phase = "Swaps" /\ next \in DOMAIN swaps /\ order = swaps[next]
        /\ SwapAllowed(order) /\ CanPerformSwap(order)
        /\ reserveAccount' = Add(Sub(reserveAccount, Single(order.to, SwapOutput(order))),
                                 Single(order.from, SwapInput(order)))
        /\ currentReserve' = ReserveAfterSwap(order)
        /\ funds' = Move(Move(funds, order.account, Single(order.to, SwapOutput(order))),
                         FeeAddress, Single(order.from, SwapFee(order)))
        /\ intermediary' = Sub(intermediary, Single(order.from, order.amount))
        /\ NextOrder
        /\ UNCHANGED <<bondState, allowSells, orderLimits, sanity, currentSupply,
                       batchVars, tokens>>
  BY DEF PerformSwap, Performing
<1> DEFINE swapper == order.account
           out   == Single(order.to, SwapOutput(order))
           in    == Single(order.from, SwapInput(order))
           fee   == Single(order.from, SwapFee(order))
           coins == Single(order.from, order.amount)
           mid   == Move(funds, swapper, out)
<1>2. /\ TypeOK /\ funds \in [Account -> CoinSet]
      /\ intermediary \in CoinSet /\ currentReserve \in CoinSet
      /\ reserveAccount = currentReserve /\ swaps \in Seq(SwapOrder) /\ FeeAddress \in Account
  BY SwapperAssumption DEF BooksInv, TypeOK
<1>3. /\ order \in SwapOrder /\ swapper \in Account /\ order.from \in Denom /\ order.to \in Denom
      /\ order.amount \in Nat /\ order.from # order.to
  <2>1. order \in SwapOrder
    BY <1>1, <1>2, OrdersFinite
  <2> QED
    BY <1>1, <2>1 DEF SwapOrder, BooksInv, SwapsExchange
<1>4. /\ SwapFee(order) \in Nat /\ SwapInput(order) \in Nat
      /\ order.amount = SwapInput(order) + SwapFee(order)
      /\ SwapOutput(order) \in Nat \ {0} /\ SwapOutput(order) <= currentReserve[order.to]
  BY <1>1, <1>2, <1>3, SwapFeeType, SwapOutputType
<1>5. /\ out \in CoinSet /\ in \in CoinSet /\ fee \in CoinSet /\ coins \in CoinSet
      /\ \A d \in Denom : /\ out[d] = (IF d = order.to THEN SwapOutput(order) ELSE 0)
                          /\ coins[d] = (IF d = order.from THEN order.amount ELSE 0)
                          /\ coins[d] = in[d] + fee[d]
                          /\ out[d] \in Nat /\ in[d] \in Nat /\ fee[d] \in Nat
                          /\ coins[d] \in Nat
  <2>1. \A d \in Denom : /\ out[d] = IF d = order.to THEN SwapOutput(order) ELSE 0
    BY <1>3, <1>4, SingleType
  <2>2. \A d \in Denom : /\ in[d] = IF d = order.from THEN SwapInput(order) ELSE 0
    BY <1>3, <1>4, SingleType
  <2>3. \A d \in Denom : /\ fee[d] = IF d = order.from THEN SwapFee(order) ELSE 0
    BY <1>3, <1>4, SingleType
  <2>4. \A d \in Denom : /\ coins[d] = IF d = order.from THEN order.amount ELSE 0
    BY <1>3, <1>4, SingleType
  <2>5. out \in CoinSet /\ in \in CoinSet /\ fee \in CoinSet /\ coins \in CoinSet
    BY <1>3, <1>4, SingleType
  <2> HIDE DEF out, in, fee, coins
  <2>6. \A d \in Denom : coins[d] = in[d] + fee[d]
    BY <1>4, <2>2, <2>3, <2>4
  <2>7. \A d \in Denom : /\ out[d] \in Nat /\ in[d] \in Nat /\ fee[d] \in Nat
                         /\ coins[d] \in Nat
    BY <2>5, CoinsType
  <2> QED
    BY <2>1, <2>4, <2>5, <2>6, <2>7
<1>6. /\ reserveAccount' = Add(Sub(reserveAccount, out), in)
      /\ currentReserve' = Sub(Add(currentReserve, in), out)
      /\ funds' = Move(mid, FeeAddress, fee)
      /\ Covers(intermediary, coins) /\ intermediary' = Sub(intermediary, coins)
  BY <1>1 DEF ReserveAfterSwap, CanPerformSwap
<1>7. mid = Move(funds, swapper, out)
  OBVIOUS
<1>8. coins = Single(swaps[next].from, swaps[next].amount)
  BY <1>1
<1> HIDE DEF out, in, fee, coins, mid
<1>9. /\ mid \in [Account -> CoinSet]
      /\ \A A \in SUBSET Account : \A d \in Denom :
           Held(mid, A, d) = Held(funds, A, d) + Part(swapper, A, out[d])
  <2>1. swapper \in Account /\ out \in CoinSet /\ funds \in [Account -> CoinSet]
    BY <1>2, <1>3, <1>5
  <2> HIDE DEF swapper
  <2> QED
    BY <1>7, <2>1, MoveHeld
<1>10. /\ funds' \in [Account -> CoinSet]
       /\ \A A \in SUBSET Account : \A d \in Denom :
            Held(funds', A, d) = Held(mid, A, d) + Part(FeeAddress, A, fee[d])
  <2>1. FeeAddress \in Account /\ fee \in CoinSet /\ mid \in [Account -> CoinSet]
        /\ funds' = Move(mid, FeeAddress, fee)
    BY <1>2, <1>5, <1>6, <1>9
  <2> QED
    BY <2>1, MoveHeld
<1>11. /\ currentReserve' \in CoinSet /\ reserveAccount' = currentReserve'
       /\ \A d \in Denom : /\ reserveAccount'[d] = (reserveAccount[d] - out[d]) + in[d]
                           /\ reserveAccount[d] \in Nat
  <2>1. ASSUME NEW d \in Denom PROVE currentReserve[d] \in Nat /\ out[d] <= currentReserve[d]
    <3>1. currentReserve[d] \in Nat
      BY <1>2, CoinsType
    <3>2. CASE d = order.to
      BY <1>4, <1>5, <3>1, <3>2
    <3>3. CASE d # order.to
      BY <1>5, <3>1, <3>3
    <3> QED
      BY <3>1, <3>2, <3>3
  <2>2. /\ reserveAccount' = [d \in Denom |-> (reserveAccount[d] - out[d]) + in[d]]
        /\ currentReserve' = [d \in Denom |-> (currentReserve[d] + in[d]) - out[d]]
    BY <1>6 DEF Add, Sub
  <2>3. \A d \in Denom : /\ (currentReserve[d] - out[d]) + in[d]
                              = (currentReserve[d] + in[d]) - out[d]
                         /\ (currentReserve[d] + in[d]) - out[d] \in Nat
    BY <1>5, <2>1
  <2>4. reserveAccount' = currentReserve'
    BY <1>2, <2>2, <2>3
  <2>5. currentReserve' \in CoinSet
    BY <2>2, <2>3 DEF CoinSet
  <2> QED
    BY <1>2, <2>1, <2>2, <2>4, <2>5
<1>12. UNCHANGED <<buys, sells, swaps, totalBuy, totalSell, buyPrices, sellPrices,
                   blocksRemaining, tokens, height, phase, halted>>
  BY <1>1 DEF batchVars, NextOrder
<1>13. /\ next' \in Nat \ {0}
       /\ PendingSells' = PendingSells
       /\ intermediary' \in CoinSet /\ LocksAgree'
       /\ \A d \in Denom : /\ intermediary'[d] = intermediary[d] - coins[d]
                           /\ intermediary[d] \in Nat
       /\ \A A : \A d \in Denom :
            /\ BuysOf(A, d)' = BuysOf(A, d)
            /\ SwapsOf(A, d) = SwapsOf(A, d)' + Part(swapper, A, coins[d])
            /\ SwapsOf(A, d)' \in Nat /\ BuysOf(A, d) \in Nat
  BY <1>1, <1>2, <1>6, <1>8, <1>12, SwapDone
<1>14. TypeOK'
  BY <1>1, <1>2, <1>10, <1>11, <1>12, <1>13 DEF BooksInv, TypeOK
<1>15. BatchTotals' /\ BatchRuns' /\ SwapsExchange'
  BY <1>1, <1>12 DEF BooksInv, BatchTotals, BatchRuns, SwapsExchange, LiveBuys
<1>16. SupplyAgrees'
  BY <1>1, <1>12, <1>13 DEF BooksInv, SupplyAgrees
<1>17. ASSUME NEW A \in SUBSET Account, NEW d \in Denom
       PROVE  /\ Held(funds', A, d)
                   = Held(funds, A, d) + (Part(swapper, A, out[d]) + Part(FeeAddress, A, fee[d]))
              /\ Held(funds, A, d) \in Nat
              /\ Part(FeeAddress, A, fee[d]) \in Nat /\ Part(swapper, A, out[d]) \in Nat
              /\ Part(swapper, A, coins[d]) \in Nat
  <2>1. Part(FeeAddress, A, fee[d]) \in Nat /\ Part(swapper, A, out[d]) \in Nat
        /\ Part(swapper, A, coins[d]) \in Nat
    BY <1>5 DEF Part
  <2>2. Held(funds, A, d) \in Nat /\ Held(mid, A, d) \in Nat
    BY <1>2, <1>9, HeldType
  <2> QED
    BY <1>9, <1>10, <2>1, <2>2
<1>18. CoinsAgree'
  <2> SUFFICES ASSUME NEW d \in Denom
               PROVE  Held(funds', Account, d) + (intermediary'[d] + reserveAccount'[d])
                        = Held(InitialFunds, Account, d)
    BY DEF CoinsAgree
  <2>1. Part(swapper, Account, out[d]) = out[d] /\ Part(FeeAddress, Account, fee[d]) = fee[d]
    BY <1>2, <1>3 DEF Part
  <2>2. Held(funds, Account, d) + (intermediary[d] + reserveAccount[d])
          = Held(InitialFunds, Account, d)
    BY DEF BooksInv, CoinsAgree
  <2>3. Held(funds', Account, d) = Held(funds, Account, d) + (out[d] + fee[d])
        /\ Held(funds, Account, d) \in Nat
    BY <1>17, <2>1
  <2> QED
    BY <1>5, <1>11, <1>13, <2>2, <2>3
<1>19. ASSUME NEW a \in Account PROVE PaidFor(a)
  <2>1. \A d \in Denom :
          /\ Owned({a}, d)' = Held(funds', {a}, d) + (BuysOf({a}, d)' + SwapsOf({a}, d)')
          /\ Owned({a}, d) = Held(funds, {a}, d) + (BuysOf({a}, d) + SwapsOf({a}, d))
    BY DEF Owned
  <2>0. ASSUME NEW d \in Denom
        PROVE  /\ Owned({a}, d)' + Part(swapper, {a}, coins[d])
                    = Owned({a}, d) + (Part(swapper, {a}, out[d]) + Part(FeeAddress, {a}, fee[d]))
               /\ Owned({a}, d) \in Nat /\ Owned({a}, d)' \in Nat
               /\ Part(FeeAddress, {a}, fee[d]) \in Nat /\ Part(swapper, {a}, out[d]) \in Nat
    <3>1. /\ BuysOf({a}, d)' = BuysOf({a}, d)
          /\ SwapsOf({a}, d) = SwapsOf({a}, d)' + Part(swapper, {a}, coins[d])
          /\ SwapsOf({a}, d)' \in Nat /\ BuysOf({a}, d) \in Nat
      BY <1>13
    <3>2. /\ Held(funds', {a}, d)
               = Held(funds, {a}, d) + (Part(swapper, {a}, out[d]) + Part(FeeAddress, {a}, fee[d]))
          /\ Held(funds, {a}, d) \in Nat
          /\ Part(FeeAddress, {a}, fee[d]) \in Nat /\ Part(swapper, {a}, out[d]) \in Nat
          /\ Part(swapper, {a}, coins[d]) \in Nat
      BY <1>17
    <3> DEFINE x == Part(swapper, {a}, out[d])
               y == Part(FeeAddress, {a}, fee[d])
               z == Part(swapper, {a}, coins[d])
    <3>3. /\ Owned({a}, d)' = Held(funds', {a}, d) + (BuysOf({a}, d)' + SwapsOf({a}, d)')
          /\ Owned({a}, d) = Held(funds, {a}, d) + (BuysOf({a}, d) + SwapsOf({a}, d))
      BY <2>1
    <3> HIDE DEF x, y, z
    <3>4. x \in Nat /\ y \in Nat /\ z \in Nat
          /\ Held(funds', {a}, d) = Held(funds, {a}, d) + (x + y)
          /\ SwapsOf({a}, d) = SwapsOf({a}, d)' + z
      BY <3>1, <3>2 DEF x, y, z
    <3>5. /\ Owned({a}, d)' + z = Owned({a}, d) + (x + y)
          /\ Owned({a}, d) \in Nat /\ Owned({a}, d)' \in Nat
      BY <3>1, <3>2, <3>3, <3>4
    <3> QED
      BY <3>4, <3>5 DEF x, y, z
  <2>2. CASE a # swapper
    <3>1. ASSUME NEW d \in Denom PROVE Owned({a}, d)' >= Owned({a}, d)
      <4>1. Part(swapper, {a}, coins[d]) = 0
        BY <2>2 DEF Part
      <4> DEFINE x == Part(swapper, {a}, out[d])
                 y == Part(FeeAddress, {a}, fee[d])
                 z == Part(swapper, {a}, coins[d])
                 o == Owned({a}, d)
                 n == Owned({a}, d)'
      <4>2. /\ n + z = o + (x + y) /\ o \in Nat /\ n \in Nat
            /\ x \in Nat /\ y \in Nat /\ z = 0
        BY <2>0, <4>1
      <4>3. n >= o
        <5> HIDE DEF x, y, z, o, n
        <5> QED
          BY <4>2, Gains
      <4> QED
        BY <4>3
    <3> QED
      BY <3>1 DEF PaidFor
  <2>3. CASE a = swapper
    <3> DEFINE e == order.to
    <3>1. e \in Denom /\ coins[e] = 0 /\ out[e] \in Nat \ {0}
      BY <1>3, <1>4, <1>5
    <3> HIDE DEF e
    <3>2. Part(swapper, {a}, coins[e]) = 0 /\ Part(swapper, {a}, out[e]) = out[e]
      BY <2>3, <3>1 DEF Part
    <3>3. Owned({a}, e)' > Owned({a}, e)
      <4> DEFINE x == Part(swapper, {a}, out[e])
                 y == Part(FeeAddress, {a}, fee[e])
                 z == Part(swapper, {a}, coins[e])
                 o == Owned({a}, e)
                 n == Owned({a}, e)'
      <4>1. e \in Denom
        BY <3>1
      <4>2. /\ n + z = o + (x + y) /\ o \in Nat /\ n \in Nat
            /\ y \in Nat
        BY <2>0, <4>1
      <4>3. x \in Nat \ {0} /\ z = 0
        BY <3>1, <3>2
      <4>4. n > o
        <5> HIDE DEF x, y, z, o, n
        <5> QED
          BY <4>2, <4>3, Gains
      <4> QED
        BY <4>4
    <3> QED
      BY <3>1, <3>3 DEF PaidFor
  <2> QED
    BY <2>2, <2>3
<1> QED
  BY <1>11, <1>13, <1>14, <1>15, <1>16, <1>18, <1>19 DEF BooksInv

LEMMA CancelSwapBooks ==
  ASSUME BooksInv, CancelSwap
  PROVE  BooksInv' /\ \A a \in Account : PaidFor(a)
<1>1. PICK order \in {swaps[i] : i \in DOMAIN swaps} :
        /\ phase = "Swaps" /\ next \in DOMAIN swaps /\ order = swaps[next]
        /\ CanPerformSwap(order)
        /\ swaps' = [swaps EXCEPT ![next].cancelled = TRUE]
        /\ funds' = Move(funds, order.account, Single(order.from, order.amount))
        /\ intermediary' = Sub(intermediary, Single(order.from, order.amount))
        /\ NextOrder
        /\ UNCHANGED <<bondVars, blocksRemaining, totalBuy, totalSell, buyPrices, sellPrices,
                       buys, sells, tokens, reserveAccount>>
  BY DEF CancelSwap, Performing
<1> DEFINE swapper == order.account
           coins == Single(order.from, order.amount)
<1>2. /\ TypeOK /\ funds \in [Account -> CoinSet] /\ intermediary \in CoinSet
      /\ swaps \in Seq(SwapOrder)
  BY DEF BooksInv, TypeOK
<1>3. order \in SwapOrder
  BY <1>1, <1>2, OrdersFinite
<1>4. /\ swapper \in Account /\ order.from \in Denom /\ order.amount \in Nat
  BY <1>3 DEF SwapOrder
<1>5. coins \in CoinSet /\ \A d \in Denom : coins[d] \in Nat
  BY <1>4, SingleType, CoinsType
<1>6. /\ swaps' \in Seq(SwapOrder) /\ DOMAIN swaps' = DOMAIN swaps
      /\ \A i \in DOMAIN swaps : /\ swaps'[i].account = swaps[i].account
                                 /\ swaps'[i].from = swaps[i].from
                                 /\ swaps'[i].to = swaps[i].to
                                 /\ swaps'[i].amount = swaps[i].amount
  <2> DEFINE done == [order EXCEPT !.cancelled = TRUE]
  <2>1. /\ done \in SwapOrder /\ done.account = order.account /\ done.from = order.from
        /\ done.to = order.to /\ done.amount = order.amount
    BY <1>3 DEF SwapOrder
  <2>2. swaps' = [swaps EXCEPT ![next] = done]
    BY <1>1
  <2> HIDE DEF done
  <2>0. DOMAIN swaps = 1 .. Len(swaps) /\ Len(swaps) \in Nat
        /\ \A i \in DOMAIN swaps : swaps[i] \in SwapOrder
    BY <1>2
  <2>4. /\ DOMAIN swaps' = DOMAIN swaps
        /\ \A i \in DOMAIN swaps : swaps'[i] = IF i = next THEN done ELSE swaps[i]
        /\ swaps' = [i \in 1 .. Len(swaps) |-> swaps'[i]]
    BY <2>0, <2>2
  <2>5. swaps' \in [1 .. Len(swaps) -> SwapOrder]
    <3>1. \A i \in 1 .. Len(swaps) : swaps'[i] \in SwapOrder
      BY <2>0, <2>1, <2>4
    <3> QED
      BY <2>4, <3>1
  <2>3. swaps' \in Seq(SwapOrder) /\ DOMAIN swaps' = DOMAIN swaps
    BY <2>0, <2>4, <2>5
  <2> QED
    BY <1>1, <2>1, <2>3, <2>4
<1>7. Covers(intermediary, coins) /\ intermediary' = Sub(intermediary, coins)
      /\ funds' = Move(funds, swapper, coins)
  BY <1>1 DEF CanPerformSwap
<1>8. coins = Single(swaps[next].from, swaps[next].amount)
  BY <1>1
<1> HIDE DEF coins
<1>9. /\ funds' \in [Account -> CoinSet]
      /\ \A A \in SUBSET Account : \A d \in Denom :
           Held(funds', A, d) = Held(funds, A, d) + Part(swapper, A, coins[d])
  BY <1>2, <1>4, <1>5, <1>7, MoveHeld
<1>10. UNCHANGED <<buys, sells, totalBuy, totalSell, buyPrices, sellPrices,
                   blocksRemaining, tokens, height, phase, halted>>
  BY <1>1 DEF NextOrder
<1>11. /\ next' \in Nat \ {0}
       /\ PendingSells' = PendingSells
       /\ intermediary' \in CoinSet /\ LocksAgree'
       /\ \A d \in Denom : /\ intermediary'[d] = intermediary[d] - coins[d]
                           /\ intermediary[d] \in Nat
       /\ \A A : \A d \in Denom :
            /\ BuysOf(A, d)' = BuysOf(A, d)
            /\ SwapsOf(A, d) = SwapsOf(A, d)' + Part(swapper, A, coins[d])
            /\ SwapsOf(A, d)' \in Nat /\ BuysOf(A, d) \in Nat
  BY <1>1, <1>2, <1>6, <1>7, <1>8, <1>10, SwapDone
<1>12. TypeOK'
  BY <1>1, <1>2, <1>6, <1>9, <1>10, <1>11 DEF BooksInv, TypeOK, bondVars
<1>13. SwapsExchange'
  BY <1>6 DEF BooksInv, SwapsExchange
<1>14. BatchTotals' /\ BatchRuns'
  BY <1>1, <1>10 DEF BooksInv, BatchTotals, BatchRuns, LiveBuys, bondVars
<1>15. SupplyAgrees' /\ (reserveAccount = currentReserve)'
  BY <1>1, <1>10, <1>11 DEF BooksInv, SupplyAgrees, bondVars
<1>16. ASSUME NEW A \in SUBSET Account, NEW d \in Denom
       PROVE  /\ Held(funds', A, d) = Held(funds, A, d) + Part(swapper, A, coins[d])
              /\ Held(funds, A, d) \in Nat /\ Part(swapper, A, coins[d]) \in Nat
  BY <1>2, <1>5, <1>9, HeldType DEF Part
<1>17. CoinsAgree'
  <2> SUFFICES ASSUME NEW d \in Denom
               PROVE  Held(funds', Account, d) + (intermediary'[d] + reserveAccount'[d])
                        = Held(InitialFunds, Account, d)
    BY DEF CoinsAgree
  <2>1. Part(swapper, Account, coins[d]) = coins[d]
    BY <1>4 DEF Part
  <2>2. Held(funds, Account, d) + (intermediary[d] + reserveAccount[d])
          = Held(InitialFunds, Account, d) /\ reserveAccount[d] \in Nat
    BY CoinsType DEF BooksInv, CoinsAgree, TypeOK
  <2>3. Held(funds', Account, d) = Held(funds, Account, d) + coins[d]
        /\ Held(funds, Account, d) \in Nat
    BY <1>16, <2>1
  <2> QED
    BY <1>1, <1>5, <1>11, <2>2, <2>3
<1>18. ASSUME NEW a \in Account PROVE PaidFor(a)
  <2>1. ASSUME NEW d \in Denom PROVE Owned({a}, d)' >= Owned({a}, d)
    <3>1. Owned({a}, d)' = Held(funds', {a}, d) + (BuysOf({a}, d)' + SwapsOf({a}, d)')
      BY DEF Owned
    <3>2. Owned({a}, d) = Held(funds, {a}, d) + (BuysOf({a}, d) + SwapsOf({a}, d))
      BY DEF Owned
    <3> QED
      BY <1>11, <1>16, <3>1, <3>2
  <2> QED
    BY <2>1 DEF PaidFor
<1> QED
  BY <1>11, <1>12, <1>13, <1>14, <1>15, <1>17, <1>18 DEF BooksInv

-----------------------------------------------------------------------------
(***************************************************************************)
(* The invariant                                                           *)
(***************************************************************************)
LEMMA InitBooks ==
  ASSUME Init
  PROVE  BooksInv
<1>1. /\ buys = <<>> /\ sells = <<>> /\ swaps = <<>> /\ phase = "DeliverTx"
      /\ totalBuy = 0 /\ totalSell = 0 /\ blocksRemaining = BatchBlocks
      /\ tokens = [a \in Account |-> 0] /\ currentSupply = 0 /\ funds = InitialFunds
      /\ intermediary = NoCoins /\ reserveAccount = NoCoins /\ currentReserve = NoCoins
  BY DEF Init
<1>2. NoCoins \in CoinSet /\ \A d \in Denom : NoCoins[d] = 0
  BY DEF NoCoins, CoinSet
<1>3. TypeOK
  <2>1. /\ [x \in Denom \cup {Token} |-> 0] \in [Denom \cup {Token} -> Nat]
        /\ [rate |-> 0, margin |-> 0] \in [rate : Nat, margin : Nat]
        /\ [a \in Account |-> 0] \in [Account -> Nat]
        /\ BatchBlocks \in 0 .. BatchBlocks /\ 0 \in 0 .. MaxHeight
    BY SwapperAssumption
  <2>2. <<>> \in Seq(BuyOrder) /\ <<>> \in Seq(SellOrder) /\ <<>> \in Seq(SwapOrder)
    OBVIOUS
  <2>3. /\ bondState = "NONE" /\ allowSells = FALSE /\ halted = FALSE
        /\ orderLimits = [x \in Denom \cup {Token} |-> 0]
        /\ sanity = [rate |-> 0, margin |-> 0]
        /\ buyPrices = NoCoins /\ sellPrices = NoCoins /\ height = 0 /\ next = 1
    BY DEF Init
  <2>4. InitialFunds \in [Account -> CoinSet]
    BY SwapperAssumption
  <2>5. /\ buys \in Seq(BuyOrder) /\ sells \in Seq(SellOrder) /\ swaps \in Seq(SwapOrder)
        /\ orderLimits \in [Denom \cup {Token} -> Nat]
        /\ sanity \in [rate : Nat, margin : Nat]
        /\ tokens \in [Account -> Nat] /\ funds \in [Account -> CoinSet]
        /\ blocksRemaining \in 0 .. BatchBlocks /\ height \in 0 .. MaxHeight
    BY <1>1, <2>1, <2>2, <2>3, <2>4
  <2>6. /\ bondState \in {"NONE", "OPEN", "SETTLE"}
        /\ phase \in {"DeliverTx", "Buys", "Sells", "Swaps"}
        /\ currentSupply \in Nat /\ totalBuy \in Nat /\ totalSell \in Nat
        /\ next \in Nat \ {0}
    <3>1. bondState = "NONE" /\ next = 1
      BY <2>3
    <3> QED
      BY <1>1, <3>1
  <2>8. allowSells \in BOOLEAN /\ halted \in BOOLEAN
    <3>1. allowSells = FALSE /\ halted = FALSE
      BY <2>3
    <3> QED
      BY <3>1, Zenon
  <2>7. /\ currentReserve \in CoinSet /\ buyPrices \in CoinSet /\ sellPrices \in CoinSet
        /\ intermediary \in CoinSet /\ reserveAccount \in CoinSet
    BY <1>1, <1>2, <2>3
  <2> QED
    BY <2>5, <2>6, <2>7, <2>8 DEF TypeOK
<1>4. DOMAIN buys = {} /\ DOMAIN sells = {} /\ DOMAIN swaps = {}
  BY <1>1
<1>5. LiveBuys = {} /\ PendingBuys = {} /\ PendingSells = {} /\ PendingSwaps = {}
  BY <1>4 DEF LiveBuys, PendingBuys, PendingSells, PendingSwaps
<1>6. \A f : SumOf(f, {}) = 0
  BY SumEmpty
<1>7. SumOf(tokens, Account) = 0
  <2>1. Cardinality(Account) \in Nat /\ IsFiniteSet(Account)
    BY SwapperAssumption, FS_CardinalityType
  <2>2. SumOf(tokens, Account) = Cardinality(Account) * 0
    BY <1>1, <2>1, SumConstant
  <2> QED
    BY <2>1, <2>2
<1>8. SupplyAgrees /\ BatchTotals /\ BatchRuns /\ SwapsExchange
  BY <1>1, <1>4, <1>5, <1>6, <1>7, SwapperAssumption
  DEF SupplyAgrees, BatchTotals, BatchRuns, SwapsExchange
<1>9. LocksAgree
  <2>1. \A d \in Denom : BuysOf(Account, d) = 0 /\ SwapsOf(Account, d) = 0
    BY <1>5, NothingLocked
  <2> QED
    BY <1>1, <1>2, <2>1 DEF LocksAgree
<1>10. CoinsAgree
  <2>1. ASSUME NEW d \in Denom PROVE Held(funds, Account, d) \in Nat
    BY <1>3, HeldType DEF TypeOK
  <2> QED
    BY <1>1, <1>2, <2>1 DEF CoinsAgree
<1> QED
  BY <1>1, <1>3, <1>8, <1>9, <1>10 DEF BooksInv

\* Every step keeps the books, and as long as the bond stays in its state nobody
\* pays for nothing.
LEMMA NextBooks ==
  ASSUME BooksInv, [Next]_vars
  PROVE  BooksInv' /\ (bondState' = bondState => \A a \in Account : PaidFor(a))
<1>1. CASE Transaction
  <2>1. ASSUME NEW allow \in BOOLEAN, NEW l \in OrderLimits, NEW s \in Sanity,
               CreateBond(allow, l, s)
        PROVE  BooksInv' /\ bondState' # bondState
    BY <2>1, CreateBondBooks
  <2>2. ASSUME NEW a \in Account, NEW l \in OrderLimits, NEW s \in Sanity,
               EditBond(a, l, s)
        PROVE  BooksInv' /\ \A b \in Account : PaidFor(b)
    BY <2>2, EditBondBooks
  <2>3. ASSUME NEW a \in Account, NEW n \in OrderAmount, NEW max \in OrderMaxPrices,
               FirstBuy(a, n, max)
        PROVE  BooksInv' /\ \A b \in Account : PaidFor(b)
    BY <2>3, FirstBuyBooks
  <2>4. ASSUME NEW a \in Account, NEW n \in OrderAmount, NEW max \in OrderMaxPrices,
               Buy(a, n, max)
        PROVE  BooksInv' /\ \A b \in Account : PaidFor(b)
    BY <2>4, BuyBooks
  <2>5. ASSUME NEW a \in Account, NEW n \in OrderAmount, Sell(a, n)
        PROVE  BooksInv' /\ \A b \in Account : PaidFor(b)
    BY <2>5, SellBooks
  <2>6. ASSUME NEW a \in Account, NEW from \in Denom, NEW to \in Denom, NEW n \in SwapAmount,
               Swap(a, from, to, n)
        PROVE  BooksInv' /\ \A b \in Account : PaidFor(b)
    BY <2>6, SwapBooks
  <2>7. ASSUME NEW a \in Account, MakeOutcomePayment(a)
        PROVE  BooksInv' /\ bondState' # bondState
    BY <2>7, OutcomePaymentBooks
  <2>8. ASSUME NEW a \in Account, WithdrawShare(a)
        PROVE  BooksInv' /\ \A b \in Account : PaidFor(b)
    BY <2>8, WithdrawShareBooks
  <2> QED
    BY <1>1, <2>1, <2>2, <2>3, <2>4, <2>5, <2>6, <2>7, <2>8 DEF Transaction
<1>2. CASE EndBlocker
  BY <1>2, EndBlockBooks, FinishLoopBooks, FinishBatchBooks, PanicBooks, PerformBuyBooks,
     SkipCancelledBuyBooks, PerformSellBooks, PerformSwapBooks, CancelSwapBooks
  DEF EndBlocker
<1>3. CASE UNCHANGED vars
  <2>1. UNCHANGED <<bondVars, batchVars, bankVars, loopVars>>
    BY <1>3 DEF vars
  <2>2. TypeOK'
    BY <2>1 DEF BooksInv, TypeOK, bondVars, batchVars, bankVars, loopVars
  <2>3. PendingBuys' = PendingBuys /\ PendingSells' = PendingSells /\ PendingSwaps' = PendingSwaps
    BY <2>1 DEF PendingBuys, PendingSells, PendingSwaps, LiveBuys, batchVars, loopVars
  <2>4. phase' = "DeliverTx" => blocksRemaining' # 0
    BY <2>1 DEF BooksInv, BatchRuns, batchVars, loopVars
  <2> QED
    BY <2>1, <2>2, <2>3, <2>4, NothingMoved DEF batchVars
<1> QED
  BY <1>1, <1>2, <1>3 DEF Next

\* The inductive invariant of a swapper holds at every step: the types, the books
\* and the totals of the batch.
THEOREM BooksInvariant == Spec => []BooksInv
<1>1. Init => BooksInv
  BY InitBooks
<1>2. BooksInv /\ [Next]_vars => BooksInv'
  BY NextBooks
<1> QED
  BY <1>1, <1>2, PTL DEF Spec

\* Nothing the handlers of a swapper and its EndBlocker compute is ever negative:
\* no refund, return, fee or share takes more than is there.
THEOREM TypeCorrect == Spec => []TypeOK
<1>1. BooksInv => TypeOK
  BY DEF BooksInv
<1> QED
  BY <1>1, BooksInvariant, PTL

\* The books of a swapper agree at every step, in the middle of EndBlocker too:
\* tokens and supply, the locked coins and the pending orders, the two records of
\* the reserve, and no coin is made or lost.
THEOREM BooksCorrect == Spec => []BooksAgree
<1>1. ASSUME BooksInv PROVE BooksAgree
  <2>1. intermediary = Add(LockedByBuys(buys, PendingBuys), LockedBySwaps(PendingSwaps))
    <3>1. /\ \A d \in Denom : LockedByBuys(buys, PendingBuys)[d] = BuysOf(Account, d)
          /\ \A d \in Denom : LockedBySwaps(PendingSwaps)[d] = SwapsOf(Account, d)
      BY <1>1, PendingType, LockedOfBuys, LockedOfSwaps DEF BooksInv, BuysOf, SwapsOf
    <3>2. Add(LockedByBuys(buys, PendingBuys), LockedBySwaps(PendingSwaps))
            = [d \in Denom |-> intermediary[d]]
      BY <1>1, <3>1 DEF BooksInv, LocksAgree, Add
    <3>3. intermediary = [d \in Denom |-> intermediary[d]]
      BY <1>1 DEF BooksInv, TypeOK, CoinSet
    <3> QED
      BY <3>2, <3>3
  <2>2. ASSUME NEW d \in Denom
        PROVE  (Total(d) + intermediary[d]) + reserveAccount[d]
                 = SumOf([a \in Account |-> InitialFunds[a][d]], Account)
    <3>1. /\ Total(d) = Held(funds, Account, d)
          /\ SumOf([a \in Account |-> InitialFunds[a][d]], Account)
               = Held(InitialFunds, Account, d)
      BY DEF Total, Held
    <3>2. Held(funds, Account, d) \in Nat /\ intermediary[d] \in Nat /\ reserveAccount[d] \in Nat
      BY <1>1, OwnedType DEF BooksInv, TypeOK, CoinSet
    <3>3. Held(funds, Account, d) + (intermediary[d] + reserveAccount[d])
            = Held(InitialFunds, Account, d)
      BY <1>1 DEF BooksInv, CoinsAgree
    <3> QED
      BY <3>1, <3>2, <3>3
  <2> QED
    BY <1>1, <2>1, <2>2 DEF BooksInv, SupplyAgrees, BooksAgree
<1> QED
  BY <1>1, BooksInvariant, PTL

\* What an account owns, as the invariant counts it.
LEMMA OwnedWealth ==
  TypeOK => \A a \in Account : \A d \in Denom :
              Wealth(a, d) = Owned({a}, d) /\ Owned({a}, d) \in Nat
<1> SUFFICES ASSUME TypeOK, NEW a \in Account, NEW d \in Denom
             PROVE  Wealth(a, d) = Owned({a}, d) /\ Owned({a}, d) \in Nat
  OBVIOUS
<1>0. /\ buys \in Seq(BuyOrder) /\ PendingBuys \in SUBSET DOMAIN buys
      /\ swaps \in Seq(SwapOrder) /\ PendingSwaps \in SUBSET DOMAIN swaps
  BY PendingType
<1>1. LockedByBuys(buys, {i \in PendingBuys : buys[i].account = a})[d] = BuysOf({a}, d)
  <2>1. LockedByBuys(buys, {i \in PendingBuys : buys[i].account = a})[d]
          = BuyLock(buys, PendingBuys, {a}, d)
    BY <1>0, LockedOfBuys
  <2> QED
    BY <2>1 DEF BuysOf
<1>2. LockedBySwaps({i \in PendingSwaps : swaps[i].account = a})[d] = SwapsOf({a}, d)
  <2>1. LockedBySwaps({i \in PendingSwaps : swaps[i].account = a})[d]
          = SwapLock(swaps, PendingSwaps, {a}, d)
    BY <1>0, LockedOfSwaps
  <2> QED
    BY <2>1 DEF SwapsOf
<1>3. Held(funds, {a}, d) = funds[a][d] /\ Held(funds, {a}, d) \in Nat
  BY HeldOfOne, OwnedType DEF TypeOK
<1>4. BuysOf({a}, d) \in Nat /\ SwapsOf({a}, d) \in Nat
  BY OwnedType
<1>5. Wealth(a, d) = (Held(funds, {a}, d) + BuysOf({a}, d)) + SwapsOf({a}, d)
  BY <1>1, <1>2, <1>3 DEF Wealth
<1>6. Owned({a}, d) = Held(funds, {a}, d) + (BuysOf({a}, d) + SwapsOf({a}, d))
  BY DEF Owned
<1> QED
  BY <1>3, <1>4, <1>5, <1>6

LEMMA OwnedWealthNext ==
  (TypeOK => \A a \in Account : \A d \in Denom :
               Wealth(a, d) = Owned({a}, d) /\ Owned({a}, d) \in Nat)'
BY OwnedWealth, PTL

\* Nobody gives up coins without getting bond tokens or coins of the other kind,
\* the outcome payment apart, whatever the orders of the batch are and whenever
\* one of them is cancelled.
THEOREM PaymentsReturned == Spec => NoPaymentWithoutReturn
<1> DEFINE PaidStep ==
             bondState' = bondState =>
               \A a \in Account, d \in Denom : Wealth(a, d)' < Wealth(a, d) =>
                 \/ tokens'[a] > tokens[a]
                 \/ \E e \in Denom : Wealth(a, e)' > Wealth(a, e)
<1>1. BooksInv /\ [Next]_vars => [PaidStep]_vars
  <2> SUFFICES ASSUME BooksInv, [Next]_vars, bondState' = bondState,
                      NEW a \in Account, NEW d \in Denom, Wealth(a, d)' < Wealth(a, d)
               PROVE  \/ tokens'[a] > tokens[a]
                      \/ \E e \in Denom : Wealth(a, e)' > Wealth(a, e)
    OBVIOUS
  <2>1. TypeOK /\ TypeOK' /\ PaidFor(a)
    BY NextBooks DEF BooksInv
  <2>2. \A e \in Denom : Wealth(a, e) = Owned({a}, e) /\ Owned({a}, e) \in Nat
    BY <2>1, OwnedWealth
  <2>3. \A e \in Denom : Wealth(a, e)' = Owned({a}, e)' /\ Owned({a}, e)' \in Nat
    BY <2>1, OwnedWealthNext
  <2>6. ~(Owned({a}, d)' >= Owned({a}, d))
    BY <2>2, <2>3
  <2>7. tokens'[a] > tokens[a] \/ \E e \in Denom : Owned({a}, e)' > Owned({a}, e)
    BY <2>1, <2>6 DEF PaidFor
  <2> QED
    BY <2>2, <2>3, <2>7
<1> QED
  BY <1>1, BooksInvariant, PTL DEF Spec, NoPaymentWithoutReturn

-----------------------------------------------------------------------------
(***************************************************************************)
(* What a batch returns to its sellers is there                            *)
(***************************************************************************)
\* The share of a reserve that n tokens are is a decimal between nothing and the
\* whole reserve.
LEMMA DeltaBelow ==
  ASSUME currentSupply \in Nat \ {0}, currentReserve \in CoinSet, NEW d \in Denom,
         NEW n \in Nat, n <= currentSupply
  PROVE  /\ ReserveDelta(n)[d] \in Nat
         /\ ReserveDelta(n)[d] <= Unit * currentReserve[d]
<1> DEFINE alpha == Quo(ToDec(n), ToDec(currentSupply))
           r == currentReserve[d]
<1>1. alpha \in Nat /\ alpha <= Unit
  BY QuoBelowOne
<1>2. r \in Nat /\ Unit \in Nat
  BY UnitAssumption DEF CoinSet
<1>3. ReserveDelta(n)[d] = Mul(alpha, ToDec(r))
  BY DEF ReserveDelta
<1> HIDE DEF alpha, r
<1>4. Mul(alpha, ToDec(r)) = r * alpha
  <2>1. Mul(ToDec(r), alpha) = r * alpha
    BY <1>1, <1>2, MulByInteger
  <2>2. alpha * ToDec(r) = ToDec(r) * alpha
    BY <1>1, <1>2, ToDecType
  <2> QED
    BY <2>1, <2>2 DEF Mul
<1>5. r * alpha \in Nat /\ r * alpha <= Unit * r
  BY <1>1, <1>2
<1> QED
  BY <1>3, <1>4, <1>5 DEF r

\* The price of the side that has more tokens, within what rounding moves it.
LEMMA MatchedBounds ==
  ASSUME currentSupply \in Nat \ {0}, currentReserve \in CoinSet, NEW d \in Denom,
         NEW more \in Nat, NEW fewer \in Nat, more > fewer
  PROVE  LET a == fewer * CurrentPricesPT[d] + ReserveDelta(more - fewer)[d]
             p == MatchedPrices(more, fewer)[d]
         IN  /\ a \in Nat /\ p \in Nat
             /\ 2 * (more * p) <= 2 * a + more
             /\ 2 * (Unit * a) + 2 <= (2 * (Unit * (more * p)) + Unit * more) + 2 * more
<1> DEFINE c == CurrentPricesPT[d]
           a == fewer * c + ReserveDelta(more - fewer)[d]
<1>1. c \in Nat /\ ReserveDelta(more - fewer)[d] \in Nat
  <2>1. more - fewer \in Nat
    OBVIOUS
  <2> QED
    BY <2>1, DeltaType DEF CurrentPricesPT, CoinSet
<1>2. a \in Nat /\ more \in Nat \ {0}
  BY <1>1
<1>3. MatchedPrices(more, fewer)[d] = Quo(a, ToDec(more))
  <2>1. Mul(c, ToDec(fewer)) = fewer * c
    <3>1. Mul(ToDec(fewer), c) = fewer * c
      BY <1>1, MulByInteger
    <3>2. c * ToDec(fewer) = ToDec(fewer) * c
      BY <1>1, ToDecType
    <3> QED
      BY <3>1, <3>2 DEF Mul
  <2>2. MatchedPrices(more, fewer)[d]
          = Quo(Mul(c, ToDec(fewer)) + ReserveDelta(more - fewer)[d], ToDec(more))
    BY DEF MatchedPrices
  <2> QED
    BY <2>1, <2>2
<1> QED
  BY <1>2, <1>3, QuoByInteger

\* The sells of a batch return at most what is in the reserve and what its buys
\* put there.  The prices are those of the batch, C what its buys pay, rounded up,
\* T what its sells return, rounded down.  Per token rounding to the nearest moves
\* a price by one half, so a whole coin for 2 * Unit tokens.
LEMMA ReturnsBelow ==
  ASSUME currentSupply \in Nat \ {0}, currentReserve \in CoinSet, NEW d \in Denom,
         NEW buy \in Nat, NEW sell \in Nat, sell <= currentSupply,
         buy < 2 * Unit, sell < 2 * Unit, NEW C \in Nat, NEW T \in Nat,
         BatchBuyPrices(buy, sell)[d] * buy <= Unit * C,
         Unit * T <= BatchSellPrices(buy, sell)[d] * sell
  PROVE  T <= C + currentReserve[d]
<1> DEFINE r == currentReserve[d]
           c == CurrentPricesPT[d]
<1>1. r \in Nat /\ Unit \in Nat \ {0}
  BY UnitAssumption DEF CoinSet
<1>2. c \in Nat /\ c <= Unit * r
  <2>1. 1 \in Nat /\ 1 <= currentSupply
    OBVIOUS
  <2> QED
    BY <2>1, DeltaBelow DEF CurrentPricesPT
<1>3. CASE sell > buy
  <2> DEFINE p == MatchedPrices(sell, buy)[d]
             s == ReserveDelta(sell - buy)[d]
  <2>1. p \in Nat /\ 2 * (sell * p) <= 2 * (buy * c + s) + sell
    BY <1>3, MatchedBounds
  <2>2. s \in Nat /\ s <= Unit * r
    <3>1. sell - buy \in Nat /\ sell - buy <= currentSupply
      BY <1>3
    <3> QED
      BY <3>1, DeltaBelow
  <2>3. BatchBuyPrices(buy, sell)[d] = c /\ BatchSellPrices(buy, sell)[d] = p
    BY <1>3 DEF BatchBuyPrices, BatchSellPrices
  <2> HIDE DEF p, s, c, r
  <2>4. buy * c <= Unit * C /\ Unit * T <= sell * p
    BY <1>2, <2>1, <2>3
  <2> DEFINE x == buy * c
             y == sell * p
             t == Unit * T
             k == Unit * C
             m == Unit * r
  <2>5. x \in Nat /\ y \in Nat /\ t \in Nat /\ k \in Nat /\ m \in Nat
    BY <1>1, <1>2, <2>1
  <2>6. x <= k /\ t <= y /\ 2 * y <= 2 * (x + s) + sell /\ s <= m /\ sell < 2 * Unit
    BY <2>1, <2>2, <2>4
  <2>7. t < (k + m) + Unit
    <3> HIDE DEF x, y, t, k, m
    <3> QED
      BY <1>1, <2>2, <2>5, <2>6
  <2>8. (k + m) + Unit = Unit * ((C + r) + 1)
    BY <1>1
  <2>9. T < (C + r) + 1
    <3>1. Unit * T < Unit * ((C + r) + 1)
      BY <2>7, <2>8
    <3>2. \A i, j \in Nat : Unit * i < Unit * j => i < j
      BY <1>1
    <3> QED
      BY <1>1, <3>1, <3>2
  <2>10. T <= C + r
    BY <1>1, <2>9
  <2> QED
    BY <2>10 DEF r
<1>4. CASE sell <= buy
  <2>1. BatchSellPrices(buy, sell)[d] = c
    BY <1>4 DEF BatchSellPrices
  <2>2. \A i, j \in Nat : Unit * i <= Unit * j => i <= j
    BY <1>1
  <2>3. CASE sell = buy
    <3>1. BatchBuyPrices(buy, sell)[d] = c
      BY <2>3 DEF BatchBuyPrices
    <3> HIDE DEF c, r
    <3>2. Unit * T <= Unit * C
      <4>1. c * buy \in Nat /\ Unit * T \in Nat /\ Unit * C \in Nat
        BY <1>1, <1>2
      <4>2. c * buy <= Unit * C /\ Unit * T <= c * buy
        BY <2>1, <2>3, <3>1
      <4> DEFINE x == c * buy
                 t == Unit * T
                 k == Unit * C
      <4> HIDE DEF x, t, k
      <4>3. x \in Nat /\ t \in Nat /\ k \in Nat /\ x <= k /\ t <= x
        BY <4>1, <4>2 DEF x, t, k
      <4>4. t <= k
        BY <4>3
      <4> QED
        BY <4>4 DEF t, k
    <3>3. T <= C
      BY <2>2, <3>2
    <3>4. T <= C + r
      BY <1>1, <3>3
    <3> QED
      BY <3>4 DEF r
  <2>4. CASE r = 0
    <3> HIDE DEF c, r
    <3>1. c = 0
      BY <1>1, <1>2, <2>4
    <3>2. Unit * T <= 0
      BY <2>1, <3>1
    <3>3. T = 0
      BY <1>1, <3>2
    <3>4. T <= C + r
      BY <1>1, <3>3
    <3> QED
      BY <3>4 DEF r
  <2>5. CASE sell < buy /\ r # 0
    <3> DEFINE p == MatchedPrices(buy, sell)[d]
               s == ReserveDelta(buy - sell)[d]
    <3>1. /\ p \in Nat
          /\ 2 * (Unit * (sell * c + s)) + 2 <= (2 * (Unit * (buy * p)) + Unit * buy) + 2 * buy
      BY <2>5, MatchedBounds
    <3>2. s \in Nat
      <4>1. buy - sell \in Nat
        BY <2>5
      <4> QED
        BY <4>1, DeltaType DEF CoinSet
    <3>3. BatchBuyPrices(buy, sell)[d] = p
      BY <2>5 DEF BatchBuyPrices
    <3> HIDE DEF p, s, c, r
    <3>4. p * buy <= Unit * C /\ Unit * T <= c * sell
      BY <2>1, <3>3
    <3> DEFINE x == sell * c
               y == buy * p
               t == Unit * T
               k == Unit * C
    <3>5. /\ x \in Nat /\ y \in Nat /\ t \in Nat /\ k \in Nat
          /\ y <= k /\ t <= x
          /\ 2 * (Unit * (x + s)) + 2 <= (2 * (Unit * y) + Unit * buy) + 2 * buy
      BY <1>1, <1>2, <3>1, <3>4
    <3>6. 2 * (Unit * t) + 2 <= (2 * (Unit * k) + Unit * buy) + 2 * buy
      <4> HIDE DEF x, y, t, k
      <4>1. Unit * t <= Unit * (x + s) /\ Unit * y <= Unit * k
        BY <1>1, <3>2, <3>5
      <4>2. Unit * t \in Nat /\ Unit * (x + s) \in Nat /\ Unit * y \in Nat /\ Unit * k \in Nat
            /\ Unit * buy \in Nat
        BY <1>1, <3>2, <3>5
      <4> QED
        BY <3>5, <4>1, <4>2
    <3>7. Unit * buy + 2 * buy <= (2 * (Unit * Unit) + 3 * Unit) - 2
      <4>1. buy <= 2 * Unit - 1
        BY <1>1
      <4>2. (Unit + 2) * buy <= (Unit + 2) * (2 * Unit - 1)
        BY <1>1, <4>1
      <4>3. (Unit + 2) * buy = Unit * buy + 2 * buy
        BY <1>1
      <4>4. (Unit + 2) * (2 * Unit - 1) = (2 * (Unit * Unit) + 3 * Unit) - 2
        BY <1>1
      <4> QED
        BY <4>2, <4>3, <4>4
    <3> DEFINE g == Unit * Unit
    <3>8. 2 * (Unit * t) + 4 <= 2 * (Unit * k) + (2 * g + 3 * Unit)
      <4>1. Unit * t \in Nat /\ Unit * k \in Nat /\ Unit * buy \in Nat /\ g \in Nat
        BY <1>1, <3>5
      <4> HIDE DEF t, k
      <4> DEFINE i == Unit * t
                 j == Unit * k
                 h == Unit * buy
      <4>2. /\ 2 * i + 2 <= (2 * j + h) + 2 * buy
            /\ h + 2 * buy <= (2 * g + 3 * Unit) - 2
            /\ i \in Nat /\ j \in Nat /\ h \in Nat /\ g \in Nat
        BY <3>6, <3>7, <4>1
      <4>3. 2 * i + 4 <= 2 * j + (2 * g + 3 * Unit)
        <5> HIDE DEF i, j, h, g
        <5> QED
          BY <1>1, <4>2
      <4> QED
        BY <4>3
    <3>9. Unit * t = g * T /\ Unit * k = g * C /\ g \in Nat \ {0} /\ 3 * Unit <= 2 * g + 1
      <4>1. Unit * t = g * T /\ Unit * k = g * C /\ g \in Nat \ {0}
        BY <1>1
      <4>2. 3 * Unit <= 2 * g + 1
        <5>1. CASE Unit = 1
          BY <5>1
        <5>2. CASE Unit >= 2
          <6>1. 2 * Unit <= Unit * Unit
            BY <1>1, <5>2
          <6> QED
            BY <1>1, <4>1, <6>1
        <5> QED
          BY <1>1, <5>1, <5>2
      <4> QED
        BY <4>1, <4>2
    <3>10. g * T < g * (C + 2)
      <4>1. g * (C + 2) = g * C + 2 * g /\ g * T \in Nat /\ g * C \in Nat
        BY <3>9
      <4> DEFINE i == g * T
                 j == g * C
      <4> HIDE DEF g, i, j, t, k
      <4>2. 2 * i + 4 <= 2 * j + (2 * g + 3 * Unit) /\ i \in Nat /\ j \in Nat
        BY <3>8, <3>9, <4>1 DEF i, j
      <4>3. i < j + 2 * g
        BY <1>1, <3>9, <4>2
      <4> QED
        BY <4>1, <4>3 DEF i, j
    <3> HIDE DEF g
    <3>11. T < C + 2
      BY <3>9, <3>10
    <3>12. T <= C + r
      BY <1>1, <2>5, <3>11
    <3> QED
      BY <3>12 DEF r
  <2> QED
    BY <1>1, <1>4, <2>3, <2>4, <2>5
<1> QED
  BY <1>3, <1>4

-----------------------------------------------------------------------------
(***************************************************************************)
(* When EndBlocker halts                                                   *)
(***************************************************************************)
\* What the buys at the positions S pay into the reserve, and what the sells
\* there take out of it.
BuyCost(orders, S, prices, d) == SumOf([i \in S |-> ReservePrices(orders[i], prices)[d]], S)
SellReturn(orders, S, prices, d) == SumOf([i \in S |-> ReserveReturns(orders[i], prices)[d]], S)

\* While nothing but buys has come and none is cancelled, the batch has the price
\* that the last of them has looked at.
LastPrices ==
  sells = <<>> /\ LiveBuys = DOMAIN buys =>
    \A i \in DOMAIN buys : FulfillableAtPrice(buys[i], buyPrices)

\* The sells of the batch return what will be in the reserve.
SmallBatch == totalBuy < 2 * Unit /\ totalSell < 2 * Unit
ReturnsCovered ==
  bondState # "SETTLE" /\ SmallBatch => \A d \in Denom : ExpectedReserve[d] >= 0

HaltInv == BooksInv /\ LastPrices /\ ReturnsCovered /\ HaltsOnlyOnLatePrices

LEMMA OrderReserve ==
  ASSUME NEW order, NEW prices, NEW d \in Denom
  PROVE  /\ ReservePrices(order, prices)[d] = CeilInt(prices[d] * order.amount)
         /\ ReserveReturns(order, prices)[d] = TruncateInt(prices[d] * order.amount)
BY DEF ReservePrices, ReserveReturns, MulInt

LEMMA CostBounds ==
  ASSUME NEW orders \in Seq(BuyOrder), NEW S \in SUBSET DOMAIN orders,
         NEW prices \in CoinSet, NEW d \in Denom
  PROVE  /\ BuyCost(orders, S, prices, d) \in Nat
         /\ prices[d] * SumOf(Amounts(orders), S) <= Unit * BuyCost(orders, S, prices, d)
<1> DEFINE f == Amounts(orders)
           c == [i \in S |-> ReservePrices(orders[i], prices)[d]]
           p == prices[d]
<1>1. p \in Nat /\ IsFiniteSet(S)
  BY OrdersFinite DEF CoinSet
<1>2. \A i \in S : f[i] \in Nat /\ f[i] = orders[i].amount
  BY BuyOrderType DEF Amounts
<1>3. \A i \in S : c[i] = CeilInt(p * f[i])
  BY <1>2, OrderReserve
<1>4. \A i \in S : f[i] \in Nat /\ c[i] = CeilInt(p * f[i])
  BY <1>2, <1>3
<1>5. BuyCost(orders, S, prices, d) = SumOf(c, S)
  BY DEF BuyCost
<1> HIDE DEF f, c, p
<1>6. SumOf(c, S) \in Nat /\ p * SumOf(f, S) <= Unit * SumOf(c, S)
  BY <1>1, <1>4, SumOfCeilings
<1> QED
  BY <1>5, <1>6 DEF f, p

LEMMA ReturnBounds ==
  ASSUME NEW orders \in Seq(SellOrder), NEW S \in SUBSET DOMAIN orders,
         NEW prices \in CoinSet, NEW d \in Denom
  PROVE  /\ SellReturn(orders, S, prices, d) \in Nat
         /\ Unit * SellReturn(orders, S, prices, d) <= prices[d] * SumOf(Amounts(orders), S)
<1> DEFINE f == Amounts(orders)
           c == [i \in S |-> ReserveReturns(orders[i], prices)[d]]
           p == prices[d]
<1>1. p \in Nat /\ IsFiniteSet(S)
  BY OrdersFinite DEF CoinSet
<1>2. \A i \in S : f[i] \in Nat /\ f[i] = orders[i].amount
  BY SellOrderType DEF Amounts
<1>3. \A i \in S : c[i] = TruncateInt(p * f[i])
  BY <1>2, OrderReserve
<1>4. \A i \in S : f[i] \in Nat /\ c[i] = TruncateInt(p * f[i])
  BY <1>2, <1>3
<1>5. SellReturn(orders, S, prices, d) = SumOf(c, S)
  BY DEF SellReturn
<1> HIDE DEF f, c, p
<1>6. SumOf(c, S) \in Nat /\ Unit * SumOf(c, S) <= p * SumOf(f, S)
  BY <1>1, <1>4, SumOfTruncations
<1> QED
  BY <1>5, <1>6 DEF f, p

\* An order that is performed takes its part of these with it.
LEMMA CostRemove ==
  ASSUME NEW orders \in Seq(BuyOrder), NEW S \in SUBSET DOMAIN orders, NEW n \in S,
         NEW prices \in CoinSet, NEW d \in Denom
  PROVE  /\ ReservePrices(orders[n], prices)[d] \in Nat
         /\ BuyCost(orders, S \ {n}, prices, d) \in Nat
         /\ BuyCost(orders, S, prices, d)
              = BuyCost(orders, S \ {n}, prices, d) + ReservePrices(orders[n], prices)[d]
<1> DEFINE f == [i \in S |-> ReservePrices(orders[i], prices)[d]]
           g == [i \in S \ {n} |-> ReservePrices(orders[i], prices)[d]]
<1>1. IsFiniteSet(S)
  BY OrdersFinite
<1>2. \A i \in S : f[i] \in Nat
  <2> SUFFICES ASSUME NEW i \in S PROVE ReservePrices(orders[i], prices)[d] \in Nat
    OBVIOUS
  <2>1. orders[i].amount \in Nat
    BY BuyOrderType
  <2>2. ReservePrices(orders[i], prices) \in CoinSet
    BY <2>1, OrderPrices
  <2> QED
    BY <2>2 DEF CoinSet
<1>3. f[n] = ReservePrices(orders[n], prices)[d] /\ \A i \in S \ {n} : f[i] = g[i]
  OBVIOUS
<1>4. BuyCost(orders, S, prices, d) = SumOf(f, S)
      /\ BuyCost(orders, S \ {n}, prices, d) = SumOf(g, S \ {n})
  BY DEF BuyCost
<1>5. S \ {n} \in SUBSET DOMAIN orders
  OBVIOUS
<1>6. BuyCost(orders, S \ {n}, prices, d) \in Nat
  BY <1>5, CostBounds
<1> HIDE DEF f, g
<1>7. SumOf(f, S) = SumOf(f, S \ {n}) + f[n]
  BY <1>1, <1>2, SumRemove
<1>8. SumOf(f, S \ {n}) = SumOf(g, S \ {n})
  BY <1>3, SumCongruence
<1> QED
  BY <1>2, <1>3, <1>4, <1>6, <1>7, <1>8

LEMMA ReturnRemove ==
  ASSUME NEW orders \in Seq(SellOrder), NEW S \in SUBSET DOMAIN orders, NEW n \in S,
         NEW prices \in CoinSet, NEW d \in Denom
  PROVE  /\ ReserveReturns(orders[n], prices)[d] \in Nat
         /\ SellReturn(orders, S \ {n}, prices, d) \in Nat
         /\ SellReturn(orders, S, prices, d)
              = SellReturn(orders, S \ {n}, prices, d) + ReserveReturns(orders[n], prices)[d]
<1> DEFINE f == [i \in S |-> ReserveReturns(orders[i], prices)[d]]
           g == [i \in S \ {n} |-> ReserveReturns(orders[i], prices)[d]]
<1>1. IsFiniteSet(S)
  BY OrdersFinite
<1>2. \A i \in S : f[i] \in Nat
  <2> SUFFICES ASSUME NEW i \in S PROVE ReserveReturns(orders[i], prices)[d] \in Nat
    OBVIOUS
  <2>1. orders[i].amount \in Nat
    BY SellOrderType
  <2>2. ReserveReturns(orders[i], prices) \in CoinSet
    BY <2>1, OrderPrices
  <2> QED
    BY <2>2 DEF CoinSet
<1>3. f[n] = ReserveReturns(orders[n], prices)[d] /\ \A i \in S \ {n} : f[i] = g[i]
  OBVIOUS
<1>4. SellReturn(orders, S, prices, d) = SumOf(f, S)
      /\ SellReturn(orders, S \ {n}, prices, d) = SumOf(g, S \ {n})
  BY DEF SellReturn
<1>5. S \ {n} \in SUBSET DOMAIN orders
  OBVIOUS
<1>6. SellReturn(orders, S \ {n}, prices, d) \in Nat
  BY <1>5, ReturnBounds
<1> HIDE DEF f, g
<1>7. SumOf(f, S) = SumOf(f, S \ {n}) + f[n]
  BY <1>1, <1>2, SumRemove
<1>8. SumOf(f, S \ {n}) = SumOf(g, S \ {n})
  BY <1>3, SumCongruence
<1> QED
  BY <1>2, <1>3, <1>4, <1>6, <1>7, <1>8

LEMMA ExpectedType ==
  ASSUME TypeOK, NEW d \in Denom
  PROVE  /\ currentReserve[d] \in Nat
         /\ BuyCost(buys, PendingBuys, buyPrices, d) \in Nat
         /\ SellReturn(sells, PendingSells, sellPrices, d) \in Nat
         /\ ExpectedReserve[d]
              = (currentReserve[d] + BuyCost(buys, PendingBuys, buyPrices, d))
                  - SellReturn(sells, PendingSells, sellPrices, d)
<1>1. buyPrices \in CoinSet /\ sellPrices \in CoinSet /\ currentReserve[d] \in Nat
  BY DEF TypeOK, CoinSet
<1>2. BuyCost(buys, PendingBuys, buyPrices, d) \in Nat
  BY <1>1, PendingType, CostBounds
<1>3. SellReturn(sells, PendingSells, sellPrices, d) \in Nat
  BY <1>1, PendingType, ReturnBounds
<1> QED
  BY <1>1, <1>2, <1>3 DEF ExpectedReserve, BuyCost, SellReturn

\* No orders cost and return nothing.
LEMMA NothingExpected ==
  ASSUME TypeOK, PendingBuys = {}, PendingSells = {}, NEW d \in Denom
  PROVE  ExpectedReserve[d] >= 0
<1>1. \A f : SumOf(f, {}) = 0
  BY SumEmpty
<1>2. /\ BuyCost(buys, PendingBuys, buyPrices, d) = 0
      /\ SellReturn(sells, PendingSells, sellPrices, d) = 0
  BY <1>1 DEF BuyCost, SellReturn
<1> QED
  BY <1>2, ExpectedType

LEMMA ExpectedTypeNext ==
  (TypeOK => \A d \in Denom :
     /\ currentReserve[d] \in Nat
     /\ BuyCost(buys, PendingBuys, buyPrices, d) \in Nat
     /\ SellReturn(sells, PendingSells, sellPrices, d) \in Nat
     /\ ExpectedReserve[d]
          = (currentReserve[d] + BuyCost(buys, PendingBuys, buyPrices, d))
              - SellReturn(sells, PendingSells, sellPrices, d))'
<1>1. TypeOK => \A d \in Denom :
        /\ currentReserve[d] \in Nat
        /\ BuyCost(buys, PendingBuys, buyPrices, d) \in Nat
        /\ SellReturn(sells, PendingSells, sellPrices, d) \in Nat
        /\ ExpectedReserve[d]
             = (currentReserve[d] + BuyCost(buys, PendingBuys, buyPrices, d))
                 - SellReturn(sells, PendingSells, sellPrices, d)
  BY ExpectedType
<1> QED
  BY <1>1, PTL

LEMMA NoReturns ==
  (BooksInv /\ PendingBuys = {} /\ PendingSells = {} => ReturnsCovered)'
<1>1. BooksInv /\ PendingBuys = {} /\ PendingSells = {} => ReturnsCovered
  BY NothingExpected DEF BooksInv, ReturnsCovered
<1> QED
  BY <1>1, PTL

\* A batch that has just been priced covers its returns.
BatchPriced ==
  /\ BooksInv /\ phase = "DeliverTx" /\ currentSupply # 0
  /\ buyPrices = BatchBuyPrices(totalBuy, totalSell)
  /\ sellPrices = BatchSellPrices(totalBuy, totalSell)

LEMMA PricedReturns ==
  (BatchPriced => ReturnsCovered)'
<1>1. ASSUME BooksInv, phase = "DeliverTx", currentSupply # 0,
             buyPrices = BatchBuyPrices(totalBuy, totalSell),
             sellPrices = BatchSellPrices(totalBuy, totalSell)
      PROVE  ReturnsCovered
  <2> SUFFICES ASSUME SmallBatch, NEW d \in Denom PROVE ExpectedReserve[d] >= 0
    BY DEF ReturnsCovered
  <2> DEFINE C == BuyCost(buys, PendingBuys, buyPrices, d)
             T == SellReturn(sells, PendingSells, sellPrices, d)
  <2>1. /\ TypeOK /\ currentSupply \in Nat \ {0} /\ currentReserve \in CoinSet
        /\ totalBuy \in Nat /\ totalSell \in Nat
        /\ buyPrices \in CoinSet /\ sellPrices \in CoinSet
    BY <1>1 DEF BooksInv, TypeOK
  <2>2. /\ PendingBuys = Live(buys) /\ PendingSells = DOMAIN sells
        /\ totalBuy = SumOf(Amounts(buys), Live(buys)) /\ totalSell <= currentSupply
    BY <1>1, OpenBooks
  <2>3. totalSell = SumOf(Amounts(sells), DOMAIN sells)
    BY <1>1 DEF BooksInv, BatchTotals
  <2>4. /\ PendingBuys \in SUBSET DOMAIN buys /\ PendingSells \in SUBSET DOMAIN sells
        /\ buys \in Seq(BuyOrder) /\ sells \in Seq(SellOrder)
    BY <2>1, PendingType
  <2>5. C \in Nat /\ buyPrices[d] * totalBuy <= Unit * C
    BY <2>1, <2>2, <2>4, CostBounds
  <2>6. T \in Nat /\ Unit * T <= sellPrices[d] * totalSell
    BY <2>1, <2>2, <2>3, <2>4, ReturnBounds
  <2>7. ExpectedReserve[d] = (currentReserve[d] + C) - T /\ currentReserve[d] \in Nat
    BY <2>1, ExpectedType
  <2> HIDE DEF C, T
  <2>8. T <= C + currentReserve[d]
    BY <1>1, <2>1, <2>2, <2>5, <2>6, ReturnsBelow DEF SmallBatch
  <2> QED
    BY <2>5, <2>6, <2>7, <2>8
<1>2. BatchPriced => ReturnsCovered
  BY <1>1 DEF BatchPriced
<1> QED
  BY <1>2, PTL

\* Steps that leave the orders and their prices alone.
LEMMA SameReturns ==
  ASSUME HaltInv, BooksInv', bondState' = bondState,
         UNCHANGED <<buys, sells, buyPrices, sellPrices, totalBuy, totalSell>>,
         PendingBuys' = PendingBuys, PendingSells' = PendingSells,
         \A d \in Denom : currentReserve'[d] >= currentReserve[d]
  PROVE  LastPrices' /\ ReturnsCovered'
<1>1. LastPrices'
  BY DEF HaltInv, LastPrices, LiveBuys
<1>2. ReturnsCovered'
  <2> SUFFICES ASSUME bondState # "SETTLE", SmallBatch, NEW d \in Denom
               PROVE  ExpectedReserve'[d] >= 0
    BY DEF ReturnsCovered, SmallBatch
  <2> DEFINE C == BuyCost(buys, PendingBuys, buyPrices, d)
             T == SellReturn(sells, PendingSells, sellPrices, d)
             r == currentReserve[d]
             s == currentReserve'[d]
  <2>1. r \in Nat /\ C \in Nat /\ T \in Nat /\ ExpectedReserve[d] = (r + C) - T
    BY ExpectedType DEF HaltInv, BooksInv
  <2>2. ExpectedReserve[d] >= 0
    BY DEF HaltInv, ReturnsCovered
  <2>3. /\ BuyCost(buys, PendingBuys, buyPrices, d)' = C
        /\ SellReturn(sells, PendingSells, sellPrices, d)' = T
    BY DEF BuyCost, SellReturn
  <2>4. s \in Nat /\ ExpectedReserve'[d] = (s + C) - T
    BY <2>3, ExpectedTypeNext DEF BooksInv
  <2>5. s >= r
    OBVIOUS
  <2> HIDE DEF C, T, r, s
  <2> QED
    BY <2>1, <2>2, <2>4, <2>5
<1> QED
  BY <1>1, <1>2

LEMMA SmallSettled ==
  ASSUME bondState' = "SETTLE"
  PROVE  ReturnsCovered'
BY DEF ReturnsCovered

LEMMA SamePrices ==
  ASSUME UNCHANGED <<currentSupply, currentReserve>>, NEW buy, NEW sell,
         totalBuy' = buy, totalSell' = sell
  PROVE  /\ BatchBuyPrices(totalBuy, totalSell)' = BatchBuyPrices(buy, sell)
         /\ BatchSellPrices(totalBuy, totalSell)' = BatchSellPrices(buy, sell)
BY DEF BatchBuyPrices, BatchSellPrices, MatchedPrices, CurrentPricesPT, ReserveDelta

LEMMA BuyHalts ==
  ASSUME HaltInv, BooksInv', NEW buyer \in Account, NEW amount \in OrderAmount,
         NEW maxPrices \in OrderMaxPrices, Buy(buyer, amount, maxPrices)
  PROVE  LastPrices' /\ ReturnsCovered'
<1> DEFINE order     == [account |-> buyer, amount |-> amount,
                         maxPrices |-> maxPrices, cancelled |-> FALSE]
           buy       == totalBuy + amount
           orders    == Append(buys, order)
           cancelled == Unfulfillable(orders, BatchBuyPrices(buy, totalSell))
           remaining == buy - SumOf(Amounts(orders), cancelled)
<1>1. /\ phase = "DeliverTx" /\ currentSupply # 0
      /\ buys' = Cancel(orders, cancelled) /\ totalBuy' = remaining
      /\ buyPrices' = BatchBuyPrices(remaining, totalSell)
      /\ sellPrices' = BatchSellPrices(remaining, totalSell)
      /\ UNCHANGED <<currentSupply, currentReserve, totalSell, phase>>
  BY DEF Buy, CanBuy, DeliverTx, bondVars, loopVars
<1>2. buy \in Nat
  BY SwapperAssumption DEF HaltInv, BooksInv, TypeOK
<1>3. cancelled \in SUBSET DOMAIN orders
      /\ \A i \in DOMAIN orders \ cancelled :
           ~orders[i].cancelled =>
             FulfillableAtPrice(orders[i], BatchBuyPrices(buy, totalSell))
  BY DEF Unfulfillable
<1> HIDE DEF order, orders, cancelled
<1>4. ReturnsCovered'
  <2> HIDE DEF remaining
  <2>1. /\ BatchBuyPrices(totalBuy, totalSell)' = BatchBuyPrices(remaining, totalSell)
        /\ BatchSellPrices(totalBuy, totalSell)' = BatchSellPrices(remaining, totalSell)
    BY <1>1, SamePrices
  <2>2. BatchPriced'
    BY <1>1, <2>1 DEF BatchPriced
  <2> QED
    BY <2>2, PricedReturns
<1>5. LastPrices'
  <2> SUFFICES ASSUME LiveBuys' = DOMAIN buys', NEW i \in DOMAIN buys'
               PROVE  FulfillableAtPrice(buys'[i], buyPrices')
    BY DEF LastPrices
  <2>1. /\ DOMAIN buys' = DOMAIN orders
        /\ \A j \in DOMAIN orders :
             buys'[j] = IF j \in cancelled THEN [orders[j] EXCEPT !.cancelled = TRUE]
                                           ELSE orders[j]
    BY <1>1 DEF Cancel
  <2>2. \A j \in DOMAIN buys' : ~buys'[j].cancelled
    BY DEF LiveBuys
  <2>3. cancelled = {}
    <3>1. SUFFICES ASSUME NEW j \in cancelled PROVE FALSE
      OBVIOUS
    <3>2. j \in DOMAIN orders /\ buys'[j] = [orders[j] EXCEPT !.cancelled = TRUE]
      BY <1>3, <2>1
    <3>3. buys' \in Seq(BuyOrder)
      BY DEF BooksInv, TypeOK
    <3>4. buys'[j] \in BuyOrder
      <4>1. PICK b \in Seq(BuyOrder) : b = buys'
        BY <3>3
      <4>2. j \in DOMAIN b
        BY <2>1, <3>2, <4>1
      <4>3. b[j] \in BuyOrder
        BY <4>2, OrdersFinite
      <4> QED
        BY <4>1, <4>3
    <3>5. "cancelled" \in DOMAIN buys'[j] /\ DOMAIN buys'[j] = DOMAIN orders[j]
      BY <3>2, <3>4 DEF BuyOrder
    <3>6. buys'[j].cancelled = TRUE
      BY <3>2, <3>5
    <3> QED
      BY <2>1, <2>2, <3>2, <3>6
  <2>4. buys'[i] = orders[i] /\ ~orders[i].cancelled
    BY <2>1, <2>2, <2>3
  <2>5. FulfillableAtPrice(orders[i], BatchBuyPrices(buy, totalSell))
    BY <1>3, <2>1, <2>3, <2>4
  <2>6. remaining = buy
    <3>1. SumOf(Amounts(orders), {}) = 0
      BY SumEmpty
    <3>2. SumOf(Amounts(orders), cancelled) = 0
      BY <2>3, <3>1
    <3> QED
      BY <1>2, <3>2
  <2>7. buyPrices' = BatchBuyPrices(buy, totalSell)
    BY <1>1, <2>6
  <2> QED
    BY <2>4, <2>5, <2>7
<1> QED
  BY <1>4, <1>5

LEMMA SellHalts ==
  ASSUME HaltInv, BooksInv', NEW seller \in Account, NEW amount \in OrderAmount,
         Sell(seller, amount)
  PROVE  LastPrices' /\ ReturnsCovered'
<1> DEFINE order == [account |-> seller, amount |-> amount]
           sell  == totalSell + amount
<1>1. /\ phase = "DeliverTx" /\ sell <= currentSupply
      /\ sells' = Append(sells, order) /\ totalSell' = sell
      /\ buyPrices' = BatchBuyPrices(totalBuy, sell)
      /\ sellPrices' = BatchSellPrices(totalBuy, sell)
      /\ UNCHANGED <<currentSupply, currentReserve, totalBuy, phase>>
  BY DEF Sell, DeliverTx, bondVars, loopVars
<1>2. totalSell \in Nat /\ amount \in Nat \ {0} /\ sells \in Seq(SellOrder)
  BY SwapperAssumption DEF HaltInv, BooksInv, TypeOK
<1>3. currentSupply # 0
  BY <1>1, <1>2
<1> HIDE DEF sell
<1>4. /\ BatchBuyPrices(totalBuy, totalSell)' = BatchBuyPrices(totalBuy, sell)
      /\ BatchSellPrices(totalBuy, totalSell)' = BatchSellPrices(totalBuy, sell)
  BY <1>1, SamePrices
<1>5. BatchPriced'
  BY <1>1, <1>3, <1>4 DEF BatchPriced
<1>6. sells' # <<>>
  BY <1>1, <1>2
<1> QED
  BY <1>5, <1>6, PricedReturns DEF LastPrices

LEMMA PerformBuyHalts ==
  ASSUME HaltInv, BooksInv', PerformBuy
  PROVE  LastPrices' /\ ReturnsCovered'
<1>1. /\ phase = "Buys" /\ next \in LiveBuys /\ NextOrder
      /\ DepositReserve(ReservePrices(buys[next], buyPrices))
      /\ UNCHANGED <<bondState, batchVars>>
  <2>1. PICK order \in {buys[i] : i \in LiveBuys} :
          /\ Performing("Buys", order, buys)
          /\ DepositReserve(ReservePrices(order, buyPrices)) /\ NextOrder
          /\ UNCHANGED <<bondState, batchVars>>
    BY DEF PerformBuy
  <2>2. PICK i \in LiveBuys : order = buys[i]
    OBVIOUS
  <2>3. /\ phase = "Buys" /\ next \in DOMAIN buys /\ order = buys[next]
    BY <2>1 DEF Performing
  <2>4. next \in LiveBuys
    BY <2>2, <2>3 DEF LiveBuys
  <2> QED
    BY <2>1, <2>3, <2>4
<1>2. /\ buys \in Seq(BuyOrder) /\ buyPrices \in CoinSet /\ TypeOK
      /\ PendingBuys \in SUBSET DOMAIN buys
  BY PendingType DEF HaltInv, BooksInv, TypeOK
<1>3. UNCHANGED <<buys, sells, swaps, buyPrices, sellPrices, totalBuy, totalSell, LiveBuys>>
  BY <1>1 DEF batchVars, LiveBuys
<1>4. /\ next \in PendingBuys /\ PendingBuys' = PendingBuys \ {next}
      /\ PendingSells' = PendingSells
  BY <1>1, <1>2, <1>3, LoopStep
<1>5. LastPrices'
  BY <1>3 DEF HaltInv, LastPrices
<1>6. ReturnsCovered'
  <2> SUFFICES ASSUME bondState # "SETTLE", SmallBatch, NEW d \in Denom
               PROVE  ExpectedReserve'[d] >= 0
    BY <1>1, <1>3 DEF ReturnsCovered, SmallBatch
  <2> DEFINE C == BuyCost(buys, PendingBuys, buyPrices, d)
             B == BuyCost(buys, PendingBuys \ {next}, buyPrices, d)
             T == SellReturn(sells, PendingSells, sellPrices, d)
             r == currentReserve[d]
             s == currentReserve'[d]
             c == ReservePrices(buys[next], buyPrices)[d]
  <2>1. r \in Nat /\ C \in Nat /\ T \in Nat /\ ExpectedReserve[d] = (r + C) - T
    BY <1>2, ExpectedType
  <2>2. ExpectedReserve[d] >= 0
    BY DEF HaltInv, ReturnsCovered
  <2>3. /\ BuyCost(buys, PendingBuys, buyPrices, d)' = B
        /\ SellReturn(sells, PendingSells, sellPrices, d)' = T
    BY <1>3, <1>4 DEF BuyCost, SellReturn
  <2>4. s \in Nat /\ ExpectedReserve'[d] = (s + B) - T
    BY <2>3, ExpectedTypeNext DEF BooksInv
  <2>5. c \in Nat /\ B \in Nat /\ C = B + c
    BY <1>2, <1>4, CostRemove
  <2>6. s = r + c
    BY <1>1 DEF DepositReserve, Add
  <2> HIDE DEF B, C, T, r, s, c
  <2> QED
    BY <2>1, <2>2, <2>4, <2>5, <2>6
<1> QED
  BY <1>5, <1>6

LEMMA PerformSellHalts ==
  ASSUME HaltInv, BooksInv', PerformSell
  PROVE  LastPrices' /\ ReturnsCovered'
<1>1. /\ phase = "Sells" /\ next \in DOMAIN sells /\ NextOrder
      /\ WithdrawReserve(ReserveReturns(sells[next], sellPrices))
      /\ UNCHANGED <<bondState, batchVars>>
  BY DEF PerformSell, Performing
<1>2. /\ sells \in Seq(SellOrder) /\ sellPrices \in CoinSet /\ TypeOK
      /\ PendingSells \in SUBSET DOMAIN sells
  BY PendingType DEF HaltInv, BooksInv, TypeOK
<1>3. UNCHANGED <<buys, sells, swaps, buyPrices, sellPrices, totalBuy, totalSell, LiveBuys>>
  BY <1>1 DEF batchVars, LiveBuys
<1>4. /\ next \in PendingSells /\ PendingSells' = PendingSells \ {next}
      /\ PendingBuys' = PendingBuys
  BY <1>1, <1>2, <1>3, LoopStep
<1>5. LastPrices'
  BY <1>3 DEF HaltInv, LastPrices
<1>6. ReturnsCovered'
  <2> SUFFICES ASSUME bondState # "SETTLE", SmallBatch, NEW d \in Denom
               PROVE  ExpectedReserve'[d] >= 0
    BY <1>1, <1>3 DEF ReturnsCovered, SmallBatch
  <2> DEFINE C == BuyCost(buys, PendingBuys, buyPrices, d)
             T == SellReturn(sells, PendingSells, sellPrices, d)
             B == SellReturn(sells, PendingSells \ {next}, sellPrices, d)
             r == currentReserve[d]
             s == currentReserve'[d]
             c == ReserveReturns(sells[next], sellPrices)[d]
  <2>1. r \in Nat /\ C \in Nat /\ T \in Nat /\ ExpectedReserve[d] = (r + C) - T
    BY <1>2, ExpectedType
  <2>2. ExpectedReserve[d] >= 0
    BY DEF HaltInv, ReturnsCovered
  <2>3. /\ BuyCost(buys, PendingBuys, buyPrices, d)' = C
        /\ SellReturn(sells, PendingSells, sellPrices, d)' = B
    BY <1>3, <1>4 DEF BuyCost, SellReturn
  <2>4. s \in Nat /\ ExpectedReserve'[d] = (s + C) - B
    BY <2>3, ExpectedTypeNext DEF BooksInv
  <2>5. c \in Nat /\ B \in Nat /\ T = B + c
    BY <1>2, <1>4, ReturnRemove
  <2>6. s = r - c
    BY <1>1 DEF WithdrawReserve, Sub
  <2> HIDE DEF B, C, T, r, s, c
  <2> QED
    BY <2>1, <2>2, <2>4, <2>5, <2>6
<1> QED
  BY <1>5, <1>6

\* The coins an order that is performed has locked are there.
LEMMA LockedCovers ==
  ASSUME BooksInv
  PROVE  /\ phase = "Buys" /\ next \in LiveBuys => Covers(intermediary, buys[next].maxPrices)
         /\ phase = "Swaps" /\ next \in DOMAIN swaps =>
              Covers(intermediary, Single(swaps[next].from, swaps[next].amount))
<1>1. /\ TypeOK /\ next \in Nat
      /\ \A d \in Denom : /\ intermediary[d] = BuysOf(Account, d) + SwapsOf(Account, d)
                          /\ BuysOf(Account, d) \in Nat /\ SwapsOf(Account, d) \in Nat
  BY OwnedType DEF BooksInv, LocksAgree, TypeOK
<1>2. /\ buys \in Seq(BuyOrder) /\ PendingBuys \in SUBSET DOMAIN buys
      /\ swaps \in Seq(SwapOrder) /\ PendingSwaps \in SUBSET DOMAIN swaps
  BY <1>1, PendingType
<1>3. ASSUME phase = "Buys", next \in LiveBuys, NEW d \in Denom
      PROVE  intermediary[d] >= buys[next].maxPrices[d]
  <2>1. next \in PendingBuys
    BY <1>1, <1>3 DEF PendingBuys
  <2>2. Account \in SUBSET Account /\ buys[next].account \in Account
        /\ buys[next].maxPrices[d] \in Nat
    BY <1>2, <2>1, BuyOrderType
  <2>3. BuyLock(buys, PendingBuys, Account, d)
          = BuyLock(buys, PendingBuys \ {next}, Account, d)
              + Part(buys[next].account, Account, buys[next].maxPrices[d])
    BY <1>2, <2>1, BuyLockRemove
  <2>4. BuyLock(buys, PendingBuys \ {next}, Account, d) \in Nat
    <3>1. PendingBuys \ {next} \in SUBSET DOMAIN buys
      BY <1>2
    <3> QED
      BY <1>2, <3>1, BuyLockType
  <2>5. Part(buys[next].account, Account, buys[next].maxPrices[d]) = buys[next].maxPrices[d]
    BY <2>2 DEF Part
  <2> QED
    BY <1>1, <2>2, <2>3, <2>4, <2>5 DEF BuysOf
<1>4. ASSUME phase = "Swaps", next \in DOMAIN swaps, NEW d \in Denom
      PROVE  intermediary[d] >= Single(swaps[next].from, swaps[next].amount)[d]
  <2> DEFINE coin == Single(swaps[next].from, swaps[next].amount)[d]
  <2>1. next \in PendingSwaps
    BY <1>1, <1>4 DEF PendingSwaps
  <2>2. swaps[next].account \in Account /\ swaps[next].from \in Denom
        /\ swaps[next].amount \in Nat
    BY <1>2, <2>1, SwapOrderType
  <2>3. coin = (IF d = swaps[next].from THEN swaps[next].amount ELSE 0) /\ coin \in Nat
    BY <2>2, SingleType
  <2>4. SwapLock(swaps, PendingSwaps, Account, d)
          = SwapLock(swaps, PendingSwaps \ {next}, Account, d)
              + Part(swaps[next].account, Account, coin)
    BY <1>2, <2>1, <2>2, <2>3, SwapLockRemove
  <2>5. SwapLock(swaps, PendingSwaps \ {next}, Account, d) \in Nat
    <3>1. PendingSwaps \ {next} \in SUBSET DOMAIN swaps
      BY <1>2
    <3> QED
      BY <1>2, <3>1, SwapLockType
  <2>6. Part(swaps[next].account, Account, coin) = coin
    BY <2>2 DEF Part
  <2> HIDE DEF coin
  <2>7. intermediary[d] >= coin
    BY <1>1, <2>3, <2>4, <2>5, <2>6 DEF SwapsOf
  <2> QED
    BY <2>7 DEF coin
<1> QED
  BY <1>3, <1>4 DEF Covers

\* What makes EndBlocker panic: a buy at a price that is not the last one it was
\* checked at, or a sell of a bond that is settled.
LEMMA PanicHalts ==
  ASSUME HaltInv, Panic, SmallBatch
  PROVE  \/ phase = "Buys" /\ (sells # <<>> \/ LiveBuys # DOMAIN buys)
         \/ phase = "Sells" /\ bondState = "SETTLE"
<1>1. /\ TypeOK /\ currentReserve \in CoinSet /\ currentSupply \in Nat
      /\ reserveAccount = currentReserve
      /\ sells \in Seq(SellOrder) /\ sellPrices \in CoinSet /\ swaps \in Seq(SwapOrder)
      /\ next \in Nat
  BY DEF HaltInv, BooksInv, TypeOK
<1>2. CASE phase = "Buys" /\ next \in LiveBuys /\ ~CanPerformBuy(buys[next])
  <2>1. ~FulfillableAtPrice(buys[next], buyPrices)
    BY <1>2, LockedCovers DEF CanPerformBuy, HaltInv
  <2>2. next \in DOMAIN buys
    BY <1>2 DEF LiveBuys
  <2> QED
    BY <1>2, <2>1, <2>2 DEF HaltInv, LastPrices
<1>3. CASE phase = "Sells" /\ next \in DOMAIN sells /\ ~CanPerformSell(sells[next])
  <2> SUFFICES ASSUME bondState # "SETTLE" PROVE CanPerformSell(sells[next])
    BY <1>3
  <2>1. next \in PendingSells /\ PendingSells \in SUBSET DOMAIN sells
    BY <1>1, <1>3 DEF PendingSells
  <2>2. sells[next].amount <= currentSupply
    <3>1. IsFiniteSet(PendingSells) /\ sells[next].amount \in Nat
          /\ \A i \in PendingSells : Amounts(sells)[i] \in Nat
      BY <1>1, <2>1, OrdersFinite, SellOrderType
    <3>2. SumOf(Amounts(sells), PendingSells)
            = SumOf(Amounts(sells), PendingSells \ {next}) + Amounts(sells)[next]
      BY <2>1, <3>1, SumRemove
    <3>3. SumOf(Amounts(sells), PendingSells \ {next}) \in Nat
      <4>1. IsFiniteSet(PendingSells \ {next})
        BY <3>1, FS_Subset
      <4>2. \A i \in PendingSells \ {next} : Amounts(sells)[i] \in Nat
        BY <3>1
      <4> QED
        BY <4>1, <4>2, SumType
    <3>4. Amounts(sells)[next] = sells[next].amount
      BY <1>3 DEF Amounts
    <3>5. SumOf(tokens, Account) \in Nat
      BY SumType, SwapperAssumption DEF HaltInv, BooksInv, TypeOK
    <3>6. SumOf(tokens, Account) + SumOf(Amounts(sells), PendingSells) = currentSupply
      BY DEF HaltInv, BooksInv, SupplyAgrees
    <3> QED
      BY <3>1, <3>2, <3>3, <3>4, <3>5, <3>6
  <2>3. ASSUME NEW d \in Denom
        PROVE  currentReserve[d] >= ReserveReturns(sells[next], sellPrices)[d]
    <3> DEFINE T == SellReturn(sells, PendingSells, sellPrices, d)
               B == SellReturn(sells, PendingSells \ {next}, sellPrices, d)
               c == ReserveReturns(sells[next], sellPrices)[d]
               r == currentReserve[d]
    <3>1. PendingBuys = {}
      BY <1>3 DEF PendingBuys
    <3>2. \A f : SumOf(f, {}) = 0
      BY SumEmpty
    <3>3. BuyCost(buys, PendingBuys, buyPrices, d) = 0
      BY <3>1, <3>2 DEF BuyCost
    <3>4. r \in Nat /\ T \in Nat /\ ExpectedReserve[d] = (r + 0) - T
      BY <1>1, <3>3, ExpectedType
    <3>5. ExpectedReserve[d] >= 0
      BY DEF HaltInv, ReturnsCovered
    <3>6. c \in Nat /\ B \in Nat /\ T = B + c
      BY <1>1, <2>1, ReturnRemove
    <3> HIDE DEF T, B, c, r
    <3>7. r >= c
      BY <3>4, <3>5, <3>6
    <3> QED
      BY <3>7 DEF r, c
  <2> QED
    BY <1>1, <2>2, <2>3 DEF CanPerformSell, CanWithdraw, Covers
<1>4. CASE phase = "Swaps" /\ next \in DOMAIN swaps /\ ~CanPerformSwap(swaps[next])
  <2> DEFINE order == swaps[next]
  <2>1. Covers(intermediary, Single(order.from, order.amount))
    BY <1>4, LockedCovers DEF HaltInv
  <2>2. order \in SwapOrder
    BY <1>1, <1>4, OrdersFinite
  <2> HIDE DEF order
  <2>3. ASSUME SwapAllowed(order) PROVE CanWithdraw(Single(order.to, SwapOutput(order)))
    <3>1. SwapOutput(order) \in Nat /\ SwapOutput(order) <= currentReserve[order.to]
      BY <1>1, <2>2, <2>3, SwapOutputType
    <3>2. order.to \in Denom
      BY <2>2 DEF SwapOrder
    <3>3. \A d \in Denom : Single(order.to, SwapOutput(order))[d]
                             = IF d = order.to THEN SwapOutput(order) ELSE 0
      BY <3>1, <3>2, SingleType
    <3>4. \A d \in Denom : currentReserve[d] \in Nat
      BY <1>1 DEF CoinSet
    <3>5. \A d \in Denom : currentReserve[d] >= Single(order.to, SwapOutput(order))[d]
      BY <3>1, <3>3, <3>4
    <3> QED
      BY <1>1, <3>5 DEF CanWithdraw, Covers
  <2>4. CanPerformSwap(order)
    BY <2>1, <2>3 DEF CanPerformSwap
  <2> QED
    BY <1>4, <2>4 DEF order
<1> QED
  BY <1>2, <1>3, <1>4 DEF Panic

\* Only Panic halts the chain.
LEMMA NotHalted ==
  ASSUME Next, halted' = TRUE, halted \in BOOLEAN
  PROVE  Panic
<1>1. CASE Transaction
  <2>1. \A allow, l, s : CreateBond(allow, l, s) => ~halted /\ halted' = halted
    BY DEF CreateBond, DeliverTx, loopVars
  <2>2. \A a, l, s : EditBond(a, l, s) => ~halted /\ halted' = halted
    BY DEF EditBond, DeliverTx, loopVars
  <2>3. \A a, n, max : FirstBuy(a, n, max) => ~halted /\ halted' = halted
    BY DEF FirstBuy, CanBuy, DeliverTx, loopVars
  <2>4. \A a, n, max : Buy(a, n, max) => ~halted /\ halted' = halted
    BY DEF Buy, CanBuy, DeliverTx, loopVars
  <2>5. \A a, n : Sell(a, n) => ~halted /\ halted' = halted
    BY DEF Sell, DeliverTx, loopVars
  <2>6. \A a, from, to, n : Swap(a, from, to, n) => ~halted /\ halted' = halted
    BY DEF Swap, DeliverTx, loopVars
  <2>7. \A a : MakeOutcomePayment(a) \/ WithdrawShare(a) => ~halted /\ halted' = halted
    BY DEF MakeOutcomePayment, WithdrawShare, DeliverTx, loopVars
  <2> QED
    BY <1>1, <2>1, <2>2, <2>3, <2>4, <2>5, <2>6, <2>7 DEF Transaction
<1>2. CASE EndBlocker
  BY <1>2 DEF EndBlocker, EndBlock, FinishLoop, FinishBatch, PerformBuy, SkipCancelledBuy,
              PerformSell, PerformSwap, CancelSwap, Performing, NextOrder, DeliverTx
<1> QED
  BY <1>1, <1>2 DEF Next

LEMMA HaltTypes ==
  ASSUME HaltInv
  PROVE  /\ LiveBuys \in SUBSET DOMAIN buys /\ next \in Nat
         /\ \A i \in DOMAIN buys : i \in Nat /\ i >= 1
         /\ \A i \in DOMAIN sells : i \in Nat /\ i >= 1
         /\ \A d \in Denom : currentReserve[d] \in Nat /\ currentReserve[d] >= currentReserve[d]
BY DEF LiveBuys, HaltInv, BooksInv, TypeOK, CoinSet

LEMMA TransactionHalts ==
  ASSUME HaltInv, BooksInv', Transaction
  PROVE  LastPrices' /\ ReturnsCovered'
<1>1. ASSUME NEW allow \in BOOLEAN, NEW l \in OrderLimits, NEW s \in Sanity,
             CreateBond(allow, l, s)
      PROVE  LastPrices' /\ ReturnsCovered'
  <2>1. EmptyBatch
    BY <1>1 DEF CreateBond
  <2>2. buys' = <<>> /\ sells' = <<>>
    BY <2>1 DEF EmptyBatch
  <2>3. DOMAIN buys' = {} /\ DOMAIN sells' = {}
    BY <2>2
  <2>4. PendingBuys' = {} /\ PendingSells' = {}
    BY <2>3 DEF PendingBuys, PendingSells, LiveBuys
  <2> QED
    BY <2>3, <2>4, NoReturns DEF LastPrices
<1>2. ASSUME NEW a \in Account, NEW l \in OrderLimits, NEW s \in Sanity, EditBond(a, l, s)
      PROVE  LastPrices' /\ ReturnsCovered'
  <2>1. UNCHANGED <<bondState, currentReserve, batchVars, loopVars>>
    BY <1>2 DEF EditBond
  <2>2. \A d \in Denom : currentReserve'[d] >= currentReserve[d]
    BY <2>1, HaltTypes
  <2>3. PendingBuys' = PendingBuys /\ PendingSells' = PendingSells
    BY <2>1 DEF PendingBuys, PendingSells, LiveBuys, batchVars, loopVars
  <2> QED
    BY <2>1, <2>2, <2>3, SameReturns DEF batchVars
<1>3. ASSUME NEW a \in Account, NEW n \in OrderAmount, NEW max \in OrderMaxPrices,
             FirstBuy(a, n, max)
      PROVE  LastPrices' /\ ReturnsCovered'
  <2>1. UNCHANGED <<bondState, batchVars, loopVars>> /\ DepositReserve(max)
    BY <1>3 DEF FirstBuy
  <2>2. max \in [Denom -> Nat \ {0}]
    BY SwapperAssumption
  <2>3. ASSUME NEW d \in Denom PROVE currentReserve'[d] >= currentReserve[d]
    <3>1. currentReserve'[d] = currentReserve[d] + max[d]
      BY <2>1 DEF DepositReserve, Add
    <3>2. currentReserve[d] \in Nat /\ max[d] \in Nat
      BY <2>2, HaltTypes
    <3> QED
      BY <3>1, <3>2
  <2>4. PendingBuys' = PendingBuys /\ PendingSells' = PendingSells
    BY <2>1 DEF PendingBuys, PendingSells, LiveBuys, batchVars, loopVars
  <2> QED
    BY <2>1, <2>3, <2>4, SameReturns DEF batchVars
<1>4. ASSUME NEW a \in Account, NEW from \in Denom, NEW to \in Denom, NEW n \in SwapAmount,
             Swap(a, from, to, n)
      PROVE  LastPrices' /\ ReturnsCovered'
  <2>1. UNCHANGED <<bondVars, buys, sells, buyPrices, sellPrices, totalBuy, totalSell,
                    loopVars>>
    BY <1>4 DEF Swap
  <2>2. \A d \in Denom : currentReserve'[d] >= currentReserve[d]
    BY <2>1, HaltTypes DEF bondVars
  <2>3. PendingBuys' = PendingBuys /\ PendingSells' = PendingSells
    BY <2>1 DEF PendingBuys, PendingSells, LiveBuys, loopVars
  <2> QED
    BY <2>1, <2>2, <2>3, SameReturns DEF bondVars
<1>5. ASSUME NEW a \in Account, MakeOutcomePayment(a) \/ WithdrawShare(a)
      PROVE  LastPrices' /\ ReturnsCovered'
  <2>1. bondState' = "SETTLE" /\ UNCHANGED batchVars
    BY <1>5 DEF MakeOutcomePayment, WithdrawShare
  <2>2. LastPrices'
    BY <2>1 DEF HaltInv, LastPrices, LiveBuys, batchVars
  <2> QED
    BY <2>1, <2>2, SmallSettled
<1> QED
  BY <1>1, <1>2, <1>3, <1>4, <1>5, BuyHalts, SellHalts DEF Transaction

LEMMA EndBlockerHalts ==
  ASSUME HaltInv, BooksInv', EndBlocker
  PROVE  LastPrices' /\ ReturnsCovered'
<1>0. /\ LiveBuys \in SUBSET DOMAIN buys /\ next \in Nat
      /\ \A i \in DOMAIN buys : i \in Nat /\ i >= 1
      /\ \A i \in DOMAIN sells : i \in Nat /\ i >= 1
      /\ \A d \in Denom : currentReserve[d] >= currentReserve[d]
  BY HaltTypes
<1>1. CASE EndBlock
  <2>1. /\ phase = "DeliverTx" /\ phase' \in {"DeliverTx", "Buys"} /\ next' = 1
        /\ UNCHANGED <<bondVars, totalBuy, totalSell, buyPrices, sellPrices, buys, sells>>
    BY <1>1 DEF EndBlock, DeliverTx
  <2>2. LiveBuys' = LiveBuys
    BY <2>1 DEF LiveBuys
  <2>3. PendingBuys' = PendingBuys /\ PendingSells' = PendingSells
    BY <1>0, <2>1, <2>2 DEF PendingBuys, PendingSells
  <2> QED
    BY <1>0, <2>1, <2>3, SameReturns DEF bondVars
<1>2. CASE FinishLoop
  <2>1. /\ UNCHANGED <<bondVars, batchVars>>
        /\ \/ phase = "Buys" /\ next \notin DOMAIN buys /\ phase' = "Sells"
           \/ phase = "Sells" /\ next \notin DOMAIN sells /\ phase' = "Swaps"
        /\ next' = 1
    BY <1>2 DEF FinishLoop
  <2>2. /\ phase = "Buys" => PendingBuys = {}
        /\ phase = "Sells" => PendingSells = {} /\ PendingBuys = {}
    BY <2>1, LoopDone DEF PendingBuys, HaltInv, BooksInv
  <2>3. /\ phase' \in {"Sells", "Swaps"} => PendingBuys' = {}
        /\ phase' = "Swaps" => PendingSells' = {}
    BY DEF PendingBuys, PendingSells
  <2>4. phase = "Buys" /\ phase' = "Sells" => PendingSells' = PendingSells
    BY <1>0, <2>1 DEF PendingSells, batchVars
  <2>5. PendingBuys' = PendingBuys /\ PendingSells' = PendingSells
    BY <2>1, <2>2, <2>3, <2>4
  <2> QED
    BY <1>0, <2>1, <2>5, SameReturns DEF bondVars, batchVars
<1>3. CASE FinishBatch
  <2>1. buys' = <<>> /\ sells' = <<>>
    BY <1>3 DEF FinishBatch, EmptyBatch
  <2>2. DOMAIN buys' = {} /\ DOMAIN sells' = {}
    BY <2>1
  <2>3. PendingBuys' = {} /\ PendingSells' = {}
    BY <2>2 DEF PendingBuys, PendingSells, LiveBuys
  <2> QED
    BY <2>2, <2>3, NoReturns DEF LastPrices
<1>4. CASE Panic
  <2>1. UNCHANGED <<bondVars, batchVars, phase, next>>
    BY <1>4 DEF Panic
  <2>2. PendingBuys' = PendingBuys /\ PendingSells' = PendingSells
    BY <2>1 DEF PendingBuys, PendingSells, LiveBuys, batchVars
  <2> QED
    BY <1>0, <2>1, <2>2, SameReturns DEF bondVars, batchVars
<1>5. CASE SkipCancelledBuy
  <2>1. /\ phase = "Buys" /\ next \notin LiveBuys /\ next' = next + 1 /\ phase' = phase
        /\ UNCHANGED <<bondVars, batchVars>>
    BY <1>5 DEF SkipCancelledBuy, NextOrder
  <2>2. LiveBuys' = LiveBuys
    BY <2>1 DEF LiveBuys, batchVars
  <2>3. \A i \in LiveBuys : i >= next <=> i >= next + 1
    BY <1>0, <2>1
  <2>4. PendingBuys' = PendingBuys /\ PendingSells' = PendingSells
    BY <2>1, <2>2, <2>3 DEF PendingBuys, PendingSells, batchVars
  <2> QED
    BY <1>0, <2>1, <2>4, SameReturns DEF bondVars, batchVars
<1>6. CASE PerformSwap \/ CancelSwap
  <2>1. /\ phase' = "Swaps" /\ UNCHANGED <<buys, sells, buyPrices>>
    BY <1>6 DEF PerformSwap, CancelSwap, Performing, NextOrder, batchVars
  <2>2. PendingBuys' = {} /\ PendingSells' = {}
    BY <2>1 DEF PendingBuys, PendingSells
  <2>3. LastPrices'
    BY <2>1 DEF HaltInv, LastPrices, LiveBuys
  <2> QED
    BY <2>2, <2>3, NoReturns
<1> QED
  BY <1>1, <1>2, <1>3, <1>4, <1>5, <1>6, PerformBuyHalts, PerformSellHalts DEF EndBlocker

\* EndBlocker halts the chain over a swapper only on a buy whose price a sell or a
\* cancellation has changed since it was checked, or on a sell once the bond is
\* settled: a swap never halts it, and a sell of an open bond finds in the reserve
\* what it returns, however the prices of its batch are rounded.
THEOREM HaltsCorrect == Spec => []HaltsOnlyOnLatePrices
<1>1. Init => HaltInv
  <2> SUFFICES ASSUME Init PROVE HaltInv
    OBVIOUS
  <2>1. BooksInv
    BY InitBooks
  <2>2. buys = <<>> /\ sells = <<>> /\ halted = FALSE
    BY DEF Init
  <2>3. DOMAIN buys = {} /\ DOMAIN sells = {}
    BY <2>2
  <2>4. PendingBuys = {} /\ PendingSells = {}
    BY <2>3 DEF PendingBuys, PendingSells, LiveBuys
  <2>5. ReturnsCovered
    BY <2>1, <2>4, NothingExpected DEF BooksInv, ReturnsCovered
  <2> QED
    BY <2>1, <2>2, <2>3, <2>5 DEF HaltInv, LastPrices, HaltsOnlyOnLatePrices
<1>2. HaltInv /\ [Next]_vars => HaltInv'
  <2> SUFFICES ASSUME HaltInv, [Next]_vars PROVE HaltInv'
    OBVIOUS
  <2>1. BooksInv'
    BY NextBooks DEF HaltInv
  <2>2. CASE Next
    <3>1. LastPrices' /\ ReturnsCovered'
      BY <2>1, <2>2, TransactionHalts, EndBlockerHalts DEF Next
    <3>2. HaltsOnlyOnLatePrices'
      <4>1. CASE Panic
        <5>1. UNCHANGED <<bondVars, batchVars, phase>>
          BY <4>1 DEF Panic
        <5>2. SmallBatch =>
                \/ phase = "Buys" /\ (sells # <<>> \/ LiveBuys # DOMAIN buys)
                \/ phase = "Sells" /\ bondState = "SETTLE"
          BY <4>1, PanicHalts
        <5> QED
          BY <5>1, <5>2 DEF HaltsOnlyOnLatePrices, SmallBatch, LiveBuys, bondVars, batchVars
      <4>2. CASE ~Panic
        <5>1. halted \in BOOLEAN /\ halted' \in BOOLEAN
          BY <2>1 DEF HaltInv, BooksInv, TypeOK
        <5>2. halted' # TRUE
          BY <2>2, <4>2, <5>1, NotHalted
        <5>3. ~halted'
          BY <5>1, <5>2
        <5> QED
          BY <5>3 DEF HaltsOnlyOnLatePrices
      <4> QED
        BY <4>1, <4>2
    <3> QED
      BY <2>1, <3>1, <3>2 DEF HaltInv
  <2>3. CASE UNCHANGED vars
    <3>1. UNCHANGED <<bondVars, batchVars, loopVars>>
      BY <2>3 DEF vars
    <3>2. PendingBuys' = PendingBuys /\ PendingSells' = PendingSells
      BY <3>1 DEF PendingBuys, PendingSells, LiveBuys, batchVars, loopVars
    <3>3. \A d \in Denom : currentReserve'[d] >= currentReserve[d]
      BY <3>1 DEF HaltInv, BooksInv, TypeOK, CoinSet, bondVars
    <3>4. LastPrices' /\ ReturnsCovered'
      BY <2>1, <3>1, <3>2, <3>3, SameReturns DEF bondVars, batchVars
    <3>5. HaltsOnlyOnLatePrices'
      BY <3>1 DEF HaltInv, HaltsOnlyOnLatePrices, LiveBuys, bondVars, batchVars, loopVars
    <3> QED
      BY <2>1, <3>4, <3>5 DEF HaltInv
  <2> QED
    BY <2>2, <2>3
<1>3. HaltInv => HaltsOnlyOnLatePrices
  BY DEF HaltInv
<1> QED
  BY <1>1, <1>2, <1>3, PTL DEF Spec

-----------------------------------------------------------------------------
(***************************************************************************)
(* Nobody's share of the pool is diluted                                   *)
(***************************************************************************)
\* The share of a reserve that n tokens are, within what rounding moves it.
LEMMA DeltaNear ==
  ASSUME currentSupply \in Nat \ {0}, currentReserve \in CoinSet, NEW d \in Denom,
         NEW n \in Nat
  PROVE  LET exact == Unit * (currentReserve[d] * n)
             near  == currentSupply * ReserveDelta(n)[d]
             by    == currentSupply * currentReserve[d]
         IN  /\ ReserveDelta(n)[d] \in Nat /\ exact \in Nat /\ near \in Nat /\ by \in Nat
             /\ near <= exact + by /\ exact <= near + by
<1> DEFINE alpha == Quo(ToDec(n), ToDec(currentSupply))
           r == currentReserve[d]
           s == currentSupply
<1>1. r \in Nat /\ s \in Nat \ {0} /\ Unit \in Nat /\ ToDec(n) \in Nat
  BY UnitAssumption, ToDecType DEF CoinSet
<1>2. /\ alpha \in Nat
      /\ s * alpha <= ToDec(n) + s /\ ToDec(n) <= s * alpha + s
  BY <1>1, QuoNear
<1>3. ReserveDelta(n)[d] = Mul(alpha, ToDec(r))
  BY DEF ReserveDelta
<1> HIDE DEF alpha, r, s
<1>4. Mul(alpha, ToDec(r)) = r * alpha
  <2>1. Mul(ToDec(r), alpha) = r * alpha
    BY <1>1, <1>2, MulByInteger
  <2>2. alpha * ToDec(r) = ToDec(r) * alpha
    BY <1>1, <1>2, ToDecType
  <2> QED
    BY <2>1, <2>2 DEF Mul
<1>5. /\ r * alpha \in Nat /\ Unit * (r * n) \in Nat
      /\ s * (r * alpha) \in Nat /\ s * r \in Nat
  BY <1>1, <1>2
<1>6. /\ s * (r * alpha) = r * (s * alpha)
      /\ Unit * (r * n) = r * ToDec(n)
      /\ r * (ToDec(n) + s) = r * ToDec(n) + s * r
      /\ r * (s * alpha + s) = r * (s * alpha) + s * r
  BY <1>1, <1>2 DEF ToDec
<1>7. r * (s * alpha) <= r * (ToDec(n) + s) /\ r * ToDec(n) <= r * (s * alpha + s)
  <2>1. \A i, j, k \in Nat : i <= j => k * i <= k * j
    OBVIOUS
  <2>2. s * alpha \in Nat /\ ToDec(n) + s \in Nat /\ s * alpha + s \in Nat
    BY <1>1, <1>2
  <2> QED
    BY <1>1, <1>2, <2>1, <2>2
<1>8. s * (r * alpha) <= Unit * (r * n) + s * r /\ Unit * (r * n) <= s * (r * alpha) + s * r
  BY <1>6, <1>7
<1> QED
  BY <1>3, <1>4, <1>5, <1>8 DEF r, s

\* The price of the side that has more tokens, by a whole smallest unit per token.
LEMMA MatchedNear ==
  ASSUME currentSupply \in Nat \ {0}, currentReserve \in CoinSet, NEW d \in Denom,
         NEW more \in Nat, NEW fewer \in Nat, more > fewer
  PROVE  LET a == fewer * CurrentPricesPT[d] + ReserveDelta(more - fewer)[d]
             p == MatchedPrices(more, fewer)[d]
         IN  /\ CurrentPricesPT[d] \in Nat /\ a \in Nat /\ p \in Nat
             /\ more * p <= a + more /\ a <= more * p + more
<1> DEFINE c == CurrentPricesPT[d]
           a == fewer * c + ReserveDelta(more - fewer)[d]
<1>1. c \in Nat /\ ReserveDelta(more - fewer)[d] \in Nat
  <2>1. more - fewer \in Nat
    OBVIOUS
  <2> QED
    BY <2>1, DeltaType DEF CurrentPricesPT, CoinSet
<1>2. a \in Nat /\ more \in Nat \ {0}
  BY <1>1
<1>3. MatchedPrices(more, fewer)[d] = Quo(a, ToDec(more))
  <2>1. Mul(c, ToDec(fewer)) = fewer * c
    <3>1. Mul(ToDec(fewer), c) = fewer * c
      BY <1>1, MulByInteger
    <3>2. c * ToDec(fewer) = ToDec(fewer) * c
      BY <1>1, ToDecType
    <3> QED
      BY <3>1, <3>2 DEF Mul
  <2>2. MatchedPrices(more, fewer)[d]
          = Quo(Mul(c, ToDec(fewer)) + ReserveDelta(more - fewer)[d], ToDec(more))
    BY DEF MatchedPrices
  <2> QED
    BY <2>1, <2>2
<1> QED
  BY <1>1, <1>2, <1>3, QuoNear

\* Inequalities between products of the scale and integers that are less than one
\* scale apart are inequalities between the integers.
LEMMA BelowOneUnit ==
  ASSUME NEW i \in Nat, NEW j \in Nat, NEW e \in Nat, e < Unit,
         Unit * i <= Unit * j + e
  PROVE  i <= j
<1>1. Unit \in Nat \ {0}
  BY UnitAssumption
<1>2. Unit * j + e < Unit * (j + 1)
  BY <1>1
<1>3. Unit * i < Unit * (j + 1)
  <2>1. Unit * i \in Nat /\ Unit * j + e \in Nat /\ Unit * (j + 1) \in Nat
    BY <1>1
  <2> QED
    BY <1>2, <2>1
<1>4. \A k, l \in Nat : Unit * k < Unit * l => k < l
  BY <1>1
<1>5. i < j + 1
  BY <1>3, <1>4
<1> QED
  BY <1>5

\* A batch with more buys than sells brings at least as much per token as there is:
\* r is the reserve, s the supply, m the buys beyond the sells.
LEMMA BuysKeepShares ==
  ASSUME currentSupply \in Nat \ {0}, currentReserve \in CoinSet, NEW d \in Denom,
         NEW buy \in Nat, NEW sell \in Nat, sell < buy,
         currentSupply * ((currentReserve[d] + buy) + sell) < Unit,
         NEW C \in Nat, NEW T \in Nat,
         MatchedPrices(buy, sell)[d] * buy <= Unit * C,
         Unit * T <= CurrentPricesPT[d] * sell
  PROVE  currentSupply * T + currentReserve[d] * (buy - sell) <= currentSupply * C
<1> DEFINE r == currentReserve[d]
           s == currentSupply
           m == buy - sell
           c == CurrentPricesPT[d]
           p == MatchedPrices(buy, sell)[d]
           share == ReserveDelta(m)[d]
<1>1. r \in Nat /\ s \in Nat \ {0} /\ Unit \in Nat \ {0} /\ m \in Nat
  BY UnitAssumption DEF CoinSet
<1>2. /\ c \in Nat /\ p \in Nat /\ sell * c + share <= buy * p + buy
  BY MatchedNear
<1>3. /\ share \in Nat /\ Unit * (r * m) <= s * share + s * r
  BY <1>1, DeltaNear
<1>4. p * buy <= Unit * C /\ Unit * T <= c * sell /\ s * ((r + buy) + sell) < Unit
  OBVIOUS
<1> HIDE DEF r, s, m, c, p, share
<1>5. Unit * T + share <= Unit * C + buy
  <2>1. sell * c = c * sell /\ buy * p = p * buy /\ c * sell \in Nat /\ p * buy \in Nat
        /\ Unit * T \in Nat /\ Unit * C \in Nat
    BY <1>1, <1>2
  <2> DEFINE x == c * sell
             y == p * buy
             t == Unit * T
             k == Unit * C
  <2>2. /\ x \in Nat /\ y \in Nat /\ t \in Nat /\ k \in Nat
        /\ y <= k /\ t <= x /\ x + share <= y + buy
    BY <1>2, <1>4, <2>1
  <2>3. t + share <= k + buy
    <3> HIDE DEF x, y, t, k
    <3> QED
      BY <1>3, <2>2
  <2> QED
    BY <2>3
<1>6. s * (Unit * T + share) <= s * (Unit * C + buy)
  <2>1. \A i, j \in Nat : i <= j => s * i <= s * j
    BY <1>1
  <2>2. Unit * T + share \in Nat /\ Unit * C + buy \in Nat
    BY <1>1, <1>3
  <2> QED
    BY <1>5, <2>1, <2>2
<1>7. /\ s * (Unit * T + share) = Unit * (s * T) + s * share
      /\ s * (Unit * C + buy) = Unit * (s * C) + s * buy
      /\ Unit * (s * T + r * m) = Unit * (s * T) + Unit * (r * m)
  BY <1>1, <1>3
<1>8. Unit * (s * T + r * m) <= Unit * (s * C) + (s * buy + s * r)
  <2>1. /\ Unit * (s * T) \in Nat /\ s * share \in Nat /\ Unit * (s * C) \in Nat
        /\ s * buy \in Nat /\ s * r \in Nat /\ Unit * (r * m) \in Nat
    BY <1>1, <1>3
  <2> DEFINE x == Unit * (s * T)
             y == s * share
             z == Unit * (s * C)
             u == s * buy
             v == s * r
             w == Unit * (r * m)
  <2>2. /\ x \in Nat /\ y \in Nat /\ z \in Nat /\ u \in Nat /\ v \in Nat /\ w \in Nat
        /\ x + y <= z + u /\ w <= y + v
    BY <1>3, <1>6, <1>7, <2>1
  <2>3. x + w <= z + (u + v)
    <3> HIDE DEF x, y, z, u, v, w
    <3> QED
      BY <2>2
  <2> QED
    BY <1>7, <2>3
<1>9. s * buy + s * r \in Nat /\ s * buy + s * r < Unit
  <2>1. s * ((r + buy) + sell) = (s * buy + s * r) + s * sell
        /\ s * sell \in Nat /\ s * buy + s * r \in Nat
    BY <1>1
  <2> QED
    BY <1>1, <1>4, <2>1
<1>10. s * T + r * m <= s * C
  <2>1. s * T + r * m \in Nat /\ s * C \in Nat
    BY <1>1
  <2> QED
    BY <1>8, <1>9, <2>1, BelowOneUnit
<1> QED
  BY <1>10 DEF r, s, m

\* A batch with more sells than buys takes at most as much per token as there is.
LEMMA SellsKeepShares ==
  ASSUME currentSupply \in Nat \ {0}, currentReserve \in CoinSet, NEW d \in Denom,
         NEW buy \in Nat, NEW sell \in Nat, buy < sell,
         currentSupply * ((currentReserve[d] + buy) + sell) < Unit,
         NEW C \in Nat, NEW T \in Nat,
         CurrentPricesPT[d] * buy <= Unit * C,
         Unit * T <= MatchedPrices(sell, buy)[d] * sell
  PROVE  currentSupply * T <= currentSupply * C + currentReserve[d] * (sell - buy)
<1> DEFINE r == currentReserve[d]
           s == currentSupply
           m == sell - buy
           c == CurrentPricesPT[d]
           p == MatchedPrices(sell, buy)[d]
           share == ReserveDelta(m)[d]
<1>1. r \in Nat /\ s \in Nat \ {0} /\ Unit \in Nat \ {0} /\ m \in Nat
  BY UnitAssumption DEF CoinSet
<1>2. /\ c \in Nat /\ p \in Nat /\ sell * p <= (buy * c + share) + sell
  BY MatchedNear
<1>3. /\ share \in Nat /\ s * share <= Unit * (r * m) + s * r
  BY <1>1, DeltaNear
<1>4. c * buy <= Unit * C /\ Unit * T <= p * sell /\ s * ((r + buy) + sell) < Unit
  OBVIOUS
<1> HIDE DEF r, s, m, c, p, share
<1>5. Unit * T <= (Unit * C + share) + sell
  <2>1. buy * c = c * buy /\ sell * p = p * sell /\ c * buy \in Nat /\ p * sell \in Nat
        /\ Unit * T \in Nat /\ Unit * C \in Nat
    BY <1>1, <1>2
  <2> DEFINE x == c * buy
             y == p * sell
             t == Unit * T
             k == Unit * C
  <2>2. /\ x \in Nat /\ y \in Nat /\ t \in Nat /\ k \in Nat
        /\ x <= k /\ t <= y /\ y <= (x + share) + sell
    BY <1>2, <1>4, <2>1
  <2>3. t <= (k + share) + sell
    <3> HIDE DEF x, y, t, k
    <3> QED
      BY <1>3, <2>2
  <2> QED
    BY <2>3
<1>6. s * (Unit * T) <= s * ((Unit * C + share) + sell)
  <2>1. \A i, j \in Nat : i <= j => s * i <= s * j
    BY <1>1
  <2>2. Unit * T \in Nat /\ (Unit * C + share) + sell \in Nat
    BY <1>1, <1>3
  <2> QED
    BY <1>5, <2>1, <2>2
<1>7. /\ s * (Unit * T) = Unit * (s * T)
      /\ s * ((Unit * C + share) + sell) = (Unit * (s * C) + s * share) + s * sell
      /\ Unit * (s * C + r * m) = Unit * (s * C) + Unit * (r * m)
  BY <1>1, <1>3
<1>8. Unit * (s * T) <= Unit * (s * C + r * m) + (s * sell + s * r)
  <2>1. /\ Unit * (s * T) \in Nat /\ s * share \in Nat /\ Unit * (s * C) \in Nat
        /\ s * sell \in Nat /\ s * r \in Nat /\ Unit * (r * m) \in Nat
    BY <1>1, <1>3
  <2> DEFINE x == Unit * (s * T)
             y == s * share
             z == Unit * (s * C)
             u == s * sell
             v == s * r
             w == Unit * (r * m)
  <2>2. /\ x \in Nat /\ y \in Nat /\ z \in Nat /\ u \in Nat /\ v \in Nat /\ w \in Nat
        /\ x <= (z + y) + u /\ y <= w + v
    BY <1>3, <1>6, <1>7, <2>1
  <2>3. x <= (z + w) + (u + v)
    <3> HIDE DEF x, y, z, u, v, w
    <3> QED
      BY <2>2
  <2> QED
    BY <1>7, <2>3
<1>9. s * sell + s * r \in Nat /\ s * sell + s * r < Unit
  <2>1. s * ((r + buy) + sell) = (s * sell + s * r) + s * buy
        /\ s * buy \in Nat /\ s * sell + s * r \in Nat
    BY <1>1
  <2> QED
    BY <1>1, <1>4, <2>1
<1>10. s * T <= s * C + r * m
  <2>1. s * T \in Nat /\ s * C + r * m \in Nat
    BY <1>1
  <2> QED
    BY <1>8, <1>9, <2>1, BelowOneUnit
<1> QED
  BY <1>10 DEF r, s, m

\* A batch priced for its orders leaves at least as much in the reserve per token:
\* C is what its buys pay, T what its sells return.
LEMMA BatchKeepsShares ==
  ASSUME currentSupply \in Nat \ {0}, currentReserve \in CoinSet, NEW d \in Denom,
         NEW buy \in Nat, NEW sell \in Nat, sell <= currentSupply,
         currentSupply * ((currentReserve[d] + buy) + sell) < Unit,
         NEW C \in Nat, NEW T \in Nat,
         BatchBuyPrices(buy, sell)[d] * buy <= Unit * C,
         Unit * T <= BatchSellPrices(buy, sell)[d] * sell
  PROVE  currentReserve[d] * ((currentSupply + buy) - sell)
           <= ((currentReserve[d] + C) - T) * currentSupply
<1> DEFINE r == currentReserve[d]
           s == currentSupply
           c == CurrentPricesPT[d]
<1>1. r \in Nat /\ s \in Nat \ {0} /\ Unit \in Nat \ {0}
  BY UnitAssumption DEF CoinSet
<1>2. s * T + r * buy <= s * C + r * sell
  <2>1. CASE sell < buy
    <3>1. BatchBuyPrices(buy, sell) = MatchedPrices(buy, sell)
          /\ BatchSellPrices(buy, sell) = CurrentPricesPT
      BY <2>1 DEF BatchBuyPrices, BatchSellPrices
    <3>2. s * T + r * (buy - sell) <= s * C
      BY <2>1, <3>1, BuysKeepShares
    <3> HIDE DEF r, s, c
    <3>3. r * (buy - sell) = r * buy - r * sell
          /\ r * buy \in Nat /\ r * sell \in Nat /\ s * T \in Nat /\ s * C \in Nat
      BY <1>1
    <3> QED
      BY <3>2, <3>3
  <2>2. CASE buy < sell
    <3>1. BatchBuyPrices(buy, sell) = CurrentPricesPT
          /\ BatchSellPrices(buy, sell) = MatchedPrices(sell, buy)
      BY <2>2 DEF BatchBuyPrices, BatchSellPrices
    <3>2. s * T <= s * C + r * (sell - buy)
      BY <2>2, <3>1, SellsKeepShares
    <3> HIDE DEF r, s, c
    <3>3. r * (sell - buy) = r * sell - r * buy
          /\ r * buy \in Nat /\ r * sell \in Nat /\ s * T \in Nat /\ s * C \in Nat
      BY <1>1
    <3> QED
      BY <3>2, <3>3
  <2>3. CASE buy = sell
    <3>1. BatchBuyPrices(buy, sell) = CurrentPricesPT
          /\ BatchSellPrices(buy, sell) = CurrentPricesPT
      BY <2>3 DEF BatchBuyPrices, BatchSellPrices
    <3>2. c * sell <= Unit * C /\ Unit * T <= c * sell /\ c \in Nat
      <4>1. c \in Nat
        BY DeltaType DEF CurrentPricesPT, CoinSet
      <4> QED
        BY <2>3, <3>1, <4>1
    <3> HIDE DEF r, s, c
    <3>3. Unit * T <= Unit * C
      <4>1. c * sell \in Nat /\ Unit * T \in Nat /\ Unit * C \in Nat
        BY <1>1, <3>2
      <4> QED
        BY <3>2, <4>1
    <3>4. \A i, j \in Nat : Unit * i <= Unit * j => i <= j
      BY <1>1
    <3>5. T <= C
      BY <3>3, <3>4
    <3>6. s * T <= s * C /\ s * T \in Nat /\ s * C \in Nat /\ r * buy \in Nat
          /\ r * buy = r * sell
      BY <1>1, <2>3, <3>5
    <3> QED
      BY <3>6
  <2> QED
    BY <2>1, <2>2, <2>3
<1> HIDE DEF r, s, c
<1>3. r * ((s + buy) - sell) = (r * s + r * buy) - r * sell
      /\ ((r + C) - T) * s = (r * s + s * C) - s * T
  BY <1>1
<1>4. r * s \in Nat /\ r * buy \in Nat /\ r * sell \in Nat /\ s * C \in Nat /\ s * T \in Nat
  BY <1>1
<1>5. r * ((s + buy) - sell) <= ((r + C) - T) * s
  BY <1>2, <1>3, <1>4
<1> QED
  BY <1>5 DEF r, s

\* While transactions are delivered the prices of the batch are those of its orders.
FreshPrices ==
  phase = "DeliverTx" /\ bondState = "OPEN" /\ totalBuy + totalSell # 0 =>
    /\ currentSupply # 0
    /\ buyPrices = BatchBuyPrices(totalBuy, totalSell)
    /\ sellPrices = BatchSellPrices(totalBuy, totalSell)

PoolInv == BooksInv /\ FreshPrices

LEMMA FreshAfterTransaction ==
  ASSUME PoolInv, BooksInv', Transaction
  PROVE  FreshPrices'
<1>0. /\ totalBuy \in Nat /\ totalSell \in Nat /\ currentSupply \in Nat
      /\ \A n \in OrderAmount : n \in Nat \ {0}
  BY SwapperAssumption DEF PoolInv, BooksInv, TypeOK
<1>1. ASSUME NEW allow \in BOOLEAN, NEW l \in OrderLimits, NEW s \in Sanity,
             CreateBond(allow, l, s)
      PROVE  FreshPrices'
  BY <1>1 DEF CreateBond, EmptyBatch, FreshPrices
<1>2. ASSUME UNCHANGED <<bondState, currentSupply, currentReserve, totalBuy, totalSell,
                         buyPrices, sellPrices, phase>>
      PROVE  FreshPrices'
  BY <1>2 DEF PoolInv, FreshPrices, BatchBuyPrices, BatchSellPrices, MatchedPrices,
              CurrentPricesPT, ReserveDelta
<1>3. ASSUME NEW a \in Account, NEW l \in OrderLimits, NEW s \in Sanity, EditBond(a, l, s)
      PROVE  FreshPrices'
  <2>1. UNCHANGED <<bondState, currentSupply, currentReserve, batchVars, loopVars>>
    BY <1>3 DEF EditBond
  <2> QED
    BY <1>2, <2>1 DEF batchVars, loopVars
<1>4. ASSUME NEW a \in Account, NEW from \in Denom, NEW to \in Denom, NEW n \in SwapAmount,
             Swap(a, from, to, n)
      PROVE  FreshPrices'
  <2>1. UNCHANGED <<bondVars, totalBuy, totalSell, buyPrices, sellPrices, loopVars>>
    BY <1>4 DEF Swap
  <2> QED
    BY <1>2, <2>1 DEF bondVars, loopVars
<1>5. ASSUME NEW a \in Account, NEW n \in OrderAmount, NEW max \in OrderMaxPrices,
             FirstBuy(a, n, max)
      PROVE  FreshPrices'
  <2>1. /\ currentSupply = 0 /\ phase = "DeliverTx" /\ bondState = "OPEN"
        /\ UNCHANGED <<batchVars, loopVars>>
    BY <1>5 DEF FirstBuy, CanBuy, DeliverTx
  <2>2. totalBuy + totalSell = 0
    BY <2>1 DEF PoolInv, FreshPrices
  <2> QED
    BY <2>1, <2>2 DEF FreshPrices, batchVars
<1>6. ASSUME NEW a \in Account, NEW n \in OrderAmount, NEW max \in OrderMaxPrices,
             Buy(a, n, max)
      PROVE  FreshPrices'
  <2> DEFINE remaining == totalBuy'
  <2>1. /\ currentSupply # 0
        /\ buyPrices' = BatchBuyPrices(remaining, totalSell)
        /\ sellPrices' = BatchSellPrices(remaining, totalSell)
        /\ UNCHANGED <<currentSupply, currentReserve, totalSell>>
    BY <1>6 DEF Buy, bondVars
  <2> HIDE DEF remaining
  <2>2. totalBuy' = remaining /\ totalSell' = totalSell
    BY <2>1 DEF remaining
  <2>3. /\ BatchBuyPrices(totalBuy, totalSell)' = BatchBuyPrices(remaining, totalSell)
        /\ BatchSellPrices(totalBuy, totalSell)' = BatchSellPrices(remaining, totalSell)
    BY <2>1, <2>2, SamePrices
  <2> QED
    BY <2>1, <2>3 DEF FreshPrices
<1>7. ASSUME NEW a \in Account, NEW n \in OrderAmount, Sell(a, n)
      PROVE  FreshPrices'
  <2> DEFINE sell == totalSell + n
  <2>1. /\ sell <= currentSupply
        /\ totalSell' = sell /\ totalBuy' = totalBuy
        /\ buyPrices' = BatchBuyPrices(totalBuy, sell)
        /\ sellPrices' = BatchSellPrices(totalBuy, sell)
        /\ UNCHANGED <<currentSupply, currentReserve>>
    BY <1>7 DEF Sell, bondVars
  <2>2. currentSupply # 0
    BY <1>0, <2>1
  <2> HIDE DEF sell
  <2>3. /\ BatchBuyPrices(totalBuy, totalSell)' = BatchBuyPrices(totalBuy, sell)
        /\ BatchSellPrices(totalBuy, totalSell)' = BatchSellPrices(totalBuy, sell)
    BY <2>1, SamePrices
  <2> QED
    BY <2>1, <2>2, <2>3 DEF FreshPrices
<1>8. ASSUME NEW a \in Account, MakeOutcomePayment(a) \/ WithdrawShare(a)
      PROVE  FreshPrices'
  BY <1>8 DEF MakeOutcomePayment, WithdrawShare, FreshPrices
<1> QED
  BY <1>1, <1>3, <1>4, <1>5, <1>6, <1>7, <1>8 DEF Transaction

LEMMA FreshNext ==
  ASSUME PoolInv, [Next]_vars
  PROVE  PoolInv'
<1>1. BooksInv'
  BY NextBooks DEF PoolInv
<1> SUFFICES FreshPrices'
  BY <1>1 DEF PoolInv
<1>2. ASSUME UNCHANGED <<bondVars, totalBuy, totalSell, buyPrices, sellPrices>>,
             phase = "DeliverTx" \/ phase' # "DeliverTx"
      PROVE  FreshPrices'
  BY <1>2 DEF PoolInv, FreshPrices, BatchBuyPrices, BatchSellPrices, MatchedPrices,
              CurrentPricesPT, ReserveDelta, bondVars
<1>3. CASE EndBlock
  <2>1. /\ phase = "DeliverTx"
        /\ UNCHANGED <<bondVars, totalBuy, totalSell, buyPrices, sellPrices>>
    BY <1>3 DEF EndBlock, DeliverTx
  <2> QED
    BY <1>2, <2>1
<1>4. CASE FinishBatch
  BY <1>4 DEF FinishBatch, EmptyBatch, FreshPrices
<1>5. CASE FinishLoop \/ Panic
  <2>1. UNCHANGED <<bondVars, batchVars>> /\ phase' # "DeliverTx"
    BY <1>5 DEF FinishLoop, Panic
  <2> QED
    BY <1>2, <2>1 DEF batchVars
<1>6. CASE PerformBuy \/ SkipCancelledBuy \/ PerformSell \/ PerformSwap \/ CancelSwap
  <2>1. phase' # "DeliverTx"
    BY <1>6 DEF PerformBuy, SkipCancelledBuy, PerformSell, PerformSwap, CancelSwap,
                Performing, NextOrder
  <2> QED
    BY <2>1 DEF FreshPrices
<1>7. CASE UNCHANGED vars
  <2>1. UNCHANGED <<bondVars, batchVars, loopVars>>
    BY <1>7 DEF vars
  <2> QED
    BY <2>1 DEF PoolInv, FreshPrices, BatchBuyPrices, BatchSellPrices, MatchedPrices,
                CurrentPricesPT, ReserveDelta, bondVars, batchVars, loopVars
<1>8. CASE Transaction
  BY <1>1, <1>8, FreshAfterTransaction
<1> QED
  BY <1>3, <1>4, <1>5, <1>6, <1>7, <1>8 DEF Next, EndBlocker

\* The batch that goes to EndBlocker leaves everybody's share as large as it was.
LEMMA BatchPoolKept ==
  ASSUME PoolInv, phase = "DeliverTx", bondState = "OPEN", PoolBelowScale, NEW d \in Denom
  PROVE  currentReserve[d] * ExpectedSupply <= ExpectedReserve[d] * currentSupply
<1> DEFINE C == BuyCost(buys, PendingBuys, buyPrices, d)
           T == SellReturn(sells, PendingSells, sellPrices, d)
<1>1. /\ TypeOK /\ currentSupply \in Nat \ {0} /\ currentReserve \in CoinSet
      /\ totalBuy \in Nat /\ totalSell \in Nat /\ Unit \in Nat \ {0}
      /\ buyPrices \in CoinSet /\ sellPrices \in CoinSet
  BY UnitAssumption DEF PoolInv, BooksInv, TypeOK, PoolBelowScale
<1>2. /\ PendingBuys = Live(buys) /\ PendingSells = DOMAIN sells
      /\ totalBuy = SumOf(Amounts(buys), Live(buys)) /\ totalSell <= currentSupply
  BY OpenBooks DEF PoolInv
<1>3. totalSell = SumOf(Amounts(sells), DOMAIN sells)
  BY DEF PoolInv, BooksInv, BatchTotals
<1>4. /\ PendingBuys \in SUBSET DOMAIN buys /\ PendingSells \in SUBSET DOMAIN sells
      /\ buys \in Seq(BuyOrder) /\ sells \in Seq(SellOrder)
  BY <1>1, PendingType
<1>5. C \in Nat /\ buyPrices[d] * totalBuy <= Unit * C
  BY <1>1, <1>2, <1>4, CostBounds
<1>6. T \in Nat /\ Unit * T <= sellPrices[d] * totalSell
  BY <1>1, <1>2, <1>3, <1>4, ReturnBounds
<1>7. /\ ExpectedReserve[d] = (currentReserve[d] + C) - T /\ currentReserve[d] \in Nat
      /\ ExpectedSupply = (currentSupply + totalBuy) - totalSell
  BY <1>1, <1>2, <1>3, ExpectedType DEF ExpectedSupply
<1> HIDE DEF C, T
<1>8. CASE totalBuy + totalSell # 0
  <2>1. /\ buyPrices = BatchBuyPrices(totalBuy, totalSell)
        /\ sellPrices = BatchSellPrices(totalBuy, totalSell)
    BY <1>8 DEF PoolInv, FreshPrices
  <2>2. currentSupply * ((currentReserve[d] + totalBuy) + totalSell) < Unit
    BY DEF PoolBelowScale
  <2> QED
    BY <1>1, <1>2, <1>5, <1>6, <1>7, <2>1, <2>2, BatchKeepsShares
<1>9. CASE totalBuy + totalSell = 0
  <2>1. totalBuy = 0 /\ totalSell = 0
    BY <1>1, <1>9
  <2>2. sellPrices[d] * totalSell = 0
    BY <1>1, <2>1 DEF CoinSet
  <2>3. T = 0
    BY <1>1, <1>6, <2>2
  <2>4. ExpectedReserve[d] = currentReserve[d] + C /\ ExpectedSupply = currentSupply
    BY <1>1, <1>5, <1>7, <2>1, <2>3
  <2>5. \A r, s, c \in Nat : r * s <= (r + c) * s
    OBVIOUS
  <2> QED
    BY <1>1, <1>5, <1>7, <2>4, <2>5
<1> QED
  BY <1>8, <1>9

\* What EndBlocker has done of a batch and what is left of it add up to the same.
LEMMA AmountRemove ==
  ASSUME NEW orders, NEW S, NEW n \in S, IsFiniteSet(S), \A i \in S : Amounts(orders)[i] \in Nat
  PROVE  /\ SumOf(Amounts(orders), S \ {n}) \in Nat /\ Amounts(orders)[n] \in Nat
         /\ SumOf(Amounts(orders), S) = SumOf(Amounts(orders), S \ {n}) + Amounts(orders)[n]
<1>1. IsFiniteSet(S \ {n}) /\ \A i \in S \ {n} : Amounts(orders)[i] \in Nat
  BY FS_RemoveElement
<1>2. SumOf(Amounts(orders), S \ {n}) \in Nat
  BY <1>1, SumType
<1> QED
  BY <1>2, SumRemove

LEMMA PerformBuyKeepsExpected ==
  ASSUME BooksInv, BooksInv', PerformBuy
  PROVE  ExpectedSupply' = ExpectedSupply /\ ExpectedReserve' = ExpectedReserve
<1>1. /\ phase = "Buys" /\ next \in LiveBuys /\ NextOrder
      /\ DepositReserve(ReservePrices(buys[next], buyPrices))
      /\ currentSupply' = currentSupply + buys[next].amount
      /\ UNCHANGED <<bondState, batchVars>>
  <2>1. PICK order \in {buys[i] : i \in LiveBuys} :
          /\ Performing("Buys", order, buys)
          /\ DepositReserve(ReservePrices(order, buyPrices)) /\ NextOrder
          /\ currentSupply' = currentSupply + order.amount
          /\ UNCHANGED <<bondState, batchVars>>
    BY DEF PerformBuy
  <2>2. PICK i \in LiveBuys : order = buys[i]
    OBVIOUS
  <2>3. /\ phase = "Buys" /\ next \in DOMAIN buys /\ order = buys[next]
    BY <2>1 DEF Performing
  <2>4. next \in LiveBuys
    BY <2>2, <2>3 DEF LiveBuys
  <2> QED
    BY <2>1, <2>3, <2>4
<1>2. /\ buys \in Seq(BuyOrder) /\ sells \in Seq(SellOrder) /\ buyPrices \in CoinSet /\ TypeOK
      /\ PendingBuys \in SUBSET DOMAIN buys /\ PendingSells \in SUBSET DOMAIN sells
  BY PendingType DEF BooksInv, TypeOK
<1>3. UNCHANGED <<buys, sells, swaps, buyPrices, sellPrices, totalBuy, totalSell, LiveBuys>>
  BY <1>1 DEF batchVars, LiveBuys
<1>4. /\ next \in PendingBuys /\ PendingBuys' = PendingBuys \ {next}
      /\ PendingSells' = PendingSells
  BY <1>1, <1>2, <1>3, LoopStep
<1>5. ExpectedSupply' = ExpectedSupply
  <2> DEFINE n == Amounts(buys)[next]
             x == SumOf(Amounts(buys), PendingBuys)
             y == SumOf(Amounts(buys), PendingBuys \ {next})
             z == SumOf(Amounts(sells), PendingSells)
  <2>1. IsFiniteSet(PendingBuys) /\ \A i \in PendingBuys : Amounts(buys)[i] \in Nat
    BY <1>2, OrdersFinite, BuyOrderType DEF Amounts
  <2>2. x = y + n /\ y \in Nat /\ n \in Nat
    BY <1>4, <2>1, AmountRemove
  <2>3. z \in Nat
    <3>1. IsFiniteSet(PendingSells) /\ \A i \in PendingSells : Amounts(sells)[i] \in Nat
      BY <1>2, OrdersFinite, SellOrderType DEF Amounts
    <3> QED
      BY <3>1, SumType
  <2>4. n = buys[next].amount
    BY <1>2, <1>4 DEF Amounts
  <2>5. ExpectedSupply = (currentSupply + x) - z
    BY DEF ExpectedSupply
  <2>6. ExpectedSupply' = (currentSupply' + y) - z
    BY <1>3, <1>4 DEF ExpectedSupply, Amounts
  <2>7. currentSupply' = currentSupply + n /\ currentSupply \in Nat
    BY <1>1, <2>4 DEF BooksInv, TypeOK
  <2> HIDE DEF n, x, y, z
  <2> QED
    BY <2>2, <2>3, <2>5, <2>6, <2>7
<1>6. ASSUME NEW d \in Denom PROVE ExpectedReserve'[d] = ExpectedReserve[d]
  <2> DEFINE C == BuyCost(buys, PendingBuys, buyPrices, d)
             B == BuyCost(buys, PendingBuys \ {next}, buyPrices, d)
             T == SellReturn(sells, PendingSells, sellPrices, d)
             r == currentReserve[d]
             s == currentReserve'[d]
             c == ReservePrices(buys[next], buyPrices)[d]
  <2>1. r \in Nat /\ C \in Nat /\ T \in Nat /\ ExpectedReserve[d] = (r + C) - T
    BY <1>2, ExpectedType
  <2>2. /\ BuyCost(buys, PendingBuys, buyPrices, d)' = B
        /\ SellReturn(sells, PendingSells, sellPrices, d)' = T
    BY <1>3, <1>4 DEF BuyCost, SellReturn
  <2>3. s \in Nat /\ ExpectedReserve'[d] = (s + B) - T
    BY <2>2, ExpectedTypeNext DEF BooksInv
  <2>4. c \in Nat /\ B \in Nat /\ C = B + c
    BY <1>2, <1>4, CostRemove
  <2>5. s = r + c
    BY <1>1 DEF DepositReserve, Add
  <2> HIDE DEF B, C, T, r, s, c
  <2> QED
    BY <2>1, <2>3, <2>4, <2>5
<1>7. ExpectedReserve' = ExpectedReserve
  BY <1>6 DEF ExpectedReserve
<1> QED
  BY <1>5, <1>7

LEMMA PerformSellKeepsExpected ==
  ASSUME BooksInv, BooksInv', PerformSell
  PROVE  ExpectedSupply' = ExpectedSupply /\ ExpectedReserve' = ExpectedReserve
<1>1. /\ phase = "Sells" /\ next \in DOMAIN sells /\ NextOrder
      /\ WithdrawReserve(ReserveReturns(sells[next], sellPrices))
      /\ currentSupply' = currentSupply - sells[next].amount
      /\ UNCHANGED <<bondState, batchVars>>
  BY DEF PerformSell, Performing
<1>2. /\ buys \in Seq(BuyOrder) /\ sells \in Seq(SellOrder) /\ sellPrices \in CoinSet /\ TypeOK
      /\ PendingBuys \in SUBSET DOMAIN buys /\ PendingSells \in SUBSET DOMAIN sells
  BY PendingType DEF BooksInv, TypeOK
<1>3. UNCHANGED <<buys, sells, swaps, buyPrices, sellPrices, totalBuy, totalSell, LiveBuys>>
  BY <1>1 DEF batchVars, LiveBuys
<1>4. /\ next \in PendingSells /\ PendingSells' = PendingSells \ {next}
      /\ PendingBuys' = PendingBuys
  BY <1>1, <1>2, <1>3, LoopStep
<1>5. ExpectedSupply' = ExpectedSupply
  <2> DEFINE n == Amounts(sells)[next]
             x == SumOf(Amounts(sells), PendingSells)
             y == SumOf(Amounts(sells), PendingSells \ {next})
             z == SumOf(Amounts(buys), PendingBuys)
  <2>1. IsFiniteSet(PendingSells) /\ \A i \in PendingSells : Amounts(sells)[i] \in Nat
    BY <1>2, OrdersFinite, SellOrderType DEF Amounts
  <2>2. x = y + n /\ y \in Nat /\ n \in Nat
    BY <1>4, <2>1, AmountRemove
  <2>3. z \in Nat
    <3>1. IsFiniteSet(PendingBuys) /\ \A i \in PendingBuys : Amounts(buys)[i] \in Nat
      BY <1>2, OrdersFinite, BuyOrderType DEF Amounts
    <3> QED
      BY <3>1, SumType
  <2>4. n = sells[next].amount
    BY <1>2, <1>4 DEF Amounts
  <2>5. ExpectedSupply = (currentSupply + z) - x
    BY DEF ExpectedSupply
  <2>6. ExpectedSupply' = (currentSupply' + z) - y
    BY <1>3, <1>4 DEF ExpectedSupply, Amounts
  <2>7. currentSupply' = currentSupply - n /\ currentSupply \in Nat
    BY <1>1, <2>4 DEF BooksInv, TypeOK
  <2> HIDE DEF n, x, y, z
  <2> QED
    BY <2>2, <2>3, <2>5, <2>6, <2>7
<1>6. ASSUME NEW d \in Denom PROVE ExpectedReserve'[d] = ExpectedReserve[d]
  <2> DEFINE C == BuyCost(buys, PendingBuys, buyPrices, d)
             T == SellReturn(sells, PendingSells, sellPrices, d)
             B == SellReturn(sells, PendingSells \ {next}, sellPrices, d)
             r == currentReserve[d]
             s == currentReserve'[d]
             c == ReserveReturns(sells[next], sellPrices)[d]
  <2>1. r \in Nat /\ C \in Nat /\ T \in Nat /\ ExpectedReserve[d] = (r + C) - T
    BY <1>2, ExpectedType
  <2>2. /\ BuyCost(buys, PendingBuys, buyPrices, d)' = C
        /\ SellReturn(sells, PendingSells, sellPrices, d)' = B
    BY <1>3, <1>4 DEF BuyCost, SellReturn
  <2>3. s \in Nat /\ ExpectedReserve'[d] = (s + C) - B
    BY <2>2, ExpectedTypeNext DEF BooksInv
  <2>4. c \in Nat /\ B \in Nat /\ T = B + c
    BY <1>2, <1>4, ReturnRemove
  <2>5. s = r - c
    BY <1>1 DEF WithdrawReserve, Sub
  <2> HIDE DEF B, C, T, r, s, c
  <2> QED
    BY <2>1, <2>3, <2>4, <2>5
<1>7. ExpectedReserve' = ExpectedReserve
  BY <1>6 DEF ExpectedReserve
<1> QED
  BY <1>5, <1>7

\* No transaction is delivered while EndBlocker runs.
LEMMA TransactionDelivered ==
  Transaction => phase = "DeliverTx"
<1>1. ASSUME NEW allow \in BOOLEAN, NEW l \in OrderLimits, NEW s \in Sanity,
             CreateBond(allow, l, s)
      PROVE  DeliverTx
  BY <1>1 DEF CreateBond
<1>2. ASSUME NEW a \in Account, NEW l \in OrderLimits, NEW s \in Sanity, EditBond(a, l, s)
      PROVE  DeliverTx
  BY <1>2 DEF EditBond
<1>3. ASSUME NEW a \in Account, NEW n \in OrderAmount, NEW max \in OrderMaxPrices,
             FirstBuy(a, n, max) \/ Buy(a, n, max)
      PROVE  DeliverTx
  BY <1>3 DEF FirstBuy, Buy, CanBuy
<1>4. ASSUME NEW a \in Account, NEW n \in OrderAmount, Sell(a, n) PROVE DeliverTx
  BY <1>4 DEF Sell
<1>5. ASSUME NEW a \in Account, NEW from \in Denom, NEW to \in Denom, NEW n \in SwapAmount,
             Swap(a, from, to, n)
      PROVE  DeliverTx
  BY <1>5 DEF Swap
<1>6. ASSUME NEW a \in Account, MakeOutcomePayment(a) \/ WithdrawShare(a) PROVE DeliverTx
  BY <1>6 DEF MakeOutcomePayment, WithdrawShare
<1>7. Transaction => DeliverTx
  BY <1>1, <1>2, <1>3, <1>4, <1>5, <1>6 DEF Transaction
<1> QED
  BY <1>7 DEF DeliverTx

LEMMA LoopKeepsExpected ==
  ASSUME BooksInv, [Next]_vars, phase \in {"Buys", "Sells"}
  PROVE  ExpectedSupply' = ExpectedSupply /\ ExpectedReserve' = ExpectedReserve
<1>1. BooksInv'
  BY NextBooks
<1>2. ASSUME UNCHANGED <<bondVars, batchVars>>, PendingBuys' = PendingBuys,
             PendingSells' = PendingSells
      PROVE  ExpectedSupply' = ExpectedSupply /\ ExpectedReserve' = ExpectedReserve
  BY <1>2 DEF ExpectedSupply, ExpectedReserve, Amounts, bondVars, batchVars
<1>3. /\ LiveBuys \in SUBSET DOMAIN buys /\ next \in Nat
      /\ \A i \in DOMAIN buys : i \in Nat
      /\ \A i \in DOMAIN sells : i \in Nat /\ i >= 1
  BY DEF LiveBuys, BooksInv, TypeOK
<1>4. CASE FinishLoop
  <2>1. /\ UNCHANGED <<bondVars, batchVars>>
        /\ \/ phase = "Buys" /\ next \notin DOMAIN buys /\ phase' = "Sells"
           \/ phase = "Sells" /\ next \notin DOMAIN sells /\ phase' = "Swaps"
        /\ next' = 1
    BY <1>4 DEF FinishLoop
  <2>2. /\ phase = "Buys" => PendingBuys = {}
        /\ phase = "Sells" => PendingSells = {} /\ PendingBuys = {}
    BY <2>1, LoopDone DEF PendingBuys, BooksInv
  <2>3. /\ phase' \in {"Sells", "Swaps"} => PendingBuys' = {}
        /\ phase' = "Swaps" => PendingSells' = {}
    BY DEF PendingBuys, PendingSells
  <2>4. phase = "Buys" /\ phase' = "Sells" => PendingSells' = PendingSells
    BY <1>3, <2>1 DEF PendingSells, batchVars
  <2>5. PendingBuys' = PendingBuys /\ PendingSells' = PendingSells
    BY <2>1, <2>2, <2>3, <2>4
  <2> QED
    BY <1>2, <2>1, <2>5
<1>5. CASE Panic
  <2>1. UNCHANGED <<bondVars, batchVars, phase, next>>
    BY <1>5 DEF Panic
  <2>2. PendingBuys' = PendingBuys /\ PendingSells' = PendingSells
    BY <2>1 DEF PendingBuys, PendingSells, LiveBuys, batchVars
  <2> QED
    BY <1>2, <2>1, <2>2
<1>6. CASE SkipCancelledBuy
  <2>1. /\ phase = "Buys" /\ next \notin LiveBuys /\ next' = next + 1 /\ phase' = phase
        /\ UNCHANGED <<bondVars, batchVars>>
    BY <1>6 DEF SkipCancelledBuy, NextOrder
  <2>2. LiveBuys' = LiveBuys
    BY <2>1 DEF LiveBuys, batchVars
  <2>3. \A i \in LiveBuys : i >= next <=> i >= next + 1
    BY <1>3, <2>1
  <2>4. PendingBuys' = PendingBuys /\ PendingSells' = PendingSells
    BY <2>1, <2>2, <2>3 DEF PendingBuys, PendingSells, batchVars
  <2> QED
    BY <1>2, <2>1, <2>4
<1>7. CASE UNCHANGED vars
  <2>1. UNCHANGED <<bondVars, batchVars, phase, next>>
    BY <1>7 DEF vars, loopVars
  <2>2. PendingBuys' = PendingBuys /\ PendingSells' = PendingSells
    BY <2>1 DEF PendingBuys, PendingSells, LiveBuys, batchVars
  <2> QED
    BY <1>2, <2>1, <2>2
<1>8. CASE PerformBuy \/ PerformSell
  BY <1>1, <1>8, PerformBuyKeepsExpected, PerformSellKeepsExpected
<1>9. ~Transaction
  BY TransactionDelivered
<1>10. ~(EndBlock \/ FinishBatch \/ PerformSwap \/ CancelSwap)
  BY DEF EndBlock, DeliverTx, FinishBatch, PerformSwap, CancelSwap, Performing
<1> QED
  BY <1>4, <1>5, <1>6, <1>7, <1>8, <1>9, <1>10 DEF Next, EndBlocker

\* The input of a swap is in the pool when its output is taken out: the product of
\* the reserves does not fall.
LEMMA ProductKept ==
  ASSUME NEW x \in Nat, NEW y \in Nat, NEW a \in Nat, x + a # 0
  PROVE  LET b == (a * y) \div (x + a)
         IN  b \in Nat /\ x * y <= (x + a) * (y - b)
<1> DEFINE b == (a * y) \div (x + a)
<1>1. a * y \in Nat /\ x + a \in Nat \ {0}
  OBVIOUS
<1>2. b \in Nat /\ (x + a) * b <= a * y
  <2> DEFINE m == a * y
             n == x + a
  <2> HIDE DEF m, n
  <2>1. m \in Nat /\ n \in Nat \ {0}
    BY <1>1 DEF m, n
  <2>2. m \div n \in Nat /\ m % n \in 0 .. (n - 1) /\ m = n * (m \div n) + (m % n)
    BY <2>1, Division
  <2>3. n * (m \div n) <= m /\ m \div n \in Nat
    <3>1. n * (m \div n) \in Nat
      BY <2>1, <2>2
    <3> QED
      BY <2>1, <2>2, <3>1
  <2> QED
    BY <2>3 DEF m, n
<1> HIDE DEF b
<1>3. (x + a) * (y - b) = (x * y + a * y) - (x + a) * b
  BY <1>2
<1>4. x * y \in Nat /\ (x + a) * b \in Nat
  BY <1>2
<1>5. x * y <= (x + a) * (y - b)
  BY <1>1, <1>2, <1>3, <1>4
<1> QED
  BY <1>2, <1>5 DEF b

LEMMA SwapKeepsProduct ==
  ASSUME BooksInv, PerformSwap
  PROVE  currentReserve[ReserveToken1] * currentReserve[ReserveToken2]
           <= currentReserve'[ReserveToken1] * currentReserve'[ReserveToken2]
<1>1. PICK order \in {swaps[i] : i \in DOMAIN swaps} :
        /\ next \in DOMAIN swaps /\ order = swaps[next]
        /\ SwapAllowed(order) /\ currentReserve' = ReserveAfterSwap(order)
  BY DEF PerformSwap, Performing
<1>2. currentReserve \in CoinSet /\ swaps \in Seq(SwapOrder)
  BY DEF BooksInv, TypeOK
<1>3. /\ order \in SwapOrder /\ order.from \in Denom /\ order.to \in Denom
      /\ order.amount \in Nat /\ order.from # order.to
  <2>1. order \in SwapOrder
    BY <1>1, <1>2, OrdersFinite
  <2> QED
    BY <1>1, <2>1 DEF SwapOrder, BooksInv, SwapsExchange
<1> DEFINE from == order.from
           to   == order.to
           a == SwapInput(order)
           b == SwapOutput(order)
           x == currentReserve[from]
           y == currentReserve[to]
<1>4. /\ a \in Nat /\ a # 0 /\ b \in Nat
      /\ b = (a * y) \div (x + a)
  BY <1>1, <1>2, <1>3, SwapFeeType, SwapOutputType DEF SwapAllowed, SwapOutput
<1>5. x \in Nat /\ y \in Nat
  BY <1>2, <1>3 DEF CoinSet
<1>6. currentReserve'[from] = x + a /\ currentReserve'[to] = y - b
  <2> DEFINE in  == Single(from, a)
             out == Single(to, b)
  <2>1. /\ in[from] = a /\ in[to] = 0 /\ out[from] = 0 /\ out[to] = b
    BY <1>3, <1>4, SingleType
  <2>2. currentReserve' = Sub(Add(currentReserve, in), out)
    BY <1>1 DEF ReserveAfterSwap
  <2> HIDE DEF in, out
  <2>3. \A d \in Denom : currentReserve'[d] = (currentReserve[d] + in[d]) - out[d]
    BY <2>2 DEF Sub, Add
  <2>4. currentReserve'[from] = (x + a) - 0 /\ currentReserve'[to] = (y + 0) - b
    BY <1>3, <2>1, <2>3
  <2> HIDE DEF a, b, x, y
  <2> QED
    BY <1>4, <1>5, <2>4
<1> HIDE DEF a, b, x, y
<1>7. x * y <= (x + a) * (y - b)
  BY <1>4, <1>5, ProductKept
<1>8. currentReserve[from] * currentReserve[to] <= currentReserve'[from] * currentReserve'[to]
  BY <1>6, <1>7 DEF x, y
<1>9. \/ from = ReserveToken1 /\ to = ReserveToken2
      \/ from = ReserveToken2 /\ to = ReserveToken1
  BY <1>3, SwapperAssumption
<1>10. CASE from = ReserveToken1 /\ to = ReserveToken2
  BY <1>8, <1>10
<1>11. CASE from = ReserveToken2 /\ to = ReserveToken1
  <2> DEFINE s == currentReserve'[from]
             t == currentReserve'[to]
  <2>1. s \in Int /\ t \in Int
    BY <1>4, <1>5, <1>6
  <2>2. s * t = t * s /\ x * y = y * x
    <3> HIDE DEF s, t
    <3> QED
      BY <1>5, <2>1
  <2> QED
    BY <1>8, <1>11, <2>2 DEF x, y
<1> QED
  BY <1>9, <1>10, <1>11

\* While the pool trades nobody's share of it is diluted: a batch is performed at
\* prices that leave at least as much in the reserve per bond token, its orders move
\* what those prices say, and a swap does not lower the product of the reserves.
THEOREM PoolCorrect == Spec => PoolNeverDiluted
<1>1. Init => PoolInv
  <2>1. Init => FreshPrices
    BY DEF Init, FreshPrices
  <2> QED
    BY <2>1, InitBooks DEF PoolInv
<1>2. PoolInv /\ [Next]_vars => PoolInv'
  BY FreshNext
<1>3. PoolInv /\ [Next]_vars => (bondState = "OPEN" => PoolKept)
  <2> SUFFICES ASSUME PoolInv, [Next]_vars, bondState = "OPEN" PROVE PoolKept
    OBVIOUS
  <2>1. phase = "DeliverTx" /\ PoolBelowScale =>
          \A d \in Denom :
            currentReserve[d] * ExpectedSupply <= ExpectedReserve[d] * currentSupply
    BY BatchPoolKept
  <2>2. phase \in {"Buys", "Sells"} =>
          ExpectedSupply' = ExpectedSupply /\ ExpectedReserve' = ExpectedReserve
    BY LoopKeepsExpected DEF PoolInv
  <2>3. ASSUME phase = "Swaps"
        PROVE  currentReserve[ReserveToken1] * currentReserve[ReserveToken2]
                 <= currentReserve'[ReserveToken1] * currentReserve'[ReserveToken2]
    <3>1. CASE PerformSwap
      BY <3>1, SwapKeepsProduct DEF PoolInv
    <3>2. CASE currentReserve' = currentReserve
      <4>1. currentReserve[ReserveToken1] \in Nat /\ currentReserve[ReserveToken2] \in Nat
        BY SwapperAssumption DEF PoolInv, BooksInv, TypeOK, CoinSet
      <4>2. \A i, j \in Nat : i * j <= i * j
        OBVIOUS
      <4> QED
        BY <3>2, <4>1, <4>2
    <3>3. ~Transaction
      BY <2>3, TransactionDelivered
    <3>4. ~(EndBlock \/ PerformBuy \/ SkipCancelledBuy \/ PerformSell)
      BY <2>3 DEF EndBlock, DeliverTx, PerformBuy, SkipCancelledBuy, PerformSell, Performing
    <3>5. FinishLoop \/ FinishBatch \/ Panic \/ CancelSwap \/ UNCHANGED vars
            => currentReserve' = currentReserve
      BY DEF FinishLoop, FinishBatch, Panic, CancelSwap, vars, bondVars
    <3> QED
      BY <3>1, <3>2, <3>3, <3>4, <3>5 DEF Next, EndBlocker
  <2> QED
    BY <2>1, <2>2, <2>3 DEF PoolKept
<1> QED
  BY <1>1, <1>2, <1>3, PTL DEF Spec, PoolNeverDiluted

=============================================================================
