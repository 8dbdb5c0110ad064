-------------------------- MODULE BondsLife_proofs --------------------------
(***************************************************************************)
(* Proofs about the life of a bond: the hatch phase sells nothing, raises  *)
(* the agreed reserve and ends in time; a settled bond takes no order and  *)
(* pays its holders fair shares; no coin is lost and nobody pays for       *)
(* nothing; EndBlocker halts over late prices only, and the reserve of a   *)
(* bond that trades follows its curve.  They rest on the books being right *)
(* (BooksInv of Bonds_proofs).                                             *)
(***************************************************************************)
EXTENDS Bonds_proofs

-----------------------------------------------------------------------------
(***************************************************************************)
(* The hatch phase                                                         *)
(***************************************************************************)
\* No supply calls for no hatch reserve.
LEMMA HatchReserveOfNothing == HatchReserve(0) = 0
<1>1. P0 \in Nat /\ Unit - Theta \in Nat
  BY BondAssumption, UnitAssumption DEF ValidParameters
<1>2. MulInt(P0, 0) = ToDec(0) /\ ToDec(0) = 0
  BY <1>1, UnitAssumption DEF MulInt, ToDec
<1>3. Mul(ToDec(0), Unit - Theta) = 0 * (Unit - Theta)
  BY <1>1, MulByInteger
<1>4. Mul(MulInt(P0, 0), Unit - Theta) = 0
  BY <1>1, <1>2, <1>3
<1> QED
  BY <1>4, CeilOfZero DEF HatchReserve

LEMMA CreateBondHatch ==
  ASSUME BooksInv, NEW allow \in BOOLEAN, NEW limit \in OrderLimit,
         CreateBond(allow, limit)
  PROVE  HatchInvariant' /\ HatchEnds'
<1>1. /\ bondState' = (IF Augmented THEN "HATCH" ELSE "OPEN")
      /\ allowSells' = (allow /\ ~Augmented) /\ EmptyBatch
      /\ currentSupply' = 0 /\ currentReserve' = 0
  BY DEF CreateBond, BooksInv, BatchRuns
<1>2. S0 \in Nat \ {0} /\ ToDec(0) = 0
  BY BondAssumption, UnitAssumption DEF ValidParameters, ToDec
<1>3. sells' = <<>> /\ PendingBuys' = {}
  BY <1>1, EmptyBatchBooks DEF EmptyBatch
<1>4. SumOf(Amounts(buys'), {}) = 0 /\ CeilInt(S0) \in Nat
  BY <1>2, SumEmpty, CeilType
<1>5. InHatch' => ~allowSells'
  BY <1>1 DEF InHatch
<1>6. currentReserve' = HatchReserve(currentSupply')
  BY <1>1, HatchReserveOfNothing
<1>7. currentSupply' + SumOf(Amounts(buys'), PendingBuys') <= CeilInt(S0)
  BY <1>1, <1>3, <1>4
<1>8. HatchInvariant'
  BY <1>3, <1>5, <1>6, <1>7 DEF HatchInvariant
<1>9. ToDec(currentSupply') < S0
  BY <1>1, <1>2
<1> QED
  BY <1>8, <1>9 DEF HatchEnds

\* A buy that is let in keeps the supply of the whole batch within S0.
LEMMA BuyHatch ==
  ASSUME BooksInv, BooksInv', HatchInvariant, HatchEnds, NEW buyer \in Account,
         NEW amount \in OrderAmount, NEW maxPrices \in OrderMaxPrice,
         Buy(buyer, amount, maxPrices)
  PROVE  HatchInvariant' /\ HatchEnds'
<1> DEFINE order     == [account |-> buyer, amount |-> amount,
                         maxPrices |-> maxPrices, cancelled |-> FALSE]
           buy       == totalBuy + amount
           orders    == Append(buys, order)
           cancelled == Unfulfillable(orders, BatchBuyPrice(buy, totalSell))
<1>1. /\ InHatch => currentSupply + buy <= CeilInt(S0)
      /\ totalBuy' = buy - SumOf(Amounts(orders), cancelled)
      /\ UNCHANGED <<bondVars, sells, phase>> /\ phase = "DeliverTx"
  BY DEF Buy, CanAddBuy, DeliverTx
<1>2. /\ totalBuy \in Nat /\ amount \in Nat /\ maxPrices \in Nat
      /\ currentSupply \in Nat /\ buys \in Seq(BuyOrder)
  BY BondAssumption DEF BooksInv, TypeOK
<1>3. order \in BuyOrder
  BY <1>2 DEF BuyOrder
<1>4. orders \in Seq(BuyOrder)
  BY <1>2, <1>3
<1>5. cancelled \in SUBSET DOMAIN orders
  BY DEF Unfulfillable
<1> HIDE DEF order, orders, cancelled
<1>6. SumOf(Amounts(orders), cancelled) \in Nat
  BY <1>4, <1>5, BuySums
<1>7. SumOf(Amounts(buys'), PendingBuys') = totalBuy'
  <2>1. PendingBuys' = LiveBuys'
    BY <1>1 DEF PendingBuys
  <2> QED
    BY <2>1 DEF BooksInv, TotalsInvariant
<1>8. CeilInt(S0) \in Nat
  BY BondAssumption, CeilType DEF ValidParameters
<1>9. InHatch => currentSupply + SumOf(Amounts(buys'), PendingBuys') <= CeilInt(S0)
  BY <1>1, <1>2, <1>6, <1>7, <1>8
<1>10. HatchInvariant'
  BY <1>1, <1>9 DEF HatchInvariant, InHatch, bondVars
<1>11. HatchEnds'
  BY <1>1 DEF HatchEnds, InHatch, bondVars
<1> QED
  BY <1>10, <1>11

\* A buy that is performed brings the reserve up to the share of all that was
\* raised, and leaves the supply of the whole batch as it was.
LEMMA PerformBuyHatch ==
  ASSUME BooksInv, HatchInvariant, PerformBuy
  PROVE  HatchInvariant' /\ HatchEnds'
<1> DEFINE order == buys[next]
<1>1. /\ phase' = "Buys" /\ next \in LiveBuys
      /\ DepositReserve(ToReserve(order))
      /\ currentSupply' = currentSupply + order.amount
      /\ UNCHANGED <<bondState, allowSells, buys, sells>>
  BY DEF PerformBuy, batchVars
<1>2. /\ LiveBuys' = LiveBuys /\ PendingBuys' = PendingBuys \ {next}
      /\ next \in PendingBuys
  BY PerformBuyPending
<1>3. TypeOK /\ currentSupply \in Nat /\ currentReserve \in Nat
  BY DEF BooksInv, TypeOK
<1>4. /\ IsFiniteSet(PendingBuys) /\ next \in DOMAIN buys
      /\ buys \in Seq(BuyOrder) /\ PendingBuys \in SUBSET DOMAIN buys
      /\ Amounts(buys)[next] = order.amount /\ order.amount \in Nat
      /\ \A i \in PendingBuys : Amounts(buys)[i] \in Nat
  BY <1>2, <1>3, PendingOrders
<1>5. SumOf(Amounts(buys), PendingBuys)
        = SumOf(Amounts(buys), PendingBuys \ {next}) + order.amount
  BY <1>2, <1>4, SumRemove
<1>6. SumOf(Amounts(buys), PendingBuys \ {next}) \in Nat
  BY <1>4, BuySums
<1>7. ASSUME InHatch'
      PROVE  /\ ~allowSells' /\ sells' = <<>>
             /\ currentReserve' = HatchReserve(currentSupply')
             /\ currentSupply' + SumOf(Amounts(buys'), PendingBuys') <= CeilInt(S0)
  <2>1. InHatch
    BY <1>1, <1>7 DEF InHatch
  <2>2. /\ ~allowSells /\ sells = <<>>
        /\ currentSupply + SumOf(Amounts(buys), PendingBuys) <= CeilInt(S0)
    BY <2>1 DEF HatchInvariant
  <2>3. HatchReserve(currentSupply + order.amount) \in Nat
    <3>1. currentSupply + order.amount \in Nat
      BY <1>3, <1>4
    <3>2. P0 \in Nat /\ Unit - Theta \in Nat
      BY BondAssumption, UnitAssumption DEF ValidParameters
    <3>3. MulInt(P0, currentSupply + order.amount) \in Nat
      BY <3>1, <3>2 DEF MulInt
    <3>4. Mul(MulInt(P0, currentSupply + order.amount), Unit - Theta) \in Nat
      BY <3>2, <3>3, MulType
    <3> QED
      BY <3>4, CeilType DEF HatchReserve
  <2>4. currentReserve'
          = currentReserve + (HatchReserve(currentSupply + order.amount) - currentReserve)
    BY <1>1, <2>1 DEF DepositReserve, ToReserve
  <2> HIDE DEF order
  <2>5. currentReserve' = HatchReserve(currentSupply')
    BY <1>1, <1>3, <2>3, <2>4
  <2>6. CeilInt(S0) \in Nat
    BY BondAssumption, CeilType DEF ValidParameters
  <2>7. currentSupply' + SumOf(Amounts(buys), PendingBuys \ {next}) <= CeilInt(S0)
    BY <1>1, <1>3, <1>4, <1>5, <1>6, <2>2, <2>6
  <2> QED
    BY <1>1, <1>2, <2>2, <2>5, <2>7
<1> QED
  BY <1>1, <1>7 DEF HatchInvariant, HatchEnds

\* The end of a batch leaves a bond in the hatch phase only below S0.
LEMMA FinishBatchHatch ==
  ASSUME BooksInv, HatchInvariant, FinishBatch
  PROVE  HatchInvariant' /\ HatchEnds'
<1>1. /\ bondState' = (IF Hatched THEN "OPEN" ELSE bondState)
      /\ allowSells' = (Hatched \/ allowSells)
      /\ EmptyBatch /\ UNCHANGED <<currentSupply, currentReserve>>
  BY DEF FinishBatch
<1>2. TypeOK /\ currentSupply \in Nat /\ S0 \in Nat /\ ToDec(currentSupply) \in Nat
  BY BondAssumption, ToDecType DEF BooksInv, TypeOK, ValidParameters
<1>3. sells' = <<>> /\ PendingBuys' = {}
  BY <1>1, EmptyBatchBooks DEF EmptyBatch
<1>4. ASSUME InHatch' PROVE InHatch /\ ~Hatched
  BY <1>1, <1>4 DEF InHatch, Hatched
<1>5. SumOf(Amounts(buys), PendingBuys) \in Nat
  BY <1>2, PendingOrders, BuySums
<1>6. SumOf(Amounts(buys'), {}) = 0 /\ CeilInt(S0) \in Nat
  BY <1>2, SumEmpty, CeilType
<1>7. InHatch => currentSupply <= CeilInt(S0)
  BY <1>2, <1>5, <1>6 DEF HatchInvariant
<1>8. InHatch' => currentSupply' + SumOf(Amounts(buys'), PendingBuys') <= CeilInt(S0)
  BY <1>1, <1>2, <1>3, <1>4, <1>6, <1>7
<1>9. HatchInvariant'
  BY <1>1, <1>3, <1>4, <1>8 DEF HatchInvariant
<1>10. InHatch' => ToDec(currentSupply') < S0
  BY <1>1, <1>2, <1>4 DEF Hatched
<1> QED
  BY <1>9, <1>10 DEF HatchEnds

LEMMA NextHatch ==
  ASSUME BooksInv, BooksInv', HatchInvariant, HatchEnds, [Next]_vars
  PROVE  HatchInvariant' /\ HatchEnds'
<1>1. ASSUME /\ UNCHANGED <<bondState, allowSells, currentSupply, currentReserve,
                            buys, sells>>
             /\ PendingBuys' = PendingBuys
      PROVE  HatchInvariant'
  BY <1>1 DEF HatchInvariant, InHatch
<1>2. ASSUME NEW allow \in BOOLEAN, NEW limit \in OrderLimit, CreateBond(allow, limit)
      PROVE  HatchInvariant' /\ HatchEnds'
  BY <1>2, CreateBondHatch
<1>3. ASSUME NEW x \in Account, NEW limit \in OrderLimit, EditBond(x, limit)
      PROVE  HatchInvariant' /\ HatchEnds'
  <2>1. UNCHANGED <<bondState, allowSells, currentSupply, currentReserve, batchVars,
                    bankVars, phase, next, halted>>
    BY <1>3 DEF EditBond
  <2>2. PendingBuys' = PendingBuys
    BY <2>1, SameBatch
  <2>3. HatchEnds'
    BY <2>1 DEF HatchEnds, InHatch
  <2> QED
    BY <1>1, <2>1, <2>2, <2>3 DEF batchVars
<1>4. ASSUME NEW x \in Account, NEW n \in OrderAmount, NEW max \in OrderMaxPrice,
             Buy(x, n, max)
      PROVE  HatchInvariant' /\ HatchEnds'
  BY <1>4, BuyHatch
<1>5. ASSUME \/ \E x \in Account, n \in OrderAmount : Sell(x, n)
             \/ \E x \in Account : MakeOutcomePayment(x)
             \/ \E x \in Account : WithdrawShare(x)
      PROVE  HatchInvariant' /\ HatchEnds'
  <2>1. ~InHatch'
    BY <1>5 DEF Sell, MakeOutcomePayment, WithdrawShare, InHatch, bondVars
  <2> QED
    BY <2>1 DEF HatchInvariant, HatchEnds
<1>6. CASE EndBlock
  <2>1. /\ UNCHANGED <<bondVars, buys, sells>> /\ phase = "DeliverTx"
        /\ PendingBuys' = PendingBuys
    BY <1>6, EndBlockPending DEF EndBlock, DeliverTx
  <2>2. HatchEnds'
    BY <2>1 DEF HatchEnds, InHatch, bondVars
  <2> QED
    BY <1>1, <2>1, <2>2 DEF bondVars
<1>7. CASE SkipCancelledBuy
  <2>1. /\ UNCHANGED <<bondVars, batchVars>> /\ phase' = "Buys"
        /\ PendingBuys' = PendingBuys
    BY <1>7, SkipCancelledBuyPending DEF SkipCancelledBuy
  <2> QED
    BY <1>1, <2>1 DEF HatchEnds, bondVars, batchVars
<1>8. CASE FinishBuys
  <2>1. /\ UNCHANGED <<bondVars, batchVars>> /\ phase' = "Sells"
        /\ PendingBuys' = PendingBuys
    BY <1>8, FinishBuysPending DEF FinishBuys
  <2> QED
    BY <1>1, <2>1 DEF HatchEnds, bondVars, batchVars
<1>9. CASE PerformSell
  <2>1. bondState' = bondState /\ next \in DOMAIN sells
    BY <1>9 DEF PerformSell
  <2>2. InHatch' => InHatch
    BY <2>1 DEF InHatch
  <2>3. ~InHatch
    BY <2>1 DEF HatchInvariant
  <2> QED
    BY <2>2, <2>3 DEF HatchInvariant, HatchEnds
<1>10. ASSUME UNCHANGED <<bondVars, batchVars, bankVars, phase, next>>
       PROVE  HatchInvariant' /\ HatchEnds'
  <2>1. PendingBuys' = PendingBuys
    BY <1>10, SameBatch
  <2>2. HatchEnds'
    BY <1>10 DEF HatchEnds, InHatch, bondVars
  <2> QED
    BY <1>1, <1>10, <2>1, <2>2 DEF bondVars, batchVars
<1>11. CASE Panic
  BY <1>10, <1>11 DEF Panic
<1>12. CASE UNCHANGED vars
  BY <1>10, <1>12 DEF vars
<1>13. CASE Transaction
  BY <1>2, <1>3, <1>4, <1>5, <1>13 DEF Transaction
<1>14. CASE EndBlocker
  BY <1>6, <1>7, <1>8, <1>9, <1>11, <1>14, PerformBuyHatch, FinishBatchHatch
  DEF EndBlocker
<1> QED
  BY <1>12, <1>13, <1>14 DEF Next

LEMMA HatchAlwaysRight == Spec => [](BooksInv /\ HatchInvariant /\ HatchEnds)
<1>1. Init => HatchInvariant /\ HatchEnds
  BY DEF Init, HatchInvariant, HatchEnds, InHatch
<1>2. BooksInv /\ BooksInv' /\ HatchInvariant /\ HatchEnds /\ [Next]_vars
        => HatchInvariant' /\ HatchEnds'
  BY NextHatch
<1> QED
  BY <1>1, <1>2, InitBooks, NextBooks, PTL DEF Spec

\* In the hatch phase nothing is sold, the reserve is the share of all that was
\* raised that is not for funding, and the supply cannot pass S0.
THEOREM HatchCorrect == Spec => []HatchInvariant
BY HatchAlwaysRight, PTL

\* The hatch phase ends with the batch that completes it.
THEOREM HatchEndsInTime == Spec => []HatchEnds
BY HatchAlwaysRight, PTL

\* A hatch phase neither overshoots S0 nor outlasts it.
THEOREM HatchPhaseCorrect == Spec => []HatchPhase
BY HatchAlwaysRight, PTL DEF HatchPhase

-----------------------------------------------------------------------------
(***************************************************************************)
(* The life of a bond                                                      *)
(***************************************************************************)
\* Orders are taken only before a bond is settled, and do not change its state.
LEMMA OrdersBeforeSettle ==
  ASSUME \/ \E x \in Account, n \in OrderAmount, max \in OrderMaxPrice : Buy(x, n, max)
         \/ \E x \in Account, n \in OrderAmount : Sell(x, n)
  PROVE  bondState # "SETTLE" /\ UNCHANGED bondVars
<1>1. ASSUME NEW x \in Account, NEW n \in OrderAmount, NEW max \in OrderMaxPrice,
             Buy(x, n, max)
      PROVE  bondState # "SETTLE" /\ UNCHANGED bondVars
  <2>1. bondState \in {"HATCH", "OPEN"} /\ UNCHANGED bondVars
    BY <1>1 DEF Buy
  <2> QED
    BY <2>1
<1>2. ASSUME NEW x \in Account, NEW n \in OrderAmount, Sell(x, n)
      PROVE  bondState # "SETTLE" /\ UNCHANGED bondVars
  <2>1. bondState = "OPEN" /\ UNCHANGED bondVars
    BY <1>2 DEF Sell
  <2> QED
    BY <2>1
<1> QED
  BY <1>1, <1>2

LEMMA NextLifecycle ==
  ASSUME BooksInv, [Next]_vars
  PROVE  LifecycleStep
<1>1. Len(buys) \in Nat /\ Len(sells) \in Nat
  BY DEF BooksInv, TypeOK
<1>2. CASE Transaction /\ bondState' # bondState
  <2>1. /\ bondState # "SETTLE"
        /\ <<bondState, bondState'>> \in {<<"NONE", "HATCH">>, <<"NONE", "OPEN">>,
                                         <<"OPEN", "SETTLE">>}
    <3>1. CASE \E allow \in BOOLEAN, limit \in OrderLimit : CreateBond(allow, limit)
      BY <3>1 DEF CreateBond
    <3>2. CASE \E x \in Account : MakeOutcomePayment(x)
      BY <3>2 DEF MakeOutcomePayment
    <3>3. CASE \/ \E x \in Account, limit \in OrderLimit : EditBond(x, limit)
               \/ \E x \in Account : WithdrawShare(x)
      BY <1>2, <3>3 DEF EditBond, WithdrawShare
    <3> QED
      BY <1>2, <3>1, <3>2, <3>3, OrdersBeforeSettle DEF Transaction, bondVars
  <2> QED
    BY <2>1 DEF LifecycleStep
<1>3. ASSUME UNCHANGED <<bondState, buys, sells>> PROVE LifecycleStep
  BY <1>1, <1>3 DEF LifecycleStep
<1>4. CASE Transaction /\ bondState' = bondState
  <2>1. CASE \/ \E x \in Account, n \in OrderAmount, max \in OrderMaxPrice : Buy(x, n, max)
             \/ \E x \in Account, n \in OrderAmount : Sell(x, n)
    <3>1. bondState # "SETTLE"
      BY <2>1, OrdersBeforeSettle
    <3> QED
      BY <1>4, <3>1 DEF LifecycleStep
  <2>2. CASE \/ \E x \in Account, limit \in OrderLimit : EditBond(x, limit)
             \/ \E x \in Account : WithdrawShare(x)
    BY <1>3, <2>2 DEF EditBond, WithdrawShare, batchVars
  <2> QED
    BY <1>4, <2>1, <2>2 DEF Transaction, CreateBond, MakeOutcomePayment
<1>5. CASE EndBlock \/ PerformBuy \/ SkipCancelledBuy \/ FinishBuys \/ PerformSell \/ Panic
  BY <1>3, <1>5 DEF EndBlock, PerformBuy, SkipCancelledBuy, FinishBuys, PerformSell,
                    Panic, bondVars, batchVars
<1>6. CASE FinishBatch
  <2>1. bondState' = (IF Hatched THEN "OPEN" ELSE bondState)
        /\ buys' = <<>> /\ sells' = <<>>
    BY <1>6 DEF FinishBatch, EmptyBatch
  <2>2. Len(buys') = 0 /\ Len(sells') = 0
    BY <2>1
  <2> QED
    BY <1>1, <2>1, <2>2 DEF Hatched, InHatch, LifecycleStep
<1>7. CASE UNCHANGED vars
  BY <1>3, <1>7 DEF vars, bondVars, batchVars
<1> QED
  BY <1>2, <1>4, <1>5, <1>6, <1>7 DEF Next, Transaction, EndBlocker

\* A bond is created, hatched, opened and settled in this order and never goes
\* back, and a settled bond takes no more orders.
THEOREM LifecycleCorrect == Spec => Lifecycle
<1>1. BooksInv /\ [Next]_vars => [LifecycleStep]_vars
  BY NextLifecycle
<1> QED
  BY <1>1, BooksAlwaysRight, PTL DEF Spec, Lifecycle

-----------------------------------------------------------------------------
(***************************************************************************)
(* Shares of a settled bond                                                *)
(***************************************************************************)
\* What is owed is at most the exact share: truncating the quotient and the
\* product can only make it smaller.
LEMMA OwedIsFair ==
  ASSUME NEW owned \in Nat, currentReserve \in Nat, currentSupply \in Nat \ {0}
  PROVE  /\ ReserveOwed(owned) \in Nat
         /\ ReserveOwed(owned) * currentSupply <= currentReserve * owned
<1> DEFINE R == currentReserve
           S == currentSupply
           q == QuoInt(ToDec(owned), S)
           w == ReserveOwed(owned)
<1>1. R \in Nat /\ S \in Nat \ {0} /\ Unit \in Nat \ {0} /\ ToDec(owned) \in Nat
  BY UnitAssumption, ToDecType
<1>2. q \in Nat /\ S * q <= ToDec(owned)
  BY <1>1, Division DEF QuoInt
<1>3. w = TruncateInt(Mul(ToDec(R), q))
  BY DEF ReserveOwed
<1>4. ToDec(owned) = owned * Unit
  BY DEF ToDec
<1> HIDE DEF R, S, q, w
<1>5. Mul(ToDec(R), q) = R * q /\ R * q \in Nat
  BY <1>1, <1>2, MulByInteger
<1>6. w \in Nat /\ Unit * w <= R * q
  BY <1>3, <1>5, TruncateBelow, CeilType
<1>7. (Unit * w) * S <= (R * q) * S
  BY <1>1, <1>2, <1>6
<1>8. (R * q) * S = R * (S * q)
  BY <1>1, <1>2
<1>9. R * (S * q) <= R * (owned * Unit)
  BY <1>1, <1>2, <1>4
<1>10. /\ (Unit * w) * S = Unit * (w * S) /\ R * (owned * Unit) = Unit * (R * owned)
       /\ w * S \in Nat /\ R * owned \in Nat
  BY <1>1, <1>6
<1>11. Unit * (w * S) <= Unit * (R * owned)
  BY <1>1, <1>2, <1>6, <1>7, <1>8, <1>9, <1>10
<1>12. \A x, y \in Nat : Unit * x <= Unit * y => x <= y
  BY <1>1
<1>13. w * S <= R * owned
  BY <1>10, <1>11, <1>12
<1> QED
  BY <1>6, <1>13 DEF w, R, S

LEMMA WithdrawShareKept ==
  ASSUME BooksInv, NEW recipient \in Account, WithdrawShare(recipient)
  PROVE  ShareKept
<1> DEFINE owned == tokens[recipient]
           owed  == ReserveOwed(owned)
<1>1. /\ owned # 0 /\ owned <= currentSupply
      /\ currentReserve' = currentReserve - owed
      /\ currentSupply' = currentSupply - owned
  BY DEF WithdrawShare, WithdrawReserve
<1>2. owned \in Nat /\ currentReserve \in Nat /\ currentSupply \in Nat
  BY DEF BooksInv, TypeOK
<1>3. currentSupply \in Nat \ {0}
  BY <1>1, <1>2
<1>4. owed \in Nat /\ owed * currentSupply <= currentReserve * owned
  BY <1>2, <1>3, OwedIsFair
<1> HIDE DEF owned, owed
<1>5. /\ currentReserve * currentSupply'
           = (currentReserve * currentSupply) - (currentReserve * owned)
      /\ currentReserve' * currentSupply
           = (currentReserve * currentSupply) - (owed * currentSupply)
  BY <1>1, <1>2, <1>4
<1>6. currentReserve * currentSupply' <= currentReserve' * currentSupply
  BY <1>2, <1>4, <1>5
<1> QED
  BY <1>6 DEF ShareKept

LEMMA NextShareKept ==
  ASSUME BooksInv, [Next]_vars
  PROVE  ShareKept
<1>1. ASSUME UNCHANGED <<currentSupply, currentReserve>> PROVE ShareKept
  <2>1. currentSupply \in Nat /\ currentReserve \in Nat
    BY DEF BooksInv, TypeOK
  <2>2. currentReserve * currentSupply' = currentReserve' * currentSupply
        /\ currentReserve * currentSupply \in Nat
    BY <1>1, <2>1
  <2> QED
    BY <1>1, <2>1, <2>2 DEF ShareKept
<1>2. CASE \/ \E allow \in BOOLEAN, limit \in OrderLimit : CreateBond(allow, limit)
           \/ \E x \in Account, limit \in OrderLimit : EditBond(x, limit)
           \/ \E x \in Account, n \in OrderAmount, max \in OrderMaxPrice : Buy(x, n, max)
           \/ \E x \in Account, n \in OrderAmount : Sell(x, n)
  <2>1. UNCHANGED <<currentSupply, currentReserve>>
    <3>1. CASE \E allow \in BOOLEAN, limit \in OrderLimit : CreateBond(allow, limit)
      BY <3>1 DEF CreateBond
    <3>2. CASE \E x \in Account, limit \in OrderLimit : EditBond(x, limit)
      BY <3>2 DEF EditBond
    <3> QED
      BY <1>2, <3>1, <3>2, OrdersBeforeSettle DEF bondVars
  <2> QED
    BY <1>1, <2>1
<1>3. CASE \E x \in Account : MakeOutcomePayment(x)
  BY <1>3 DEF MakeOutcomePayment, ShareKept
<1>4. CASE \E x \in Account : WithdrawShare(x)
  BY <1>4, WithdrawShareKept
<1>5. CASE EndBlock \/ SkipCancelledBuy \/ FinishBuys \/ FinishBatch \/ Panic
  BY <1>1, <1>5 DEF EndBlock, SkipCancelledBuy, FinishBuys, FinishBatch, Panic, bondVars
<1>6. CASE PerformBuy \/ PerformSell
  BY <1>6 DEF PerformBuy, PerformSell, ShareKept
<1>7. CASE UNCHANGED vars
  BY <1>1, <1>7 DEF vars, bondVars
<1> QED
  BY <1>2, <1>3, <1>4, <1>5, <1>6, <1>7 DEF Next, Transaction, EndBlocker

\* No withdrawal of a share makes the shares that stay worth less, whatever the
\* amounts and however the decimals are rounded.
THEOREM SharesCorrect == Spec => ShareNeverDiluted
<1>1. BooksInv /\ [Next]_vars => [ShareKept]_vars
  BY NextShareKept
<1> QED
  BY <1>1, BooksAlwaysRight, PTL DEF Spec, ShareNeverDiluted

-----------------------------------------------------------------------------
(***************************************************************************)
(* Coins                                                                   *)
(***************************************************************************)
\* What accounts receive and pay changes their total by just that.
LEMMA CreditSum ==
  ASSUME NEW balance \in [Account -> Nat], NEW a \in Account, NEW n \in Nat
  PROVE  /\ Credit(balance, a, n) \in [Account -> Nat]
         /\ SumOf(Credit(balance, a, n), Account) = SumOf(balance, Account) + n
<1> DEFINE new == Credit(balance, a, n)
<1>1. /\ new \in [Account -> Nat] /\ new[a] = balance[a] + n
      /\ \A x \in Account \ {a} : new[x] = balance[x]
  BY DEF Credit
<1> HIDE DEF new
<1>2. SumOf(new, Account) = SumOf(balance, Account) - balance[a] + new[a]
  <2>1. \A x \in Account : balance[x] \in Nat /\ new[x] \in Nat
    BY <1>1
  <2> QED
    BY <1>1, <2>1, BondAssumption, SumUpdate
<1>3. SumOf(balance, Account) \in Nat /\ balance[a] \in Nat
  BY BondAssumption, SumType
<1> QED
  BY <1>1, <1>2, <1>3 DEF new

LEMMA DebitSum ==
  ASSUME NEW balance \in [Account -> Nat], NEW a \in Account, NEW n \in Nat,
         n <= balance[a]
  PROVE  /\ Debit(balance, a, n) \in [Account -> Nat]
         /\ SumOf(Debit(balance, a, n), Account) = SumOf(balance, Account) - n
<1> DEFINE new == Debit(balance, a, n)
<1>1. /\ new \in [Account -> Nat] /\ new[a] = balance[a] - n
      /\ \A x \in Account \ {a} : new[x] = balance[x]
  BY DEF Debit
<1> HIDE DEF new
<1>2. SumOf(new, Account) = SumOf(balance, Account) - balance[a] + new[a]
  <2>1. \A x \in Account : balance[x] \in Nat /\ new[x] \in Nat
    BY <1>1
  <2> QED
    BY <1>1, <2>1, BondAssumption, SumUpdate
<1>3. SumOf(balance, Account) \in Nat /\ balance[a] \in Nat
  BY BondAssumption, SumType
<1> QED
  BY <1>1, <1>2, <1>3 DEF new

\* All that is refunded reaches the accounts of the orders, whoever's they are.
LEMMA RefundSum ==
  ASSUME NEW balance \in [Account -> Nat], NEW orders \in Seq(BuyOrder),
         NEW which \in SUBSET DOMAIN orders
  PROVE  /\ \A a \in Account :
              SumOf(MaxPrices(orders), {i \in which : orders[i].account = a}) \in Nat
         /\ SumOf(Refund(balance, orders, which), Account)
              = SumOf(balance, Account) + SumOf(MaxPrices(orders), which)
<1> DEFINE holder == [i \in which |-> orders[i].account]
           group == [a \in Account |-> {i \in which : orders[i].account = a}]
           back == [a \in Account |-> SumOf(MaxPrices(orders), group[a])]
           new == Refund(balance, orders, which)
<1>1. IsFiniteSet(which) /\ \A i \in which : MaxPrices(orders)[i] \in Nat
  BY BuySums
<1>2. \A i \in which : holder[i] \in Account
  <2>1. \A i \in DOMAIN orders : orders[i] \in BuyOrder
    OBVIOUS
  <2> QED
    BY <2>1 DEF BuyOrder
<1>3. \A a \in Account : \A i : i \in group[a] <=> i \in which /\ holder[i] = a
  OBVIOUS
<1>4. \A a \in Account : back[a] \in Nat
  <2> TAKE a \in Account
  <2>1. group[a] \in SUBSET DOMAIN orders
    BY <1>3
  <2> HIDE DEF group
  <2> QED
    BY <2>1, BuySums
<1>5. \A a \in Account : back[a] = SumOf(MaxPrices(orders), group[a])
  OBVIOUS
<1>6. \A a \in Account : new[a] = balance[a] + back[a]
  BY DEF Refund
<1>7. \A a \in Account : back[a] = SumOf(MaxPrices(orders), {i \in which : orders[i].account = a})
  OBVIOUS
<1> DEFINE prices == MaxPrices(orders)
<1>8. SumOf(back, Account) = SumOf(MaxPrices(orders), which)
  <2>1. /\ IsFiniteSet(which) /\ IsFiniteSet(Account)
        /\ \A i \in which : prices[i] \in Nat
        /\ \A i \in which : holder[i] \in Account
    BY <1>1, <1>2, BondAssumption
  <2>2. \A a \in Account : \A i : i \in group[a] <=> i \in which /\ holder[i] = a
    BY <1>3
  <2>3. \A a \in Account : back[a] = SumOf(prices, group[a])
    BY <1>5
  <2> HIDE DEF holder, group, back, prices
  <2>4. SumOf(back, Account) = SumOf(prices, which)
    BY <2>1, <2>2, <2>3, SumByGroup, Z3
  <2> QED
    BY <2>4 DEF prices
<1> HIDE DEF holder, group, back, new
<1>9. SumOf(new, Account) = SumOf(balance, Account) + SumOf(back, Account)
  <2>1. IsFiniteSet(Account) /\ \A a \in Account : balance[a] \in Nat
    BY BondAssumption
  <2> QED
    BY <1>4, <1>6, <2>1, SumPlus
<1> QED
  BY <1>4, <1>7, <1>8, <1>9 DEF new

\* What a withdrawal is owed is a number of coins.
LEMMA OwedType ==
  ASSUME BooksInv, NEW x \in Account, WithdrawShare(x)
  PROVE  ReserveOwed(tokens[x]) \in Nat
<1>1. /\ tokens[x] \in Nat /\ currentSupply \in Nat \ {0} /\ currentReserve \in Nat
  BY DEF BooksInv, TypeOK, WithdrawShare
<1>2. QuoInt(ToDec(tokens[x]), currentSupply) \in Nat
  BY <1>1, ToDecType, Division DEF QuoInt
<1>3. Mul(ToDec(currentReserve), QuoInt(ToDec(tokens[x]), currentSupply)) \in Nat
  BY <1>1, <1>2, ToDecType, MulType
<1> QED
  BY <1>3, CeilType DEF ReserveOwed

LEMMA BuyCoins ==
  ASSUME BooksInv, CoinsConserved, NEW buyer \in Account, NEW amount \in OrderAmount,
         NEW maxPrices \in OrderMaxPrice, Buy(buyer, amount, maxPrices)
  PROVE  CoinsConserved'
<1> DEFINE order     == [account |-> buyer, amount |-> amount,
                         maxPrices |-> maxPrices, cancelled |-> FALSE]
           orders    == Append(buys, order)
           cancelled == Unfulfillable(orders, BatchBuyPrice(totalBuy + amount, totalSell))
           debited   == Debit(funds, buyer, maxPrices)
<1>1. /\ maxPrices <= funds[buyer]
      /\ funds' = Refund(debited, orders, cancelled)
      /\ intermediary' = intermediary + maxPrices - SumOf(MaxPrices(orders), cancelled)
      /\ reserveAccount' = reserveAccount
  BY DEF Buy
<1>2. /\ amount \in Nat /\ maxPrices \in Nat /\ buys \in Seq(BuyOrder)
      /\ funds \in [Account -> Nat] /\ intermediary \in Nat /\ reserveAccount \in Nat
  BY BondAssumption DEF BooksInv, TypeOK
<1>3. order \in BuyOrder
  BY <1>2 DEF BuyOrder
<1>4. orders \in Seq(BuyOrder) /\ cancelled \in SUBSET DOMAIN orders
  BY <1>2, <1>3 DEF Unfulfillable
<1> HIDE DEF order, orders, cancelled, debited
<1>5. debited \in [Account -> Nat] /\ SumOf(debited, Account) = SumOf(funds, Account) - maxPrices
  BY <1>1, <1>2, DebitSum DEF debited
<1>6. SumOf(funds', Account) = SumOf(debited, Account) + SumOf(MaxPrices(orders), cancelled)
  BY <1>1, <1>4, <1>5, RefundSum
<1>7. SumOf(MaxPrices(orders), cancelled) \in Nat /\ SumOf(funds, Account) \in Nat
  BY <1>2, <1>4, BuySums, SumType, BondAssumption
<1>8. SumOf(funds', Account) + intermediary' + reserveAccount'
        = SumOf(funds, Account) + intermediary + reserveAccount
  BY <1>1, <1>2, <1>5, <1>6, <1>7
<1> QED
  BY <1>8 DEF CoinsConserved

LEMMA PerformBuyCoins ==
  ASSUME BooksInv, CoinsConserved, PerformBuy
  PROVE  CoinsConserved'
<1> DEFINE order   == buys[next]
           total   == TotalPrice(order, buyPrice)
           reserve == ToReserve(order)
           fees    == Credit(funds, FeeAddress, total - reserve)
<1>1. /\ phase = "Buys" /\ next \in LiveBuys /\ CanPerformBuy(order)
      /\ intermediary' = intermediary - order.maxPrices
      /\ reserveAccount' = reserveAccount + reserve
      /\ funds' = Credit(fees, order.account, order.maxPrices - total)
  BY DEF PerformBuy, DepositReserve
<1>2. TypeOK /\ next \in DOMAIN buys
  BY <1>1 DEF BooksInv, LiveBuys
<1>3. order.account \in Account /\ order.amount \in Nat /\ order.maxPrices \in Nat
      /\ order \in BuyOrder
  BY <1>2, PendingOrders DEF BuyOrder
<1>4. /\ funds \in [Account -> Nat] /\ buyPrice \in Nat /\ intermediary \in Nat
      /\ reserveAccount \in Nat /\ FeeAddress \in Account
  BY <1>2, BondAssumption DEF TypeOK, ValidParameters
<1>5. /\ total - reserve \in Nat /\ order.maxPrices - total \in Nat
      /\ total \in Nat /\ reserve \in Nat
  <2>1. /\ ReservePrice(order, buyPrice) \in Nat /\ total \in Nat
        /\ ReservePrice(order, buyPrice) <= total
    BY <1>3, <1>4, OrderPrices
  <2>2. reserve \in 0 .. ReservePrice(order, buyPrice) /\ total <= order.maxPrices
    BY <1>1 DEF CanPerformBuy, FulfillableAtPrice
  <2> HIDE DEF total, reserve, order
  <2> QED
    BY <1>3, <2>1, <2>2
<1> HIDE DEF order, total, reserve, fees
<1>6. fees \in [Account -> Nat] /\ SumOf(fees, Account) = SumOf(funds, Account) + (total - reserve)
  BY <1>4, <1>5, CreditSum DEF fees
<1>7. SumOf(funds', Account) = SumOf(fees, Account) + (order.maxPrices - total)
  BY <1>1, <1>3, <1>5, <1>6, CreditSum
<1>8. SumOf(funds, Account) \in Nat
  BY <1>4, SumType, BondAssumption
<1>9. SumOf(funds', Account) + intermediary' + reserveAccount'
        = SumOf(funds, Account) + intermediary + reserveAccount
  BY <1>1, <1>3, <1>4, <1>5, <1>6, <1>7, <1>8
<1> QED
  BY <1>9 DEF CoinsConserved

LEMMA PerformSellCoins ==
  ASSUME BooksInv, CoinsConserved, PerformSell
  PROVE  CoinsConserved'
<1> DEFINE order   == sells[next]
           returns == ReserveReturn(order, sellPrice)
           fees    == SellFees(order, sellPrice)
           paid    == Credit(funds, order.account, returns - fees)
<1>1. /\ next \in DOMAIN sells
      /\ returns <= reserveAccount
      /\ funds' = Credit(paid, FeeAddress, fees)
      /\ reserveAccount' = reserveAccount - returns
      /\ intermediary' = intermediary
  BY DEF PerformSell, CanPerformSell, CanWithdraw, WithdrawReserve
<1>2. TypeOK
  BY DEF BooksInv
<1>3. order.account \in Account /\ order.amount \in Nat
  BY <1>1, <1>2, PendingOrders DEF SellOrder
<1>4. /\ funds \in [Account -> Nat] /\ sellPrice \in Nat /\ intermediary \in Nat
      /\ reserveAccount \in Nat /\ FeeAddress \in Account
  BY <1>2, BondAssumption DEF TypeOK, ValidParameters
<1>5. returns \in Nat /\ fees \in Nat /\ returns - fees \in Nat
  <2>1. returns \in Nat /\ fees \in Nat /\ fees <= returns
    BY <1>3, <1>4, OrderPrices
  <2> HIDE DEF returns, fees
  <2> QED
    BY <2>1
<1> HIDE DEF order, returns, fees, paid
<1>6. paid \in [Account -> Nat] /\ SumOf(paid, Account) = SumOf(funds, Account) + (returns - fees)
  BY <1>3, <1>4, <1>5, CreditSum DEF paid
<1>7. SumOf(funds', Account) = SumOf(paid, Account) + fees
  BY <1>1, <1>4, <1>5, <1>6, CreditSum
<1>8. SumOf(funds, Account) \in Nat
  BY <1>4, SumType, BondAssumption
<1>9. SumOf(funds', Account) + intermediary' + reserveAccount'
        = SumOf(funds, Account) + intermediary + reserveAccount
  BY <1>1, <1>4, <1>5, <1>6, <1>7, <1>8
<1> QED
  BY <1>9 DEF CoinsConserved

LEMMA NextCoins ==
  ASSUME BooksInv, CoinsConserved, [Next]_vars
  PROVE  CoinsConserved'
<1>1. ASSUME UNCHANGED bankVars PROVE CoinsConserved'
  BY <1>1 DEF bankVars, CoinsConserved
<1>2. ASSUME NEW allow \in BOOLEAN, NEW limit \in OrderLimit, CreateBond(allow, limit)
      PROVE  CoinsConserved'
  BY <1>1, <1>2 DEF CreateBond
<1>3. ASSUME NEW x \in Account, NEW limit \in OrderLimit, EditBond(x, limit)
      PROVE  CoinsConserved'
  BY <1>1, <1>3 DEF EditBond
<1>4. ASSUME NEW x \in Account, NEW n \in OrderAmount, NEW max \in OrderMaxPrice,
             Buy(x, n, max)
      PROVE  CoinsConserved'
  BY <1>4, BuyCoins
<1>5. ASSUME NEW x \in Account, NEW n \in OrderAmount, Sell(x, n)
      PROVE  CoinsConserved'
  BY <1>5 DEF Sell, CoinsConserved
<1>6. ASSUME NEW x \in Account, MakeOutcomePayment(x)
      PROVE  CoinsConserved'
  <2>1. /\ OutcomePayment <= funds[x] /\ funds' = Debit(funds, x, OutcomePayment)
        /\ reserveAccount' = reserveAccount + OutcomePayment /\ intermediary' = intermediary
    BY <1>6 DEF MakeOutcomePayment, DepositReserve
  <2>2. /\ funds \in [Account -> Nat] /\ intermediary \in Nat /\ reserveAccount \in Nat
        /\ OutcomePayment \in Nat
    BY BondAssumption DEF BooksInv, TypeOK, ValidParameters
  <2>3. SumOf(funds', Account) = SumOf(funds, Account) - OutcomePayment
    BY <2>1, <2>2, DebitSum
  <2>4. SumOf(funds, Account) \in Nat
    BY <2>2, SumType, BondAssumption
  <2>5. SumOf(funds', Account) + intermediary' + reserveAccount'
          = SumOf(funds, Account) + intermediary + reserveAccount
    BY <2>1, <2>2, <2>3, <2>4
  <2> QED
    BY <2>5 DEF CoinsConserved
<1>7. ASSUME NEW x \in Account, WithdrawShare(x)
      PROVE  CoinsConserved'
  <2> DEFINE owed == ReserveOwed(tokens[x])
  <2>1. /\ owed <= reserveAccount /\ funds' = Credit(funds, x, owed)
        /\ reserveAccount' = reserveAccount - owed /\ intermediary' = intermediary
    BY <1>7 DEF WithdrawShare, WithdrawReserve, CanWithdraw
  <2>2. funds \in [Account -> Nat] /\ intermediary \in Nat /\ reserveAccount \in Nat
    BY DEF BooksInv, TypeOK
  <2>3. owed \in Nat
    BY <1>7, OwedType
  <2> HIDE DEF owed
  <2>4. SumOf(funds', Account) = SumOf(funds, Account) + owed
    BY <2>1, <2>2, <2>3, CreditSum
  <2>5. SumOf(funds, Account) \in Nat
    BY <2>2, SumType, BondAssumption
  <2>6. SumOf(funds', Account) + intermediary' + reserveAccount'
          = SumOf(funds, Account) + intermediary + reserveAccount
    BY <2>1, <2>2, <2>3, <2>4, <2>5
  <2> QED
    BY <2>6 DEF CoinsConserved
<1>8. CASE EndBlock \/ SkipCancelledBuy \/ FinishBuys \/ FinishBatch \/ Panic
  BY <1>1, <1>8 DEF EndBlock, SkipCancelledBuy, FinishBuys, FinishBatch, Panic
<1>9. CASE UNCHANGED vars
  BY <1>1, <1>9 DEF vars
<1>10. CASE Transaction
  BY <1>2, <1>3, <1>4, <1>5, <1>6, <1>7, <1>10 DEF Transaction
<1>11. CASE EndBlocker
  BY <1>8, <1>11, PerformBuyCoins, PerformSellCoins DEF EndBlocker
<1> QED
  BY <1>9, <1>10, <1>11 DEF Next

\* Reserve tokens are moved between accounts, intermediary and reserve, never
\* made or lost, whatever is refunded, rounded or taken as a fee.
THEOREM CoinsKept == Spec => []CoinsConserved
<1>1. Init => CoinsConserved
  <2>1. SumOf(InitialFunds, Account) \in Nat
    BY BondAssumption, SumType
  <2> QED
    BY <2>1 DEF Init, CoinsConserved
<1> QED
  BY <1>1, NextCoins, BooksAlwaysRight, PTL DEF Spec

-----------------------------------------------------------------------------
(***************************************************************************)
(* Wealth                                                                  *)
(***************************************************************************)
\* Every order of a batch is for some tokens.
OrdersPositive == \A i \in DOMAIN buys : buys[i].amount > 0

\* The orders of an account among some of the batch.
Own(orders, which, a) == {i \in which : orders[i].account = a}

\* What an account has locked is a number of coins, and less without one of its
\* orders by the max prices of that order.
LEMMA OwnSums ==
  ASSUME NEW orders \in Seq(BuyOrder), NEW which \in SUBSET DOMAIN orders, NEW a \in Account
  PROVE  /\ Own(orders, which, a) \in SUBSET DOMAIN orders
         /\ IsFiniteSet(Own(orders, which, a))
         /\ \A i \in Own(orders, which, a) : MaxPrices(orders)[i] \in Nat
         /\ SumOf(MaxPrices(orders), Own(orders, which, a)) \in Nat
<1>1. Own(orders, which, a) \in SUBSET DOMAIN orders
  BY DEF Own
<1> QED
  BY <1>1, BuySums

\* What an account has is a number of coins.
LEMMA WealthType ==
  ASSUME BooksInv, NEW a \in Account
  PROVE  Wealth(a) \in Nat
<1>1. PendingBuys \in SUBSET DOMAIN buys /\ buys \in Seq(BuyOrder) /\ funds[a] \in Nat
  BY PendingOrders DEF BooksInv, TypeOK
<1>2. SumOf(MaxPrices(buys), Own(buys, PendingBuys, a)) \in Nat
  BY <1>1, OwnSums
<1> QED
  BY <1>1, <1>2 DEF Wealth, Own

\* Whoever's order comes into a batch and whichever it cancels, no account has
\* more or less than before, what its orders have locked included.
LEMMA BuyWealth ==
  ASSUME BooksInv, NEW buyer \in Account, NEW amount \in OrderAmount,
         NEW maxPrices \in OrderMaxPrice, Buy(buyer, amount, maxPrices)
  PROVE  \A a \in Account : Wealth(a)' = Wealth(a)
<1> DEFINE order     == [account |-> buyer, amount |-> amount,
                         maxPrices |-> maxPrices, cancelled |-> FALSE]
           orders    == Append(buys, order)
           cancelled == Unfulfillable(orders, BatchBuyPrice(totalBuy + amount, totalSell))
           n         == Len(buys) + 1
<1>1. /\ phase = "DeliverTx" /\ phase' = phase /\ maxPrices <= funds[buyer]
      /\ buys' = Cancel(orders, cancelled)
      /\ funds' = Refund(Debit(funds, buyer, maxPrices), orders, cancelled)
  BY DEF Buy, DeliverTx
<1>2. /\ amount \in Nat /\ maxPrices \in Nat /\ buys \in Seq(BuyOrder)
      /\ funds \in [Account -> Nat]
  BY BondAssumption DEF BooksInv, TypeOK
<1>3. order \in BuyOrder /\ order.account = buyer /\ order.maxPrices = maxPrices
      /\ ~order.cancelled
  BY <1>2 DEF BuyOrder
<1>4. cancelled \in SUBSET Live(orders) /\ cancelled \in SUBSET DOMAIN orders
  BY DEF Unfulfillable, Live
<1> HIDE DEF order, cancelled
<1>5. /\ orders \in Seq(BuyOrder)
      /\ DOMAIN orders = DOMAIN buys \cup {n} /\ n \notin DOMAIN buys
      /\ orders[n] = order /\ \A i \in DOMAIN buys : orders[i] = buys[i]
  BY <1>2, <1>3
<1> HIDE DEF orders, n
<1>6. /\ Live(orders) = Live(buys) \cup {n} /\ n \notin Live(buys)
      /\ Live(buys) \in SUBSET DOMAIN buys /\ Live(orders) \in SUBSET DOMAIN orders
  BY <1>3, <1>5 DEF Live
<1>7. /\ \A i \in DOMAIN buys : MaxPrices(orders)[i] = MaxPrices(buys)[i]
      /\ MaxPrices(orders)[n] = maxPrices
  BY <1>3, <1>5 DEF MaxPrices
<1>8. /\ PendingBuys = Live(buys) /\ PendingBuys' = Live(buys')
  BY <1>1 DEF PendingBuys, LiveBuys, Live
<1>9. /\ Live(buys') = Live(orders) \ cancelled
      /\ \A i \in DOMAIN orders : buys'[i].account = orders[i].account
      /\ MaxPrices(buys') = MaxPrices(orders)
  <2>1. DOMAIN buys' = DOMAIN orders
    BY <1>1 DEF Cancel
  <2>2. \A i \in DOMAIN orders :
          buys'[i] = IF i \in cancelled THEN [orders[i] EXCEPT !.cancelled = TRUE] ELSE orders[i]
    BY <1>1 DEF Cancel
  <2>3. \A i \in DOMAIN orders :
          /\ buys'[i].account = orders[i].account
          /\ buys'[i].maxPrices = orders[i].maxPrices
          /\ buys'[i].cancelled = (i \in cancelled \/ orders[i].cancelled)
    <3>1. \A i \in DOMAIN orders : orders[i] \in BuyOrder
      <4>1. \A i \in DOMAIN buys : buys[i] \in BuyOrder
        BY <1>2
      <4> QED
        BY <1>3, <1>5, <4>1
    <3> QED
      BY <2>2, <3>1 DEF BuyOrder
  <2>4. MaxPrices(buys') = MaxPrices(orders)
    BY <2>1, <2>3 DEF MaxPrices
  <2>5. Live(buys') = Live(orders) \ cancelled
    BY <2>1, <2>3 DEF Live
  <2> QED
    BY <2>3, <2>4, <2>5
<1>10. SUFFICES ASSUME NEW a \in Account PROVE Wealth(a)' = Wealth(a)
  OBVIOUS
<1> DEFINE charge == IF buyer = a THEN maxPrices ELSE 0
           locked == Own(buys, Live(buys), a)
           all    == Own(orders, Live(orders), a)
           back   == Own(orders, cancelled, a)
           stay   == Own(orders, Live(orders) \ cancelled, a)
<1>11. /\ IsFiniteSet(locked) /\ SumOf(MaxPrices(buys), locked) \in Nat
       /\ IsFiniteSet(stay) /\ IsFiniteSet(back)
       /\ \A i \in all : MaxPrices(orders)[i] \in Nat
       /\ SumOf(MaxPrices(orders), stay) \in Nat /\ SumOf(MaxPrices(orders), back) \in Nat
  <2>1. Live(orders) \ cancelled \in SUBSET DOMAIN orders
    BY <1>6
  <2> QED
    BY <1>2, <1>4, <1>5, <1>6, <2>1, OwnSums
<1>12. all = IF buyer = a THEN locked \cup {n} ELSE locked
  BY <1>3, <1>5, <1>6 DEF Own
<1>13. n \notin locked /\ locked \subseteq DOMAIN buys
  BY <1>6 DEF Own
<1>14. all = stay \cup back /\ stay \cap back = {}
  BY <1>4 DEF Own
<1> HIDE DEF locked, all, back, stay
<1>15. SumOf(MaxPrices(orders), locked) = SumOf(MaxPrices(buys), locked)
  BY <1>7, <1>13, SumCongruence
<1>16. SumOf(MaxPrices(orders), all) = SumOf(MaxPrices(buys), locked) + charge
  <2>1. CASE buyer = a
    <3>1. \A i \in locked \cup {n} : MaxPrices(orders)[i] \in Nat
      BY <1>11, <1>12, <2>1
    <3>2. SumOf(MaxPrices(orders), locked \cup {n})
            = SumOf(MaxPrices(orders), locked) + MaxPrices(orders)[n]
      BY <1>11, <1>13, <3>1, SumAdd
    <3> QED
      BY <1>7, <1>12, <1>15, <2>1, <3>2
  <2>2. CASE buyer # a
    BY <1>11, <1>12, <1>15, <2>2
  <2> QED
    BY <2>1, <2>2
<1>17. SumOf(MaxPrices(orders), all)
         = SumOf(MaxPrices(orders), stay) + SumOf(MaxPrices(orders), back)
  BY <1>11, <1>14, SumUnion
<1>18. funds'[a] = (funds[a] - charge) + SumOf(MaxPrices(orders), back)
  BY <1>1, <1>2 DEF Refund, Debit, back, Own
<1>19. Wealth(a) = funds[a] + SumOf(MaxPrices(buys), locked)
  BY <1>8 DEF Wealth, locked, Own
<1>20. Wealth(a)' = funds'[a] + SumOf(MaxPrices(orders), stay)
  <2>1. {i \in PendingBuys' : buys'[i].account = a} = stay
    BY <1>6, <1>8, <1>9 DEF stay, Own
  <2> QED
    BY <1>9, <2>1 DEF Wealth
<1>21. funds[a] \in Nat /\ charge \in Nat
  BY <1>2
<1> HIDE DEF charge
<1> QED
  BY <1>11, <1>16, <1>17, <1>18, <1>19, <1>20, <1>21

\* Whoever pays for a buy that is performed gets its tokens.
LEMMA PerformBuyWealth ==
  ASSUME BooksInv, OrdersPositive, PerformBuy, NEW a \in Account
  PROVE  \/ ~(Wealth(a)' < Wealth(a))
         \/ tokens'[a] > tokens[a]
<1> DEFINE order   == buys[next]
           total   == TotalPrice(order, buyPrice)
           reserve == ToReserve(order)
<1>1. /\ next \in LiveBuys /\ CanPerformBuy(order) /\ buys' = buys
      /\ tokens' = Credit(tokens, order.account, order.amount)
      /\ funds' = Credit(Credit(funds, FeeAddress, total - reserve),
                         order.account, order.maxPrices - total)
  BY DEF PerformBuy, batchVars
<1>2. /\ TypeOK /\ next \in DOMAIN buys /\ order.amount > 0
      /\ PendingBuys' = PendingBuys \ {next}
  BY <1>1, PerformBuyPending DEF BooksInv, LiveBuys, OrdersPositive
<1>3. order.account \in Account /\ order.amount \in Nat /\ order.maxPrices \in Nat
      /\ order \in BuyOrder /\ tokens \in [Account -> Nat] /\ funds \in [Account -> Nat]
      /\ buyPrice \in Nat
  BY <1>2, PendingOrders DEF BuyOrder, TypeOK
<1>4. total - reserve \in Nat
  <2>1. /\ ReservePrice(order, buyPrice) \in Nat /\ total \in Nat
        /\ ReservePrice(order, buyPrice) <= total
    BY <1>3, OrderPrices
  <2>2. reserve \in 0 .. ReservePrice(order, buyPrice)
    BY <1>1 DEF CanPerformBuy
  <2> HIDE DEF total, reserve, order
  <2> QED
    BY <2>1, <2>2
<1> HIDE DEF order, total, reserve
<1>5. CASE a = order.account
  <2>1. tokens'[a] = tokens[a] + order.amount
    BY <1>1, <1>3, <1>5 DEF Credit
  <2> QED
    BY <1>2, <1>3, <2>1
<1>6. CASE a # order.account
  <2>1. funds'[a] >= funds[a]
    BY <1>1, <1>3, <1>4, <1>6 DEF Credit
  <2>2. Own(buys, PendingBuys', a) = Own(buys, PendingBuys, a)
    BY <1>2, <1>6 DEF Own, order
  <2>3. PendingBuys \in SUBSET DOMAIN buys /\ buys \in Seq(BuyOrder)
    BY <1>2, PendingOrders
  <2>4. SumOf(MaxPrices(buys), Own(buys, PendingBuys, a)) \in Nat
    BY <2>3, OwnSums
  <2>5. /\ Wealth(a) = funds[a] + SumOf(MaxPrices(buys), Own(buys, PendingBuys, a))
        /\ Wealth(a)' = funds'[a] + SumOf(MaxPrices(buys), Own(buys, PendingBuys, a))
    BY <1>1, <2>2 DEF Wealth, Own
  <2>6. funds[a] \in Nat /\ funds'[a] \in Nat
    BY <1>1, <1>3, <1>4, <1>6 DEF Credit
  <2> QED
    BY <2>1, <2>4, <2>5, <2>6
<1> QED
  BY <1>5, <1>6

\* An account that only receives coins, with the same orders pending, is no poorer.
LEMMA ReceivedWealth ==
  ASSUME BooksInv, \A a \in Account : funds'[a] \in Nat /\ funds'[a] >= funds[a],
         buys' = buys, PendingBuys' = PendingBuys
  PROVE  PaidForTokens
<1> SUFFICES ASSUME NEW a \in Account PROVE ~(Wealth(a)' < Wealth(a))
  BY DEF PaidForTokens
<1> DEFINE locked == SumOf(MaxPrices(buys), Own(buys, PendingBuys, a))
<1>1. PendingBuys \in SUBSET DOMAIN buys /\ buys \in Seq(BuyOrder) /\ funds[a] \in Nat
  BY PendingOrders DEF BooksInv, TypeOK
<1>2. locked \in Nat
  BY <1>1, OwnSums
<1>3. Wealth(a) = funds[a] + locked /\ Wealth(a)' = funds'[a] + locked
  BY DEF Wealth, Own
<1> HIDE DEF locked
<1> QED
  BY <1>1, <1>2, <1>3

LEMMA NextWealth ==
  ASSUME BooksInv, OrdersPositive, [Next]_vars
  PROVE  PaidForTokens
<1>1. funds \in [Account -> Nat] /\ \A a \in Account : funds[a] \in Nat /\ funds[a] >= funds[a]
  BY DEF BooksInv, TypeOK
<1>2. ASSUME UNCHANGED <<funds, buys>>, PendingBuys' = PendingBuys
      PROVE  PaidForTokens
  BY <1>1, <1>2, ReceivedWealth
<1>3. ASSUME NEW allow \in BOOLEAN, NEW limit \in OrderLimit, CreateBond(allow, limit)
      PROVE  PaidForTokens
  BY <1>3 DEF CreateBond, PaidForTokens
<1>4. ASSUME NEW x \in Account, NEW limit \in OrderLimit, EditBond(x, limit)
      PROVE  PaidForTokens
  <2>1. UNCHANGED <<batchVars, bankVars, phase, next>>
    BY <1>4 DEF EditBond
  <2> QED
    BY <1>2, <2>1, SameBatch DEF batchVars, bankVars
<1>5. ASSUME NEW x \in Account, NEW n \in OrderAmount, NEW max \in OrderMaxPrice,
             Buy(x, n, max)
      PROVE  PaidForTokens
  <2> SUFFICES ASSUME NEW a \in Account PROVE ~(Wealth(a)' < Wealth(a))
    BY DEF PaidForTokens
  <2>1. Wealth(a)' = Wealth(a)
    BY <1>5, BuyWealth
  <2>2. Wealth(a) \in Nat
    BY WealthType
  <2> QED
    BY <2>1, <2>2
<1>6. ASSUME NEW x \in Account, NEW n \in OrderAmount, Sell(x, n)
      PROVE  PaidForTokens
  <2>1. UNCHANGED <<buys, funds, phase, next>>
    BY <1>6 DEF Sell
  <2>2. PendingBuys' = PendingBuys
    BY <2>1 DEF PendingBuys, LiveBuys
  <2> QED
    BY <1>2, <2>1, <2>2
<1>7. ASSUME NEW x \in Account, MakeOutcomePayment(x)
      PROVE  PaidForTokens
  BY <1>7 DEF MakeOutcomePayment, PaidForTokens
<1>8. ASSUME NEW x \in Account, WithdrawShare(x)
      PROVE  PaidForTokens
  <2> DEFINE owed == ReserveOwed(tokens[x])
  <2>1. funds' = Credit(funds, x, owed) /\ UNCHANGED <<batchVars, phase, next>>
    BY <1>8 DEF WithdrawShare
  <2>2. owed \in Nat
    BY <1>8, OwedType
  <2> HIDE DEF owed
  <2>3. \A a \in Account : funds'[a] \in Nat /\ funds'[a] >= funds[a]
    BY <1>1, <2>1, <2>2 DEF Credit
  <2> QED
    BY <2>1, <2>3, SameBatch, ReceivedWealth DEF batchVars
<1>9. CASE EndBlock
  BY <1>2, <1>9, EndBlockPending DEF EndBlock, bankVars
<1>10. CASE SkipCancelledBuy
  BY <1>2, <1>10, SkipCancelledBuyPending DEF SkipCancelledBuy, batchVars, bankVars
<1>11. CASE FinishBuys
  BY <1>2, <1>11, FinishBuysPending DEF FinishBuys, batchVars, bankVars
<1>12. CASE PerformBuy
  BY <1>12, PerformBuyWealth DEF PaidForTokens
<1>13. CASE PerformSell
  <2> DEFINE order   == sells[next]
             returns == ReserveReturn(order, sellPrice)
             fees    == SellFees(order, sellPrice)
  <2>1. /\ next \in DOMAIN sells /\ phase = "Sells"
        /\ funds' = Credit(Credit(funds, order.account, returns - fees), FeeAddress, fees)
        /\ UNCHANGED <<batchVars, phase>>
    BY <1>13 DEF PerformSell
  <2>2. order.account \in Account /\ order.amount \in Nat /\ sellPrice \in Nat
    BY <2>1, PendingOrders DEF SellOrder, BooksInv, TypeOK
  <2>3. returns \in Nat /\ fees \in Nat /\ fees <= returns
    BY <2>2, OrderPrices
  <2> HIDE DEF order, returns, fees
  <2>4. returns - fees \in Nat
    BY <2>3
  <2>5. \A a \in Account : funds'[a] \in Nat /\ funds'[a] >= funds[a]
    BY <1>1, <2>1, <2>2, <2>3, <2>4 DEF Credit
  <2>6. PendingBuys' = PendingBuys
    BY <2>1 DEF PendingBuys, LiveBuys, batchVars
  <2> QED
    BY <2>1, <2>5, <2>6, ReceivedWealth DEF batchVars
<1>14. CASE FinishBatch
  <2> SUFFICES ASSUME NEW a \in Account PROVE ~(Wealth(a)' < Wealth(a))
    BY DEF PaidForTokens
  <2>1. PendingBuys = {} /\ PendingBuys' = {} /\ funds' = funds
    BY <1>14, EmptyBatchBooks DEF FinishBatch, PendingBuys, bankVars
  <2>2. Wealth(a) = funds[a] + SumOf(MaxPrices(buys), {})
        /\ Wealth(a)' = funds[a] + SumOf(MaxPrices(buys'), {})
    BY <2>1 DEF Wealth
  <2>3. SumOf(MaxPrices(buys), {}) = 0 /\ SumOf(MaxPrices(buys'), {}) = 0
    BY SumEmpty
  <2> QED
    BY <1>1, <2>2, <2>3
<1>15. CASE Panic \/ UNCHANGED vars
  <2>1. UNCHANGED <<batchVars, bankVars, phase, next>>
    BY <1>15 DEF Panic, vars
  <2> QED
    BY <1>2, <2>1, SameBatch DEF batchVars, bankVars
<1>16. CASE Transaction
  BY <1>3, <1>4, <1>5, <1>6, <1>7, <1>8, <1>16 DEF Transaction
<1>17. CASE EndBlocker
  BY <1>9, <1>10, <1>11, <1>12, <1>13, <1>14, <1>15, <1>17 DEF EndBlocker
<1> QED
  BY <1>15, <1>16, <1>17 DEF Next

LEMMA NextOrders ==
  ASSUME BooksInv, OrdersPositive, [Next]_vars
  PROVE  OrdersPositive'
<1>1. ASSUME buys' \in {buys, <<>>} PROVE OrdersPositive'
  BY <1>1 DEF OrdersPositive
<1>2. ASSUME NEW x \in Account, NEW n \in OrderAmount, NEW max \in OrderMaxPrice,
             Buy(x, n, max)
      PROVE  OrdersPositive'
  <2> DEFINE order  == [account |-> x, amount |-> n, maxPrices |-> max, cancelled |-> FALSE]
             orders == Append(buys, order)
  <2>1. PICK which : buys' = Cancel(orders, which)
    BY <1>2 DEF Buy
  <2>2. buys \in Seq(BuyOrder) /\ n \in Nat \ {0} /\ max \in Nat
    BY BondAssumption DEF BooksInv, TypeOK
  <2>3. order \in BuyOrder /\ order.amount = n
    BY <2>2 DEF BuyOrder
  <2> HIDE DEF order
  <2>4. \A i \in DOMAIN orders : orders[i] \in BuyOrder /\ orders[i].amount > 0
    BY <2>2, <2>3 DEF OrdersPositive
  <2> HIDE DEF orders
  <2>5. \A i \in DOMAIN buys' : i \in DOMAIN orders /\ buys'[i].amount = orders[i].amount
    BY <2>1, <2>4 DEF Cancel, BuyOrder
  <2> QED
    BY <2>4, <2>5 DEF OrdersPositive
<1>3. CASE Transaction
  BY <1>1, <1>2, <1>3 DEF Transaction, CreateBond, EditBond, Sell, MakeOutcomePayment,
     WithdrawShare, EmptyBatch, batchVars
<1>4. CASE EndBlocker
  BY <1>1, <1>4 DEF EndBlocker, EndBlock, PerformBuy, SkipCancelledBuy, FinishBuys,
     PerformSell, FinishBatch, Panic, EmptyBatch, batchVars
<1>5. CASE UNCHANGED vars
  BY <1>1, <1>5 DEF vars, batchVars
<1> QED
  BY <1>3, <1>4, <1>5 DEF Next

\* Nobody pays without getting tokens, the outcome payment apart: whoever's
\* order cancels a buy, however it is priced, its max prices come back in full.
THEOREM PaymentsBringTokens == Spec => NoPaymentWithoutTokens
<1>1. Init => OrdersPositive
  BY DEF Init, OrdersPositive
<1>2. BooksInv /\ OrdersPositive /\ [Next]_vars => OrdersPositive'
  BY NextOrders
<1>3. BooksInv /\ OrdersPositive /\ [Next]_vars => [PaidForTokens]_vars
  BY NextWealth
<1> QED
  BY <1>1, <1>2, <1>3, BooksAlwaysRight, PTL DEF Spec, NoPaymentWithoutTokens

-----------------------------------------------------------------------------
(***************************************************************************)
(* The prices of a batch                                                   *)
(***************************************************************************)
\* What a batch at its prices leaves in the reserve, but for the rounding of the
\* price of each token: never less than nothing, and what the curve calls for.
LEMMA BatchPricesCover ==
  ASSUME TypeOK, ~InHatch, NEW buy \in Nat, NEW sell \in Nat,
         currentSupply + buy <= MaxSupply, sell <= currentSupply,
         PricesDefined(buy, sell)
  PROVE  LET p == BatchBuyPrice(buy, sell)
             q == BatchSellPrice(buy, sell)
             flow == ToDec(currentReserve) + ((p * buy) - (q * sell))
             larger == IF buy > sell THEN buy ELSE sell
         IN  /\ flow + larger >= 0
             /\ buy # sell =>
                  ReserveAtSupply[(currentSupply + buy) - sell] <= flow + larger
<1> DEFINE p == BatchBuyPrice(buy, sell)
           q == BatchSellPrice(buy, sell)
           c == CurrentPricesPT
           r == ToDec(currentReserve)
           R == ReserveAtSupply[(currentSupply + buy) - sell]
<1>1. /\ currentSupply \in 0 .. MaxSupply /\ currentReserve \in Nat /\ MaxSupply \in Nat
      /\ ReserveAtSupply \in [0 .. MaxSupply -> Nat]
      /\ PricesAtSupply \in [0 .. MaxSupply -> Nat]
  <2>1. /\ currentSupply \in Nat /\ currentReserve \in Nat /\ MaxSupply \in Nat
        /\ ReserveAtSupply \in [0 .. MaxSupply -> Nat]
        /\ PricesAtSupply \in [0 .. MaxSupply -> Nat]
    BY BondAssumption DEF ValidParameters, ValidCurve, TypeOK
  <2>2. currentSupply <= MaxSupply
    BY <2>1
  <2> QED
    BY <2>1, <2>2
<1>2. p \in Nat /\ q \in Nat
  BY BatchPrices
<1>3. c \in Nat /\ r \in Nat
  <2>1. PricesAtSupply[currentSupply] \in Nat
    BY <1>1
  <2> QED
    BY <1>1, <2>1, ToDecType DEF CurrentPricesPT
<1>4. (currentSupply + buy) - sell \in 0 .. MaxSupply
  BY <1>1
<1>5. R \in Nat
  BY <1>1, <1>4
<1>6. \A n \in Nat : Mul(c, ToDec(n)) = n * c
  <2> HIDE DEF c
  <2> TAKE n \in Nat
  <2>1. Mul(c, ToDec(n)) = Mul(ToDec(n), c)
    BY <1>3, ToDecType, MulCommutes
  <2> QED
    BY <1>3, <2>1, MulByInteger
<1> DEFINE yp == buy * p
           yq == sell * q
<1>7. yp \in Nat /\ yq \in Nat /\ p * buy = yp /\ q * sell = yq
  BY <1>2
<1>8. CASE buy > sell
  <2> DEFINE m == PricesToMint(buy - sell)
             z == sell * c
  <2>1. m \in Nat /\ R <= m + r
    <3>1. R = ReserveAtSupply[currentSupply + (buy - sell)]
      BY <1>1
    <3>2. m = IF R - r < 0 THEN Unit ELSE R - r
      BY <3>1 DEF PricesToMint
    <3> HIDE DEF m, R, r
    <3> QED
      BY <1>3, <1>5, <3>2, UnitAssumption
  <2>2. z \in Nat
    BY <1>3
  <2>3. p = Quo(z + m, ToDec(buy)) /\ q = c
    BY <1>3, <1>6, <1>8 DEF BatchBuyPrice, BatchSellPrice
  <2> HIDE DEF m, R, r
  <2>4. z + m <= yp + buy
    <3> HIDE DEF z
    <3>1. z + m \in Nat /\ buy \in Nat \ {0}
      BY <1>8, <2>1, <2>2
    <3>2. z + m <= buy * Quo(z + m, ToDec(buy)) + buy
      BY <3>1, QuoNear
    <3> QED
      BY <2>3, <3>2
  <2>5. yq = z
    BY <2>3
  <2> HIDE DEF z, yp, yq, p, q
  <2>6. R <= (r + (p * buy - q * sell)) + buy /\ (r + (p * buy - q * sell)) + buy >= 0
    BY <1>3, <1>5, <1>7, <2>1, <2>2, <2>4, <2>5
  <2> QED
    BY <1>8, <2>6 DEF R, r, p, q
<1>9. CASE sell > buy
  <2> DEFINE m == ReturnsForBurn(sell - buy)
             z == buy * c
  <2>1. m \in Nat /\ R + m = r
    <3>1. currentSupply - (sell - buy) = (currentSupply + buy) - sell
      BY <1>1
    <3>2. R <= r /\ m = r - R
      BY <1>9, <3>1 DEF PricesDefined, CanBurn, ReturnsForBurn
    <3> HIDE DEF m, R, r
    <3> QED
      BY <1>3, <1>5, <3>2
  <2>2. z \in Nat
    BY <1>3
  <2>3. q = Quo(z + m, ToDec(sell)) /\ p = c
    BY <1>3, <1>6, <1>9 DEF BatchBuyPrice, BatchSellPrice
  <2> HIDE DEF m, R, r
  <2>4. yq <= (z + m) + sell
    <3> HIDE DEF z
    <3>1. z + m \in Nat /\ sell \in Nat \ {0}
      BY <1>9, <2>1, <2>2
    <3>2. sell * Quo(z + m, ToDec(sell)) <= (z + m) + sell
      BY <3>1, QuoNear
    <3> QED
      BY <2>3, <3>2
  <2>5. yp = z
    BY <2>3
  <2> HIDE DEF z, yp, yq, p, q
  <2>6. R <= (r + (p * buy - q * sell)) + sell /\ (r + (p * buy - q * sell)) + sell >= 0
    BY <1>3, <1>5, <1>7, <2>1, <2>2, <2>4, <2>5
  <2> QED
    BY <1>9, <2>6 DEF R, r, p, q
<1>10. CASE buy = sell
  <2>1. p = q
    BY <1>10 DEF BatchBuyPrice, BatchSellPrice
  <2>2. yp = yq
    BY <1>10, <2>1
  <2> HIDE DEF yp, yq, p, q, r
  <2>3. (r + (p * buy - q * sell)) + sell >= 0
    BY <1>3, <1>7, <2>2
  <2> QED
    BY <1>10, <2>3 DEF r, p, q
<1> QED
  BY <1>8, <1>9, <1>10

-----------------------------------------------------------------------------
(***************************************************************************)
(* What a buy adds to the reserve in the hatch phase                       *)
(***************************************************************************)
\* The share of the raise that is the reserve, before it is rounded up, grows by at
\* most the price of the tokens: rounding it twice takes no more than it gave.
HatchShare(supply) == Mul(MulInt(P0, supply), Unit - Theta)

LEMMA HatchShareGrows ==
  ASSUME NEW s \in Nat, NEW n \in Nat
  PROVE  /\ HatchShare(s) \in Nat /\ HatchShare(s + n) \in Nat
         /\ HatchShare(s) <= HatchShare(s + n)
         /\ HatchShare(s + n) <= HatchShare(s) + MulInt(P0, n)
<1> DEFINE rest == Unit - Theta
           x == P0 * s
           y == P0 * n
           a == x * rest
           b == y * rest
<1>1. /\ Unit \in Nat \ {0} /\ Theta \in Nat /\ rest \in Nat /\ P0 \in Nat \ {0}
      /\ Unit = rest + Theta
  BY BondAssumption, UnitAssumption DEF ValidParameters
<1>2. x \in Nat /\ y \in Nat /\ P0 * (s + n) = x + y
  BY <1>1
<1>3. MulInt(P0, s) = x /\ MulInt(P0, n) = y /\ MulInt(P0, s + n) = x + y
  BY <1>2 DEF MulInt
<1> HIDE DEF rest, x, y
<1>4. a \in Nat /\ b \in Nat /\ (x + y) * rest = a + b
  BY <1>1, <1>2
<1>5. HatchShare(s) = RoundHalfEven(a) /\ HatchShare(s + n) = RoundHalfEven(a + b)
  <2>1. HatchShare(s) = Mul(x, rest) /\ HatchShare(s + n) = Mul(x + y, rest)
    BY <1>3 DEF HatchShare, rest
  <2>2. ChopPrecisionAndRound(a) = RoundHalfEven(a)
        /\ ChopPrecisionAndRound(a + b) = RoundHalfEven(a + b)
    BY <1>4 DEF ChopPrecisionAndRound
  <2> QED
    BY <1>4, <2>1, <2>2 DEF Mul
<1> HIDE DEF a, b
<1>6. /\ HatchShare(s) \in Nat /\ HatchShare(s + n) \in Nat
      /\ HatchShare(s) <= HatchShare(s + n)
  <2>1. a + b \in Nat /\ a <= a + b
    BY <1>4
  <2> QED
    BY <1>4, <1>5, <2>1, RoundType, RoundMonotone
<1>7. CASE n = 0
  <2>1. s + n = s /\ y \in Nat
    BY <1>2, <1>7
  <2> QED
    BY <1>3, <1>6, <2>1
<1>8. CASE Theta = 0
  <2>1. rest = Unit
    BY <1>1, <1>8
  <2>2. \A i \in Nat : Mul(i, Unit) = i
    <3> TAKE i \in Nat
    <3>1. Unit = ToDec(1) /\ Mul(i, Unit) = Mul(Unit, i)
      BY <1>1, MulCommutes DEF ToDec
    <3>2. Mul(ToDec(1), i) = 1 * i
      BY MulByInteger
    <3> QED
      BY <3>1, <3>2
  <2>3. x + y \in Nat
    BY <1>2
  <2>4. HatchShare(s) = x /\ HatchShare(s + n) = x + y
    BY <1>2, <1>3, <2>1, <2>2, <2>3 DEF HatchShare, rest
  <2> QED
    BY <1>2, <1>3, <1>6, <2>4
<1>9. CASE n # 0 /\ Theta # 0
  <2> DEFINE h == RoundHalfEven(a)
             k == RoundHalfEven(a + b)
  <2>1. h \in Nat /\ k \in Nat
    BY <1>5, <1>6
  <2>2. 2 * a <= 2 * (Unit * h) + Unit /\ 2 * (Unit * k) <= 2 * (a + b) + Unit
    <3>1. a + b \in Nat
      BY <1>4
    <3> QED
      BY <1>4, <3>1, RoundNear
  <2>3. b < Unit * y
    <3>1. y * Theta \in Nat \ {0}
      <4>1. y \in Nat \ {0} /\ Theta \in Nat \ {0}
        BY <1>1, <1>9 DEF y
      <4> QED
        BY <4>1
    <3>2. Unit * y = b + y * Theta
      BY <1>1, <1>2 DEF b
    <3> QED
      BY <1>4, <3>1, <3>2
  <2> HIDE DEF h, k
  <2>4. /\ Unit * (h + y) = Unit * h + Unit * y /\ Unit * h \in Nat
        /\ Unit * y \in Nat /\ Unit * k \in Nat
        /\ Unit * ((h + y) + 1) = (Unit * h + Unit * y) + Unit
    BY <1>1, <1>2, <2>1
  <2>5. Unit * k < Unit * ((h + y) + 1)
    BY <1>1, <1>4, <2>2, <2>3, <2>4
  <2>6. k < (h + y) + 1
    <3>1. \A i, j \in Nat : Unit * i < Unit * j => i < j
      BY <1>1
    <3>2. (h + y) + 1 \in Nat
      BY <1>2, <2>1
    <3> QED
      BY <2>1, <2>5, <3>1, <3>2
  <2>7. k <= h + y
    BY <1>2, <2>1, <2>6
  <2> QED
    BY <1>3, <1>5, <1>6, <2>7 DEF h, k
<1> QED
  BY <1>7, <1>8, <1>9

\* A buy in the hatch phase adds to the reserve, and no more than it is charged.
LEMMA HatchReserveGrows ==
  ASSUME NEW s \in Nat, NEW n \in Nat
  PROVE  /\ HatchReserve(s) \in Nat /\ HatchReserve(s + n) \in Nat
         /\ HatchReserve(s) <= HatchReserve(s + n)
         /\ HatchReserve(s + n) <= HatchReserve(s) + CeilInt(MulInt(P0, n))
<1> DEFINE h == HatchShare(s)
           k == HatchShare(s + n)
           y == MulInt(P0, n)
<1>1. /\ h \in Nat /\ k \in Nat /\ h <= k /\ k <= h + y
  BY HatchShareGrows
<1>2. y \in Nat
  BY BondAssumption DEF ValidParameters, MulInt
<1>3. HatchReserve(s) = CeilInt(h) /\ HatchReserve(s + n) = CeilInt(k)
  BY DEF HatchReserve, HatchShare
<1> HIDE DEF h, k, y
<1> DEFINE ch == CeilInt(h)
           cy == CeilInt(y)
<1>4. ch \in Nat /\ cy \in Nat /\ CeilInt(k) \in Nat /\ ch <= CeilInt(k)
  BY <1>1, <1>2, CeilType, CeilMonotone
<1>5. h <= Unit * ch /\ y <= Unit * cy
  BY <1>1, <1>2, CeilAbove
<1> HIDE DEF ch, cy
<1>6. k <= Unit * (ch + cy)
  <2>1. Unit * (ch + cy) = Unit * ch + Unit * cy /\ Unit * ch \in Nat /\ Unit * cy \in Nat
    BY <1>4, UnitAssumption
  <2> QED
    BY <1>1, <1>2, <1>5, <2>1
<1>7. CeilInt(k) <= ch + cy
  BY <1>1, <1>4, <1>6, CeilLeast
<1> QED
  BY <1>3, <1>4, <1>7 DEF ch, cy, y

-----------------------------------------------------------------------------
(***************************************************************************)
(* What the rest of a batch will leave in the reserve                      *)
(***************************************************************************)
\* The orders EndBlocker has still to perform, the larger side of the batch, and
\* the supply and the reserve that these orders will lead to at their prices.
BuyAmount == SumOf(Amounts(buys), PendingBuys)
SellAmount == SumOf(Amounts(sells), PendingSells)
Larger == IF totalBuy > totalSell THEN totalBuy ELSE totalSell
SupplyAfter == (currentSupply + BuyAmount) - SellAmount
ReserveAfter ==
  ToDec(currentReserve) + ((buyPrice * BuyAmount) - (sellPrice * SellAmount))

\* A batch without a sell and without a cancelled order can be charged its price.
LastPrices ==
  sells = <<>> /\ LiveBuys = DOMAIN buys =>
    \A i \in DOMAIN buys : FulfillableAtPrice(buys[i], buyPrice)

\* The prices of the batch are those of its totals and of the record of the bond,
\* which only the outcome payment changes before they are used.
FreshPrices ==
  phase = "DeliverTx" /\ bondState = "OPEN" /\ (totalBuy # 0 \/ totalSell # 0) =>
    /\ PricesDefined(totalBuy, totalSell)
    /\ buyPrice = BatchBuyPrice(totalBuy, totalSell)
    /\ sellPrice = BatchSellPrice(totalBuy, totalSell)

\* Only an augmented bond hatches, at its fixed price.
HatchPrices == InHatch => Augmented /\ (buys # <<>> => buyPrice = P0)

\* While EndBlocker performs a batch of a bond that trades, the reserve and what
\* the buys still bring covers what the sells still take.
ReturnsCovered ==
  phase # "DeliverTx" /\ bondState = "OPEN" => ReserveAfter + Larger >= 0

\* Between batches the reserve is what the curve calls for, but for the rounding of
\* the prices of one batch; during a batch it is on its way to that.
Untouched == currentSupply = 0 /\ currentReserve = 0
CurveCovered ==
  bondState = "OPEN" /\ ~Augmented =>
    \/ Untouched /\ (phase = "DeliverTx" \/ (BuyAmount = 0 /\ SellAmount = 0))
    \/ /\ phase = "DeliverTx"
       /\ ReserveAtSupply[currentSupply] <= ToDec(currentReserve) + MaxSupply
    \/ /\ phase # "DeliverTx"
       /\ ReserveAtSupply[SupplyAfter] <= ReserveAfter + MaxSupply

\* The inductive invariant.  A panic can only be told from the prices a batch was
\* left with, and the reserve after a batch only from those it was begun with.
BatchInv ==
  LastPrices /\ FreshPrices /\ HatchPrices /\ ReturnsCovered /\ CurveCovered

LEMMA AfterTypes ==
  ASSUME BooksInv
  PROVE  /\ BuyAmount \in Nat /\ SellAmount \in Nat /\ Larger \in Nat
         /\ SellAmount <= currentSupply
         /\ SupplyAfter \in 0 .. MaxSupply /\ SupplyAfter \in Nat
         /\ currentSupply \in 0 .. MaxSupply
         /\ ToDec(currentReserve) \in Nat /\ ReserveAfter \in Int
         /\ buyPrice \in Nat /\ sellPrice \in Nat
         /\ totalBuy \in Nat /\ totalSell \in Nat
<1>1. /\ currentSupply \in Nat /\ currentReserve \in Nat /\ buyPrice \in Nat
      /\ sellPrice \in Nat /\ totalBuy \in Nat /\ totalSell \in Nat /\ TypeOK
      /\ tokens \in [Account -> Nat]
  BY DEF BooksInv, TypeOK
<1>2. BuyAmount \in Nat /\ SellAmount \in Nat
  BY <1>1, PendingOrders, BuySums, SellSums DEF BuyAmount, SellAmount
<1>3. SumOf(tokens, Account) \in Nat
  BY <1>1, SumType, BondAssumption
<1>4. SumOf(tokens, Account) + SellAmount = currentSupply
  BY DEF BooksInv, SupplyInvariant, SellAmount
<1>5. currentSupply + BuyAmount <= MaxSupply /\ MaxSupply \in Nat
  BY BondAssumption DEF BooksInv, MaxSupplyInvariant, BuyAmount, ValidParameters
<1>6. SellAmount <= currentSupply
  BY <1>2, <1>3, <1>4
<1>7. SupplyAfter \in 0 .. MaxSupply /\ currentSupply \in 0 .. MaxSupply
  BY <1>1, <1>2, <1>5, <1>6 DEF SupplyAfter
<1>8. ToDec(currentReserve) \in Nat
  BY <1>1, ToDecType
<1>9. buyPrice * BuyAmount \in Nat /\ sellPrice * SellAmount \in Nat
  BY <1>1, <1>2
<1>10. ReserveAfter \in Int
  BY <1>8, <1>9 DEF ReserveAfter
<1> QED
  BY <1>1, <1>2, <1>6, <1>7, <1>8, <1>10 DEF Larger

LEMMA AfterTypesNext ==
  (BooksInv => /\ BuyAmount \in Nat /\ SellAmount \in Nat /\ Larger \in Nat
               /\ ToDec(currentReserve) \in Nat /\ ReserveAfter \in Int
               /\ currentSupply \in 0 .. MaxSupply)'
<1>1. BooksInv => /\ BuyAmount \in Nat /\ SellAmount \in Nat /\ Larger \in Nat
                  /\ ToDec(currentReserve) \in Nat /\ ReserveAfter \in Int
                  /\ currentSupply \in 0 .. MaxSupply
  BY AfterTypes
<1> QED
  BY <1>1, PTL

\* The prices of a batch that keeps its orders and its bond stay what they are.
LEMMA SameOrders ==
  ASSUME BatchInv,
         UNCHANGED <<bondState, totalBuy, totalSell, buyPrice, sellPrice, buys, sells>>,
         phase' = "DeliverTx" =>
           phase = "DeliverTx" /\ UNCHANGED <<currentSupply, currentReserve>>
  PROVE  LastPrices' /\ FreshPrices' /\ HatchPrices'
<1>1. LastPrices'
  BY DEF BatchInv, LastPrices, LiveBuys
<1>2. FreshPrices'
  BY DEF BatchInv, FreshPrices, PricesDefined, CanBurn, BatchBuyPrice, BatchSellPrice,
         CurrentPricesPT, PricesToMint, ReturnsForBurn, InHatch
<1>3. HatchPrices'
  BY DEF BatchInv, HatchPrices, InHatch
<1> QED
  BY <1>1, <1>2, <1>3

\* The prices an order leaves are those of the batch with that order.
LEMMA PricedAgain ==
  ASSUME NEW buy, NEW sell, PricesDefined(buy, sell), UNCHANGED bondVars,
         totalBuy' = buy, totalSell' = sell,
         buyPrice' = BatchBuyPrice(buy, sell), sellPrice' = BatchSellPrice(buy, sell)
  PROVE  FreshPrices'
BY DEF FreshPrices, PricesDefined, CanBurn, BatchBuyPrice, BatchSellPrice,
       CurrentPricesPT, PricesToMint, ReturnsForBurn, InHatch, bondVars

\* While transactions are delivered, orders do not move the record of the bond.
LEMMA CurveBetweenBatches ==
  ASSUME BatchInv, phase = "DeliverTx", phase' = "DeliverTx",
         UNCHANGED <<bondState, currentSupply, currentReserve>>
  PROVE  ReturnsCovered' /\ CurveCovered'
BY DEF BatchInv, ReturnsCovered, CurveCovered, Untouched

\* A step of EndBlocker that leaves at least the reserve the batch will lead to.
LEMMA CurveInBatch ==
  ASSUME BooksInv, BooksInv', BatchInv, phase # "DeliverTx", phase' # "DeliverTx",
         UNCHANGED <<bondState, totalBuy, totalSell>>,
         bondState = "OPEN" =>
           /\ SupplyAfter' = SupplyAfter /\ ReserveAfter <= ReserveAfter'
           /\ Untouched /\ BuyAmount = 0 /\ SellAmount = 0 =>
                Untouched' /\ BuyAmount' = 0 /\ SellAmount' = 0
  PROVE  ReturnsCovered' /\ CurveCovered'
<1>1. Larger' = Larger /\ Larger \in Nat /\ ReserveAfter \in Int /\ SupplyAfter \in 0 .. MaxSupply
  BY AfterTypes DEF Larger
<1>2. ReserveAfter' \in Int
  BY AfterTypesNext
<1>3. MaxSupply \in Nat /\ ReserveAtSupply \in [0 .. MaxSupply -> Nat]
  BY BondAssumption DEF ValidParameters, ValidCurve
<1>4. ReserveAtSupply[SupplyAfter] \in Nat
  BY <1>1, <1>3
<1>5. ReturnsCovered'
  <2>1. CASE bondState = "OPEN"
    <3>1. ReserveAfter + Larger >= 0
      BY <2>1 DEF BatchInv, ReturnsCovered
    <3>2. ReserveAfter <= ReserveAfter'
      BY <2>1
    <3>3. \A x, y \in Int, z \in Nat : x + z >= 0 /\ x <= y => y + z >= 0
      OBVIOUS
    <3>4. ReserveAfter' + Larger >= 0
      BY <1>1, <1>2, <3>1, <3>2, <3>3
    <3>5. ReserveAfter' + Larger' >= 0
      BY <1>1, <3>4
    <3> QED
      BY <3>5 DEF ReturnsCovered
  <2>2. CASE bondState # "OPEN"
    BY <2>2 DEF ReturnsCovered
  <2> QED
    BY <2>1, <2>2
<1>6. CurveCovered'
  <2>1. CASE bondState = "OPEN" /\ ~Augmented
    <3>1. \/ Untouched /\ BuyAmount = 0 /\ SellAmount = 0
          \/ ReserveAtSupply[SupplyAfter] <= ReserveAfter + MaxSupply
      BY <2>1 DEF BatchInv, CurveCovered
    <3>2. CASE Untouched /\ BuyAmount = 0 /\ SellAmount = 0
      BY <2>1, <3>2 DEF CurveCovered
    <3>3. CASE ReserveAtSupply[SupplyAfter] <= ReserveAfter + MaxSupply
      <4>1. ReserveAtSupply[SupplyAfter'] <= ReserveAfter' + MaxSupply
        BY <1>1, <1>2, <1>3, <1>4, <2>1, <3>3
      <4> QED
        BY <4>1 DEF CurveCovered
    <3> QED
      BY <3>1, <3>2, <3>3
  <2>2. CASE ~(bondState = "OPEN" /\ ~Augmented)
    BY <2>2 DEF CurveCovered
  <2> QED
    BY <2>1, <2>2
<1> QED
  BY <1>5, <1>6

\* The price of a buy in the hatch phase is the fixed one, after rounding too.
LEMMA HatchBuyPrice ==
  ASSUME InHatch, NEW n \in Nat
  PROVE  BatchBuyPrice(n, 0) = P0
<1>1. P0 \in Nat /\ CurrentPricesPT = P0
  BY BondAssumption DEF ValidParameters, CurrentPricesPT
<1>2. CASE n > 0
  <2>1. Mul(P0, ToDec(0)) = Mul(ToDec(0), P0) /\ Mul(ToDec(0), P0) = 0 * P0
    BY <1>1, ToDecType, MulCommutes, MulByInteger
  <2>2. MulInt(P0, n - 0) = MulInt(P0, n) /\ MulInt(P0, n) \in Nat
    BY <1>1 DEF MulInt
  <2>3. Mul(P0, ToDec(0)) + PricesToMint(n - 0) = MulInt(P0, n)
    BY <1>1, <2>1, <2>2 DEF PricesToMint
  <2>4. Quo(MulInt(P0, n), ToDec(n)) = P0
    BY <1>1, <1>2, QuoExact
  <2> QED
    BY <1>1, <1>2, <2>3, <2>4 DEF BatchBuyPrice
<1>3. CASE n = 0
  BY <1>1, <1>3 DEF BatchBuyPrice
<1> QED
  BY <1>2, <1>3

LEMMA BuyBatch ==
  ASSUME BooksInv, BooksInv', HatchInvariant, BatchInv, NEW buyer \in Account,
         NEW amount \in OrderAmount, NEW maxPrices \in OrderMaxPrice,
         Buy(buyer, amount, maxPrices)
  PROVE  BatchInv'
<1> DEFINE order     == [account |-> buyer, amount |-> amount,
                         maxPrices |-> maxPrices, cancelled |-> FALSE]
           buy       == totalBuy + amount
           price     == BatchBuyPrice(buy, totalSell)
           orders    == Append(buys, order)
           cancelled == Unfulfillable(orders, price)
           remaining == buy - SumOf(Amounts(orders), cancelled)
<1>1. /\ phase = "DeliverTx" /\ PricesDefined(buy, totalSell)
      /\ cancelled # {} => PricesDefined(remaining, totalSell)
      /\ buys' = Cancel(orders, cancelled) /\ totalBuy' = remaining
      /\ buyPrice' = BatchBuyPrice(remaining, totalSell)
      /\ sellPrice' = BatchSellPrice(remaining, totalSell)
      /\ UNCHANGED <<bondVars, totalSell, sells, phase>>
  BY DEF Buy, CanAddBuy, DeliverTx
<1>2. /\ totalBuy \in Nat /\ amount \in Nat /\ remaining = totalBuy' /\ remaining \in Nat
  <2>1. totalBuy' \in Nat
    BY DEF BooksInv, TypeOK
  <2> QED
    BY <1>1, <2>1, AfterTypes, BondAssumption
<1>3. cancelled = {} => remaining = buy
  <2>1. SumOf(Amounts(orders), {}) = 0
    BY SumEmpty
  <2>2. buy \in Nat
    BY <1>2
  <2> HIDE DEF order, orders, price, cancelled, buy
  <2> QED
    BY <2>1, <2>2
<1>4. PricesDefined(remaining, totalSell)
  BY <1>1, <1>3
<1>5. UNCHANGED <<bondState, currentSupply, currentReserve>>
  BY <1>1 DEF bondVars
<1>6. ReturnsCovered' /\ CurveCovered'
  BY <1>1, <1>5, CurveBetweenBatches
<1> HIDE DEF remaining
<1>7. FreshPrices'
  BY <1>1, <1>4, PricedAgain
<1>8. HatchPrices'
  <2>1. ASSUME InHatch' PROVE Augmented /\ buyPrice' = P0
    <3>1. InHatch
      BY <1>5, <2>1 DEF InHatch
    <3>2. sells = <<>> /\ Augmented
      BY <3>1 DEF HatchInvariant, BatchInv, HatchPrices
    <3>3. DOMAIN sells = {}
      BY <3>2
    <3>4. totalSell = 0
      BY <3>3, SumEmpty DEF BooksInv, TotalsInvariant
    <3>5. BatchBuyPrice(remaining, 0) = P0
      BY <1>2, <3>1, HatchBuyPrice
    <3> QED
      BY <1>1, <3>2, <3>4, <3>5
  <2> QED
    BY <2>1 DEF HatchPrices
<1>9. LastPrices'
  <2>1. ASSUME LiveBuys' = DOMAIN buys', NEW i \in DOMAIN buys'
        PROVE  FulfillableAtPrice(buys[i]', buyPrice')
    <3>1. DOMAIN buys' = DOMAIN orders
      BY <1>1 DEF Cancel
    <3>2. \A j \in DOMAIN orders : ~buys'[j].cancelled
      BY <2>1, <3>1 DEF LiveBuys
    <3>3. \A j \in DOMAIN orders : orders[j] \in BuyOrder
      <4>1. order \in BuyOrder /\ buys \in Seq(BuyOrder)
        BY BondAssumption DEF BooksInv, TypeOK, BuyOrder
      <4> HIDE DEF order
      <4>2. orders \in Seq(BuyOrder)
        BY <4>1
      <4> QED
        BY <4>2
    <3> HIDE DEF orders
    <3>4. cancelled = {}
      <4> SUFFICES ASSUME NEW j \in cancelled PROVE FALSE
        OBVIOUS
      <4>1. j \in DOMAIN orders
        BY DEF Unfulfillable
      <4>2. buys'[j] = [orders[j] EXCEPT !.cancelled = TRUE]
        BY <1>1, <4>1 DEF Cancel
      <4>3. buys'[j].cancelled
        BY <3>3, <4>1, <4>2 DEF BuyOrder
      <4> QED
        BY <3>2, <4>1, <4>3
    <3>5. buys'[i] = orders[i] /\ buyPrice' = price
      BY <1>1, <1>3, <3>1, <3>4 DEF Cancel
    <3>6. ~orders[i].cancelled
      BY <3>1, <3>2, <3>5
    <3>7. FulfillableAtPrice(orders[i], price)
      BY <3>1, <3>4, <3>6 DEF Unfulfillable
    <3> QED
      BY <3>5, <3>7
  <2> QED
    BY <2>1 DEF LastPrices, FulfillableAtPrice, TotalPrice, ReservePrice, TxFee
<1> QED
  BY <1>6, <1>7, <1>8, <1>9 DEF BatchInv

LEMMA SellBatch ==
  ASSUME BooksInv, BatchInv, NEW seller \in Account, NEW amount \in OrderAmount,
         Sell(seller, amount)
  PROVE  BatchInv'
<1>1. /\ phase = "DeliverTx" /\ phase' = phase /\ bondState = "OPEN"
      /\ PricesDefined(totalBuy, totalSell + amount)
      /\ sells' = Append(sells, [account |-> seller, amount |-> amount])
      /\ totalBuy' = totalBuy /\ totalSell' = totalSell + amount
      /\ buyPrice' = BatchBuyPrice(totalBuy, totalSell + amount)
      /\ sellPrice' = BatchSellPrice(totalBuy, totalSell + amount)
      /\ UNCHANGED bondVars
  BY DEF Sell, DeliverTx
<1>2. UNCHANGED <<bondState, currentSupply, currentReserve>>
  BY <1>1 DEF bondVars
<1>3. ReturnsCovered' /\ CurveCovered'
  BY <1>1, <1>2, CurveBetweenBatches
<1>4. FreshPrices'
  BY <1>1, PricedAgain
<1>5. HatchPrices'
  BY <1>1, <1>2 DEF HatchPrices, InHatch
<1>6. sells' # <<>>
  <2>1. sells \in Seq(SellOrder)
    BY DEF BooksInv, TypeOK
  <2> QED
    BY <1>1, <2>1
<1>7. LastPrices'
  BY <1>6 DEF LastPrices
<1> QED
  BY <1>3, <1>4, <1>5, <1>7 DEF BatchInv

LEMMA CreateBondBatch ==
  ASSUME BooksInv, NEW allow \in BOOLEAN, NEW limit \in OrderLimit,
         CreateBond(allow, limit)
  PROVE  BatchInv'
<1>1. /\ bondState' = (IF Augmented THEN "HATCH" ELSE "OPEN")
      /\ currentSupply' = 0 /\ currentReserve' = 0 /\ phase' = "DeliverTx"
      /\ buys' = <<>> /\ sells' = <<>> /\ totalBuy' = 0 /\ totalSell' = 0
  BY DEF CreateBond, BooksInv, BatchRuns, EmptyBatch
<1>2. DOMAIN buys' = {}
  BY <1>1
<1>3. LastPrices' /\ FreshPrices' /\ ReturnsCovered'
  BY <1>1, <1>2 DEF LastPrices, FreshPrices, ReturnsCovered
<1>4. HatchPrices'
  BY <1>1 DEF HatchPrices, InHatch
<1>5. CurveCovered'
  BY <1>1 DEF CurveCovered, Untouched
<1> QED
  BY <1>3, <1>4, <1>5 DEF BatchInv

\* The prices of a bond that is settled are not those of its record any more.
LEMMA SettledBatch ==
  ASSUME BatchInv, bondState' = "SETTLE", UNCHANGED batchVars
  PROVE  BatchInv'
<1>1. LastPrices'
  BY DEF BatchInv, LastPrices, LiveBuys, batchVars
<1>2. FreshPrices' /\ HatchPrices' /\ ReturnsCovered' /\ CurveCovered'
  BY DEF FreshPrices, HatchPrices, InHatch, ReturnsCovered, CurveCovered
<1> QED
  BY <1>1, <1>2 DEF BatchInv

\* The step at which all that follows from the prices of the batch is decided.
LEMMA EndBlockBatch ==
  ASSUME BooksInv, BooksInv', BatchInv, EndBlock
  PROVE  BatchInv'
<1>1. /\ phase = "DeliverTx" /\ phase' \in {"DeliverTx", "Buys"}
      /\ UNCHANGED <<bondState, currentSupply, currentReserve, totalBuy, totalSell,
                     buyPrice, sellPrice, buys, sells>>
  BY DEF EndBlock, DeliverTx, bondVars
<1>2. LastPrices' /\ FreshPrices' /\ HatchPrices'
  BY <1>1, SameOrders
<1>3. CASE phase' = "DeliverTx"
  <2>1. ReturnsCovered' /\ CurveCovered'
    BY <1>1, <1>3, CurveBetweenBatches
  <2> QED
    BY <1>2, <2>1 DEF BatchInv
<1>4. CASE phase' = "Buys"
  <2>1. /\ PendingBuys = Live(buys) /\ PendingSells = DOMAIN sells
        /\ totalBuy = SumOf(Amounts(buys), Live(buys))
        /\ currentSupply + totalBuy <= MaxSupply /\ totalSell <= currentSupply
    BY <1>1, OpenBooks
  <2>2. BuyAmount = totalBuy /\ SellAmount = totalSell
    BY <2>1 DEF BuyAmount, SellAmount, BooksInv, TotalsInvariant
  <2>3. PendingBuys' = PendingBuys /\ PendingSells' = PendingSells
    BY EndBlockPending
  <2>4. BuyAmount' = BuyAmount /\ SellAmount' = SellAmount
    BY <1>1, <2>3 DEF BuyAmount, SellAmount
  <2>5. ReserveAfter' = ReserveAfter /\ SupplyAfter' = SupplyAfter /\ Larger' = Larger
    BY <1>1, <2>4 DEF ReserveAfter, SupplyAfter, Larger
  <2>6. /\ ReserveAfter
             = ToDec(currentReserve) + ((buyPrice * totalBuy) - (sellPrice * totalSell))
        /\ SupplyAfter = (currentSupply + totalBuy) - totalSell
    BY <2>2 DEF ReserveAfter, SupplyAfter
  <2>7. /\ totalBuy \in Nat /\ totalSell \in Nat /\ ToDec(currentReserve) \in Nat
        /\ buyPrice \in Nat /\ sellPrice \in Nat /\ currentSupply \in 0 .. MaxSupply
        /\ Larger \in Nat /\ MaxSupply \in Nat /\ ReserveAfter \in Int
        /\ SupplyAfter \in 0 .. MaxSupply
    BY AfterTypes, BondAssumption DEF ValidParameters
  <2>8. Larger <= MaxSupply
    BY <2>1, <2>7 DEF Larger
  <2>9. CASE bondState = "OPEN"
    <3>1. CASE totalBuy = 0 /\ totalSell = 0
      <4>1. ReserveAfter = ToDec(currentReserve) /\ SupplyAfter = currentSupply
        BY <2>6, <2>7, <3>1
      <4>2. ReturnsCovered'
        <5>1. ReserveAfter + Larger >= 0
          BY <2>7, <4>1
        <5> QED
          BY <2>5, <5>1 DEF ReturnsCovered
      <4>3. CurveCovered'
        BY <1>1, <1>4, <2>2, <2>4, <2>5, <3>1, <4>1
        DEF BatchInv, CurveCovered, Untouched
      <4> QED
        BY <1>2, <4>2, <4>3 DEF BatchInv
    <3>2. CASE totalBuy # 0 \/ totalSell # 0
      <4>1. /\ PricesDefined(totalBuy, totalSell)
            /\ buyPrice = BatchBuyPrice(totalBuy, totalSell)
            /\ sellPrice = BatchSellPrice(totalBuy, totalSell)
        BY <1>1, <2>9, <3>2 DEF BatchInv, FreshPrices
      <4>2. TypeOK /\ ~InHatch
        BY <2>9 DEF BooksInv, InHatch
      <4>3. /\ ReserveAfter + Larger >= 0
            /\ totalBuy # totalSell => ReserveAtSupply[SupplyAfter] <= ReserveAfter + Larger
        BY <2>1, <2>6, <2>7, <4>1, <4>2, BatchPricesCover DEF Larger
      <4>4. ReturnsCovered'
        BY <2>5, <4>3 DEF ReturnsCovered
      <4>5. ASSUME ~Augmented
            PROVE  ReserveAtSupply[SupplyAfter] <= ReserveAfter + MaxSupply
        <5>1. ReserveAtSupply[SupplyAfter] \in Nat
          BY <2>7, BondAssumption DEF ValidCurve
        <5>2. CASE totalBuy # totalSell
          BY <2>7, <2>8, <4>3, <5>1, <5>2
        <5>3. CASE totalBuy = totalSell
          <6>1. ~Untouched
            BY <2>1, <2>7, <3>2, <5>3 DEF Untouched
          <6>2. ReserveAtSupply[currentSupply] <= ToDec(currentReserve) + MaxSupply
            BY <1>1, <2>9, <4>5, <6>1 DEF BatchInv, CurveCovered
          <6>3. buyPrice = sellPrice
            <7>1. ~(totalBuy > totalSell) /\ ~(totalSell > totalBuy)
              BY <2>7, <5>3
            <7> QED
              BY <4>1, <7>1 DEF BatchBuyPrice, BatchSellPrice
          <6>4. buyPrice * totalBuy = sellPrice * totalSell /\ buyPrice * totalBuy \in Nat
            BY <2>7, <5>3, <6>3
          <6>5. SupplyAfter = currentSupply /\ ReserveAfter = ToDec(currentReserve)
            BY <2>6, <2>7, <5>3, <6>4
          <6> QED
            BY <6>2, <6>5
        <5> QED
          BY <5>2, <5>3
      <4>6. CurveCovered'
        BY <1>4, <2>5, <4>5 DEF CurveCovered
      <4> QED
        BY <1>2, <4>4, <4>6 DEF BatchInv
    <3> QED
      BY <3>1, <3>2
  <2>10. CASE bondState # "OPEN"
    <3>1. ReturnsCovered' /\ CurveCovered'
      BY <1>1, <2>10 DEF ReturnsCovered, CurveCovered
    <3> QED
      BY <1>2, <3>1 DEF BatchInv
  <2> QED
    BY <2>9, <2>10
<1> QED
  BY <1>1, <1>3, <1>4

\* A buy brings the reserve at least what its price says.
LEMMA PerformBuyBatch ==
  ASSUME BooksInv, BooksInv', BatchInv, PerformBuy
  PROVE  BatchInv'
<1> DEFINE order == buys[next]
           n == order.amount
           e == CeilInt(MulInt(buyPrice, n))
<1>1. /\ phase = "Buys" /\ phase' = "Buys"
      /\ DepositReserve(ToReserve(order)) /\ currentSupply' = currentSupply + n
      /\ UNCHANGED <<bondState, totalBuy, totalSell, buyPrice, sellPrice, buys, sells>>
  BY DEF PerformBuy, batchVars
<1>2. LastPrices' /\ FreshPrices' /\ HatchPrices'
  BY <1>1, SameOrders
<1>3. /\ PendingBuys' = PendingBuys \ {next} /\ next \in PendingBuys
      /\ PendingSells' = PendingSells
  BY PerformBuyPending
<1>4. TypeOK /\ currentReserve \in Nat
  BY DEF BooksInv, TypeOK
<1>5. /\ IsFiniteSet(PendingBuys) /\ next \in DOMAIN buys
      /\ Amounts(buys)[next] = n /\ n \in Nat
      /\ \A i \in PendingBuys : Amounts(buys)[i] \in Nat
  BY <1>3, <1>4, PendingOrders
<1>6. SellAmount' = SellAmount /\ BuyAmount = BuyAmount' + n
  <2>1. BuyAmount' = SumOf(Amounts(buys), PendingBuys \ {next})
    BY <1>1, <1>3 DEF BuyAmount
  <2>2. BuyAmount = SumOf(Amounts(buys), PendingBuys \ {next}) + n
    BY <1>3, <1>5, SumRemove DEF BuyAmount
  <2> QED
    BY <1>1, <1>3, <2>1, <2>2 DEF SellAmount
<1>7. /\ BuyAmount \in Nat /\ SellAmount \in Nat /\ currentSupply \in Nat
      /\ ToDec(currentReserve) \in Nat /\ buyPrice \in Nat /\ sellPrice \in Nat
  BY AfterTypes
<1>8. BuyAmount' \in Nat
  BY AfterTypesNext
<1>9. e \in Nat /\ buyPrice * n <= Unit * e /\ buyPrice * n \in Nat
  <2>1. MulInt(buyPrice, n) = buyPrice * n
    BY DEF MulInt
  <2>2. buyPrice * n \in Nat
    BY <1>5, <1>7
  <2> HIDE DEF n
  <2> QED
    BY <2>1, <2>2, CeilType, CeilAbove
<1>10. ASSUME bondState = "OPEN"
       PROVE  /\ SupplyAfter' = SupplyAfter /\ ReserveAfter <= ReserveAfter'
              /\ Untouched /\ BuyAmount = 0 /\ SellAmount = 0 =>
                   Untouched' /\ BuyAmount' = 0 /\ SellAmount' = 0
  <2>1. currentReserve' = currentReserve + e
    BY <1>1, <1>10 DEF DepositReserve, ToReserve, InHatch, ReservePrice
  <2> HIDE DEF n, e
  <2>2. SupplyAfter' = SupplyAfter
    BY <1>1, <1>5, <1>6, <1>7, <1>8 DEF SupplyAfter
  <2>3. ToDec(currentReserve') = ToDec(currentReserve) + Unit * e
    BY <1>4, <1>9, <2>1, UnitAssumption DEF ToDec
  <2>4. ReserveAfter <= ReserveAfter'
    <3> DEFINE x == buyPrice * BuyAmount'
               y == sellPrice * SellAmount
               z == buyPrice * n
               r == ToDec(currentReserve)
    <3>1. buyPrice * BuyAmount = x + z
      BY <1>5, <1>6, <1>7, <1>8
    <3>2. x \in Nat /\ y \in Nat /\ z \in Nat /\ Unit * e \in Nat /\ r \in Nat
      <4>0. \A i, j \in Nat : i * j \in Nat
        OBVIOUS
      <4>1. x \in Nat
        BY <1>7, <1>8, <4>0
      <4>2. y \in Nat
        BY <1>7
      <4>3. Unit * e \in Nat
        BY <1>9, UnitAssumption
      <4> QED
        BY <1>7, <1>9, <4>1, <4>2, <4>3
    <3>3. ReserveAfter = r + ((x + z) - y)
      BY <3>1 DEF ReserveAfter
    <3>4. ReserveAfter' = (r + Unit * e) + (x - y)
      BY <1>1, <1>6, <2>3 DEF ReserveAfter
    <3>5. z <= Unit * e
      BY <1>9
    <3> HIDE DEF x, y, z, r
    <3>6. r + ((x + z) - y) <= (r + Unit * e) + (x - y)
      BY <3>2, <3>5
    <3> QED
      BY <3>3, <3>4, <3>6
  <2>5. ASSUME Untouched, BuyAmount = 0, SellAmount = 0
        PROVE  Untouched' /\ BuyAmount' = 0 /\ SellAmount' = 0
    <3>1. n = 0 /\ BuyAmount' = 0 /\ SellAmount' = 0
      <4>1. \A i, j \in Nat : 0 = i + j => i = 0 /\ j = 0
        OBVIOUS
      <4>2. SellAmount' = 0
        BY <1>6, <2>5
      <4> QED
        BY <1>5, <1>6, <1>8, <2>5, <4>1, <4>2
    <3>2. e = 0
      <4>1. buyPrice * n = 0
        BY <1>7, <3>1
      <4>2. e = CeilInt(0)
        BY <4>1 DEF e, MulInt
      <4> QED
        BY <4>2, CeilOfZero
    <3> QED
      BY <1>1, <2>1, <2>5, <3>1, <3>2 DEF Untouched, n
  <2> QED
    BY <2>2, <2>4, <2>5
<1>11. ReturnsCovered' /\ CurveCovered'
  BY <1>1, <1>10, CurveInBatch
<1> QED
  BY <1>2, <1>11 DEF BatchInv

\* A sell takes from the reserve at most what its price says.
LEMMA PerformSellPending ==
  ASSUME BooksInv, PerformSell
  PROVE  /\ PendingBuys' = PendingBuys /\ PendingSells' = PendingSells \ {next}
         /\ next \in PendingSells
<1>1. /\ phase = "Sells" /\ next \in DOMAIN sells
      /\ next' = next + 1 /\ UNCHANGED <<buys, sells, phase>>
  BY DEF PerformSell, batchVars
<1>2. sells \in Seq(SellOrder) /\ next \in Nat
  BY DEF BooksInv, TypeOK
<1>3. PendingBuys' = PendingBuys
  BY <1>1 DEF PendingBuys
<1>4. DOMAIN sells \in SUBSET Nat
  BY <1>2
<1>5. PendingSells = {i \in DOMAIN sells : i >= next}
  BY <1>1 DEF PendingSells
<1>6. PendingSells' = {i \in DOMAIN sells : i >= next + 1}
  BY <1>1 DEF PendingSells
<1>7. \A i \in DOMAIN sells : (i >= next + 1) <=> (i >= next /\ i # next)
  BY <1>2, <1>4
<1>8. next \in PendingSells
  BY <1>1, <1>2, <1>5
<1>9. PendingSells' = PendingSells \ {next}
  BY <1>5, <1>6, <1>7
<1> QED
  BY <1>3, <1>8, <1>9

LEMMA PerformSellBatch ==
  ASSUME BooksInv, BooksInv', BatchInv, PerformSell
  PROVE  BatchInv'
<1> DEFINE order == sells[next]
           n == order.amount
           e == TruncateInt(MulInt(sellPrice, n))
<1>1. /\ phase = "Sells" /\ phase' = "Sells"
      /\ currentReserve' = currentReserve - e /\ e <= currentReserve
      /\ currentSupply' = currentSupply - n
      /\ UNCHANGED <<bondState, totalBuy, totalSell, buyPrice, sellPrice, buys, sells>>
  BY DEF PerformSell, CanPerformSell, CanWithdraw, WithdrawReserve, ReserveReturn, batchVars
<1>2. LastPrices' /\ FreshPrices' /\ HatchPrices'
  BY <1>1, SameOrders
<1>3. /\ PendingSells' = PendingSells \ {next} /\ next \in PendingSells
      /\ PendingBuys' = PendingBuys
  BY PerformSellPending
<1>4. TypeOK /\ currentReserve \in Nat
  BY DEF BooksInv, TypeOK
<1>5. /\ IsFiniteSet(PendingSells) /\ next \in DOMAIN sells
      /\ Amounts(sells)[next] = n /\ n \in Nat
      /\ \A i \in PendingSells : Amounts(sells)[i] \in Nat
  BY <1>3, <1>4, PendingOrders
<1>6. BuyAmount' = BuyAmount /\ SellAmount = SellAmount' + n
  <2>1. SellAmount' = SumOf(Amounts(sells), PendingSells \ {next})
    BY <1>1, <1>3 DEF SellAmount
  <2>2. SellAmount = SumOf(Amounts(sells), PendingSells \ {next}) + n
    BY <1>3, <1>5, SumRemove DEF SellAmount
  <2> QED
    BY <1>1, <1>3, <2>1, <2>2 DEF BuyAmount
<1>7. /\ BuyAmount \in Nat /\ SellAmount \in Nat /\ currentSupply \in Nat
      /\ ToDec(currentReserve) \in Nat /\ buyPrice \in Nat /\ sellPrice \in Nat
  BY AfterTypes
<1>8. SellAmount' \in Nat
  BY AfterTypesNext
<1>9. e \in Nat /\ Unit * e <= sellPrice * n /\ sellPrice * n \in Nat
  <2>1. MulInt(sellPrice, n) = sellPrice * n
    BY DEF MulInt
  <2>2. sellPrice * n \in Nat
    BY <1>5, <1>7
  <2> HIDE DEF n
  <2> QED
    BY <2>1, <2>2, CeilType, TruncateBelow
<1> HIDE DEF n, e
<1>10. SupplyAfter' = SupplyAfter
  BY <1>1, <1>5, <1>6, <1>7, <1>8 DEF SupplyAfter
<1>11. ToDec(currentReserve) = ToDec(currentReserve') + Unit * e
  BY <1>1, <1>4, <1>9, UnitAssumption DEF ToDec
<1>12. ReserveAfter <= ReserveAfter'
  <2> DEFINE x == buyPrice * BuyAmount
             y == sellPrice * SellAmount'
             z == sellPrice * n
             r == ToDec(currentReserve')
  <2>1. sellPrice * SellAmount = y + z
    BY <1>5, <1>6, <1>7, <1>8
  <2>2. x \in Nat /\ y \in Nat /\ z \in Nat /\ Unit * e \in Nat /\ r \in Nat
    <3>1. x \in Nat
      BY <1>7
    <3>0. \A i, j \in Nat : i * j \in Nat
      OBVIOUS
    <3>2. y \in Nat
      BY <1>7, <1>8, <3>0
    <3>3. Unit * e \in Nat
      BY <1>9, UnitAssumption
    <3>4. r \in Nat
      BY AfterTypesNext
    <3> QED
      BY <1>9, <3>1, <3>2, <3>3, <3>4
  <2>3. ReserveAfter = (r + Unit * e) + (x - (y + z))
    BY <1>11, <2>1 DEF ReserveAfter
  <2>4. ReserveAfter' = r + (x - y)
    BY <1>1, <1>6 DEF ReserveAfter
  <2>5. Unit * e <= z
    BY <1>9
  <2> HIDE DEF x, y, z, r
  <2>6. (r + Unit * e) + (x - (y + z)) <= r + (x - y)
    BY <2>2, <2>5
  <2> QED
    BY <2>3, <2>4, <2>6
<1>13. ASSUME Untouched, BuyAmount = 0, SellAmount = 0
       PROVE  Untouched' /\ BuyAmount' = 0 /\ SellAmount' = 0
  <2>1. n = 0 /\ BuyAmount' = 0 /\ SellAmount' = 0
    <3>1. \A i, j \in Nat : 0 = i + j => i = 0 /\ j = 0
      OBVIOUS
    <3>2. BuyAmount' = 0
      BY <1>6, <1>13
    <3> QED
      BY <1>5, <1>6, <1>8, <1>13, <3>1, <3>2
  <2> QED
    BY <1>1, <1>4, <1>9, <1>13, <2>1 DEF Untouched
<1>14. ReturnsCovered' /\ CurveCovered'
  BY <1>1, <1>10, <1>12, <1>13, CurveInBatch
<1> QED
  BY <1>2, <1>14 DEF BatchInv

\* A batch that has been performed leaves what the curve calls for.
LEMMA FinishBatchBatch ==
  ASSUME BooksInv, BatchInv, FinishBatch
  PROVE  BatchInv'
<1>1. /\ phase = "Sells" /\ next \notin DOMAIN sells
      /\ bondState' = (IF Hatched THEN "OPEN" ELSE bondState)
      /\ UNCHANGED <<currentSupply, currentReserve>> /\ phase' = "DeliverTx"
      /\ buys' = <<>> /\ sells' = <<>> /\ totalBuy' = 0 /\ totalSell' = 0
  BY DEF FinishBatch, EmptyBatch
<1>2. LastPrices' /\ FreshPrices' /\ ReturnsCovered'
  <2>1. DOMAIN buys' = {}
    BY <1>1
  <2> QED
    BY <1>1, <2>1 DEF LastPrices, FreshPrices, ReturnsCovered
<1>3. HatchPrices'
  BY <1>1 DEF BatchInv, HatchPrices, InHatch
<1>4. PendingBuys = {} /\ PendingSells = {}
  <2>1. sells \in Seq(SellOrder) /\ next \in Nat \ {0}
    BY DEF BooksInv, TypeOK
  <2>2. DOMAIN sells = 1 .. Len(sells) /\ Len(sells) \in Nat
    BY <2>1
  <2>3. \A i \in DOMAIN sells : ~(i >= next)
    BY <1>1, <2>1, <2>2
  <2> QED
    BY <1>1, <2>3 DEF PendingBuys, PendingSells
<1>5. BuyAmount = 0 /\ SellAmount = 0
  BY <1>4, SumEmpty DEF BuyAmount, SellAmount
<1>6. ReserveAfter = ToDec(currentReserve) /\ SupplyAfter = currentSupply
  BY <1>5, AfterTypes DEF ReserveAfter, SupplyAfter
<1>7. CurveCovered'
  <2>1. ASSUME bondState' = "OPEN", ~Augmented
        PROVE  \/ Untouched
               \/ ReserveAtSupply[currentSupply] <= ToDec(currentReserve) + MaxSupply
    <3>1. bondState = "OPEN"
      BY <1>1, <2>1 DEF BatchInv, HatchPrices, Hatched
    <3> QED
      BY <1>1, <1>6, <2>1, <3>1 DEF BatchInv, CurveCovered
  <2> QED
    BY <1>1, <2>1 DEF CurveCovered, Untouched
<1> QED
  BY <1>2, <1>3, <1>7 DEF BatchInv

LEMMA NextBatch ==
  ASSUME BooksInv, BooksInv', HatchInvariant, BatchInv, [Next]_vars
  PROVE  BatchInv'
<1>1. ASSUME UNCHANGED <<bondState, currentSupply, currentReserve, batchVars, phase>>,
             PendingBuys' = PendingBuys, PendingSells' = PendingSells
      PROVE  BatchInv'
  <2>1. LastPrices' /\ FreshPrices' /\ HatchPrices'
    BY <1>1, SameOrders DEF batchVars
  <2>2. CASE phase = "DeliverTx"
    <3>1. ReturnsCovered' /\ CurveCovered'
      BY <1>1, <2>2, CurveBetweenBatches
    <3> QED
      BY <2>1, <3>1 DEF BatchInv
  <2>3. CASE phase # "DeliverTx"
    <3>1. BuyAmount' = BuyAmount /\ SellAmount' = SellAmount
      BY <1>1 DEF BuyAmount, SellAmount, batchVars
    <3>2. /\ SupplyAfter' = SupplyAfter /\ ReserveAfter' = ReserveAfter
          /\ ReserveAfter \in Int
      BY <1>1, <3>1, AfterTypes DEF SupplyAfter, ReserveAfter, batchVars
    <3>3. /\ ReserveAfter <= ReserveAfter' /\ (Untouched => Untouched')
          /\ UNCHANGED <<bondState, totalBuy, totalSell>>
      BY <1>1, <3>2 DEF Untouched, batchVars
    <3>4. ReturnsCovered' /\ CurveCovered'
      BY <1>1, <2>3, <3>1, <3>2, <3>3, CurveInBatch
    <3> QED
      BY <2>1, <3>4 DEF BatchInv
  <2> QED
    BY <2>2, <2>3
<1>2. ASSUME NEW x \in Account, NEW limit \in OrderLimit, EditBond(x, limit)
      PROVE  BatchInv'
  <2>1. UNCHANGED <<bondState, currentSupply, currentReserve, batchVars, phase, next>>
    BY <1>2 DEF EditBond
  <2> QED
    BY <1>1, <2>1, SameBatch
<1>3. ASSUME \/ \E x \in Account : MakeOutcomePayment(x)
             \/ \E x \in Account : WithdrawShare(x)
      PROVE  BatchInv'
  <2>1. bondState' = "SETTLE" /\ UNCHANGED batchVars
    BY <1>3 DEF MakeOutcomePayment, WithdrawShare
  <2> QED
    BY <2>1, SettledBatch
<1>4. CASE SkipCancelledBuy
  <2>1. UNCHANGED <<bondState, currentSupply, currentReserve, batchVars, phase>>
    BY <1>4 DEF SkipCancelledBuy, bondVars
  <2> QED
    BY <1>1, <1>4, <2>1, SkipCancelledBuyPending
<1>5. CASE FinishBuys
  <2>1. /\ UNCHANGED <<bondState, currentSupply, currentReserve, totalBuy, totalSell,
                       buyPrice, sellPrice, buys, sells>>
        /\ phase = "Buys" /\ phase' = "Sells"
    BY <1>5 DEF FinishBuys, bondVars, batchVars
  <2>2. PendingBuys' = PendingBuys /\ PendingSells' = PendingSells
    BY <1>5, FinishBuysPending
  <2>3. LastPrices' /\ FreshPrices' /\ HatchPrices'
    BY <2>1, SameOrders
  <2>4. BuyAmount' = BuyAmount /\ SellAmount' = SellAmount
    BY <2>1, <2>2 DEF BuyAmount, SellAmount
  <2>5. /\ SupplyAfter' = SupplyAfter /\ ReserveAfter' = ReserveAfter
        /\ ReserveAfter \in Int
    BY <2>1, <2>4, AfterTypes DEF SupplyAfter, ReserveAfter
  <2>6. ReserveAfter <= ReserveAfter' /\ (Untouched => Untouched')
    BY <2>1, <2>5 DEF Untouched
  <2>7. ReturnsCovered' /\ CurveCovered'
    BY <2>1, <2>4, <2>5, <2>6, CurveInBatch
  <2> QED
    BY <2>3, <2>7 DEF BatchInv
<1>6. ASSUME UNCHANGED <<bondVars, batchVars, phase, next>> PROVE BatchInv'
  BY <1>1, <1>6, SameBatch DEF bondVars
<1>7. CASE Panic
  BY <1>6, <1>7 DEF Panic
<1>8. CASE UNCHANGED vars
  BY <1>6, <1>8 DEF vars
<1>9. CASE Transaction
  BY <1>2, <1>3, <1>9, CreateBondBatch, BuyBatch, SellBatch DEF Transaction
<1>10. CASE EndBlocker
  BY <1>4, <1>5, <1>7, <1>10, EndBlockBatch, PerformBuyBatch, PerformSellBatch,
     FinishBatchBatch DEF EndBlocker
<1> QED
  BY <1>8, <1>9, <1>10 DEF Next

-----------------------------------------------------------------------------
(***************************************************************************)
(* When EndBlocker can panic                                               *)
(***************************************************************************)
\* A batch without a sell and without a cancelled order is charged in full.
LEMMA BuyIsCovered ==
  ASSUME BooksInv, HatchInvariant, BatchInv, phase = "Buys", next \in LiveBuys,
         sells = <<>>, LiveBuys = DOMAIN buys
  PROVE  CanPerformBuy(buys[next])
<1> DEFINE order == buys[next]
           n == order.amount
<1>1. /\ TypeOK /\ currentSupply \in Nat /\ currentReserve \in Nat
      /\ buyPrice \in Nat /\ next \in Nat
  BY DEF BooksInv, TypeOK
<1>2. next \in PendingBuys /\ next \in DOMAIN buys
  BY <1>1 DEF PendingBuys, LiveBuys
<1>3. /\ IsFiniteSet(PendingBuys) /\ n \in Nat /\ order.maxPrices \in Nat
      /\ MaxPrices(buys)[next] = order.maxPrices
      /\ \A i \in PendingBuys : MaxPrices(buys)[i] \in Nat
      /\ buys \in Seq(BuyOrder) /\ PendingBuys \in SUBSET DOMAIN buys
  BY <1>1, <1>2, PendingOrders
<1>4. FulfillableAtPrice(order, buyPrice)
  BY <1>2 DEF BatchInv, LastPrices
<1>5. order.maxPrices <= intermediary
  <2>1. intermediary = SumOf(MaxPrices(buys), PendingBuys \ {next}) + order.maxPrices
    BY <1>2, <1>3, SumRemove DEF BooksInv, LockedInvariant
  <2>2. SumOf(MaxPrices(buys), PendingBuys \ {next}) \in Nat
    BY <1>3, BuySums
  <2> HIDE DEF order
  <2> QED
    BY <1>3, <2>1, <2>2
<1>6. ReservePrice(order, buyPrice) \in Nat
  BY <1>1, <1>3, OrderPrices
<1>7. ToReserve(order) \in 0 .. ReservePrice(order, buyPrice)
  <2>1. CASE ~InHatch
    BY <1>6, <2>1 DEF ToReserve
  <2>2. CASE InHatch
    <3>1. buyPrice = P0
      <4>1. buys # <<>>
        BY <1>2
      <4> QED
        BY <2>2, <4>1 DEF BatchInv, HatchPrices
    <3>2. currentReserve = HatchReserve(currentSupply)
      BY <2>2 DEF HatchInvariant
    <3>3. ReservePrice(order, buyPrice) = CeilInt(MulInt(P0, n))
      BY <3>1 DEF ReservePrice
    <3>4. ToReserve(order) = HatchReserve(currentSupply + n) - HatchReserve(currentSupply)
      BY <2>2, <3>2 DEF ToReserve
    <3> HIDE DEF order, n
    <3>5. /\ HatchReserve(currentSupply) \in Nat /\ HatchReserve(currentSupply + n) \in Nat
          /\ HatchReserve(currentSupply) <= HatchReserve(currentSupply + n)
          /\ HatchReserve(currentSupply + n)
               <= HatchReserve(currentSupply) + CeilInt(MulInt(P0, n))
      BY <1>1, <1>3, HatchReserveGrows
    <3> QED
      BY <1>6, <3>3, <3>4, <3>5
  <2> QED
    BY <2>1, <2>2
<1> QED
  BY <1>4, <1>5, <1>7 DEF CanPerformBuy

\* A sell of a bond that trades is paid in full.
LEMMA SellIsCovered ==
  ASSUME BooksInv, BatchInv, phase = "Sells", next \in DOMAIN sells,
         bondState = "OPEN", totalBuy < Unit, totalSell < Unit
  PROVE  CanPerformSell(sells[next])
<1> DEFINE order == sells[next]
           n == order.amount
           e == TruncateInt(MulInt(sellPrice, n))
<1>1. /\ TypeOK /\ currentReserve \in Nat /\ next \in Nat
      /\ currentReserve = reserveAccount
  BY DEF BooksInv, TypeOK, ReserveBacked
<1>2. next \in PendingSells
  BY <1>1 DEF PendingSells
<1>3. /\ IsFiniteSet(PendingSells) /\ n \in Nat /\ Amounts(sells)[next] = n
      /\ \A i \in PendingSells : Amounts(sells)[i] \in Nat
      /\ sells \in Seq(SellOrder) /\ PendingSells \in SUBSET DOMAIN sells
  BY <1>1, <1>2, PendingOrders
<1>4. /\ SellAmount \in Nat /\ SellAmount <= currentSupply /\ currentSupply \in 0 .. MaxSupply
      /\ sellPrice \in Nat /\ buyPrice \in Nat /\ Larger \in Nat
      /\ ToDec(currentReserve) \in Nat
      /\ totalBuy \in Nat /\ totalSell \in Nat
  BY AfterTypes
<1>5. n <= SellAmount
  <2>1. SellAmount = SumOf(Amounts(sells), PendingSells \ {next}) + n
    BY <1>2, <1>3, SumRemove DEF SellAmount
  <2>2. SumOf(Amounts(sells), PendingSells \ {next}) \in Nat
    BY <1>3, SellSums
  <2> HIDE DEF n
  <2> QED
    BY <1>3, <2>1, <2>2
<1>6. PendingBuys = {} /\ BuyAmount = 0
  BY SumEmpty DEF PendingBuys, BuyAmount
<1>7. ReserveAfter + Larger >= 0
  BY DEF BatchInv, ReturnsCovered
<1>8. e \in Nat /\ Unit * e <= sellPrice * n /\ sellPrice * n \in Nat
  <2>1. MulInt(sellPrice, n) = sellPrice * n
    BY DEF MulInt
  <2>2. sellPrice * n \in Nat
    BY <1>3, <1>4
  <2> HIDE DEF n
  <2> QED
    BY <2>1, <2>2, CeilType, TruncateBelow
<1> HIDE DEF n, e
<1>9. e <= currentReserve
  <2> DEFINE y == sellPrice * SellAmount
             z == sellPrice * n
  <2>1. y \in Nat /\ z <= y
    BY <1>3, <1>4, <1>5
  <2>2. ReserveAfter = ToDec(currentReserve) - y
    <3>1. buyPrice * BuyAmount = 0
      BY <1>4, <1>6
    <3> QED
      BY <1>4, <2>1, <3>1 DEF ReserveAfter
  <2>3. Larger < Unit
    BY <1>4 DEF Larger
  <2>4. z \in Nat /\ Unit * e <= z
    BY <1>8
  <2> HIDE DEF y, z
  <2>5. Unit * e \in Nat /\ Unit \in Nat
    BY <1>8, UnitAssumption
  <2>6. Unit * e < ToDec(currentReserve) + Unit
    BY <1>4, <1>7, <2>1, <2>2, <2>3, <2>4, <2>5
  <2>7. ToDec(currentReserve) + Unit = Unit * (currentReserve + 1)
    BY <1>1, UnitAssumption DEF ToDec
  <2>8. \A i, j \in Nat : Unit * i < Unit * j => i < j
    BY UnitAssumption
  <2>9. e < currentReserve + 1
    BY <1>1, <1>8, <2>6, <2>7, <2>8
  <2> QED
    BY <1>1, <1>8, <2>9
<1>10. n <= currentSupply
  BY <1>3, <1>4, <1>5
<1> QED
  BY <1>1, <1>9, <1>10 DEF CanPerformSell, CanWithdraw, ReserveReturn, n, e

LEMMA PanicHalts ==
  ASSUME BooksInv, HatchInvariant, BatchInv, Panic
  PROVE  HaltsOnlyOnLatePrices'
<1>1. UNCHANGED <<bondState, totalBuy, totalSell, buys, sells, phase>>
  BY DEF Panic, bondVars, batchVars
<1>2. LiveBuys' = LiveBuys
  BY <1>1 DEF LiveBuys
<1>3. CASE phase = "Buys" /\ next \in LiveBuys /\ ~CanPerformBuy(buys[next])
  <2>1. sells # <<>> \/ LiveBuys # DOMAIN buys
    BY <1>3, BuyIsCovered
  <2> QED
    BY <1>1, <1>2, <1>3, <2>1 DEF HaltsOnlyOnLatePrices
<1>4. CASE phase = "Sells" /\ next \in DOMAIN sells /\ ~CanPerformSell(sells[next])
  <2>1. bondState \in {"HATCH", "OPEN", "SETTLE"}
    BY <1>4 DEF BooksInv, TypeOK, BatchRuns
  <2>2. bondState # "HATCH"
    <3>1. sells # <<>>
      BY <1>4
    <3> QED
      BY <3>1 DEF HatchInvariant, InHatch
  <2>3. totalBuy < Unit /\ totalSell < Unit => bondState # "OPEN"
    BY <1>4, SellIsCovered
  <2> QED
    BY <1>1, <1>4, <2>1, <2>2, <2>3 DEF HaltsOnlyOnLatePrices
<1> QED
  BY <1>3, <1>4 DEF Panic

\* A halted chain takes no step, and only a panic halts it.
LEMMA NextHalts ==
  ASSUME BooksInv, HatchInvariant, BatchInv, HaltsOnlyOnLatePrices, [Next]_vars
  PROVE  HaltsOnlyOnLatePrices'
<1>1. CASE UNCHANGED vars
  BY <1>1 DEF vars, bondVars, batchVars, HaltsOnlyOnLatePrices, LiveBuys
<1>2. CASE Panic
  BY <1>2, PanicHalts
<1>3. CASE Next /\ ~Panic
  <2>1. ~halted /\ halted' = halted
    <3>1. CASE Transaction
      <4>1. ASSUME NEW allow, NEW limit, CreateBond(allow, limit)
            PROVE  ~halted /\ halted' = halted
        BY <4>1 DEF CreateBond, DeliverTx
      <4>2. ASSUME NEW x, NEW limit, EditBond(x, limit)
            PROVE  ~halted /\ halted' = halted
        BY <4>2 DEF EditBond, DeliverTx
      <4>3. ASSUME NEW x, NEW n, NEW max, Buy(x, n, max)
            PROVE  ~halted /\ halted' = halted
        BY <4>3 DEF Buy, DeliverTx
      <4>4. ASSUME NEW x, NEW n, Sell(x, n)
            PROVE  ~halted /\ halted' = halted
        BY <4>4 DEF Sell, DeliverTx
      <4>5. ASSUME NEW x, MakeOutcomePayment(x) \/ WithdrawShare(x)
            PROVE  ~halted /\ halted' = halted
        BY <4>5 DEF MakeOutcomePayment, WithdrawShare, DeliverTx
      <4> QED
        BY <3>1, <4>1, <4>2, <4>3, <4>4, <4>5, Zenon DEF Transaction
    <3>2. CASE EndBlocker
      <4>1. CASE EndBlock
        BY <4>1 DEF EndBlock, DeliverTx
      <4>2. CASE PerformBuy \/ SkipCancelledBuy \/ FinishBuys
        BY <4>2 DEF PerformBuy, SkipCancelledBuy, FinishBuys
      <4>3. CASE PerformSell \/ FinishBatch
        BY <4>3 DEF PerformSell, FinishBatch
      <4> QED
        BY <1>3, <3>2, <4>1, <4>2, <4>3 DEF EndBlocker
    <3> QED
      BY <1>3, <3>1, <3>2 DEF Next
  <2> QED
    BY <2>1 DEF HaltsOnlyOnLatePrices
<1> QED
  BY <1>1, <1>2, <1>3

\* Nothing has been ordered from a bond that does not exist.
LEMMA InitBatch == Init => BatchInv /\ HaltsOnlyOnLatePrices
<1> SUFFICES ASSUME Init PROVE BatchInv /\ HaltsOnlyOnLatePrices
  OBVIOUS
<1>1. bondState = "NONE" /\ buys = <<>> /\ ~halted
  BY DEF Init
<1>2. LastPrices
  <2>1. DOMAIN buys = {}
    BY <1>1
  <2> QED
    BY <2>1 DEF LastPrices
<1>3. FreshPrices /\ HatchPrices /\ ReturnsCovered /\ CurveCovered
  BY <1>1 DEF FreshPrices, HatchPrices, InHatch, ReturnsCovered, CurveCovered
<1> QED
  BY <1>1, <1>2, <1>3 DEF BatchInv, HaltsOnlyOnLatePrices

LEMMA BatchAlwaysRight ==
  Spec => [](BooksInv /\ HatchInvariant /\ BatchInv /\ HaltsOnlyOnLatePrices)
<1>1. BooksInv /\ BooksInv' /\ HatchInvariant /\ BatchInv /\ [Next]_vars => BatchInv'
  BY NextBatch
<1>2. BooksInv /\ HatchInvariant /\ BatchInv /\ HaltsOnlyOnLatePrices /\ [Next]_vars
        => HaltsOnlyOnLatePrices'
  BY NextHalts
<1> QED
  BY <1>1, <1>2, InitBatch, HatchAlwaysRight, PTL DEF Spec

\* EndBlocker halts the chain only on a buy whose price a sell or a cancellation has
\* moved after the last look at it, or on a sell of a bond that is settled: in the
\* hatch phase, and while the bond trades, every other order of a batch that is not
\* too large for the scale of the decimals is performed (keeper/batch.go).
THEOREM HaltsCorrect == Spec => []HaltsOnlyOnLatePrices
BY BatchAlwaysRight, PTL

\* Between the batches of a power or sigmoid bond that trades, the reserve is what
\* the curve calls for, but for the rounding of the prices of one batch, however
\* many have been performed (keeper/invariants.go).
THEOREM ReserveCorrect == Spec => []ReserveFollowsCurve
<1>1. ASSUME BooksInv, BatchInv
      PROVE  ReserveFollowsCurve
  <2> SUFFICES ASSUME phase = "DeliverTx", bondState = "OPEN", ~Augmented,
                      currentReserve # 0
               PROVE  LET expected == ReserveAtSupply[currentSupply]
                          fraction == expected % Unit
                      IN  /\ expected <= ToDec(currentReserve) + PriceRounding
                          /\ fraction > PriceRounding
                               \/ (fraction = 0 /\ PriceRounding < Unit) =>
                               CeilInt(expected) <= currentReserve
    BY DEF ReserveFollowsCurve
  <2> DEFINE expected == ReserveAtSupply[currentSupply]
             q == expected \div Unit
             f == expected % Unit
  <2>1. /\ currentReserve \in Nat /\ currentSupply \in 0 .. MaxSupply /\ MaxSupply \in Nat
        /\ Unit \in Nat \ {0}
    BY <1>1, AfterTypes, BondAssumption, UnitAssumption
    DEF BooksInv, TypeOK, ValidParameters
  <2>2. expected \in Nat
    BY <2>1, BondAssumption DEF ValidCurve
  <2>3. expected <= ToDec(currentReserve) + MaxSupply
    BY <1>1 DEF BatchInv, CurveCovered, Untouched
  <2>4. /\ q \in Nat /\ f \in 0 .. (Unit - 1) /\ expected = Unit * q + f
        /\ CeilInt(expected) = IF f = 0 THEN q ELSE q + 1
    BY <2>1, <2>2, Division DEF CeilInt
  <2>5. ToDec(currentReserve) = Unit * currentReserve
    BY <2>1 DEF ToDec
  <2> HIDE DEF q, f, expected
  <2>6. \A i, j \in Nat : Unit * i < Unit * j => i < j
    BY <2>1
  <2>7. CASE f > MaxSupply
    <3>1. Unit * q < Unit * currentReserve
      BY <2>1, <2>2, <2>3, <2>4, <2>5, <2>7
    <3>2. q < currentReserve
      BY <2>1, <2>4, <2>6, <3>1
    <3>3. CeilInt(expected) <= currentReserve
      BY <2>1, <2>4, <3>2
    <3> QED
      BY <2>3, <3>3 DEF PriceRounding, expected
  <2>8. CASE f = 0 /\ MaxSupply < Unit
    <3>1. Unit * q < Unit * (currentReserve + 1)
      <4>1. Unit * (currentReserve + 1) = Unit * currentReserve + Unit
        BY <2>1
      <4>2. Unit * currentReserve \in Nat /\ Unit * q \in Nat
        BY <2>1, <2>4
      <4> QED
        BY <2>1, <2>2, <2>3, <2>4, <2>5, <2>8, <4>1, <4>2
    <3>2. q < currentReserve + 1
      BY <2>1, <2>4, <2>6, <3>1
    <3>3. CeilInt(expected) <= currentReserve
      BY <2>1, <2>4, <2>8, <3>2
    <3> QED
      BY <2>3, <3>3 DEF PriceRounding, expected
  <2>9. CASE ~(f > MaxSupply) /\ ~(f = 0 /\ MaxSupply < Unit)
    BY <2>3, <2>9 DEF PriceRounding, expected, f
  <2> QED
    BY <2>7, <2>8, <2>9
<1> QED
  BY <1>1, BatchAlwaysRight, PTL

=============================================================================
