---------------------------- MODULE Bonds_proofs ----------------------------
(***************************************************************************)
(* Proofs about Bonds: the accounts, the books of the batch and the bond   *)
(* record agree at every step, for every curve, fee, batch length and      *)
(* number of accounts and orders.                                          *)
(***************************************************************************)
EXTENDS Bonds, Amounts_proofs

\* The inductive invariant.  The parts need each other: prices have a type only
\* within the curve's domain (SupplyInvariant, TotalsInvariant and
\* MaxSupplyInvariant), refunds only if the coins are there (LockedInvariant).
BooksInv ==
  /\ TypeOK /\ BatchRuns
  /\ SupplyInvariant /\ LockedInvariant /\ TotalsInvariant
  /\ MaxSupplyInvariant /\ ReserveBacked

-----------------------------------------------------------------------------
(***************************************************************************)
(* Orders and prices                                                       *)
(***************************************************************************)
\* Totals over orders of a batch are natural numbers.
LEMMA BuySums ==
  ASSUME NEW orders \in Seq(BuyOrder), NEW S \in SUBSET DOMAIN orders
  PROVE  /\ IsFiniteSet(S)
         /\ \A i \in S : Amounts(orders)[i] \in Nat /\ MaxPrices(orders)[i] \in Nat
         /\ SumOf(Amounts(orders), S) \in Nat /\ SumOf(MaxPrices(orders), S) \in Nat
<1>1. DOMAIN orders = 1 .. Len(orders) /\ Len(orders) \in Nat
  OBVIOUS
<1>2. IsFiniteSet(S)
  <2>1. IsFiniteSet(1 .. Len(orders))
    BY <1>1, FS_Interval, SMT
  <2>2. IsFiniteSet(DOMAIN orders)
    BY <1>1, <2>1
  <2> QED
    BY <2>2, FS_Subset
<1>3. \A i \in DOMAIN orders : orders[i] \in BuyOrder
  OBVIOUS
<1>4. \A i \in S : Amounts(orders)[i] \in Nat /\ MaxPrices(orders)[i] \in Nat
  BY <1>3 DEF Amounts, MaxPrices, BuyOrder
<1> QED
  BY <1>2, <1>4, SumType

LEMMA SellSums ==
  ASSUME NEW orders \in Seq(SellOrder), NEW S \in SUBSET DOMAIN orders
  PROVE  /\ IsFiniteSet(S)
         /\ \A i \in S : Amounts(orders)[i] \in Nat
         /\ SumOf(Amounts(orders), S) \in Nat
<1>1. DOMAIN orders = 1 .. Len(orders) /\ Len(orders) \in Nat
  OBVIOUS
<1>2. IsFiniteSet(S)
  <2>1. IsFiniteSet(1 .. Len(orders))
    BY <1>1, FS_Interval, SMT
  <2>2. IsFiniteSet(DOMAIN orders)
    BY <1>1, <2>1
  <2> QED
    BY <2>2, FS_Subset
<1>3. \A i \in DOMAIN orders : orders[i] \in SellOrder
  OBVIOUS
<1>4. \A i \in S : Amounts(orders)[i] \in Nat
  BY <1>3 DEF Amounts, SellOrder
<1> QED
  BY <1>2, <1>4, SumType

\* What an order costs or returns at a price.
LEMMA OrderPrices ==
  ASSUME NEW order, order.amount \in Nat, NEW price \in Nat
  PROVE  /\ ReservePrice(order, price) \in Nat /\ TotalPrice(order, price) \in Nat
         /\ ReservePrice(order, price) <= TotalPrice(order, price)
         /\ ReserveReturn(order, price) \in Nat /\ SellFees(order, price) \in Nat
         /\ SellFees(order, price) <= ReserveReturn(order, price)
<1> DEFINE value == MulInt(price, order.amount)
<1>1. value \in Nat
  BY DEF MulInt
<1>2. \A p \in Nat : Fee(value, p) \in Nat
  <2> TAKE p \in Nat
  <2>1. QuoInt(p, 100) \in Nat
    BY Division DEF QuoInt
  <2>2. Mul(QuoInt(p, 100), value) \in Nat
    BY <1>1, <2>1, MulType
  <2> QED
    BY <2>2, CeilType DEF Fee
<1>3. TxFeePercentage \in Nat /\ ExitFeePercentage \in Nat
  BY BondAssumption DEF ValidParameters
<1>4. Fee(value, TxFeePercentage) \in Nat /\ Fee(value, ExitFeePercentage) \in Nat
  BY <1>2, <1>3
<1>5. CeilInt(value) \in Nat /\ TruncateInt(value) \in Nat
  BY <1>1, CeilType
<1> HIDE DEF value
<1> QED
  BY <1>4, <1>5 DEF ReservePrice, TotalPrice, TxFee, ReserveReturn, SellFees, value

\* The prices of a batch are not negative, if its orders stay within the curve.
LEMMA BatchPrices ==
  ASSUME TypeOK, NEW buy \in Nat, NEW sell \in Nat,
         currentSupply + buy <= MaxSupply, sell <= currentSupply,
         PricesDefined(buy, sell)
  PROVE  BatchBuyPrice(buy, sell) \in Nat /\ BatchSellPrice(buy, sell) \in Nat
<1>1. /\ currentSupply \in Nat /\ currentReserve \in Nat /\ MaxSupply \in Nat
      /\ P0 \in Nat /\ Unit \in Nat
      /\ ReserveAtSupply \in [0 .. MaxSupply -> Nat]
      /\ PricesAtSupply \in [0 .. MaxSupply -> Nat]
  BY BondAssumption, UnitAssumption DEF ValidParameters, ValidCurve, TypeOK
<1>2. CurrentPricesPT \in Nat
  BY <1>1 DEF CurrentPricesPT
<1>3. ToDec(buy) \in Nat /\ ToDec(sell) \in Nat /\ ToDec(currentReserve) \in Nat
  BY <1>1, ToDecType
<1>4. \A n \in Nat \ {0} : ToDec(n) \in Nat \ {0}
  BY UnitAssumption DEF ToDec
<1>5. ASSUME buy > sell PROVE BatchBuyPrice(buy, sell) \in Nat
  <2>1. buy - sell \in Nat /\ currentSupply + (buy - sell) \in 0 .. MaxSupply
    BY <1>1, <1>5
  <2>2. ReserveAtSupply[currentSupply + (buy - sell)] \in Nat
    BY <1>1, <2>1
  <2>3. MulInt(P0, buy - sell) \in Nat
    BY <1>1, <2>1 DEF MulInt
  <2>4. PricesToMint(buy - sell) \in Nat
    <3> DEFINE price == ReserveAtSupply[currentSupply + (buy - sell)]
                          - ToDec(currentReserve)
    <3>1. price \in Int
      BY <1>3, <2>2
    <3>2. PricesToMint(buy - sell) = IF InHatch THEN MulInt(P0, buy - sell)
                                     ELSE IF price < 0 THEN Unit ELSE price
      BY DEF PricesToMint
    <3> HIDE DEF price
    <3> QED
      BY <1>1, <2>3, <3>1, <3>2 DEF InHatch
  <2>5. Mul(CurrentPricesPT, ToDec(sell)) \in Nat
    BY <1>2, <1>3, MulType
  <2>6. Mul(CurrentPricesPT, ToDec(sell)) + PricesToMint(buy - sell) \in Nat
    BY <2>4, <2>5
  <2>7. buy \in Nat \ {0}
    BY <1>5
  <2> QED
    BY <1>4, <1>5, <2>6, <2>7, QuoType DEF BatchBuyPrice
<1>6. ASSUME sell > buy PROVE BatchSellPrice(buy, sell) \in Nat
  <2>1. sell - buy \in Nat /\ currentSupply - (sell - buy) \in 0 .. MaxSupply
    BY <1>1, <1>6
  <2>2. ReserveAtSupply[currentSupply - (sell - buy)] \in Nat
    BY <1>1, <2>1
  <2>3. CanBurn(sell - buy)
    BY <1>6 DEF PricesDefined
  <2>4. ReturnsForBurn(sell - buy) \in Nat
    BY <1>3, <2>2, <2>3 DEF ReturnsForBurn, CanBurn
  <2>5. Mul(CurrentPricesPT, ToDec(buy)) \in Nat
    BY <1>2, <1>3, MulType
  <2>6. Mul(CurrentPricesPT, ToDec(buy)) + ReturnsForBurn(sell - buy) \in Nat
    BY <2>4, <2>5
  <2>7. sell \in Nat \ {0}
    BY <1>6
  <2> QED
    BY <1>4, <1>6, <2>6, <2>7, QuoType DEF BatchSellPrice
<1> QED
  BY <1>2, <1>5, <1>6 DEF BatchBuyPrice, BatchSellPrice

-----------------------------------------------------------------------------
(***************************************************************************)
(* The books of a batch                                                    *)
(***************************************************************************)
\* The orders that are not cancelled.
Live(orders) == {i \in DOMAIN orders : ~orders[i].cancelled}

\* An order that joins the batch adds its amount and its max prices.
LEMMA AppendOrder ==
  ASSUME NEW orders \in Seq(BuyOrder), NEW order \in BuyOrder, ~order.cancelled
  PROVE  /\ Append(orders, order) \in Seq(BuyOrder)
         /\ SumOf(Amounts(Append(orders, order)), Live(Append(orders, order)))
              = SumOf(Amounts(orders), Live(orders)) + order.amount
         /\ SumOf(MaxPrices(Append(orders, order)), Live(Append(orders, order)))
              = SumOf(MaxPrices(orders), Live(orders)) + order.maxPrices
<1> DEFINE new == Append(orders, order)
           n == Len(orders) + 1
<1>1. /\ new \in Seq(BuyOrder) /\ Len(new) = n
      /\ DOMAIN new = DOMAIN orders \cup {n} /\ n \notin DOMAIN orders
      /\ new[n] = order /\ \A i \in DOMAIN orders : new[i] = orders[i]
  OBVIOUS
<1> HIDE DEF new, n
<1>2. Live(new) = Live(orders) \cup {n} /\ n \notin Live(orders)
  BY <1>1 DEF Live
<1>3. Live(orders) \in SUBSET DOMAIN orders /\ Live(new) \in SUBSET DOMAIN new
  BY DEF Live
<1>4. /\ IsFiniteSet(Live(orders))
      /\ \A i \in Live(new) : Amounts(new)[i] \in Nat /\ MaxPrices(new)[i] \in Nat
  BY <1>1, <1>3, BuySums
<1>5. /\ \A i \in Live(orders) : Amounts(new)[i] = Amounts(orders)[i]
      /\ \A i \in Live(orders) : MaxPrices(new)[i] = MaxPrices(orders)[i]
      /\ Amounts(new)[n] = order.amount /\ MaxPrices(new)[n] = order.maxPrices
  BY <1>1, <1>3 DEF Amounts, MaxPrices
<1>6. SumOf(Amounts(new), Live(orders) \cup {n})
        = SumOf(Amounts(new), Live(orders)) + Amounts(new)[n]
  BY <1>2, <1>4, SumAdd
<1>7. SumOf(MaxPrices(new), Live(orders) \cup {n})
        = SumOf(MaxPrices(new), Live(orders)) + MaxPrices(new)[n]
  BY <1>2, <1>4, SumAdd
<1>8. SumOf(Amounts(new), Live(orders)) = SumOf(Amounts(orders), Live(orders))
  BY <1>5, SumCongruence
<1>9. SumOf(MaxPrices(new), Live(orders)) = SumOf(MaxPrices(orders), Live(orders))
  BY <1>5, SumCongruence
<1>10. /\ SumOf(Amounts(new), Live(new)) = SumOf(Amounts(orders), Live(orders)) + order.amount
       /\ SumOf(MaxPrices(new), Live(new))
            = SumOf(MaxPrices(orders), Live(orders)) + order.maxPrices
  BY <1>2, <1>5, <1>6, <1>7, <1>8, <1>9
<1> QED
  BY <1>1, <1>10 DEF new

\* Cancelled orders take their amounts and max prices out of the totals.
LEMMA CancelOrders ==
  ASSUME NEW orders \in Seq(BuyOrder), NEW which \in SUBSET Live(orders)
  PROVE  /\ Cancel(orders, which) \in Seq(BuyOrder)
         /\ DOMAIN Cancel(orders, which) = DOMAIN orders
         /\ SumOf(Amounts(orders), which) \in Nat
         /\ SumOf(MaxPrices(orders), which) \in Nat
         /\ SumOf(Amounts(orders), Live(orders))
              = SumOf(Amounts(Cancel(orders, which)), Live(Cancel(orders, which)))
                  + SumOf(Amounts(orders), which)
         /\ SumOf(MaxPrices(orders), Live(orders))
              = SumOf(MaxPrices(Cancel(orders, which)), Live(Cancel(orders, which)))
                  + SumOf(MaxPrices(orders), which)
<1> DEFINE new == Cancel(orders, which)
<1>0. DOMAIN orders = 1 .. Len(orders) /\ Len(orders) \in Nat
      /\ \A i \in DOMAIN orders : orders[i] \in BuyOrder
  OBVIOUS
<1>1. DOMAIN new = DOMAIN orders
  BY DEF Cancel
<1>2. \A i \in DOMAIN orders :
        new[i] = IF i \in which THEN [orders[i] EXCEPT !.cancelled = TRUE] ELSE orders[i]
  BY DEF Cancel
<1>3. \A i \in DOMAIN orders :
        /\ new[i] \in BuyOrder
        /\ new[i].amount = orders[i].amount /\ new[i].maxPrices = orders[i].maxPrices
        /\ new[i].cancelled = (i \in which \/ orders[i].cancelled)
  BY <1>0, <1>2 DEF BuyOrder
<1>4. new \in [1 .. Len(orders) -> BuyOrder]
  BY <1>0, <1>3 DEF Cancel
<1>5. new \in Seq(BuyOrder)
  BY <1>0, <1>4
<1> HIDE DEF new
<1>6. Live(new) = Live(orders) \ which
  BY <1>1, <1>3 DEF Live
<1>7. Amounts(new) = Amounts(orders) /\ MaxPrices(new) = MaxPrices(orders)
  BY <1>1, <1>3 DEF Amounts, MaxPrices
<1>8. which \in SUBSET DOMAIN orders /\ Live(orders) \ which \in SUBSET DOMAIN orders
  BY DEF Live
<1>9. /\ IsFiniteSet(which) /\ IsFiniteSet(Live(orders) \ which)
      /\ SumOf(Amounts(orders), which) \in Nat /\ SumOf(MaxPrices(orders), which) \in Nat
  BY <1>8, BuySums
<1>10. \A i \in Live(orders) :
         Amounts(orders)[i] \in Nat /\ MaxPrices(orders)[i] \in Nat
  <2>1. Live(orders) \in SUBSET DOMAIN orders
    BY DEF Live
  <2> QED
    BY <2>1, BuySums
<1>11. (Live(orders) \ which) \cup which = Live(orders)
  OBVIOUS
<1>12. SumOf(Amounts(orders), (Live(orders) \ which) \cup which)
         = SumOf(Amounts(orders), Live(orders) \ which) + SumOf(Amounts(orders), which)
  BY <1>9, <1>10, SumUnion
<1>13. SumOf(MaxPrices(orders), (Live(orders) \ which) \cup which)
         = SumOf(MaxPrices(orders), Live(orders) \ which) + SumOf(MaxPrices(orders), which)
  BY <1>9, <1>10, SumUnion
<1>14. /\ SumOf(Amounts(orders), Live(orders))
            = SumOf(Amounts(new), Live(new)) + SumOf(Amounts(orders), which)
       /\ SumOf(MaxPrices(orders), Live(orders))
            = SumOf(MaxPrices(new), Live(new)) + SumOf(MaxPrices(orders), which)
  BY <1>6, <1>7, <1>11, <1>12, <1>13
<1> QED
  BY <1>1, <1>5, <1>9, <1>14 DEF new

-----------------------------------------------------------------------------
(***************************************************************************)
(* Every transaction keeps the books                                       *)
(***************************************************************************)
\* While transactions are delivered every live order is still to be performed.
LEMMA OpenBooks ==
  ASSUME BooksInv, phase = "DeliverTx"
  PROVE  /\ PendingBuys = Live(buys) /\ PendingSells = DOMAIN sells
         /\ intermediary = SumOf(MaxPrices(buys), Live(buys))
         /\ totalBuy = SumOf(Amounts(buys), Live(buys))
         /\ currentSupply + totalBuy <= MaxSupply
         /\ totalSell <= currentSupply
<1>1. LiveBuys = Live(buys)
  BY DEF LiveBuys, Live
<1>2. PendingBuys = Live(buys) /\ PendingSells = DOMAIN sells
  BY <1>1 DEF PendingBuys, PendingSells
<1>3. SumOf(tokens, Account) \in Nat
  BY SumType, BondAssumption DEF BooksInv, TypeOK
<1>4. SumOf(tokens, Account) + totalSell = currentSupply
  BY <1>2 DEF BooksInv, SupplyInvariant, TotalsInvariant
<1>5. totalSell \in Nat /\ currentSupply \in Nat
  BY DEF BooksInv, TypeOK
<1>6. totalSell <= currentSupply
  BY <1>3, <1>4, <1>5
<1> QED
  BY <1>1, <1>2, <1>6
  DEF BooksInv, LockedInvariant, TotalsInvariant, MaxSupplyInvariant

\* A step that leaves the batch, the phase, the tokens and the intermediary
\* account alone, but may move the record of the bond, keeps the orders' sums.
LEMMA SameBatch ==
  ASSUME BooksInv, UNCHANGED <<batchVars, phase, next>>
  PROVE  /\ LiveBuys' = LiveBuys /\ PendingBuys' = PendingBuys
         /\ PendingSells' = PendingSells
BY DEF batchVars, LiveBuys, PendingBuys, PendingSells

LEMMA EmptyBatchBooks ==
  ASSUME EmptyBatch
  PROVE  /\ buys' \in Seq(BuyOrder) /\ sells' \in Seq(SellOrder)
         /\ LiveBuys' = {} /\ PendingBuys' = {} /\ PendingSells' = {}
         /\ DOMAIN sells' = {}
         /\ TotalsInvariant'
<1>1. buys' = <<>> /\ sells' = <<>> /\ totalBuy' = 0 /\ totalSell' = 0
  BY DEF EmptyBatch
<1>2. buys' \in Seq(BuyOrder) /\ sells' \in Seq(SellOrder)
  BY <1>1
<1>3. DOMAIN buys' = {} /\ DOMAIN sells' = {}
  BY <1>1
<1>4. LiveBuys' = {} /\ PendingBuys' = {} /\ PendingSells' = {}
  BY <1>3 DEF LiveBuys, PendingBuys, PendingSells
<1>5. SumOf(Amounts(buys'), {}) = 0 /\ SumOf(Amounts(sells'), {}) = 0
  BY SumEmpty
<1> QED
  BY <1>1, <1>2, <1>3, <1>4, <1>5 DEF TotalsInvariant

LEMMA CreateBondBooks ==
  ASSUME BooksInv, NEW allow \in BOOLEAN, NEW limit \in OrderLimit,
         CreateBond(allow, limit)
  PROVE  BooksInv'
<1>1. /\ phase' = "DeliverTx" /\ buys = <<>> /\ sells = <<>>
      /\ UNCHANGED <<currentSupply, currentReserve, bankVars, phase, next, halted>>
      /\ EmptyBatch /\ bondState' \in {"HATCH", "OPEN"} /\ orderLimit' = limit
      /\ allowSells' = (allow /\ ~Augmented)
  BY DEF CreateBond, BooksInv, BatchRuns, DeliverTx
<1>2. limit \in Nat /\ BatchBlocks \in Nat \ {0} /\ MaxSupply \in Nat
  BY BondAssumption DEF ValidParameters
<1>3. blocksRemaining' = BatchBlocks /\ buyPrice' = 0 /\ sellPrice' = 0
      /\ totalBuy' = 0 /\ totalSell' = 0
  BY <1>1 DEF EmptyBatch
<1>4. /\ buys' \in Seq(BuyOrder) /\ sells' \in Seq(SellOrder) /\ TotalsInvariant'
      /\ PendingBuys' = {} /\ PendingSells' = {}
  BY <1>1, EmptyBatchBooks
<1>5. PendingBuys = {} /\ PendingSells = {}
  BY <1>1 DEF PendingBuys, PendingSells, LiveBuys
<1>6. /\ SumOf(Amounts(sells), {}) = 0 /\ SumOf(MaxPrices(buys), {}) = 0
      /\ SumOf(Amounts(buys), {}) = 0
      /\ SumOf(Amounts(sells'), {}) = 0 /\ SumOf(MaxPrices(buys'), {}) = 0
      /\ SumOf(Amounts(buys'), {}) = 0
  BY SumEmpty
<1>7. TypeOK'
  BY <1>1, <1>2, <1>3, <1>4 DEF BooksInv, TypeOK, bankVars
<1>8. BatchRuns'
  BY <1>1, <1>2, <1>3 DEF BatchRuns
<1>9. SupplyInvariant'
  BY <1>1, <1>4, <1>5, <1>6 DEF BooksInv, SupplyInvariant, bankVars
<1>10. LockedInvariant'
  BY <1>1, <1>4, <1>5, <1>6 DEF BooksInv, LockedInvariant, bankVars
<1>11. MaxSupplyInvariant'
  BY <1>1, <1>4, <1>5, <1>6 DEF BooksInv, MaxSupplyInvariant
<1>12. ReserveBacked'
  BY <1>1 DEF BooksInv, ReserveBacked, bankVars
<1> QED
  BY <1>4, <1>7, <1>8, <1>9, <1>10, <1>11, <1>12 DEF BooksInv

LEMMA EditBondBooks ==
  ASSUME BooksInv, NEW editor \in Account, NEW limit \in OrderLimit,
         EditBond(editor, limit)
  PROVE  BooksInv'
<1>1. UNCHANGED <<bondState, allowSells, currentSupply, currentReserve,
                  batchVars, bankVars, phase, next, halted>> /\ orderLimit' = limit
  BY DEF EditBond
<1>2. limit \in Nat
  BY BondAssumption
<1>3. LiveBuys' = LiveBuys /\ PendingBuys' = PendingBuys /\ PendingSells' = PendingSells
  BY <1>1, SameBatch
<1>4. TypeOK' /\ BatchRuns' /\ ReserveBacked'
  BY <1>1, <1>2 DEF BooksInv, TypeOK, BatchRuns, ReserveBacked, bankVars, batchVars
<1>5. SupplyInvariant' /\ LockedInvariant' /\ TotalsInvariant' /\ MaxSupplyInvariant'
  BY <1>1, <1>3 DEF BooksInv, SupplyInvariant, LockedInvariant, TotalsInvariant,
                    MaxSupplyInvariant, bankVars, batchVars
<1> QED
  BY <1>4, <1>5 DEF BooksInv

LEMMA BuyBooks ==
  ASSUME BooksInv, NEW buyer \in Account, NEW amount \in OrderAmount,
         NEW maxPrices \in OrderMaxPrice, Buy(buyer, amount, maxPrices)
  PROVE  BooksInv'
<1> DEFINE order     == [account |-> buyer, amount |-> amount,
                         maxPrices |-> maxPrices, cancelled |-> FALSE]
           buy       == totalBuy + amount
           price     == BatchBuyPrice(buy, totalSell)
           orders    == Append(buys, order)
           cancelled == Unfulfillable(orders, price)
           remaining == buy - SumOf(Amounts(orders), cancelled)
<1>1. amount \in Nat /\ maxPrices \in Nat /\ MaxSupply \in Nat
  BY BondAssumption DEF ValidParameters
<1>2. order \in BuyOrder /\ ~order.cancelled
      /\ order.amount = amount /\ order.maxPrices = maxPrices
  BY <1>1 DEF BuyOrder
<1>3. TypeOK /\ phase = "DeliverTx"
  BY DEF BooksInv, Buy, DeliverTx
<1>4. /\ maxPrices <= funds[buyer]
      /\ currentSupply + buy <= MaxSupply /\ PricesDefined(buy, totalSell)
      /\ cancelled # {} => PricesDefined(remaining, totalSell)
      /\ buys' = Cancel(orders, cancelled) /\ totalBuy' = remaining
      /\ buyPrice' = BatchBuyPrice(remaining, totalSell)
      /\ sellPrice' = BatchSellPrice(remaining, totalSell)
      /\ funds' = Refund(Debit(funds, buyer, maxPrices), orders, cancelled)
      /\ intermediary' = intermediary + maxPrices - SumOf(MaxPrices(orders), cancelled)
      /\ UNCHANGED <<bondVars, blocksRemaining, totalSell, sells, tokens,
                     reserveAccount, phase, next, halted>>
  BY DEF Buy, CanAddBuy
<1>5. totalBuy \in Nat /\ totalSell \in Nat /\ intermediary \in Nat /\ currentSupply \in Nat
      /\ buys \in Seq(BuyOrder) /\ funds \in [Account -> Nat]
  BY <1>3 DEF TypeOK
<1>6. /\ orders \in Seq(BuyOrder)
      /\ SumOf(Amounts(orders), Live(orders)) = totalBuy + amount
      /\ SumOf(MaxPrices(orders), Live(orders)) = intermediary + maxPrices
      /\ totalSell <= currentSupply
  BY <1>2, <1>3, <1>5, OpenBooks, AppendOrder
<1>7. cancelled \in SUBSET Live(orders) /\ cancelled \in SUBSET DOMAIN orders
  BY DEF Unfulfillable, Live
<1> HIDE DEF order, orders, price, cancelled
<1>8. /\ buys' \in Seq(BuyOrder)
      /\ SumOf(Amounts(orders), cancelled) \in Nat
      /\ SumOf(MaxPrices(orders), cancelled) \in Nat
      /\ SumOf(Amounts(orders), Live(orders))
           = SumOf(Amounts(buys'), Live(buys')) + SumOf(Amounts(orders), cancelled)
      /\ SumOf(MaxPrices(orders), Live(orders))
           = SumOf(MaxPrices(buys'), Live(buys')) + SumOf(MaxPrices(orders), cancelled)
  BY <1>4, <1>6, <1>7, CancelOrders
<1>9. SumOf(Amounts(buys'), Live(buys')) \in Nat /\ SumOf(MaxPrices(buys'), Live(buys')) \in Nat
  <2>1. Live(buys') \in SUBSET DOMAIN buys'
    BY DEF Live
  <2> QED
    BY <1>8, <2>1, BuySums
<1>10. remaining \in Nat /\ remaining <= buy /\ remaining = SumOf(Amounts(buys'), Live(buys'))
  BY <1>1, <1>5, <1>6, <1>8, <1>9
<1>11. intermediary' = SumOf(MaxPrices(buys'), Live(buys'))
  <2>1. intermediary'
          = intermediary + maxPrices - SumOf(MaxPrices(orders), cancelled)
    BY <1>4
  <2> QED
    BY <2>1, <1>1, <1>5, <1>6, <1>8, <1>9
<1>12. PricesDefined(remaining, totalSell)
  <2>1. CASE cancelled # {}
    BY <2>1, <1>4
  <2>2. CASE cancelled = {}
    <3>1. remaining = buy
      BY <2>2, <1>1, <1>5, SumEmpty
    <3> QED
      BY <1>4, <3>1
  <2> QED
    BY <2>1, <2>2
<1>13. currentSupply + remaining <= MaxSupply
  BY <1>1, <1>4, <1>5, <1>10
<1>14. buyPrice' \in Nat /\ sellPrice' \in Nat
  BY <1>3, <1>4, <1>5, <1>6, <1>10, <1>12, <1>13, BatchPrices
<1>15. funds' \in [Account -> Nat]
  <2> DEFINE debited == Debit(funds, buyer, maxPrices)
  <2>1. debited \in [Account -> Nat]
    BY <1>1, <1>4, <1>5 DEF Debit
  <2>2. \A x \in Account :
          SumOf(MaxPrices(orders), {i \in cancelled : orders[i].account = x}) \in Nat
    <3> TAKE x \in Account
    <3>1. {i \in cancelled : orders[i].account = x} \in SUBSET DOMAIN orders
      BY <1>7
    <3> QED
      BY <1>6, <3>1, BuySums
  <2> HIDE DEF debited
  <2>3. Refund(debited, orders, cancelled) \in [Account -> Nat]
    BY <2>1, <2>2 DEF Refund
  <2> QED
    BY <1>4, <2>3 DEF debited
<1>16. PendingBuys' = Live(buys') /\ LiveBuys' = Live(buys') /\ PendingSells' = PendingSells
  BY <1>3, <1>4 DEF PendingBuys, LiveBuys, PendingSells, Live
<1>17. TypeOK'
  BY <1>3, <1>4, <1>8, <1>9, <1>10, <1>11, <1>14, <1>15 DEF TypeOK, bondVars
<1>18. BatchRuns'
  <2>1. bondState \in {"HATCH", "OPEN"}
    BY DEF Buy
  <2> QED
    BY <1>4, <2>1 DEF BooksInv, BatchRuns, bondVars
<1>19. SupplyInvariant' /\ ReserveBacked'
  BY <1>4, <1>16 DEF BooksInv, SupplyInvariant, ReserveBacked, bondVars
<1>20. LockedInvariant' /\ TotalsInvariant'
  BY <1>4, <1>10, <1>11, <1>16 DEF BooksInv, LockedInvariant, TotalsInvariant
<1>21. MaxSupplyInvariant'
  BY <1>4, <1>10, <1>13, <1>16 DEF MaxSupplyInvariant, bondVars
<1> QED
  BY <1>17, <1>18, <1>19, <1>20, <1>21 DEF BooksInv

LEMMA SellBooks ==
  ASSUME BooksInv, NEW seller \in Account, NEW amount \in OrderAmount,
         Sell(seller, amount)
  PROVE  BooksInv'
<1> DEFINE order == [account |-> seller, amount |-> amount]
           sell  == totalSell + amount
           n     == Len(sells) + 1
<1>1. amount \in Nat /\ order \in SellOrder /\ order.amount = amount
  BY BondAssumption DEF SellOrder
<1>2. TypeOK /\ phase = "DeliverTx"
  BY DEF BooksInv, Sell, DeliverTx
<1>3. /\ bondState = "OPEN" /\ amount <= tokens[seller]
      /\ sell <= currentSupply /\ PricesDefined(totalBuy, sell)
      /\ tokens' = Debit(tokens, seller, amount)
      /\ sells' = Append(sells, order) /\ totalSell' = sell
      /\ buyPrice' = BatchBuyPrice(totalBuy, sell)
      /\ sellPrice' = BatchSellPrice(totalBuy, sell)
      /\ UNCHANGED <<bondVars, blocksRemaining, totalBuy, buys, funds, intermediary,
                     reserveAccount, phase, next, halted>>
  BY DEF Sell
<1>4. /\ totalBuy \in Nat /\ totalSell \in Nat /\ currentSupply \in Nat
      /\ sells \in Seq(SellOrder) /\ tokens \in [Account -> Nat]
  BY <1>2 DEF TypeOK
<1>5. /\ sells' \in Seq(SellOrder) /\ DOMAIN sells' = DOMAIN sells \cup {n}
      /\ n \notin DOMAIN sells
      /\ sells'[n] = order /\ \A i \in DOMAIN sells : sells'[i] = sells[i]
  BY <1>1, <1>3, <1>4
<1> HIDE DEF order, n
<1>6. /\ Amounts(sells')[n] = amount
      /\ \A i \in DOMAIN sells : Amounts(sells')[i] = Amounts(sells)[i]
  BY <1>1, <1>5 DEF Amounts
<1>7. SumOf(Amounts(sells'), DOMAIN sells') = SumOf(Amounts(sells), DOMAIN sells) + amount
  <2>1. IsFiniteSet(DOMAIN sells)
    BY <1>4, SellSums
  <2>2. \A i \in DOMAIN sells' : Amounts(sells')[i] \in Nat
    BY <1>5, SellSums
  <2>3. SumOf(Amounts(sells'), DOMAIN sells \cup {n})
          = SumOf(Amounts(sells'), DOMAIN sells) + Amounts(sells')[n]
    BY <1>5, <2>1, <2>2, SumAdd
  <2>4. SumOf(Amounts(sells'), DOMAIN sells) = SumOf(Amounts(sells), DOMAIN sells)
    BY <1>6, SumCongruence
  <2> QED
    BY <1>5, <1>6, <2>3, <2>4
<1>8. tokens' \in [Account -> Nat]
  BY <1>1, <1>3, <1>4 DEF Debit
<1>9. SumOf(tokens', Account) = SumOf(tokens, Account) - tokens[seller] + tokens'[seller]
  <2>1. \A x \in Account \ {seller} : tokens'[x] = tokens[x]
    BY <1>3, <1>4 DEF Debit
  <2>2. \A x \in Account : tokens[x] \in Nat /\ tokens'[x] \in Nat
    BY <1>4, <1>8
  <2> QED
    BY <2>1, <2>2, BondAssumption, SumUpdate
<1>10. tokens'[seller] = tokens[seller] - amount
  BY <1>3, <1>4 DEF Debit
<1>11. /\ PendingSells = DOMAIN sells /\ PendingSells' = DOMAIN sells'
       /\ currentSupply + totalBuy <= MaxSupply
       /\ LiveBuys' = LiveBuys /\ PendingBuys' = PendingBuys
  BY <1>2, <1>3, OpenBooks DEF PendingSells, PendingBuys, LiveBuys
<1>12. buyPrice' \in Nat /\ sellPrice' \in Nat
  <2>1. sell \in Nat
    BY <1>1, <1>4
  <2> QED
    BY <1>2, <1>3, <1>4, <1>11, <2>1, BatchPrices
<1>13. TypeOK'
  <2>1. totalSell' \in Nat
    BY <1>1, <1>3, <1>4
  <2>2. UNCHANGED <<bondState, allowSells, orderLimit, currentSupply, currentReserve,
                    blocksRemaining, totalBuy, buys, funds, intermediary,
                    reserveAccount, phase, next, halted>>
    BY <1>3 DEF bondVars
  <2>3. sells' \in Seq(SellOrder)
    BY <1>5
  <2> QED
    BY <1>2, <1>8, <1>12, <2>1, <2>2, <2>3 DEF TypeOK
<1>14. BatchRuns'
  BY <1>3 DEF BooksInv, BatchRuns, bondVars
<1>15. SupplyInvariant'
  <2>1. /\ SumOf(tokens, Account) + SumOf(Amounts(sells), DOMAIN sells) = currentSupply
        /\ currentSupply' = currentSupply
    BY <1>3, <1>11 DEF BooksInv, SupplyInvariant, bondVars
  <2>2. /\ SumOf(tokens, Account) \in Nat /\ SumOf(Amounts(sells), DOMAIN sells) \in Nat
        /\ tokens[seller] \in Nat
    <3>1. SumOf(tokens, Account) \in Nat
      BY <1>4, SumType, BondAssumption
    <3> QED
      BY <1>4, <3>1, SellSums
  <2>3. SumOf(tokens', Account) + SumOf(Amounts(sells'), DOMAIN sells') = currentSupply
    BY <1>1, <1>7, <1>9, <1>10, <2>1, <2>2
  <2> QED
    BY <1>11, <2>1, <2>3 DEF SupplyInvariant
<1>16. LockedInvariant' /\ MaxSupplyInvariant' /\ ReserveBacked'
  BY <1>3, <1>11 DEF BooksInv, LockedInvariant, MaxSupplyInvariant, ReserveBacked, bondVars
<1>17. TotalsInvariant'
  BY <1>3, <1>7, <1>11 DEF BooksInv, TotalsInvariant
<1> QED
  BY <1>13, <1>14, <1>15, <1>16, <1>17 DEF BooksInv

LEMMA MakeOutcomePaymentBooks ==
  ASSUME BooksInv, NEW sender \in Account, MakeOutcomePayment(sender)
  PROVE  BooksInv'
<1>1. /\ bondState' = "SETTLE" /\ OutcomePayment <= funds[sender]
      /\ funds' = Debit(funds, sender, OutcomePayment)
      /\ DepositReserve(OutcomePayment)
      /\ UNCHANGED <<allowSells, orderLimit, currentSupply, batchVars, tokens,
                     intermediary, phase, next, halted>>
  BY DEF MakeOutcomePayment
<1>2. OutcomePayment \in Nat /\ TypeOK
  BY BondAssumption DEF ValidParameters, BooksInv
<1>3. LiveBuys' = LiveBuys /\ PendingBuys' = PendingBuys /\ PendingSells' = PendingSells
  BY <1>1, SameBatch
<1>4. funds' \in [Account -> Nat]
  BY <1>1, <1>2 DEF Debit, TypeOK
<1>5. TypeOK'
  BY <1>1, <1>2, <1>4 DEF TypeOK, batchVars, DepositReserve
<1>6. BatchRuns' /\ ReserveBacked'
  BY <1>1 DEF BooksInv, BatchRuns, ReserveBacked, batchVars, DepositReserve
<1>7. SupplyInvariant' /\ LockedInvariant' /\ TotalsInvariant' /\ MaxSupplyInvariant'
  BY <1>1, <1>3 DEF BooksInv, SupplyInvariant, LockedInvariant, TotalsInvariant,
                    MaxSupplyInvariant, batchVars
<1> QED
  BY <1>5, <1>6, <1>7 DEF BooksInv

LEMMA WithdrawShareBooks ==
  ASSUME BooksInv, NEW recipient \in Account, WithdrawShare(recipient)
  PROVE  BooksInv'
<1> DEFINE owned == tokens[recipient]
           owed  == ReserveOwed(owned)
<1>1. /\ bondState = "SETTLE" /\ owned # 0 /\ phase = "DeliverTx"
      /\ owed <= currentReserve /\ owed <= reserveAccount /\ owned <= currentSupply
      /\ tokens' = Debit(tokens, recipient, owned)
      /\ funds' = Credit(funds, recipient, owed)
      /\ WithdrawReserve(owed)
      /\ currentSupply' = currentSupply - owned
      /\ UNCHANGED <<bondState, allowSells, orderLimit, batchVars, intermediary,
                     phase, next, halted>>
  BY DEF WithdrawShare, CanWithdraw, DeliverTx
<1>2. /\ TypeOK /\ owned \in Nat /\ currentSupply \in Nat /\ currentReserve \in Nat
      /\ reserveAccount \in Nat /\ tokens \in [Account -> Nat] /\ funds \in [Account -> Nat]
  BY DEF BooksInv, TypeOK
<1>3. owed \in Nat
  <2>1. currentSupply \in Nat \ {0}
    BY <1>1, <1>2
  <2>2. QuoInt(ToDec(owned), currentSupply) \in Nat
    BY <1>2, <2>1, ToDecType, Division DEF QuoInt
  <2>3. Mul(ToDec(currentReserve), QuoInt(ToDec(owned), currentSupply)) \in Nat
    BY <1>2, <2>2, ToDecType, MulType
  <2> QED
    BY <2>3, CeilType DEF ReserveOwed
<1> HIDE DEF owed
<1>4. LiveBuys' = LiveBuys /\ PendingBuys' = PendingBuys /\ PendingSells' = PendingSells
  BY <1>1, SameBatch
<1>5. tokens' \in [Account -> Nat] /\ funds' \in [Account -> Nat]
  BY <1>1, <1>2, <1>3 DEF Debit, Credit
<1>6. TypeOK'
  BY <1>1, <1>2, <1>3, <1>5 DEF TypeOK, batchVars, WithdrawReserve
<1>7. BatchRuns' /\ ReserveBacked'
  BY <1>1 DEF BooksInv, BatchRuns, ReserveBacked, batchVars, WithdrawReserve
<1>8. SupplyInvariant'
  <2>1. SumOf(tokens', Account)
          = SumOf(tokens, Account) - tokens[recipient] + tokens'[recipient]
    <3>1. \A x \in Account \ {recipient} : tokens'[x] = tokens[x]
      BY <1>1, <1>2 DEF Debit
    <3>2. \A x \in Account : tokens[x] \in Nat /\ tokens'[x] \in Nat
      BY <1>2, <1>5
    <3> QED
      BY <3>1, <3>2, BondAssumption, SumUpdate
  <2>2. tokens'[recipient] = 0
    BY <1>1, <1>2 DEF Debit
  <2>3. SumOf(tokens, Account) + SumOf(Amounts(sells), PendingSells) = currentSupply
    BY DEF BooksInv, SupplyInvariant
  <2>4. /\ SumOf(tokens, Account) \in Nat /\ SumOf(Amounts(sells), PendingSells) \in Nat
    <3>1. SumOf(tokens, Account) \in Nat
      BY <1>2, SumType, BondAssumption
    <3>2. PendingSells \in SUBSET DOMAIN sells /\ sells \in Seq(SellOrder)
      BY <1>2 DEF PendingSells, TypeOK
    <3> QED
      BY <3>1, <3>2, SellSums
  <2>5. SumOf(tokens', Account) + SumOf(Amounts(sells), PendingSells)
          = currentSupply - owned
    BY <1>2, <2>1, <2>2, <2>3, <2>4
  <2> QED
    BY <1>1, <1>4, <2>5 DEF SupplyInvariant, batchVars
<1>9. LockedInvariant' /\ TotalsInvariant'
  BY <1>1, <1>4 DEF BooksInv, LockedInvariant, TotalsInvariant, batchVars
<1>10. MaxSupplyInvariant'
  <2>1. PendingBuys \in SUBSET DOMAIN buys /\ buys \in Seq(BuyOrder)
    BY <1>2 DEF PendingBuys, LiveBuys, TypeOK
  <2>2. SumOf(Amounts(buys), PendingBuys) \in Nat
    BY <2>1, BuySums
  <2>3. currentSupply' + SumOf(Amounts(buys), PendingBuys) <= MaxSupply
    <3>1. currentSupply + SumOf(Amounts(buys), PendingBuys) <= MaxSupply /\ MaxSupply \in Nat
      BY BondAssumption DEF BooksInv, MaxSupplyInvariant, ValidParameters
    <3> QED
      BY <1>1, <1>2, <2>2, <3>1
  <2> QED
    BY <1>1, <1>4, <2>3 DEF MaxSupplyInvariant, batchVars
<1> QED
  BY <1>6, <1>7, <1>8, <1>9, <1>10 DEF BooksInv

-----------------------------------------------------------------------------
(***************************************************************************)
(* Every step of EndBlocker keeps the books                                *)
(***************************************************************************)
\* The pending orders are orders of the batch.
LEMMA PendingOrders ==
  ASSUME TypeOK
  PROVE  /\ buys \in Seq(BuyOrder) /\ sells \in Seq(SellOrder)
         /\ PendingBuys \in SUBSET DOMAIN buys /\ PendingSells \in SUBSET DOMAIN sells
         /\ IsFiniteSet(PendingBuys) /\ IsFiniteSet(PendingSells)
         /\ \A i \in DOMAIN buys : /\ buys[i] \in BuyOrder
                                   /\ Amounts(buys)[i] = buys[i].amount
                                   /\ MaxPrices(buys)[i] = buys[i].maxPrices
                                   /\ buys[i].amount \in Nat /\ buys[i].maxPrices \in Nat
         /\ \A i \in DOMAIN sells : /\ sells[i] \in SellOrder
                                    /\ Amounts(sells)[i] = sells[i].amount
                                    /\ sells[i].amount \in Nat
<1>1. buys \in Seq(BuyOrder) /\ sells \in Seq(SellOrder)
  BY DEF TypeOK
<1>2. PendingBuys \in SUBSET DOMAIN buys /\ PendingSells \in SUBSET DOMAIN sells
  BY DEF PendingBuys, PendingSells, LiveBuys
<1>3. IsFiniteSet(PendingBuys) /\ IsFiniteSet(PendingSells)
  BY <1>1, <1>2, BuySums, SellSums
<1>4. /\ \A i \in DOMAIN buys : buys[i] \in BuyOrder
      /\ \A i \in DOMAIN sells : sells[i] \in SellOrder
  BY <1>1
<1>5. \A i \in DOMAIN buys : /\ Amounts(buys)[i] = buys[i].amount
                             /\ MaxPrices(buys)[i] = buys[i].maxPrices
                             /\ buys[i].amount \in Nat /\ buys[i].maxPrices \in Nat
  BY <1>4 DEF Amounts, MaxPrices, BuyOrder
<1>6. \A i \in DOMAIN sells : /\ Amounts(sells)[i] = sells[i].amount
                              /\ sells[i].amount \in Nat
  BY <1>4 DEF Amounts, SellOrder
<1> QED
  BY <1>1, <1>2, <1>3, <1>4, <1>5, <1>6

\* How the orders still to be performed change in the loops of EndBlocker.
LEMMA EndBlockPending ==
  ASSUME BooksInv, EndBlock
  PROVE  /\ LiveBuys' = LiveBuys /\ PendingBuys' = PendingBuys
         /\ PendingSells' = PendingSells
<1>1. phase = "DeliverTx" /\ TypeOK
  BY DEF EndBlock, DeliverTx, BooksInv
<1>2. phase' \in {"Buys", "DeliverTx"} /\ next' = 1 /\ UNCHANGED <<buys, sells>>
  BY DEF EndBlock
<1>3. LiveBuys' = LiveBuys
  BY <1>2 DEF LiveBuys
<1>4. DOMAIN buys \in SUBSET (Nat \ {0})
  BY <1>1 DEF TypeOK
<1>5. \A i \in LiveBuys : i >= 1
  BY <1>4 DEF LiveBuys
<1>6. PendingBuys' = PendingBuys
  BY <1>1, <1>2, <1>3, <1>5 DEF PendingBuys
<1>7. PendingSells' = PendingSells
  BY <1>1, <1>2 DEF PendingSells
<1> QED
  BY <1>3, <1>6, <1>7

LEMMA PerformBuyPending ==
  ASSUME BooksInv, PerformBuy
  PROVE  /\ LiveBuys' = LiveBuys /\ PendingBuys' = PendingBuys \ {next}
         /\ PendingSells' = PendingSells /\ next \in PendingBuys
<1>1. /\ phase = "Buys" /\ next \in LiveBuys
      /\ next' = next + 1 /\ UNCHANGED <<buys, sells, phase>>
  BY DEF PerformBuy, batchVars
<1>2. buys \in Seq(BuyOrder) /\ next \in Nat
  BY DEF BooksInv, TypeOK
<1>3. LiveBuys' = LiveBuys /\ PendingSells' = PendingSells
  BY <1>1 DEF LiveBuys, PendingSells
<1>4. LiveBuys \in SUBSET Nat
  BY <1>2 DEF LiveBuys
<1>5. PendingBuys = {i \in LiveBuys : i >= next}
  BY <1>1 DEF PendingBuys
<1>6. PendingBuys' = {i \in LiveBuys : i >= next + 1}
  BY <1>1, <1>3 DEF PendingBuys
<1>7. \A i \in LiveBuys : (i >= next + 1) <=> (i >= next /\ i # next)
  BY <1>2, <1>4
<1>8. next \in PendingBuys
  BY <1>1, <1>2, <1>5
<1>9. PendingBuys' = PendingBuys \ {next}
  BY <1>5, <1>6, <1>7
<1> QED
  BY <1>3, <1>8, <1>9

LEMMA SkipCancelledBuyPending ==
  ASSUME BooksInv, SkipCancelledBuy
  PROVE  /\ LiveBuys' = LiveBuys /\ PendingBuys' = PendingBuys
         /\ PendingSells' = PendingSells
<1>1. /\ phase = "Buys" /\ next \notin LiveBuys
      /\ next' = next + 1 /\ UNCHANGED <<buys, sells, phase>>
  BY DEF SkipCancelledBuy, batchVars
<1>2. buys \in Seq(BuyOrder) /\ next \in Nat
  BY DEF BooksInv, TypeOK
<1>3. LiveBuys' = LiveBuys /\ PendingSells' = PendingSells
  BY <1>1 DEF LiveBuys, PendingSells
<1>4. LiveBuys \in SUBSET Nat
  BY <1>2 DEF LiveBuys
<1>5. PendingBuys = {i \in LiveBuys : i >= next}
  BY <1>1 DEF PendingBuys
<1>6. PendingBuys' = {i \in LiveBuys : i >= next + 1}
  BY <1>1, <1>3 DEF PendingBuys
<1>7. \A i \in LiveBuys : (i >= next + 1) <=> (i >= next)
  BY <1>1, <1>2, <1>4
<1> QED
  BY <1>3, <1>5, <1>6, <1>7

LEMMA FinishBuysPending ==
  ASSUME BooksInv, FinishBuys
  PROVE  /\ LiveBuys' = LiveBuys /\ PendingBuys' = {} /\ PendingBuys = {}
         /\ PendingSells' = PendingSells
<1>1. /\ phase = "Buys" /\ next \notin DOMAIN buys /\ phase' = "Sells" /\ next' = 1
      /\ UNCHANGED <<buys, sells>>
  BY DEF FinishBuys, batchVars
<1>2. buys \in Seq(BuyOrder) /\ sells \in Seq(SellOrder) /\ next \in Nat \ {0}
  BY DEF BooksInv, TypeOK
<1>3. LiveBuys' = LiveBuys
  BY <1>1 DEF LiveBuys
<1>4. DOMAIN buys = 1 .. Len(buys) /\ Len(buys) \in Nat
  BY <1>2
<1>5. \A i \in DOMAIN buys : ~(i >= next)
  BY <1>1, <1>2, <1>4
<1>6. \A i \in LiveBuys : ~(i >= next)
  BY <1>5 DEF LiveBuys
<1>7. PendingBuys' = {} /\ PendingBuys = {}
  BY <1>1, <1>6 DEF PendingBuys
<1>8. \A i \in DOMAIN sells : i >= 1
  BY <1>2
<1>9. PendingSells' = PendingSells
  BY <1>1, <1>8 DEF PendingSells
<1> QED
  BY <1>3, <1>7, <1>9

LEMMA EndBlockBooks ==
  ASSUME BooksInv, EndBlock
  PROVE  BooksInv'
<1>1. /\ phase = "DeliverTx" /\ bondState # "NONE" /\ TypeOK
      /\ blocksRemaining > 0 /\ BatchBlocks \in Nat
  BY BondAssumption DEF EndBlock, DeliverTx, BooksInv, BatchRuns, ValidParameters
<1>2. /\ blocksRemaining' = blocksRemaining - 1
      /\ phase' = IF blocksRemaining' = 0 THEN "Buys" ELSE "DeliverTx"
      /\ next' = 1
      /\ UNCHANGED <<bondVars, totalBuy, totalSell, buyPrice, sellPrice, buys, sells,
                     bankVars, halted>>
  BY DEF EndBlock
<1>3. LiveBuys' = LiveBuys /\ PendingBuys' = PendingBuys /\ PendingSells' = PendingSells
  BY EndBlockPending
<1>6. TypeOK'
  <2>1. blocksRemaining' \in 0 .. BatchBlocks
    BY <1>1, <1>2 DEF TypeOK
  <2>2. UNCHANGED <<bondState, allowSells, orderLimit, currentSupply, currentReserve,
                    totalBuy, totalSell, buyPrice, sellPrice, buys, sells, tokens, funds,
                    intermediary, reserveAccount, halted>>
    BY <1>2 DEF bondVars, bankVars
  <2>3. phase' \in {"DeliverTx", "Buys", "Sells"} /\ next' \in Nat \ {0}
    BY <1>2
  <2> QED
    BY <1>1, <2>1, <2>2, <2>3 DEF TypeOK
<1>7. BatchRuns'
  BY <1>1, <1>2 DEF TypeOK, BatchRuns, bondVars
<1>8. SupplyInvariant' /\ LockedInvariant' /\ TotalsInvariant' /\ MaxSupplyInvariant'
  BY <1>2, <1>3 DEF BooksInv, SupplyInvariant, LockedInvariant,
     TotalsInvariant, MaxSupplyInvariant, bondVars, bankVars
<1>9. ReserveBacked'
  BY <1>2 DEF BooksInv, ReserveBacked, bondVars, bankVars
<1> QED
  BY <1>6, <1>7, <1>8, <1>9 DEF BooksInv

LEMMA PerformBuyBooks ==
  ASSUME BooksInv, PerformBuy
  PROVE  BooksInv'
<1> DEFINE order   == buys[next]
           total   == TotalPrice(order, buyPrice)
           reserve == ToReserve(order)
<1>1. /\ phase = "Buys" /\ next \in LiveBuys /\ CanPerformBuy(order)
      /\ tokens' = Credit(tokens, order.account, order.amount)
      /\ intermediary' = intermediary - order.maxPrices
      /\ DepositReserve(reserve)
      /\ funds' = Credit(Credit(funds, FeeAddress, total - reserve),
                         order.account, order.maxPrices - total)
      /\ currentSupply' = currentSupply + order.amount
      /\ next' = next + 1
      /\ UNCHANGED <<bondState, allowSells, orderLimit, batchVars, phase, halted>>
  BY DEF PerformBuy
<1>2. TypeOK /\ next \in DOMAIN buys /\ next \in PendingBuys
  BY <1>1 DEF BooksInv, TypeOK, PendingBuys, LiveBuys
<1>3. /\ order \in BuyOrder /\ order.account \in Account
      /\ order.amount \in Nat /\ order.maxPrices \in Nat
      /\ Amounts(buys)[next] = order.amount /\ MaxPrices(buys)[next] = order.maxPrices
  BY <1>2, PendingOrders DEF BuyOrder
<1>4. /\ tokens \in [Account -> Nat] /\ funds \in [Account -> Nat] /\ buyPrice \in Nat
      /\ intermediary \in Nat /\ currentSupply \in Nat /\ currentReserve \in Nat
      /\ reserveAccount \in Nat /\ FeeAddress \in Account /\ next \in Nat \ {0}
  BY <1>2, BondAssumption DEF TypeOK, ValidParameters
<1>5. /\ total <= order.maxPrices /\ reserve \in Nat /\ order.maxPrices <= intermediary
      /\ total \in Nat /\ reserve <= total
  <2>1. /\ ReservePrice(order, buyPrice) \in Nat /\ total \in Nat
        /\ ReservePrice(order, buyPrice) <= total
    BY <1>3, <1>4, OrderPrices
  <2>2. reserve \in 0 .. ReservePrice(order, buyPrice)
        /\ total <= order.maxPrices /\ order.maxPrices <= intermediary
    BY <1>1 DEF CanPerformBuy, FulfillableAtPrice
  <2> HIDE DEF total, reserve
  <2> QED
    BY <2>1, <2>2
<1> HIDE DEF total, reserve, order
<1>6. LiveBuys' = LiveBuys /\ PendingBuys' = PendingBuys \ {next}
      /\ PendingSells' = PendingSells
  BY PerformBuyPending
<1>7. tokens' \in [Account -> Nat] /\ funds' \in [Account -> Nat]
  <2>1. tokens' \in [Account -> Nat]
    BY <1>1, <1>3, <1>4 DEF Credit
  <2>2. Credit(funds, FeeAddress, total - reserve) \in [Account -> Nat]
    BY <1>4, <1>5 DEF Credit
  <2>3. \A f \in [Account -> Nat] :
          Credit(f, order.account, order.maxPrices - total) \in [Account -> Nat]
    BY <1>3, <1>5 DEF Credit
  <2> QED
    BY <1>1, <2>1, <2>2, <2>3
<1>8. TypeOK'
  <2>1. /\ currentSupply' \in Nat /\ currentReserve' \in Nat /\ intermediary' \in Nat
        /\ reserveAccount' \in Nat /\ next' \in Nat \ {0}
    BY <1>1, <1>3, <1>4, <1>5 DEF DepositReserve
  <2> QED
    BY <1>1, <1>2, <1>7, <2>1 DEF TypeOK, batchVars
<1>9. BatchRuns' /\ ReserveBacked'
  BY <1>1 DEF BooksInv, BatchRuns, ReserveBacked, batchVars, DepositReserve
<1>10. SupplyInvariant'
  <2>1. SumOf(tokens', Account)
          = SumOf(tokens, Account) - tokens[order.account] + tokens'[order.account]
    <3>1. \A x \in Account \ {order.account} : tokens'[x] = tokens[x]
      BY <1>1, <1>4 DEF Credit
    <3>2. \A x \in Account : tokens[x] \in Nat /\ tokens'[x] \in Nat
      BY <1>4, <1>7
    <3> QED
      BY <1>3, <3>1, <3>2, BondAssumption, SumUpdate
  <2>2. tokens'[order.account] = tokens[order.account] + order.amount
    BY <1>1, <1>3, <1>4 DEF Credit
  <2>3. /\ SumOf(tokens, Account) \in Nat /\ SumOf(Amounts(sells), PendingSells) \in Nat
        /\ tokens[order.account] \in Nat
    <3>1. SumOf(tokens, Account) \in Nat
      BY <1>4, SumType, BondAssumption
    <3> QED
      BY <1>2, <1>3, <1>4, <3>1, PendingOrders, SellSums
  <2>4. SumOf(tokens, Account) + SumOf(Amounts(sells), PendingSells) = currentSupply
    BY DEF BooksInv, SupplyInvariant
  <2>5. SumOf(tokens', Account) + SumOf(Amounts(sells), PendingSells)
          = currentSupply + order.amount
    BY <1>3, <2>1, <2>2, <2>3, <2>4
  <2> QED
    BY <1>1, <1>6, <2>5 DEF SupplyInvariant, batchVars
<1>11. /\ SumOf(MaxPrices(buys), PendingBuys)
            = SumOf(MaxPrices(buys), PendingBuys \ {next}) + order.maxPrices
       /\ SumOf(Amounts(buys), PendingBuys)
            = SumOf(Amounts(buys), PendingBuys \ {next}) + order.amount
       /\ SumOf(MaxPrices(buys), PendingBuys \ {next}) \in Nat
       /\ SumOf(Amounts(buys), PendingBuys \ {next}) \in Nat
  <2>1. /\ IsFiniteSet(PendingBuys) /\ PendingBuys \in SUBSET DOMAIN buys
        /\ buys \in Seq(BuyOrder)
        /\ \A i \in PendingBuys : Amounts(buys)[i] \in Nat /\ MaxPrices(buys)[i] \in Nat
    BY <1>2, PendingOrders
  <2>2. /\ SumOf(MaxPrices(buys), PendingBuys)
            = SumOf(MaxPrices(buys), PendingBuys \ {next}) + MaxPrices(buys)[next]
        /\ SumOf(Amounts(buys), PendingBuys)
            = SumOf(Amounts(buys), PendingBuys \ {next}) + Amounts(buys)[next]
    BY <1>2, <2>1, SumRemove
  <2>3. PendingBuys \ {next} \in SUBSET DOMAIN buys
    BY <2>1
  <2> QED
    BY <1>3, <2>1, <2>2, <2>3, BuySums
<1>12. LockedInvariant'
  <2>1. intermediary = SumOf(MaxPrices(buys), PendingBuys)
    BY DEF BooksInv, LockedInvariant
  <2>2. intermediary' = SumOf(MaxPrices(buys), PendingBuys \ {next})
    BY <1>1, <1>3, <1>11, <2>1
  <2> QED
    BY <1>1, <1>6, <2>2 DEF LockedInvariant, batchVars
<1>13. TotalsInvariant'
  BY <1>1, <1>6 DEF BooksInv, TotalsInvariant, batchVars
<1>14. MaxSupplyInvariant'
  <2>1. currentSupply + SumOf(Amounts(buys), PendingBuys) <= MaxSupply /\ MaxSupply \in Nat
    BY BondAssumption DEF BooksInv, MaxSupplyInvariant, ValidParameters
  <2>2. currentSupply' + SumOf(Amounts(buys), PendingBuys \ {next}) <= MaxSupply
    BY <1>1, <1>3, <1>4, <1>11, <2>1
  <2> QED
    BY <1>1, <1>6, <2>2 DEF MaxSupplyInvariant, batchVars
<1> QED
  BY <1>8, <1>9, <1>10, <1>12, <1>13, <1>14 DEF BooksInv

\* Skipping a cancelled buy, or leaving a loop, changes no set of orders that
\* are still to be performed.
LEMMA SkipCancelledBuyBooks ==
  ASSUME BooksInv, SkipCancelledBuy
  PROVE  BooksInv'
<1>1. /\ phase = "Buys" /\ next \in DOMAIN buys \ LiveBuys /\ next' = next + 1
      /\ UNCHANGED <<bondVars, batchVars, bankVars, phase, halted>>
  BY DEF SkipCancelledBuy
<1>2. TypeOK /\ next \in Nat \ {0}
  BY DEF BooksInv, TypeOK
<1>3. LiveBuys' = LiveBuys /\ PendingBuys' = PendingBuys /\ PendingSells' = PendingSells
  BY SkipCancelledBuyPending
<1>5. TypeOK' /\ BatchRuns' /\ ReserveBacked'
  BY <1>1, <1>2 DEF BooksInv, TypeOK, BatchRuns, ReserveBacked, bondVars, batchVars, bankVars
<1>6. SupplyInvariant' /\ LockedInvariant' /\ TotalsInvariant' /\ MaxSupplyInvariant'
  BY <1>1, <1>3 DEF BooksInv, SupplyInvariant, LockedInvariant, TotalsInvariant,
     MaxSupplyInvariant, bondVars, batchVars, bankVars
<1> QED
  BY <1>5, <1>6 DEF BooksInv

LEMMA FinishBuysBooks ==
  ASSUME BooksInv, FinishBuys
  PROVE  BooksInv'
<1>1. /\ phase = "Buys" /\ next \notin DOMAIN buys /\ phase' = "Sells" /\ next' = 1
      /\ UNCHANGED <<bondVars, batchVars, bankVars, halted>>
  BY DEF FinishBuys
<1>2. TypeOK /\ next \in Nat \ {0}
  BY DEF BooksInv, TypeOK
<1>3. LiveBuys' = LiveBuys /\ PendingBuys' = {} /\ PendingBuys = {}
      /\ PendingSells' = PendingSells
  BY FinishBuysPending
<1>6. TypeOK'
  BY <1>1, <1>2 DEF TypeOK, bondVars, batchVars, bankVars
<1>7. BatchRuns' /\ ReserveBacked'
  BY <1>1 DEF BooksInv, BatchRuns, ReserveBacked, bondVars, batchVars, bankVars
<1>8. SupplyInvariant' /\ LockedInvariant' /\ TotalsInvariant' /\ MaxSupplyInvariant'
  BY <1>1, <1>3 DEF BooksInv, SupplyInvariant, LockedInvariant,
     TotalsInvariant, MaxSupplyInvariant, bondVars, batchVars, bankVars
<1> QED
  BY <1>6, <1>7, <1>8 DEF BooksInv

LEMMA PerformSellBooks ==
  ASSUME BooksInv, PerformSell
  PROVE  BooksInv'
<1> DEFINE order   == sells[next]
           returns == ReserveReturn(order, sellPrice)
           fees    == SellFees(order, sellPrice)
<1>1. /\ phase = "Sells" /\ next \in DOMAIN sells
      /\ returns <= reserveAccount /\ returns <= currentReserve
      /\ order.amount <= currentSupply
      /\ funds' = Credit(Credit(funds, order.account, returns - fees), FeeAddress, fees)
      /\ WithdrawReserve(returns)
      /\ currentSupply' = currentSupply - order.amount
      /\ next' = next + 1
      /\ UNCHANGED <<bondState, allowSells, orderLimit, batchVars, tokens,
                     intermediary, phase, halted>>
  BY DEF PerformSell, CanPerformSell, CanWithdraw
<1>2. TypeOK /\ next \in PendingSells
  BY <1>1 DEF BooksInv, TypeOK, PendingSells
<1>3. /\ order.account \in Account /\ order.amount \in Nat
      /\ Amounts(sells)[next] = order.amount
  BY <1>1, <1>2, PendingOrders DEF SellOrder
<1>4. /\ funds \in [Account -> Nat] /\ tokens \in [Account -> Nat] /\ sellPrice \in Nat
      /\ currentSupply \in Nat /\ currentReserve \in Nat
      /\ reserveAccount \in Nat /\ FeeAddress \in Account /\ next \in Nat \ {0}
  BY <1>2, BondAssumption DEF TypeOK, ValidParameters
<1>5. returns \in Nat /\ fees \in Nat /\ fees <= returns
  BY <1>3, <1>4, OrderPrices
<1> HIDE DEF order, returns, fees
<1>6. LiveBuys' = LiveBuys /\ PendingBuys' = PendingBuys /\ PendingBuys = {}
      /\ PendingSells' = PendingSells \ {next}
  <2>1. LiveBuys' = LiveBuys /\ PendingBuys' = {} /\ PendingBuys = {}
    BY <1>1 DEF LiveBuys, PendingBuys, batchVars
  <2>2. DOMAIN sells \in SUBSET Nat
    BY <1>2 DEF TypeOK
  <2>3. PendingSells = {i \in DOMAIN sells : i >= next}
    BY <1>1 DEF PendingSells
  <2>4. PendingSells' = {i \in DOMAIN sells : i >= next + 1}
    BY <1>1 DEF PendingSells, batchVars
  <2>5. \A i \in DOMAIN sells : (i >= next + 1) <=> (i >= next /\ i # next)
    BY <1>4, <2>2
  <2> QED
    BY <2>1, <2>3, <2>4, <2>5
<1>7. funds' \in [Account -> Nat]
  <2>1. Credit(funds, order.account, returns - fees) \in [Account -> Nat]
    BY <1>3, <1>4, <1>5 DEF Credit
  <2>2. \A f \in [Account -> Nat] : Credit(f, FeeAddress, fees) \in [Account -> Nat]
    BY <1>4, <1>5 DEF Credit
  <2> QED
    BY <1>1, <2>1, <2>2
<1>8. TypeOK'
  <2>1. /\ currentSupply' \in Nat /\ currentReserve' \in Nat
        /\ reserveAccount' \in Nat /\ next' \in Nat \ {0}
    BY <1>1, <1>3, <1>4, <1>5 DEF WithdrawReserve
  <2> QED
    BY <1>1, <1>2, <1>7, <2>1 DEF TypeOK, batchVars
<1>9. BatchRuns' /\ ReserveBacked'
  BY <1>1 DEF BooksInv, BatchRuns, ReserveBacked, batchVars, WithdrawReserve
<1>10. SupplyInvariant'
  <2>1. /\ IsFiniteSet(PendingSells) /\ PendingSells \in SUBSET DOMAIN sells
        /\ sells \in Seq(SellOrder)
        /\ \A i \in PendingSells : Amounts(sells)[i] \in Nat
    BY <1>2, PendingOrders
  <2>2. SumOf(Amounts(sells), PendingSells)
          = SumOf(Amounts(sells), PendingSells \ {next}) + Amounts(sells)[next]
    BY <1>2, <2>1, SumRemove
  <2>3. PendingSells \ {next} \in SUBSET DOMAIN sells
    BY <2>1
  <2>4. SumOf(Amounts(sells), PendingSells \ {next}) \in Nat
    BY <2>1, <2>3, SellSums
  <2>5. SumOf(tokens, Account) \in Nat
    BY <1>4, SumType, BondAssumption
  <2>6. SumOf(tokens, Account) + SumOf(Amounts(sells), PendingSells) = currentSupply
    BY DEF BooksInv, SupplyInvariant
  <2>7. SumOf(tokens, Account) + SumOf(Amounts(sells), PendingSells \ {next})
          = currentSupply'
    BY <1>1, <1>3, <1>4, <2>2, <2>4, <2>5, <2>6
  <2> QED
    BY <1>1, <1>6, <2>7 DEF SupplyInvariant, batchVars
<1>11. LockedInvariant' /\ TotalsInvariant'
  BY <1>1, <1>6 DEF BooksInv, LockedInvariant, TotalsInvariant, batchVars
<1>12. MaxSupplyInvariant'
  <2>1. currentSupply + SumOf(Amounts(buys), {}) <= MaxSupply /\ MaxSupply \in Nat
    BY <1>6, BondAssumption DEF BooksInv, MaxSupplyInvariant, ValidParameters
  <2>2. SumOf(Amounts(buys), {}) = 0
    BY SumEmpty
  <2>3. currentSupply' + SumOf(Amounts(buys), {}) <= MaxSupply
    BY <1>1, <1>3, <1>4, <2>1, <2>2
  <2> QED
    BY <1>1, <1>6, <2>3 DEF MaxSupplyInvariant, batchVars
<1> QED
  BY <1>8, <1>9, <1>10, <1>11, <1>12 DEF BooksInv

LEMMA PanicBooks ==
  ASSUME BooksInv, Panic
  PROVE  BooksInv'
<1>1. halted' = TRUE /\ UNCHANGED <<bondVars, batchVars, bankVars, phase, next>>
  BY DEF Panic
<1>2. LiveBuys' = LiveBuys /\ PendingBuys' = PendingBuys /\ PendingSells' = PendingSells
  BY <1>1, SameBatch
<1>3. TypeOK' /\ BatchRuns' /\ ReserveBacked'
  BY <1>1 DEF BooksInv, TypeOK, BatchRuns, ReserveBacked, bondVars, batchVars, bankVars
<1>4. SupplyInvariant' /\ LockedInvariant' /\ TotalsInvariant' /\ MaxSupplyInvariant'
  BY <1>1, <1>2 DEF BooksInv, SupplyInvariant, LockedInvariant, TotalsInvariant,
     MaxSupplyInvariant, bondVars, batchVars, bankVars
<1> QED
  BY <1>3, <1>4 DEF BooksInv

LEMMA FinishBatchBooks ==
  ASSUME BooksInv, FinishBatch
  PROVE  BooksInv'
<1>1. /\ phase = "Sells" /\ next \notin DOMAIN sells
      /\ bondState' \in {bondState, "OPEN"} /\ allowSells' \in BOOLEAN
      /\ EmptyBatch /\ phase' = "DeliverTx" /\ next' = 1
      /\ UNCHANGED <<orderLimit, currentSupply, currentReserve, bankVars, halted>>
  BY DEF FinishBatch, BooksInv, TypeOK
<1>2. TypeOK /\ next \in Nat \ {0}
  BY DEF BooksInv, TypeOK
<1>3. PendingBuys = {} /\ PendingSells = {}
  <2>1. DOMAIN sells = 1 .. Len(sells) /\ Len(sells) \in Nat
    BY <1>2 DEF TypeOK
  <2>2. \A i \in DOMAIN sells : ~(i >= next)
    BY <1>1, <1>2, <2>1
  <2> QED
    BY <1>1, <2>2 DEF PendingBuys, PendingSells
<1>4. /\ buys' \in Seq(BuyOrder) /\ sells' \in Seq(SellOrder) /\ TotalsInvariant'
      /\ PendingBuys' = {} /\ PendingSells' = {}
  BY <1>1, EmptyBatchBooks
<1>5. /\ SumOf(Amounts(sells), {}) = 0 /\ SumOf(MaxPrices(buys), {}) = 0
      /\ SumOf(Amounts(buys), {}) = 0
      /\ SumOf(Amounts(sells'), {}) = 0 /\ SumOf(MaxPrices(buys'), {}) = 0
      /\ SumOf(Amounts(buys'), {}) = 0
  BY SumEmpty
<1>6. BatchBlocks \in Nat \ {0} /\ blocksRemaining' = BatchBlocks
      /\ buyPrice' = 0 /\ sellPrice' = 0 /\ totalBuy' = 0 /\ totalSell' = 0
      /\ buys' = <<>> /\ sells' = <<>>
  BY <1>1, BondAssumption DEF ValidParameters, EmptyBatch
<1>7. TypeOK'
  BY <1>1, <1>2, <1>4, <1>6 DEF TypeOK, bankVars
<1>8. BatchRuns'
  <2>1. bondState # "NONE" /\ blocksRemaining' > 0
    BY <1>1, <1>6 DEF BooksInv, BatchRuns
  <2> QED
    BY <1>1, <2>1 DEF BatchRuns
<1>9. SupplyInvariant'
  BY <1>1, <1>3, <1>4, <1>5 DEF BooksInv, SupplyInvariant, bankVars
<1>10. LockedInvariant'
  BY <1>1, <1>3, <1>4, <1>5 DEF BooksInv, LockedInvariant, bankVars
<1>11. MaxSupplyInvariant'
  BY <1>1, <1>3, <1>4, <1>5 DEF BooksInv, MaxSupplyInvariant
<1>12. ReserveBacked'
  BY <1>1 DEF BooksInv, ReserveBacked, bankVars
<1> QED
  BY <1>4, <1>7, <1>8, <1>9, <1>10, <1>11, <1>12 DEF BooksInv

-----------------------------------------------------------------------------
(***************************************************************************)
(* Theorems                                                                *)
(***************************************************************************)
\* The books are right from the start.
LEMMA InitBooks == Init => BooksInv
<1> SUFFICES ASSUME Init PROVE BooksInv
  OBVIOUS
<1>1. /\ bondState = "NONE" /\ allowSells = FALSE /\ orderLimit = 0
      /\ currentSupply = 0 /\ currentReserve = 0 /\ blocksRemaining = BatchBlocks
      /\ totalBuy = 0 /\ totalSell = 0 /\ buyPrice = 0 /\ sellPrice = 0
      /\ buys = <<>> /\ sells = <<>>
      /\ tokens = [x \in Account |-> 0] /\ funds = InitialFunds
      /\ intermediary = 0 /\ reserveAccount = 0
      /\ phase = "DeliverTx" /\ next = 1 /\ halted = FALSE
  BY DEF Init
<1>2. BatchBlocks \in Nat \ {0} /\ InitialFunds \in [Account -> Nat] /\ MaxSupply \in Nat
  BY BondAssumption DEF ValidParameters
<1>3. TypeOK /\ BatchRuns /\ ReserveBacked
  <2>1. buys \in Seq(BuyOrder) /\ sells \in Seq(SellOrder)
    BY <1>1
  <2>2. blocksRemaining \in 0 .. BatchBlocks /\ blocksRemaining > 0
    BY <1>1, <1>2
  <2>3. tokens \in [Account -> Nat] /\ funds \in [Account -> Nat]
    BY <1>1, <1>2
  <2>4. /\ bondState = "NONE" /\ allowSells \in BOOLEAN /\ halted \in BOOLEAN
        /\ orderLimit = 0 /\ phase = "DeliverTx" /\ next = 1
    BY <1>1
  <2>5. /\ currentSupply \in Nat /\ currentReserve \in Nat /\ totalBuy \in Nat
        /\ totalSell \in Nat /\ buyPrice \in Nat /\ sellPrice \in Nat
        /\ intermediary \in Nat /\ reserveAccount \in Nat
    BY <1>1
  <2>6. TypeOK
    BY <2>1, <2>2, <2>3, <2>4, <2>5 DEF TypeOK
  <2> QED
    BY <1>1, <2>2, <2>6 DEF BatchRuns, ReserveBacked
<1>4. LiveBuys = {} /\ PendingBuys = {} /\ PendingSells = {} /\ DOMAIN sells = {}
  BY <1>1 DEF LiveBuys, PendingBuys, PendingSells
<1>5. SumOf(Amounts(sells), {}) = 0 /\ SumOf(MaxPrices(buys), {}) = 0
      /\ SumOf(Amounts(buys), {}) = 0
  BY SumEmpty
<1>6. SumOf(tokens, Account) = 0
  <2>1. \A x \in Account : Coins(tokens, x) = {}
    BY <1>1 DEF Coins
  <2>2. AllCoins(tokens, Account) = {}
    BY <2>1 DEF AllCoins
  <2> QED
    BY <2>2, FS_EmptySet DEF SumOf
<1> QED
  BY <1>1, <1>2, <1>3, <1>4, <1>5, <1>6 DEF BooksInv, SupplyInvariant, LockedInvariant,
     TotalsInvariant, MaxSupplyInvariant

LEMMA NextBooks == BooksInv /\ [Next]_vars => BooksInv'
<1> SUFFICES ASSUME BooksInv, [Next]_vars PROVE BooksInv'
  OBVIOUS
<1>1. CASE Transaction
  BY <1>1, CreateBondBooks, EditBondBooks, BuyBooks, SellBooks, MakeOutcomePaymentBooks,
     WithdrawShareBooks DEF Transaction
<1>2. CASE EndBlocker
  BY <1>2, EndBlockBooks, PerformBuyBooks, SkipCancelledBuyBooks, FinishBuysBooks,
     PerformSellBooks, FinishBatchBooks, PanicBooks DEF EndBlocker
<1>3. CASE UNCHANGED vars
  <2>1. UNCHANGED <<bondVars, batchVars, bankVars, phase, next, halted>>
    BY <1>3 DEF vars
  <2>2. LiveBuys' = LiveBuys /\ PendingBuys' = PendingBuys /\ PendingSells' = PendingSells
    BY <2>1, SameBatch
  <2>3. TypeOK' /\ BatchRuns' /\ ReserveBacked'
    BY <2>1 DEF BooksInv, TypeOK, BatchRuns, ReserveBacked, bondVars, batchVars, bankVars
  <2>4. SupplyInvariant' /\ LockedInvariant' /\ TotalsInvariant' /\ MaxSupplyInvariant'
    BY <2>1, <2>2 DEF BooksInv, SupplyInvariant, LockedInvariant, TotalsInvariant,
       MaxSupplyInvariant, bondVars, batchVars, bankVars
  <2> QED
    BY <2>3, <2>4 DEF BooksInv
<1> QED
  BY <1>1, <1>2, <1>3 DEF Next

\* The books of the bond are right in every reachable state.
THEOREM BooksAlwaysRight == Spec => []BooksInv
BY InitBooks, NextBooks, PTL DEF Spec

\* Every variable keeps its type; in particular no balance, price or total ever
\* becomes negative, so no coin subtraction of the keeper underflows.
THEOREM TypeCorrect == Spec => []TypeOK
BY BooksAlwaysRight, PTL DEF BooksInv

\* The supply invariant the chain asserts about each bond
\* (keeper/invariants.go), at every step and not only between blocks.
THEOREM SupplyCorrect == Spec => []SupplyInvariant
BY BooksAlwaysRight, PTL DEF BooksInv

\* The intermediary account holds exactly what the pending buys have locked.
THEOREM LockedCorrect == Spec => []LockedInvariant
BY BooksAlwaysRight, PTL DEF BooksInv

\* The totals the batch is priced by are those of its live orders.
THEOREM TotalsCorrect == Spec => []TotalsInvariant
BY BooksAlwaysRight, PTL DEF BooksInv

\* The supply stays within max_supply, with all pending buys performed.
THEOREM MaxSupplyCorrect == Spec => []MaxSupplyInvariant
BY BooksAlwaysRight, PTL DEF BooksInv

\* The reserve of the bond record is in the reserve module account.
THEOREM ReserveIsBacked == Spec => []ReserveBacked
BY BooksAlwaysRight, PTL DEF BooksInv

\* All the books of a bond agree, at every step of a transaction or a batch.
THEOREM BooksCorrect == Spec => []BooksAgree
BY SupplyCorrect, LockedCorrect, TotalsCorrect, ReserveIsBacked, PTL DEF BooksAgree

=============================================================================
