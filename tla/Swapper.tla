------------------------------- MODULE Swapper -------------------------------
(***************************************************************************)
(* A bond whose function_type is swapper_function: its reserve is a pool   *)
(* of two tokens, its bond tokens are shares of the pool, and besides buys *)
(* and sells its batch holds swaps of one reserve token for the other.     *)
(* The steps are those of Bonds: a transaction is one action, EndBlocker   *)
(* performs one order per step, and a panic in it halts the chain.         *)
(***************************************************************************)
EXTENDS Decimals, Coins, Sequences, Sums

CONSTANTS
  Account,            \* accounts with a DID
  Creator,            \* creator_did of the bond
  FeeAddress,         \* fee_address of the bond
  ReserveToken1, ReserveToken2,  \* reserve_tokens, in their sorted order
  Token,              \* the bond token
  MaxSupply,          \* max_supply
  BatchBlocks,        \* batch_blocks
  TxFeePercentage,    \* tx_fee_percentage, a decimal
  ExitFeePercentage,  \* exit_fee_percentage, a decimal
  OutcomePayment,     \* outcome_payment
  Sanity,             \* bound: pairs of a sanity rate and margin percentage
  OrderLimits,        \* bound: the order quantity limits, 0 for no limit
  OrderAmount,        \* bound: the bond tokens of a buy or a sell
  OrderMaxPrices,     \* bound: the max prices of a buy
  SwapAmount,         \* bound: the reserve tokens of a swap
  MaxOrders,          \* bound: the orders in one batch
  MaxHeight,          \* bound: the blocks
  InitialFunds        \* reserve tokens of each account at the start

ASSUME SwapperAssumption ==
  /\ ReserveToken1 # ReserveToken2 /\ Denom = {ReserveToken1, ReserveToken2}
  /\ Token \notin Denom
  /\ IsFiniteSet(Account) /\ Creator \in Account /\ FeeAddress \in Account
  /\ MaxSupply \in Nat \ {0} /\ BatchBlocks \in Nat \ {0} /\ MaxOrders \in Nat
  /\ MaxHeight \in Nat
  /\ TxFeePercentage \in Nat /\ ExitFeePercentage \in Nat
  /\ TxFeePercentage + ExitFeePercentage < ToDec(100)
  /\ OutcomePayment \in CoinSet
  /\ Sanity \subseteq [rate : Nat, margin : Nat]
  /\ OrderLimits \subseteq [Denom \cup {Token} -> Nat]
  /\ OrderAmount \subseteq Nat \ {0} /\ SwapAmount \subseteq Nat \ {0}
  /\ OrderMaxPrices \subseteq [Denom -> Nat \ {0}]
  /\ InitialFunds \in [Account -> CoinSet]

VARIABLES
  bondState, allowSells, orderLimits, sanity, currentSupply, currentReserve, \* Bond
  blocksRemaining, totalBuy, totalSell, buyPrices, sellPrices,  \* Batch
  buys, sells, swaps,
  tokens,         \* bond tokens of each account
  funds,          \* reserve tokens of each account
  intermediary,   \* BatchesIntermediaryAccount: coins locked by buys and swaps
  reserveAccount, \* BondsReserveAccount
  height,         \* the blocks that have ended
  phase,          \* "DeliverTx", or the loop EndBlocker is in
  next,           \* the next order of that loop
  halted          \* a panic in EndBlocker has stopped the chain

bondVars == <<bondState, allowSells, orderLimits, sanity, currentSupply, currentReserve>>
batchVars == <<blocksRemaining, totalBuy, totalSell, buyPrices, sellPrices,
               buys, sells, swaps>>
bankVars == <<tokens, funds, intermediary, reserveAccount>>
loopVars == <<height, phase, next, halted>>
vars == <<bondVars, batchVars, bankVars, loopVars>>

BuyOrder == [account : Account, amount : Nat, maxPrices : CoinSet, cancelled : BOOLEAN]
SellOrder == [account : Account, amount : Nat]
SwapOrder == [account : Account, from : Denom, to : Denom, amount : Nat, cancelled : BOOLEAN]

-----------------------------------------------------------------------------
(***************************************************************************)
(* Prices                                                                  *)
(***************************************************************************)
\* GetReserveDeltaForLiquidityDelta: the share of the reserve that n bond
\* tokens are of the supply, whether they are minted or burned.
ReserveDelta(n) ==
  LET alpha == Quo(ToDec(n), ToDec(currentSupply))
  IN  [d \in Denom |-> Mul(alpha, ToDec(currentReserve[d]))]

CurrentPricesPT == ReserveDelta(1)

\* The price of the side of the batch that has more tokens: the matched ones
\* at the current price, the rest along the curve.
MatchedPrices(more, fewer) ==
  [d \in Denom |-> Quo(Mul(CurrentPricesPT[d], ToDec(fewer)) + ReserveDelta(more - fewer)[d],
                       ToDec(more))]
BatchBuyPrices(buy, sell) ==
  IF buy > sell THEN MatchedPrices(buy, sell) ELSE CurrentPricesPT
BatchSellPrices(buy, sell) ==
  IF sell > buy THEN MatchedPrices(sell, buy) ELSE CurrentPricesPT

\* Fees are rounded up.
Fee(amount, percentage) == CeilInt(Mul(QuoInt(percentage, 100), amount))

ReservePrices(order, prices) == [d \in Denom |-> CeilInt(MulInt(prices[d], order.amount))]
TotalPrices(order, prices) ==
  [d \in Denom |-> ReservePrices(order, prices)[d]
                     + Fee(MulInt(prices[d], order.amount), TxFeePercentage)]
FulfillableAtPrice(order, prices) == Covers(order.maxPrices, TotalPrices(order, prices))

ReserveReturns(order, prices) ==
  [d \in Denom |-> TruncateInt(MulInt(prices[d], order.amount))]

\* Mutant of SellFees: without AdjustFees.
SellFeesInFull(order, prices) ==
  [d \in Denom |->
     LET returns == MulInt(prices[d], order.amount)
     IN  Fee(returns, TxFeePercentage) + Fee(returns, ExitFeePercentage)]

\* The fees of a sell: AdjustFees lets them take no more than it returns.
SellFees(order, prices) ==
  [d \in Denom |->
     LET returns == MulInt(prices[d], order.amount)
         fees    == Fee(returns, TxFeePercentage) + Fee(returns, ExitFeePercentage)
         limit   == TruncateInt(returns)
     IN  IF fees > limit THEN limit ELSE fees]

\* The rate of the two reserve tokens against the sanity rate and its margin;
\* a sanity rate of zero turns the check off.
ReservesViolateSanityRate(reserves) ==
  LET rate   == Quo(ToDec(reserves[ReserveToken1]), ToDec(reserves[ReserveToken2]))
      margin == Quo(sanity.margin, ToDec(100))
      low    == Mul(sanity.rate, Unit - margin)
  IN  /\ sanity.rate # 0
      /\ \/ rate < low
         \/ rate > Mul(sanity.rate, Unit + margin)

-----------------------------------------------------------------------------
(***************************************************************************)
(* Orders and balances                                                     *)
(***************************************************************************)
Single(d, n) == [NoCoins EXCEPT ![d] = n]
Move(balances, account, coins) == [balances EXCEPT ![account] = Add(@, coins)]
Take(balances, account, coins) == [balances EXCEPT ![account] = Sub(@, coins)]
Mint(account, n) == tokens' = [tokens EXCEPT ![account] = @ + n]
Burn(account, n) == tokens' = [tokens EXCEPT ![account] = @ - n]

Amounts(orders) == [i \in DOMAIN orders |-> orders[i].amount]
LiveBuys == {i \in DOMAIN buys : ~buys[i].cancelled}

\* The coins locked by a set of buys, and by a set of swaps.
LockedByBuys(orders, which) ==
  [d \in Denom |-> SumOf([i \in which |-> orders[i].maxPrices[d]], which)]
LockedBySwaps(which) ==
  [d \in Denom |-> SumOf([i \in which |-> swaps[i].amount],
                         {i \in which : swaps[i].from = d})]

\* The orders EndBlocker has still to perform.
PendingBuys == {i \in LiveBuys : /\ phase \notin {"Sells", "Swaps"}
                                 /\ phase = "Buys" => i >= next}
PendingSells == {i \in DOMAIN sells : /\ phase # "Swaps"
                                      /\ phase = "Sells" => i >= next}
PendingSwaps == {i \in DOMAIN swaps : phase = "Swaps" => i >= next}

\* The reserve is in the module account, and its amount in the bond.
DepositReserve(coins) ==
  /\ reserveAccount' = Add(reserveAccount, coins)
  /\ currentReserve' = Add(currentReserve, coins)
CanWithdraw(coins) == Covers(reserveAccount, coins) /\ Covers(currentReserve, coins)
WithdrawReserve(coins) ==
  /\ reserveAccount' = Sub(reserveAccount, coins)
  /\ currentReserve' = Sub(currentReserve, coins)

LimitExceeded(d, amount) == orderLimits[d] # 0 /\ amount > orderLimits[d]

\* Mutant of EmptyBatch: the swaps of the batch that ends stay in the books.
EmptyBatchKeepsSwaps ==
  /\ blocksRemaining' = BatchBlocks
  /\ totalBuy' = 0 /\ totalSell' = 0
  /\ buyPrices' = NoCoins /\ sellPrices' = NoCoins
  /\ buys' = <<>> /\ sells' = <<>> /\ UNCHANGED swaps

\* NewBatch.
EmptyBatch ==
  /\ blocksRemaining' = BatchBlocks
  /\ totalBuy' = 0 /\ totalSell' = 0
  /\ buyPrices' = NoCoins /\ sellPrices' = NoCoins
  /\ buys' = <<>> /\ sells' = <<>> /\ swaps' = <<>>

-----------------------------------------------------------------------------
(***************************************************************************)
(* Transactions                                                            *)
(***************************************************************************)
DeliverTx == phase = "DeliverTx" /\ ~halted /\ height < MaxHeight
RoomForOrder == Len(buys) + Len(sells) + Len(swaps) < MaxOrders

Init ==
  /\ bondState = "NONE" /\ allowSells = FALSE
  /\ orderLimits = [x \in Denom \cup {Token} |-> 0]
  /\ sanity = [rate |-> 0, margin |-> 0]
  /\ currentSupply = 0 /\ currentReserve = NoCoins
  /\ blocksRemaining = BatchBlocks
  /\ totalBuy = 0 /\ totalSell = 0 /\ buyPrices = NoCoins /\ sellPrices = NoCoins
  /\ buys = <<>> /\ sells = <<>> /\ swaps = <<>>
  /\ tokens = [a \in Account |-> 0] /\ funds = InitialFunds
  /\ intermediary = NoCoins /\ reserveAccount = NoCoins
  /\ height = 0 /\ phase = "DeliverTx" /\ next = 1 /\ halted = FALSE

\* handleMsgCreateBond for a swapper: open from the start.
CreateBond(allow, limits, newSanity) ==
  /\ DeliverTx /\ bondState = "NONE"
  /\ bondState' = "OPEN" /\ allowSells' = allow
  /\ orderLimits' = limits /\ sanity' = newSanity
  /\ EmptyBatch
  /\ UNCHANGED <<currentSupply, currentReserve, bankVars, loopVars>>

\* handleMsgEditBond: each field is replaced or left alone.
EditBond(editor, limits, newSanity) ==
  /\ DeliverTx /\ bondState # "NONE" /\ editor = Creator
  /\ orderLimits' = limits /\ sanity' = newSanity
  /\ UNCHANGED <<bondState, allowSells, currentSupply, currentReserve,
                 batchVars, bankVars, loopVars>>

\* What handleMsgBuy asks of every buy.
CanBuy(buyer, amount, maxPrices) ==
  /\ DeliverTx /\ bondState = "OPEN"
  /\ ~LimitExceeded(Token, amount)
  /\ Covers(funds[buyer], maxPrices)

\* performFirstSwapperFunctionBuy: the first tokens fix the price of the pool;
\* nothing is batched, no fee is taken, and max_supply is not looked at.
FirstBuy(buyer, amount, maxPrices) ==
  /\ CanBuy(buyer, amount, maxPrices)
  /\ currentSupply = 0
  /\ ~ReservesViolateSanityRate(maxPrices)
  /\ funds' = Take(funds, buyer, maxPrices)
  /\ DepositReserve(maxPrices)
  /\ Mint(buyer, amount)
  /\ currentSupply' = amount
  /\ UNCHANGED <<bondState, allowSells, orderLimits, sanity, batchVars,
                 intermediary, loopVars>>

\* CancelUnfulfillableBuys, one pass over the batch at the given prices.
Unfulfillable(orders, prices) ==
  {i \in DOMAIN orders : ~orders[i].cancelled /\ ~FulfillableAtPrice(orders[i], prices)}
\* Mutant of Cancel: the flag is set on a copy of the order.
CancelCopy(orders, which) == orders

Cancel(orders, which) ==
  [i \in DOMAIN orders |-> IF i \in which THEN [orders[i] EXCEPT !.cancelled = TRUE]
                                          ELSE orders[i]]
Refund(balances, orders, which) ==
  [a \in Account |->
     Add(balances[a], LockedByBuys(orders, {i \in which : orders[i].account = a}))]

\* handleMsgBuy once the pool has tokens: locks the max prices, adds the order,
\* cancels every order it has priced out and prices the batch again.
Buy(buyer, amount, maxPrices) ==
  LET order == [account |-> buyer, amount |-> amount,
                maxPrices |-> maxPrices, cancelled |-> FALSE]
      buy       == totalBuy + amount
      orders    == Append(buys, order)
      cancelled == Unfulfillable(orders, BatchBuyPrices(buy, totalSell))
      remaining == buy - SumOf(Amounts(orders), cancelled)
  IN  /\ CanBuy(buyer, amount, maxPrices) /\ currentSupply # 0 /\ RoomForOrder
      /\ currentSupply + buy <= MaxSupply
      /\ FulfillableAtPrice(order, BatchBuyPrices(buy, totalSell))
      /\ buys' = Cancel(orders, cancelled)
      /\ totalBuy' = remaining
      /\ buyPrices' = BatchBuyPrices(remaining, totalSell)
      /\ sellPrices' = BatchSellPrices(remaining, totalSell)
      /\ funds' = Refund(Take(funds, buyer, maxPrices), orders, cancelled)
      /\ intermediary' = Sub(Add(intermediary, maxPrices), LockedByBuys(orders, cancelled))
      /\ UNCHANGED <<bondVars, blocksRemaining, totalSell, sells, swaps, tokens,
                     reserveAccount, loopVars>>

\* handleMsgSell: the tokens are burned at once.
Sell(seller, amount) ==
  LET sell == totalSell + amount
  IN  /\ DeliverTx /\ allowSells /\ bondState = "OPEN" /\ RoomForOrder
      /\ ~LimitExceeded(Token, amount)
      /\ amount <= tokens[seller] /\ sell <= currentSupply
      /\ Burn(seller, amount)
      /\ sells' = Append(sells, [account |-> seller, amount |-> amount])
      /\ totalSell' = sell
      /\ buyPrices' = BatchBuyPrices(totalBuy, sell)
      /\ sellPrices' = BatchSellPrices(totalBuy, sell)
      /\ UNCHANGED <<bondVars, blocksRemaining, totalBuy, buys, swaps, funds,
                     intermediary, reserveAccount, loopVars>>

\* handleMsgSwap: locks the coins; what they are worth is found out when the
\* swap is performed.
Swap(swapper, from, to, amount) ==
  /\ DeliverTx /\ bondState = "OPEN" /\ RoomForOrder
  /\ from # to /\ ~LimitExceeded(from, amount)
  /\ amount <= funds[swapper][from]
  /\ funds' = Take(funds, swapper, Single(from, amount))
  /\ intermediary' = Add(intermediary, Single(from, amount))
  /\ swaps' = Append(swaps, [account |-> swapper, from |-> from, to |-> to,
                             amount |-> amount, cancelled |-> FALSE])
  /\ UNCHANGED <<bondVars, blocksRemaining, totalBuy, totalSell, buyPrices, sellPrices,
                 buys, sells, tokens, reserveAccount, loopVars>>

\* handleMsgMakeOutcomePayment: settles the bond, the batch stays as it is.
MakeOutcomePayment(sender) ==
  /\ DeliverTx /\ bondState = "OPEN" /\ OutcomePayment # NoCoins
  /\ Covers(funds[sender], OutcomePayment)
  /\ funds' = Take(funds, sender, OutcomePayment)
  /\ DepositReserve(OutcomePayment)
  /\ bondState' = "SETTLE"
  /\ UNCHANGED <<allowSells, orderLimits, sanity, currentSupply, batchVars, tokens,
                 intermediary, loopVars>>

\* handleMsgWithdrawShare: all tokens of the recipient for their share of each
\* reserve token.
WithdrawShare(recipient) ==
  LET owned == tokens[recipient]
      share == QuoInt(ToDec(owned), currentSupply)
      owed  == [d \in Denom |-> TruncateInt(Mul(ToDec(currentReserve[d]), share))]
  IN  /\ DeliverTx /\ bondState = "SETTLE" /\ owned # 0
      /\ CanWithdraw(owed) /\ owned <= currentSupply
      /\ Burn(recipient, owned)
      /\ funds' = Move(funds, recipient, owed)
      /\ WithdrawReserve(owed)
      /\ currentSupply' = currentSupply - owned
      /\ UNCHANGED <<bondState, allowSells, orderLimits, sanity, batchVars,
                     intermediary, loopVars>>

-----------------------------------------------------------------------------
(***************************************************************************)
(* EndBlocker                                                              *)
(***************************************************************************)
\* A block passes; the orders are performed when none remains for the batch.
EndBlock ==
  /\ DeliverTx /\ bondState # "NONE"
  /\ height' = height + 1
  /\ blocksRemaining' = blocksRemaining - 1
  /\ phase' = IF blocksRemaining' = 0 THEN "Buys" ELSE "DeliverTx"
  /\ next' = 1
  /\ UNCHANGED <<bondVars, totalBuy, totalSell, buyPrices, sellPrices, buys, sells,
                 swaps, bankVars, halted>>

\* An order of the loop that is not cancelled, and the step to the one after it.
Performing(loop, order, orders) ==
  /\ phase = loop /\ ~halted
  /\ next \in DOMAIN orders /\ order = orders[next]
NextOrder == next' = next + 1 /\ UNCHANGED <<height, phase, halted>>

CanPerformBuy(order) ==
  FulfillableAtPrice(order, buyPrices) /\ Covers(intermediary, order.maxPrices)

\* PerformBuyAtPrice: mints the tokens and divides the locked max prices between
\* the reserve, the fee address and the buyer.
PerformBuy ==
  \E order \in {buys[i] : i \in LiveBuys} :
    LET total   == TotalPrices(order, buyPrices)
        reserve == ReservePrices(order, buyPrices)
    IN  /\ Performing("Buys", order, buys) /\ CanPerformBuy(order)
        /\ Mint(order.account, order.amount)
        /\ intermediary' = Sub(intermediary, order.maxPrices)
        /\ DepositReserve(reserve)
        /\ funds' = Move(Move(funds, FeeAddress, Sub(total, reserve)),
                         order.account, Sub(order.maxPrices, total))
        /\ currentSupply' = currentSupply + order.amount
        /\ NextOrder
        /\ UNCHANGED <<bondState, allowSells, orderLimits, sanity, batchVars>>

SkipCancelledBuy ==
  /\ phase = "Buys" /\ ~halted
  /\ next \in DOMAIN buys \ LiveBuys
  /\ NextOrder
  /\ UNCHANGED <<bondVars, batchVars, bankVars>>

CanPerformSell(order) ==
  CanWithdraw(ReserveReturns(order, sellPrices)) /\ order.amount <= currentSupply

\* PerformSellAtPrice: pays seller and fee address out of the reserve.
PerformSell ==
  \E order \in {sells[i] : i \in DOMAIN sells} :
    LET returns == ReserveReturns(order, sellPrices)
        fees    == SellFees(order, sellPrices)
    IN  /\ Performing("Sells", order, sells) /\ CanPerformSell(order)
        /\ funds' = Move(Move(funds, order.account, Sub(returns, fees)), FeeAddress, fees)
        /\ WithdrawReserve(returns)
        /\ currentSupply' = currentSupply - order.amount
        /\ NextOrder
        /\ UNCHANGED <<bondState, allowSells, orderLimits, sanity, batchVars, tokens,
                       intermediary>>

SwapFee(order) == Fee(ToDec(order.amount), TxFeePercentage)
SwapInput(order) == order.amount - SwapFee(order)

\* Mutant of SwapOutput: the input is not yet in the pool when the rate is taken.
SwapOutputAtSpotPrice(order) ==
  IF currentReserve[order.from] = 0 THEN 0
  ELSE (SwapInput(order) * currentReserve[order.to]) \div currentReserve[order.from]

\* GetReturnsForSwap: the Uniswap formula, which keeps the product of the two
\* reserves, rounded down.
SwapOutput(order) ==
  (SwapInput(order) * currentReserve[order.to])
    \div (currentReserve[order.from] + SwapInput(order))

ReserveAfterSwap(order) ==
  Sub(Add(currentReserve, Single(order.from, SwapInput(order))),
      Single(order.to, SwapOutput(order)))

\* The errors PerformSwap meets before any coin has moved: the swap is cancelled.
SwapAllowed(order) ==
  /\ SwapInput(order) # 0
  /\ SwapOutput(order) \notin {0, currentReserve[order.to]}
  /\ ~ReservesViolateSanityRate(ReserveAfterSwap(order))

\* The errors after that: they panic.
CanPerformSwap(order) ==
  /\ Covers(intermediary, Single(order.from, order.amount))
  /\ SwapAllowed(order) => CanWithdraw(Single(order.to, SwapOutput(order)))

\* PerformSwap: the output is paid out of the reserve, the input and the fee out
\* of the locked coins.
PerformSwap ==
  \E order \in {swaps[i] : i \in DOMAIN swaps} :
    LET out == Single(order.to, SwapOutput(order))
        fee == Single(order.from, SwapFee(order))
    IN  /\ Performing("Swaps", order, swaps)
        /\ SwapAllowed(order) /\ CanPerformSwap(order)
        /\ reserveAccount' = Add(Sub(reserveAccount, out), Single(order.from, SwapInput(order)))
        /\ currentReserve' = ReserveAfterSwap(order)
        /\ funds' = Move(Move(funds, order.account, out), FeeAddress, fee)
        /\ intermediary' = Sub(intermediary, Single(order.from, order.amount))
        /\ NextOrder
        /\ UNCHANGED <<bondState, allowSells, orderLimits, sanity, currentSupply,
                       batchVars, tokens>>

\* Mutant of CancelSwap: the fee of a swap that is cancelled is not refunded.
CancelSwapLessFee ==
  \E order \in {swaps[i] : i \in DOMAIN swaps} :
    /\ Performing("Swaps", order, swaps)
    /\ ~SwapAllowed(order) /\ CanPerformSwap(order)
    /\ swaps' = [swaps EXCEPT ![next].cancelled = TRUE]
    /\ funds' = Move(funds, order.account, Single(order.from, SwapInput(order)))
    /\ intermediary' = Sub(intermediary, Single(order.from, SwapInput(order)))
    /\ NextOrder
    /\ UNCHANGED <<bondVars, blocksRemaining, totalBuy, totalSell, buyPrices, sellPrices,
                   buys, sells, tokens, reserveAccount>>

\* The swap that is cancelled in PerformSwapOrders is refunded in full.
CancelSwap ==
  \E order \in {swaps[i] : i \in DOMAIN swaps} :
    /\ Performing("Swaps", order, swaps)
    /\ ~SwapAllowed(order) /\ CanPerformSwap(order)
    /\ swaps' = [swaps EXCEPT ![next].cancelled = TRUE]
    /\ funds' = Move(funds, order.account, Single(order.from, order.amount))
    /\ intermediary' = Sub(intermediary, Single(order.from, order.amount))
    /\ NextOrder
    /\ UNCHANGED <<bondVars, blocksRemaining, totalBuy, totalSell, buyPrices, sellPrices,
                   buys, sells, tokens, reserveAccount>>

\* From one loop of PerformOrders to the one after it.
FinishLoop ==
  /\ ~halted
  /\ \/ phase = "Buys" /\ next \notin DOMAIN buys /\ phase' = "Sells"
     \/ phase = "Sells" /\ next \notin DOMAIN sells /\ phase' = "Swaps"
  /\ next' = 1
  /\ UNCHANGED <<bondVars, batchVars, bankVars, height, halted>>

\* PerformBuyOrders, PerformSellOrders and PerformSwapOrders panic on any error
\* they have not made a cancellation of.
Panic ==
  /\ ~halted
  /\ \/ phase = "Buys" /\ next \in LiveBuys /\ ~CanPerformBuy(buys[next])
     \/ phase = "Sells" /\ next \in DOMAIN sells /\ ~CanPerformSell(sells[next])
     \/ phase = "Swaps" /\ next \in DOMAIN swaps /\ ~CanPerformSwap(swaps[next])
  /\ halted' = TRUE
  /\ UNCHANGED <<bondVars, batchVars, bankVars, height, phase, next>>

\* The end of EndBlocker: a new batch starts.
FinishBatch ==
  /\ phase = "Swaps" /\ ~halted /\ next \notin DOMAIN swaps
  /\ EmptyBatch
  /\ phase' = "DeliverTx" /\ next' = 1
  /\ UNCHANGED <<bondVars, bankVars, height, halted>>

-----------------------------------------------------------------------------
Transaction ==
  \/ \E allow \in BOOLEAN, l \in OrderLimits, s \in Sanity : CreateBond(allow, l, s)
  \/ \E a \in Account, l \in OrderLimits, s \in Sanity : EditBond(a, l, s)
  \/ \E a \in Account, n \in OrderAmount, max \in OrderMaxPrices :
       FirstBuy(a, n, max) \/ Buy(a, n, max)
  \/ \E a \in Account, n \in OrderAmount : Sell(a, n)
  \/ \E a \in Account, from, to \in Denom, n \in SwapAmount : Swap(a, from, to, n)
  \/ \E a \in Account : MakeOutcomePayment(a) \/ WithdrawShare(a)

EndBlocker ==
  \/ EndBlock \/ FinishLoop \/ FinishBatch \/ Panic
  \/ PerformBuy \/ SkipCancelledBuy \/ PerformSell
  \/ PerformSwap \/ CancelSwap

Next == Transaction \/ EndBlocker

Spec == Init /\ [][Next]_vars

-----------------------------------------------------------------------------
(***************************************************************************)
(* Properties                                                              *)
(***************************************************************************)
\* Every variable has its type: nothing the handlers and EndBlocker compute is
\* ever negative.
TypeOK ==
  /\ bondState \in {"NONE", "OPEN", "SETTLE"}
  /\ allowSells \in BOOLEAN /\ halted \in BOOLEAN
  /\ orderLimits \in [Denom \cup {Token} -> Nat]
  /\ sanity \in [rate : Nat, margin : Nat]
  /\ currentSupply \in Nat /\ currentReserve \in CoinSet
  /\ blocksRemaining \in 0 .. BatchBlocks
  /\ totalBuy \in Nat /\ totalSell \in Nat
  /\ buyPrices \in CoinSet /\ sellPrices \in CoinSet
  /\ buys \in Seq(BuyOrder) /\ sells \in Seq(SellOrder) /\ swaps \in Seq(SwapOrder)
  /\ tokens \in [Account -> Nat] /\ funds \in [Account -> CoinSet]
  /\ intermediary \in CoinSet /\ reserveAccount \in CoinSet
  /\ height \in 0 .. MaxHeight
  /\ phase \in {"DeliverTx", "Buys", "Sells", "Swaps"} /\ next \in Nat \ {0}

Total(d) == SumOf([a \in Account |-> funds[a][d]], Account)

\* The books of a swapper agree at every step: the supply is what accounts and
\* pending sells own, the intermediary account holds what pending buys and swaps
\* have locked, the reserve of the record is in the module account, and no coin
\* is made or lost.
BooksAgree ==
  /\ SumOf(tokens, Account) + SumOf(Amounts(sells), PendingSells) = currentSupply
  /\ intermediary = Add(LockedByBuys(buys, PendingBuys), LockedBySwaps(PendingSwaps))
  /\ reserveAccount = currentReserve
  /\ \A d \in Denom : Total(d) + intermediary[d] + reserveAccount[d]
                        = SumOf([a \in Account |-> InitialFunds[a][d]], Account)

\* The pool once the pending buys and sells of the batch are performed.
ExpectedSupply ==
  (currentSupply + SumOf(Amounts(buys), PendingBuys)) - SumOf(Amounts(sells), PendingSells)
ExpectedReserve ==
  [d \in Denom |->
     (currentReserve[d]
        + SumOf([i \in PendingBuys |-> ReservePrices(buys[i], buyPrices)[d]], PendingBuys))
        - SumOf([i \in PendingSells |-> ReserveReturns(sells[i], sellPrices)[d]], PendingSells)]

\* Rounding at the scale of Unit cannot add up to a coin.
PoolBelowScale ==
  /\ currentSupply > 0
  /\ \A d \in Denom : currentSupply * ((currentReserve[d] + totalBuy) + totalSell) < Unit

\* While the pool trades nobody's share of it is diluted.  A batch goes to
\* EndBlocker at prices that leave at least as much in the reserve per bond
\* token as there was before it; its buys and sells move exactly the coins those
\* prices say; and no swap lowers the product of the two reserves.  The first
\* holds for pools and batches below the scale of the prices, and for a batch only
\* as a whole: a buyer may gain from what rounding has made the buyer before pay.
PoolKept ==
  /\ phase = "DeliverTx" /\ phase' = "Buys" /\ PoolBelowScale =>
       \A d \in Denom : currentReserve[d] * ExpectedSupply <= ExpectedReserve[d] * currentSupply
  /\ phase \in {"Buys", "Sells"} =>
       ExpectedSupply' = ExpectedSupply /\ ExpectedReserve' = ExpectedReserve
  /\ phase = "Swaps" =>
       currentReserve[ReserveToken1] * currentReserve[ReserveToken2]
         <= currentReserve'[ReserveToken1] * currentReserve'[ReserveToken2]
PoolNeverDiluted == [][bondState = "OPEN" => PoolKept]_vars

\* What an account owns in a reserve token, coins locked by its orders included.
Wealth(a, d) ==
  funds[a][d] + LockedByBuys(buys, {i \in PendingBuys : buys[i].account = a})[d]
              + LockedBySwaps({i \in PendingSwaps : swaps[i].account = a})[d]

\* Nobody gives up coins without getting bond tokens or coins of the other kind,
\* the outcome payment apart: an order that is cancelled is refunded in full,
\* fee included, at whatever point its cancellation comes.
NoPaymentWithoutReturn ==
  [][bondState' = bondState =>
       \A a \in Account, d \in Denom : Wealth(a, d)' < Wealth(a, d) =>
         \/ tokens'[a] > tokens[a]
         \/ \E e \in Denom : Wealth(a, e)' > Wealth(a, e)]_vars

\* EndBlocker halts the chain over a swapper only on a buy whose price was not the
\* last one of its batch, because a sell or a cancellation has changed it since, or on
\* a sell once the bond is settled; a swap never does.  A batch as large as the scale
\* of the prices is another matter: what rounding adds to the price of one token is a
\* whole reserve token for all of them.
HaltsOnlyOnLatePrices ==
  halted /\ totalBuy < 2 * Unit /\ totalSell < 2 * Unit =>
    \/ phase = "Buys" /\ (sells # <<>> \/ LiveBuys # DOMAIN buys)
    \/ phase = "Sells" /\ bondState = "SETTLE"

=============================================================================
