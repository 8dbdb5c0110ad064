-------------------------------- MODULE Bonds --------------------------------
(***************************************************************************)
(* One bond of the bonds module: its record, its current batch of orders,  *)
(* the module accounts that hold its reserve and the coins locked by its   *)
(* orders, and the accounts that trade it.  The bond is priced by a curve  *)
(* (power, sigmoid or augmented function) against one reserve token.       *)
(*                                                                         *)
(* A transaction is one action: a handler that returns an error or panics  *)
(* is rolled back by the SDK, so only the successful outcome is a step.    *)
(* EndBlocker runs after the transactions of a block, one order per step;  *)
(* there is nothing to roll back to, so a panic in it halts the chain.     *)
(*                                                                         *)
(* A definition whose comment begins with "Mutant" is a plausible mistake  *)
(* in the definition it precedes; the properties below tell them apart.    *)
(***************************************************************************)
EXTENDS Decimals, Sequences, Sums

CONSTANTS
  Account,            \* accounts with a DID
  Creator,            \* creator_did of the bond
  FeeAddress,         \* fee_address of the bond
  Augmented,          \* function_type is augmented_function
  MaxSupply,          \* max_supply
  BatchBlocks,        \* batch_blocks
  TxFeePercentage,    \* tx_fee_percentage, a decimal
  ExitFeePercentage,  \* exit_fee_percentage, a decimal
  OutcomePayment,     \* outcome_payment, 0 when the bond has none
  ReserveAtSupply,    \* the curve: reserve called for by each supply
  PricesAtSupply,     \* the curve: price per token at each supply
  P0, Theta, S0,      \* augmented function: hatch price, funding share, supply
  OrderAmount,        \* bound: the amounts of the orders
  OrderMaxPrice,      \* bound: the max prices of the buy orders
  OrderLimit,         \* bound: the order quantity limits, 0 for no limit
  MaxOrders,          \* bound: buys, and sells, in one batch
  InitialFunds        \* reserve tokens of each account at the start

\* What ValidateBasic and the parameter restrictions leave of the parameters.
ValidParameters ==
  /\ Creator \in Account /\ FeeAddress \in Account
  /\ Augmented \in BOOLEAN
  /\ MaxSupply \in Nat \ {0} /\ BatchBlocks \in Nat \ {0}
  /\ TxFeePercentage \in Nat /\ ExitFeePercentage \in Nat
  /\ TxFeePercentage + ExitFeePercentage < ToDec(100)
  /\ OutcomePayment \in Nat
  /\ P0 \in Nat \ {0} /\ Theta \in 0 .. (Unit - 1) /\ S0 \in Nat \ {0}

\* The curve is defined and non-negative at every supply there can be.
ValidCurve ==
  /\ ReserveAtSupply \in [0 .. MaxSupply -> Nat]
  /\ PricesAtSupply \in [0 .. MaxSupply -> Nat]

ASSUME BondAssumption ==
  /\ ValidParameters /\ ValidCurve
  /\ IsFiniteSet(Account) /\ InitialFunds \in [Account -> Nat]
  /\ OrderAmount \subseteq Nat \ {0} /\ OrderMaxPrice \subseteq Nat \ {0}
  /\ OrderLimit \subseteq Nat /\ OrderLimit # {}
  /\ MaxOrders \in Nat

VARIABLES
  bondState, allowSells, orderLimit, currentSupply, currentReserve,  \* Bond
  blocksRemaining, totalBuy, totalSell, buyPrice, sellPrice, buys, sells, \* Batch
  tokens,      \* bond tokens of each account
  funds,       \* reserve tokens of each account
  intermediary,   \* BatchesIntermediaryAccount: reserve tokens locked by buys
  reserveAccount, \* BondsReserveAccount
  phase,       \* "DeliverTx", or the loop EndBlocker is in
  next,        \* the next order of that loop
  halted       \* a panic in EndBlocker has stopped the chain

bondVars == <<bondState, allowSells, orderLimit, currentSupply, currentReserve>>
batchVars == <<blocksRemaining, totalBuy, totalSell, buyPrice, sellPrice, buys, sells>>
bankVars == <<tokens, funds, intermediary, reserveAccount>>
vars == <<bondVars, batchVars, bankVars, phase, next, halted>>

BuyOrder == [account : Account, amount : Nat, maxPrices : Nat, cancelled : BOOLEAN]
SellOrder == [account : Account, amount : Nat]

-----------------------------------------------------------------------------
(***************************************************************************)
(* Prices                                                                  *)
(***************************************************************************)
InHatch == bondState = "HATCH"

CurrentPricesPT == IF InHatch THEN P0 ELSE PricesAtSupply[currentSupply]

\* A reserve that covers the new supply already still costs one token.
PricesToMint(mint) ==
  LET price == ReserveAtSupply[currentSupply + mint] - ToDec(currentReserve)
  IN  IF InHatch THEN MulInt(P0, mint) ELSE IF price < 0 THEN Unit ELSE price

\* GetReturnsForBurn panics when the reserve is short.
CanBurn(burn) == ReserveAtSupply[currentSupply - burn] <= ToDec(currentReserve)
ReturnsForBurn(burn) == ToDec(currentReserve) - ReserveAtSupply[currentSupply - burn]

\* Buys and sells are matched at the current price; only the excess of one
\* over the other moves along the curve.
PricesDefined(buy, sell) == sell > buy => CanBurn(sell - buy)
BatchBuyPrice(buy, sell) ==
  IF buy > sell
  THEN Quo(Mul(CurrentPricesPT, ToDec(sell)) + PricesToMint(buy - sell), ToDec(buy))
  ELSE CurrentPricesPT
BatchSellPrice(buy, sell) ==
  IF sell > buy
  THEN Quo(Mul(CurrentPricesPT, ToDec(buy)) + ReturnsForBurn(sell - buy), ToDec(sell))
  ELSE CurrentPricesPT

\* Fees are rounded up.
Fee(reserveAmount, percentage) ==
  CeilInt(Mul(QuoInt(percentage, 100), reserveAmount))

\* Mutant of ReservePrice: rounded down.
ReservePriceRoundedDown(order, price) == TruncateInt(MulInt(price, order.amount))

ReservePrice(order, price) == CeilInt(MulInt(price, order.amount))
TxFee(order, price) == Fee(MulInt(price, order.amount), TxFeePercentage)
TotalPrice(order, price) == ReservePrice(order, price) + TxFee(order, price)

FulfillableAtPrice(order, price) == TotalPrice(order, price) <= order.maxPrices

\* Mutant of ReserveReturn: rounded up.
ReserveReturnRoundedUp(order, price) == CeilInt(MulInt(price, order.amount))

\* What a sell returns, and the part of it that AdjustFees lets the fees take.
ReserveReturn(order, price) == TruncateInt(MulInt(price, order.amount))
SellFees(order, price) ==
  LET returns == MulInt(price, order.amount)
      fees == Fee(returns, TxFeePercentage) + Fee(returns, ExitFeePercentage)
  IN  IF fees > ReserveReturn(order, price) THEN ReserveReturn(order, price) ELSE fees

-----------------------------------------------------------------------------
(***************************************************************************)
(* Orders and balances                                                     *)
(***************************************************************************)
Amounts(orders) == [i \in DOMAIN orders |-> orders[i].amount]
MaxPrices(orders) == [i \in DOMAIN orders |-> orders[i].maxPrices]

LiveBuys == {i \in DOMAIN buys : ~buys[i].cancelled}

\* The orders EndBlocker has still to perform.
PendingBuys == {i \in LiveBuys : /\ phase # "Sells"
                                 /\ phase = "Buys" => i >= next}
PendingSells == {i \in DOMAIN sells : phase = "Sells" => i >= next}

Credit(balance, account, amount) == [balance EXCEPT ![account] = @ + amount]
Debit(balance, account, amount) == [balance EXCEPT ![account] = @ - amount]

\* The reserve tokens are in the module account, their number in the bond.
DepositReserve(amount) ==
  /\ reserveAccount' = reserveAccount + amount
  /\ currentReserve' = currentReserve + amount

CanWithdraw(amount) == amount <= reserveAccount /\ amount <= currentReserve

WithdrawReserve(amount) ==
  /\ reserveAccount' = reserveAccount - amount
  /\ currentReserve' = currentReserve - amount

OrderQuantityLimitExceeded(amount) == orderLimit # 0 /\ amount > orderLimit

\* Mutant of EmptyBatch: the count of blocks is not started again.
EmptyBatchKeepsBlocks ==
  /\ blocksRemaining' = blocksRemaining
  /\ totalBuy' = 0 /\ totalSell' = 0
  /\ buyPrice' = 0 /\ sellPrice' = 0
  /\ buys' = <<>> /\ sells' = <<>>

\* NewBatch.
EmptyBatch ==
  /\ blocksRemaining' = BatchBlocks
  /\ totalBuy' = 0 /\ totalSell' = 0
  /\ buyPrice' = 0 /\ sellPrice' = 0
  /\ buys' = <<>> /\ sells' = <<>>

-----------------------------------------------------------------------------
(***************************************************************************)
(* Transactions                                                            *)
(***************************************************************************)
DeliverTx == phase = "DeliverTx" /\ ~halted

Init ==
  /\ bondState = "NONE" /\ allowSells = FALSE /\ orderLimit = 0
  /\ currentSupply = 0 /\ currentReserve = 0
  /\ blocksRemaining = BatchBlocks
  /\ totalBuy = 0 /\ totalSell = 0 /\ buyPrice = 0 /\ sellPrice = 0
  /\ buys = <<>> /\ sells = <<>>
  /\ tokens = [a \in Account |-> 0] /\ funds = InitialFunds
  /\ intermediary = 0 /\ reserveAccount = 0
  /\ phase = "DeliverTx" /\ next = 1 /\ halted = FALSE

\* handleMsgCreateBond: an augmented bond starts in the hatch phase, unsellable.
CreateBond(allow, limit) ==
  /\ DeliverTx /\ bondState = "NONE"
  /\ bondState' = IF Augmented THEN "HATCH" ELSE "OPEN"
  /\ allowSells' = (allow /\ ~Augmented)
  /\ orderLimit' = limit
  /\ EmptyBatch
  /\ UNCHANGED <<currentSupply, currentReserve, bankVars, phase, next, halted>>

\* handleMsgEditBond, of which only the order quantity limits matter here.
EditBond(editor, limit) ==
  /\ DeliverTx /\ bondState # "NONE" /\ editor = Creator
  /\ orderLimit' = limit
  /\ UNCHANGED <<bondState, allowSells, currentSupply, currentReserve,
                 batchVars, bankVars, phase, next, halted>>

\* Mutant of CanAddBuy: the other buys of the batch are not counted.
CanAddBuyAlone(order, buy, sell) ==
  /\ currentSupply + order.amount <= MaxSupply
  /\ InHatch => currentSupply + order.amount <= CeilInt(S0)
  /\ PricesDefined(buy, sell)
  /\ FulfillableAtPrice(order, BatchBuyPrice(buy, sell))

\* Mutant of CanAddBuy: the sells of the batch make room for the buy.
CanAddBuyNetOfSells(order, buy, sell) ==
  /\ currentSupply + buy - sell <= MaxSupply
  /\ InHatch => currentSupply + buy <= CeilInt(S0)
  /\ PricesDefined(buy, sell)
  /\ FulfillableAtPrice(order, BatchBuyPrice(buy, sell))

\* The checks and prices of GetUpdatedBatchPricesAfterBuy: the batch-adjusted
\* supply stays within MaxSupply, and within S0 in the hatch phase.
CanAddBuy(order, buy, sell) ==
  /\ currentSupply + buy <= MaxSupply
  /\ InHatch => currentSupply + buy <= CeilInt(S0)
  /\ PricesDefined(buy, sell)
  /\ FulfillableAtPrice(order, BatchBuyPrice(buy, sell))

\* CancelUnfulfillableBuys, one pass over the batch at the given price.
Unfulfillable(orders, price) ==
  {i \in DOMAIN orders : ~orders[i].cancelled /\ ~FulfillableAtPrice(orders[i], price)}
\* Mutant of Cancel: the flag is set on a copy of the order.
CancelCopy(orders, which) == orders

Cancel(orders, which) ==
  [i \in DOMAIN orders |-> IF i \in which THEN [orders[i] EXCEPT !.cancelled = TRUE]
                                          ELSE orders[i]]

\* Mutant of Refund: nothing is returned.
RefundNothing(balance, orders, which) == balance

Refund(balance, orders, which) ==
  [a \in Account |-> balance[a]
     + SumOf(MaxPrices(orders), {i \in which : orders[i].account = a})]

\* handleMsgBuy: locks the max prices, adds the order to the batch, cancels
\* every order its arrival has priced out and then prices the batch again.
Buy(buyer, amount, maxPrices) ==
  LET order == [account |-> buyer, amount |-> amount,
                maxPrices |-> maxPrices, cancelled |-> FALSE]
      buy       == totalBuy + amount
      price     == BatchBuyPrice(buy, totalSell)
      orders    == Append(buys, order)
      cancelled == Unfulfillable(orders, price)
      remaining == buy - SumOf(Amounts(orders), cancelled)
  IN  /\ DeliverTx /\ bondState \in {"HATCH", "OPEN"}
      /\ Len(buys) < MaxOrders
      /\ ~OrderQuantityLimitExceeded(amount)
      /\ maxPrices <= funds[buyer]
      /\ CanAddBuy(order, buy, totalSell)
      /\ cancelled # {} => PricesDefined(remaining, totalSell)
      /\ buys' = Cancel(orders, cancelled)
      /\ totalBuy' = remaining
      /\ buyPrice' = BatchBuyPrice(remaining, totalSell)
      /\ sellPrice' = BatchSellPrice(remaining, totalSell)
      /\ funds' = Refund(Debit(funds, buyer, maxPrices), orders, cancelled)
      /\ intermediary' = intermediary + maxPrices
                           - SumOf(MaxPrices(orders), cancelled)
      /\ UNCHANGED <<bondVars, blocksRemaining, totalSell, sells, tokens,
                     reserveAccount, phase, next, halted>>

\* handleMsgSell: the tokens are burned at once, the supply is adjusted only
\* when the order is performed.  No buy is cancelled here.
Sell(seller, amount) ==
  LET sell == totalSell + amount
  IN  /\ DeliverTx /\ allowSells /\ bondState = "OPEN"
      /\ Len(sells) < MaxOrders
      /\ ~OrderQuantityLimitExceeded(amount)
      /\ amount <= tokens[seller]
      /\ sell <= currentSupply
      /\ PricesDefined(totalBuy, sell)
      /\ tokens' = Debit(tokens, seller, amount)
      /\ sells' = Append(sells, [account |-> seller, amount |-> amount])
      /\ totalSell' = sell
      /\ buyPrice' = BatchBuyPrice(totalBuy, sell)
      /\ sellPrice' = BatchSellPrice(totalBuy, sell)
      /\ UNCHANGED <<bondVars, blocksRemaining, totalBuy, buys, funds, intermediary,
                     reserveAccount, phase, next, halted>>

\* handleMsgMakeOutcomePayment: settles the bond, the batch stays as it is.
MakeOutcomePayment(sender) ==
  /\ DeliverTx /\ bondState = "OPEN" /\ OutcomePayment # 0
  /\ OutcomePayment <= funds[sender]
  /\ funds' = Debit(funds, sender, OutcomePayment)
  /\ DepositReserve(OutcomePayment)
  /\ bondState' = "SETTLE"
  /\ UNCHANGED <<allowSells, orderLimit, currentSupply, batchVars, tokens,
                 intermediary, phase, next, halted>>

\* Mutant of ReserveOwed: rounded up.
ReserveOwedRoundedUp(owned) ==
  CeilInt(Mul(ToDec(currentReserve), QuoInt(ToDec(owned), currentSupply)))

ReserveOwed(owned) ==
  TruncateInt(Mul(ToDec(currentReserve), QuoInt(ToDec(owned), currentSupply)))

\* handleMsgWithdrawShare: burns all tokens of the recipient for the same share
\* of the reserve as they are of the supply.
WithdrawShare(recipient) ==
  LET owned == tokens[recipient]
      owed  == ReserveOwed(owned)
  IN  /\ DeliverTx /\ bondState = "SETTLE" /\ owned # 0
      /\ CanWithdraw(owed) /\ owned <= currentSupply
      /\ tokens' = Debit(tokens, recipient, owned)
      /\ funds' = Credit(funds, recipient, owed)
      /\ WithdrawReserve(owed)
      /\ currentSupply' = currentSupply - owned
      /\ UNCHANGED <<bondState, allowSells, orderLimit, batchVars, intermediary,
                     phase, next, halted>>

-----------------------------------------------------------------------------
(***************************************************************************)
(* EndBlocker                                                              *)
(***************************************************************************)
\* Mutant of EndBlock: the batch is not saved when blocks remain.
EndBlockUnsaved ==
  /\ DeliverTx /\ bondState # "NONE"
  /\ blocksRemaining' = IF blocksRemaining = 1 THEN 0 ELSE blocksRemaining
  /\ phase' = IF blocksRemaining' = 0 THEN "Buys" ELSE "DeliverTx"
  /\ next' = 1
  /\ UNCHANGED <<bondVars, totalBuy, totalSell, buyPrice, sellPrice, buys, sells,
                 bankVars, halted>>

\* A block passes; the orders are performed when none remains for the batch.
EndBlock ==
  /\ DeliverTx /\ bondState # "NONE"
  /\ blocksRemaining' = blocksRemaining - 1
  /\ phase' = IF blocksRemaining' = 0 THEN "Buys" ELSE "DeliverTx"
  /\ next' = 1
  /\ UNCHANGED <<bondVars, totalBuy, totalSell, buyPrice, sellPrice, buys, sells,
                 bankVars, halted>>

\* In the hatch phase the share 1 - Theta of all that was raised is the reserve,
\* the rest of the price is sent to the fee address.
HatchReserve(supply) == CeilInt(Mul(MulInt(P0, supply), Unit - Theta))
ToReserve(order) ==
  IF InHatch THEN HatchReserve(currentSupply + order.amount) - currentReserve
             ELSE ReservePrice(order, buyPrice)

CanPerformBuy(order) ==
  /\ FulfillableAtPrice(order, buyPrice)
  /\ ToReserve(order) \in 0 .. ReservePrice(order, buyPrice)
  /\ order.maxPrices <= intermediary

\* PerformBuyAtPrice: mints the tokens and divides the locked max prices between
\* the reserve, the fee address and the buyer.
PerformBuy ==
  LET order   == buys[next]
      total   == TotalPrice(order, buyPrice)
      reserve == ToReserve(order)
  IN  /\ phase = "Buys" /\ ~halted
      /\ next \in LiveBuys /\ CanPerformBuy(order)
      /\ tokens' = Credit(tokens, order.account, order.amount)
      /\ intermediary' = intermediary - order.maxPrices
      /\ DepositReserve(reserve)
      /\ funds' = Credit(Credit(funds, FeeAddress, total - reserve),
                         order.account, order.maxPrices - total)
      /\ currentSupply' = currentSupply + order.amount
      /\ next' = next + 1
      /\ UNCHANGED <<bondState, allowSells, orderLimit, batchVars, phase, halted>>

SkipCancelledBuy ==
  /\ phase = "Buys" /\ ~halted
  /\ next \in DOMAIN buys \ LiveBuys
  /\ next' = next + 1
  /\ UNCHANGED <<bondVars, batchVars, bankVars, phase, halted>>

FinishBuys ==
  /\ phase = "Buys" /\ ~halted
  /\ next \notin DOMAIN buys
  /\ phase' = "Sells" /\ next' = 1
  /\ UNCHANGED <<bondVars, batchVars, bankVars, halted>>

CanPerformSell(order) ==
  /\ CanWithdraw(ReserveReturn(order, sellPrice))
  /\ order.amount <= currentSupply

\* PerformSellAtPrice: pays seller and fee address out of the reserve.
PerformSell ==
  LET order   == sells[next]
      returns == ReserveReturn(order, sellPrice)
      fees    == SellFees(order, sellPrice)
  IN  /\ phase = "Sells" /\ ~halted
      /\ next \in DOMAIN sells /\ CanPerformSell(order)
      /\ funds' = Credit(Credit(funds, order.account, returns - fees), FeeAddress, fees)
      /\ WithdrawReserve(returns)
      /\ currentSupply' = currentSupply - order.amount
      /\ next' = next + 1
      /\ UNCHANGED <<bondState, allowSells, orderLimit, batchVars, tokens,
                     intermediary, phase, halted>>

\* PerformBuyOrders and PerformSellOrders panic on any error.
Panic ==
  /\ ~halted
  /\ \/ phase = "Buys" /\ next \in LiveBuys /\ ~CanPerformBuy(buys[next])
     \/ phase = "Sells" /\ next \in DOMAIN sells /\ ~CanPerformSell(sells[next])
  /\ halted' = TRUE
  /\ UNCHANGED <<bondVars, batchVars, bankVars, phase, next>>

\* Mutant of Hatched: the state of the bond is not looked at.
HatchedInAnyState == Augmented /\ ToDec(currentSupply) >= S0
\* Mutant of Hatched: the bond was read before its orders were performed.
HatchedBeforeBatch == InHatch /\ ToDec(currentSupply - totalBuy) >= S0

Hatched == InHatch /\ ToDec(currentSupply) >= S0

\* The end of EndBlocker: a bond that has hatched opens, and a new batch starts.
FinishBatch ==
  /\ phase = "Sells" /\ ~halted
  /\ next \notin DOMAIN sells
  /\ bondState' = IF Hatched THEN "OPEN" ELSE bondState
  /\ allowSells' = (Hatched \/ allowSells)
  /\ EmptyBatch
  /\ phase' = "DeliverTx" /\ next' = 1
  /\ UNCHANGED <<orderLimit, currentSupply, currentReserve, bankVars, halted>>

-----------------------------------------------------------------------------
Transaction ==
  \/ \E allow \in BOOLEAN, limit \in OrderLimit : CreateBond(allow, limit)
  \/ \E a \in Account, limit \in OrderLimit : EditBond(a, limit)
  \/ \E a \in Account, n \in OrderAmount, max \in OrderMaxPrice : Buy(a, n, max)
  \/ \E a \in Account, n \in OrderAmount : Sell(a, n)
  \/ \E a \in Account : MakeOutcomePayment(a)
  \/ \E a \in Account : WithdrawShare(a)

EndBlocker ==
  \/ EndBlock
  \/ PerformBuy \/ SkipCancelledBuy \/ FinishBuys
  \/ PerformSell \/ FinishBatch
  \/ Panic

Next == Transaction \/ EndBlocker

Spec == Init /\ [][Next]_vars

\* Blocks keep coming, and EndBlocker runs to its end in every one of them.
FairSpec == Spec /\ WF_vars(EndBlocker)

-----------------------------------------------------------------------------
(***************************************************************************)
(* Properties                                                              *)
(***************************************************************************)
\* Every variable has its type: the bond and batch records of types/bonds.go
\* and types/batch.go with amounts and prices that are never negative.
TypeOK ==
  /\ bondState \in {"NONE", "HATCH", "OPEN", "SETTLE"}
  /\ allowSells \in BOOLEAN /\ halted \in BOOLEAN
  /\ orderLimit \in Nat
  /\ currentSupply \in Nat /\ currentReserve \in Nat
  /\ blocksRemaining \in 0 .. BatchBlocks
  /\ totalBuy \in Nat /\ totalSell \in Nat
  /\ buyPrice \in Nat /\ sellPrice \in Nat
  /\ buys \in Seq(BuyOrder) /\ sells \in Seq(SellOrder)
  /\ tokens \in [Account -> Nat] /\ funds \in [Account -> Nat]
  /\ intermediary \in Nat /\ reserveAccount \in Nat
  /\ phase \in {"DeliverTx", "Buys", "Sells"} /\ next \in Nat \ {0}

\* SupplyInvariant of keeper/invariants.go, at every step and not only between
\* blocks: the bond tokens in accounts are the current supply less the tokens
\* that pending sells have burned already.
SupplyInvariant ==
  SumOf(tokens, Account) + SumOf(Amounts(sells), PendingSells) = currentSupply

\* The intermediary account holds exactly the max prices of the buys that are
\* neither cancelled nor performed, so every refund and every charge can be paid.
LockedInvariant ==
  intermediary = SumOf(MaxPrices(buys), PendingBuys)

\* The totals the batch prices are computed from are those of the live orders.
TotalsInvariant ==
  /\ totalBuy = SumOf(Amounts(buys), LiveBuys)
  /\ totalSell = SumOf(Amounts(sells), DOMAIN sells)

\* The supply never exceeds the max supply, not even with all pending buys: the
\* check of handleMsgBuy still holds when the buys are performed blocks later.
MaxSupplyInvariant ==
  currentSupply + SumOf(Amounts(buys), PendingBuys) <= MaxSupply

\* The reserve the bond record claims is in the reserve module account.
ReserveBacked == reserveAccount = currentReserve

\* The books agree at every step, in the middle of EndBlocker and with orders
\* that are cancelled or half performed: the supply of the record with the tokens
\* of the accounts, the intermediary account with what the buys have locked, the
\* totals of the batch with its orders, the reserve of the record with the coins.
BooksAgree ==
  SupplyInvariant /\ LockedInvariant /\ TotalsInvariant /\ ReserveBacked

\* The most that rounding the price of each token to the scale of the decimals can
\* take from all orders of a batch.
PriceRounding == MaxSupply

\* The reserve of a power or sigmoid bond that trades follows its curve from batch
\* to batch, whatever each order was rounded to: it is short of what the curve calls
\* for by at most PriceRounding, and no batch adds to what an earlier one has left.
\* So the check of keeper/invariants.go passes while the bond trades, unless the
\* curve calls for a fraction that small.
ReserveFollowsCurve ==
  phase = "DeliverTx" /\ bondState = "OPEN" /\ ~Augmented /\ currentReserve # 0 =>
    LET expected == ReserveAtSupply[currentSupply]
        fraction == expected % Unit
    IN  /\ expected <= ToDec(currentReserve) + PriceRounding
        /\ fraction > PriceRounding \/ (fraction = 0 /\ PriceRounding < Unit) =>
             CeilInt(expected) <= currentReserve

\* Reserve tokens are moved between accounts, never made or lost.
CoinsConserved ==
  SumOf(funds, Account) + intermediary + reserveAccount = SumOf(InitialFunds, Account)

\* The hatch phase: nothing can be sold, the reserve is the agreed share of what
\* was raised, and no order batch can take the supply past S0 (rounded up).
HatchInvariant ==
  InHatch => /\ ~allowSells /\ sells = <<>>
             /\ currentReserve = HatchReserve(currentSupply)
             /\ currentSupply + SumOf(Amounts(buys), PendingBuys) <= CeilInt(S0)

\* EndBlocker opens the bond in the very block that completes the hatch.
HatchEnds == InHatch /\ phase = "DeliverTx" => ToDec(currentSupply) < S0

\* A hatch phase neither overshoots S0 nor outlasts it, although S0 may have
\* decimals and the batch is checked blocks before it is performed
\* (keeper/batch.go, EndBlocker).
HatchPhase == HatchInvariant /\ HatchEnds

\* EndBlocker's buys can panic only if a sell or a cancellation has moved their
\* price since the last pass of CancelUnfulfillableBuys; the division of a price in
\* the hatch phase, and the coins locked by the orders, always suffice.  Its sells
\* can panic only after the outcome payment: while the bond trades, the reserve pays
\* every sell of the batch, one that is not too large for the scale of the decimals
\* (keeper/batch.go, PerformOrders).
HaltsOnlyOnLatePrices ==
  halted /\ totalBuy < Unit /\ totalSell < Unit =>
    \/ phase = "Buys" /\ (sells # <<>> \/ LiveBuys # DOMAIN buys)
    \/ phase = "Sells" /\ bondState = "SETTLE"

\* The life of a bond, and no new order once it is settled.
LifecycleStep ==
  /\ \/ bondState' = bondState
     \/ <<bondState, bondState'>> \in {<<"NONE", "HATCH">>, <<"NONE", "OPEN">>,
                                      <<"HATCH", "OPEN">>, <<"OPEN", "SETTLE">>}
  /\ bondState = "SETTLE" => Len(buys') <= Len(buys) /\ Len(sells') <= Len(sells)
Lifecycle == [][LifecycleStep]_vars

\* What an account owns in reserve tokens, those locked by its buys included.
Wealth(a) ==
  funds[a] + SumOf(MaxPrices(buys), {i \in PendingBuys : buys[i].account = a})

\* Nobody pays without getting bond tokens, the outcome payment apart: a buy
\* that is cancelled is refunded in full, whoever's order has cancelled it.
PaidForTokens ==
  bondState' = bondState =>
    \A a \in Account : Wealth(a)' < Wealth(a) => tokens'[a] > tokens[a]
NoPaymentWithoutTokens == [][PaidForTokens]_vars

\* A withdrawal never makes the share of the holders who stay worth less.
ShareKept ==
  bondState = "SETTLE" /\ phase = "DeliverTx" =>
    currentReserve * currentSupply' <= currentReserve' * currentSupply
ShareNeverDiluted == [][ShareKept]_vars

\* Every batch is performed: its orders do not stay in the books for ever,
\* unless EndBlocker halts the chain.
BatchIsPerformed ==
  (buys # <<>> \/ sells # <<>>) ~> (halted \/ (buys = <<>> /\ sells = <<>>))

\* What the invariants above rest on: the current batch still has a block to
\* run while transactions are delivered, and before the bond exists there is
\* nothing in its books.
BatchRuns ==
  /\ phase = "DeliverTx" => blocksRemaining > 0
  /\ bondState = "NONE" =>
       /\ phase = "DeliverTx" /\ buys = <<>> /\ sells = <<>>
       /\ currentSupply = 0 /\ currentReserve = 0

-----------------------------------------------------------------------------
(***************************************************************************)
(* What the repository says of the bonds module and the code does not do   *)
(***************************************************************************)
\* "Panic here since all calculations should have been done correctly to
\* prevent any errors during the buy" (keeper/batch.go, PerformBuyOrders).
NoErrorDuringBuy == ~(halted /\ phase = "Buys")

\* "Panic here since all calculations should have been done correctly to
\* prevent any errors during the sell" (keeper/batch.go, PerformSellOrders).
NoErrorDuringSell == ~(halted /\ phase = "Sells")

=============================================================================
