SPECIFICATION Spec
CONSTANTS
  ann = ann
  ben = ben
  res = res
  rez = rez
  Account = {ann, ben}
  Creator = ann
  FeeAddress = ben
  Denom = {res, rez}
  ReserveToken1 = res
  ReserveToken2 = rez
  Token = token
  Unit = 100
  MaxSupply = 10
  BatchBlocks = 1
  TxFeePercentage = 2500
  ExitFeePercentage = 500
  OutcomePayment <- MCOutcome
  Sanity <- MCSanity
  OrderLimits <- MCLimits
  OrderAmount = {2, 3}
  OrderMaxPrices <- MCMaxPrices
  SwapAmount = {3}
  MaxOrders = 2
  MaxHeight = 2
  InitialFunds <- MCFunds
INVARIANTS
  TypeOK
  BooksAgree
  HaltsOnlyOnLatePrices
PROPERTIES
  PoolNeverDiluted
  NoPaymentWithoutReturn
CHECK_DEADLOCK FALSE
