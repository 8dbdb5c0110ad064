SPECIFICATION FairSpec
CONSTANTS
  a = a
  b = b
  Account = {a, b}
  Creator = a
  FeeAddress = b
  Unit = 100
  Augmented = FALSE
  MaxSupply = 4
  BatchBlocks = 2
  TxFeePercentage = 1000
  ExitFeePercentage = 500
  OutcomePayment = 1
  ReserveAtSupply <- LinearReserve
  PricesAtSupply <- LinearPrice
  P0 = 1
  Theta = 0
  S0 = 1
  OrderAmount = {1, 2}
  OrderMaxPrice = {3, 6}
  OrderLimit = {0}
  MaxOrders = 2
  BuyerFunds = 8
  SellerFunds = 7
  D0 = 1
  Kappa = 1
  InitialFunds <- MCFunds
INVARIANTS
  TypeOK
  BooksAgree
  MaxSupplyInvariant
  ReserveFollowsCurve
  CoinsConserved
  HaltsOnlyOnLatePrices
PROPERTIES
  BatchIsPerformed
  NoPaymentWithoutTokens
  ShareNeverDiluted
CHECK_DEADLOCK FALSE
