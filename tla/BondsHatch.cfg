SPECIFICATION Spec
CONSTANTS
  a = a
  b = b
  Account = {a, b}
  Creator = a
  FeeAddress = b
  Unit = 100
  Augmented = TRUE
  MaxSupply = 4
  BatchBlocks = 1
  TxFeePercentage = 1000
  ExitFeePercentage = 500
  OutcomePayment = 1
  D0 = 400
  P0 = 150
  Theta = 40
  Kappa = 3
  S0 <- HatchSupply
  ReserveAtSupply <- AugmentedReserves
  PricesAtSupply <- AugmentedPrices
  OrderAmount = {1, 2}
  OrderMaxPrice = {4, 8}
  OrderLimit = {0, 1}
  MaxOrders = 2
  BuyerFunds = 9
  SellerFunds = 8
  InitialFunds <- MCFunds
INVARIANTS
  HatchPhase
PROPERTIES
  Lifecycle
CHECK_DEADLOCK FALSE
