SPECIFICATION Spec
CONSTANTS
  alice = alice
  bob = bob
  carol = carol
  x = x
  y = y
  tp = tp
  c1 = c1
  c2 = c2
  Account = {alice, bob, carol}
  Denom = {x}
  TemplateId = {tp}
  ContractId = {c1, c2}
  Unit = 4
  Subscriptions = 2
  TemplateTerms <- PlainTemplates
  ContractTerms <- PlainContracts
  SubscriptionTerms <- PlainSubscriptions
  DiscountId = {1}
  BlockTimes = {1}
  MaxClock = 6
  BobsFunds = 12
  InitialFunds <- MCFunds
  BobsVesting = 0
  Vesting <- MCVesting
  VestingEnd = 0
INVARIANTS
  TypeOK
  PoolIsRemainders
  CoinsAccounted
  MaximumKept
  PeriodsAccounted
PROPERTIES
  ImplementsAgreement
  OnlyAuthorisedPayments
