SPECIFICATION FairSpec
CONSTANTS
  alice = alice
  bob = bob
  carol = carol
  x = x
  y = y
  tp = tp
  c1 = c1
  c2 = c2
  Account = {alice, bob, carol}
  Denom = {x, y}
  TemplateId = {tp}
  ContractId = {c1}
  Unit = 10
  Subscriptions = 1
  TemplateTerms <- AllTemplates
  ContractTerms <- AllContracts
  SubscriptionTerms <- TimedSubscriptions
  DiscountId = {1, 2}
  BlockTimes = {1, 3}
  MaxClock = 6
  BobsFunds = 12
  InitialFunds <- MCFunds
  BobsVesting = 10
  Vesting <- MCVesting
  VestingEnd = 4
INVARIANTS
  HaltsOnlyOnBadTerms
  NoPeriodBeforeItsEnd
PROPERTIES
  SubscriptionsComplete
CHECK_DEADLOCK FALSE
