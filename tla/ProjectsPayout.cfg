SPECIFICATION Spec
CONSTANTS
  alice = alice
  bob = bob
  ixo = ixo
  p1 = p1
  k1 = k1
  k2 = k2
  x = x
  y = y
  Did = {alice, bob, ixo}
  Project = {p1}
  ClaimId = {k1, k2}
  Registered = {alice, bob, ixo, p1}
  Agents = {alice, bob}
  Denom = {x}
  Native = x
  IxoFees = IxoFees
  IxoPayFees = IxoPayFees
  InitiatingNodePayFees = InitiatingNodePayFees
  FeeCollector = FeeCollector
  Templates <- MCTemplates
  Unit = 4
  TotalFee = 2
  TransactionFee = 1
  FeesMaps <- MCFeesOrNone
  ParamChoices <- MCParams
  SendTargets <- MCTargets
  SendAmounts <- MCSends
  Amounts = {2}
  MaxWithdrawals = 3
  AlicesFunds = 12
  InitialFunds <- MCFunds
INVARIANTS
  StoppedCanBePaidOut
