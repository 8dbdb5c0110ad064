SPECIFICATION Spec
CONSTANTS
  Key = {"A", "B", "O", "P"}
  Address = {"A", "B", "O", "P", "fees"}
  FeeCollector = "fees"
  Did <- MCDid
  KeyOf <- MCKeyOf
  Id = {"id"}
  WellFormed = {"valid"}
  Denom = {"ixo", "x"}
  NativeToken = "ixo"
  TotalFee = 3
  TransactionFee = 1
  Capabilities <- MCCapabilities
  GenesisAccounts = {"A", "O"}
  GenesisBalance <- MCBalance
  GenesisDocs = {"did:ixo:A", "did:ixo:O"}
  Bodies <- MCBodies
  Fees <- MCFees
  MaxSequence = 1
INVARIANTS
  TypeOK
  AtMostOnce
  LedgersAgree
  FreshSignaturesPass
PROPERTIES
  CoinsFollowAuthority
  DidsArePermanent
CHECK_DEADLOCK FALSE
