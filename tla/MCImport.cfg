\* Does a chain started from an export have the exported stablecoin store?
CONSTANTS
  iss = iss
  usr = usr
  module = module
  gov = gov
  fees = fees
  ustb = ustb
  stake = stake
  odd = odd
  Acct <- MCAcct
  NoAcct = NoAcct
  Denom <- MCDenom
  OddDenom = {odd}
  BlankDenom = BlankDenom
  IntLimit = 3
  Absent = Absent
  Module = module
  Gov = gov
  FeeCollector = fees
  BondDenom = stake
  GenesisParams <- Genesis
  GenesisBanks <- AllBanks
  ParamInputs <- IssuanceParams
  AmountInputs <- Amounts
  AddrInputs <- AddrsAll
  SendInputs = {1}
  Fees = {0}
  MaxMsgs = 2
  InflationCap = 0
SPECIFICATION Spec
INVARIANT ImportKeepsStore
