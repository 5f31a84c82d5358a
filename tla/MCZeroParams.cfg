\* May the authority set zero parameters?
CONSTANTS
  iss = iss
  usr = usr
  module = module
  gov = gov
  fees = fees
  ustb = ustb
  stake = stake
  odd = odd
  Acct <- MCAcct
  NoAcct = NoAcct
  Denom <- MCDenom
  OddDenom = {odd}
  BlankDenom = BlankDenom
  IntLimit = 2
  Absent = Absent
  Module = module
  Gov = gov
  FeeCollector = fees
  BondDenom = stake
  GenesisParams <- Genesis
  GenesisBanks <- OneBank
  ParamInputs <- AllParams
  AmountInputs <- Amounts
  AddrInputs <- AddrsGov
  SendInputs = {}
  Fees = {0}
  MaxMsgs = 2
  InflationCap = 2
SPECIFICATION Spec
INVARIANT AuthoritySetsZeroParams
