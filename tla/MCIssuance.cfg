\* Issuance: transactions with fees, sends, export and import.
CONSTANTS
  iss = iss
  usr = usr
  module = module
  gov = gov
  fees = fees
  ustb = ustb
  stake = stake
  odd = odd
  Acct <- MCAcct
  NoAcct = NoAcct
  Denom <- MCDenom
  OddDenom = {odd}
  BlankDenom = BlankDenom
  IntLimit = 3
  Absent = Absent
  Module = module
  Gov = gov
  FeeCollector = fees
  BondDenom = stake
  GenesisParams <- StandardGenesis
  GenesisBanks <- IssuanceBanks
  ParamInputs <- IssuanceParams
  AmountInputs <- Amounts
  AddrInputs <- AddrsAll
  SendInputs = {1}
  Fees = {0, 1}
  MaxMsgs = 2
  InflationCap = 0
SPECIFICATION Spec
INVARIANTS UnderflowExplained BurnUndoesMint BranchInv
PROPERTIES IssuerOnly CapHolds HolderProtected
