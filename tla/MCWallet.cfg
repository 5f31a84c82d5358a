\* Two clicks, on a new page or a connected one, and all that may come between.
CONSTANTS
  iss = iss
  tst = tst
  module = module
  gov = gov
  fees = fees
  ustb = ustb
  Acct <- MCAcct
  NoAcct = NoAcct
  Denom = {ustb}
  OddDenom = {}
  BlankDenom = BlankDenom
  IntLimit = 4
  Absent = Absent
  Module = module
  Gov = gov
  FeeCollector = fees
  Ustb = ustb
  WalletIssuer = iss
  TestRecipient = tst
  WalletAccts <- Keys
  Recipients = {tst}
  FormAmounts = {0, 1}
  Fee = 1
  StoreInit <- Stores
  ParamChanges <- Pauses
  Elsewhere <- BurnElsewhere
  MaxElsewhere = 1
  MaxClicks = 2
CHECK_DEADLOCK FALSE
SPECIFICATION FairSpec
INVARIANTS TypeOK ReportedIsReal ShownIsTrue RefreshDone
PROPERTY LoadingEnds
