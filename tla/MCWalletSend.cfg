\* Is a success that handleSend reports a success?
CONSTANTS
  iss = iss
  tst = tst
  module = module
  gov = gov
  fees = fees
  ustb = ustb
  Acct <- MCAcct
  NoAcct = NoAcct
  Denom = {ustb}
  OddDenom = {}
  BlankDenom = BlankDenom
  IntLimit = 4
  Absent = Absent
  Module = module
  Gov = gov
  FeeCollector = fees
  Ustb = ustb
  WalletIssuer = iss
  TestRecipient = tst
  WalletAccts <- Keys
  Recipients <- Typed
  FormAmounts = {0, 1}
  Fee = 1
  StoreInit <- Stores
  ParamChanges <- Pauses
  Elsewhere <- BurnElsewhere
  MaxElsewhere = 1
  MaxClicks = 2
CHECK_DEADLOCK FALSE
SPECIFICATION Spec
INVARIANT SendReportedIsReal
