\* A history of two items over up to three transactions; amounts of a double's
\* precision and more.
CONSTANTS
  Me = "me"
  FeeCollector = "fee_collector"
  LikeUstb = {"ustb", "austb"}
  Limit = 2
  Decimals = 2
  Precision = 8
  Large = 3
  Fee = 2
  Typed <- MCTyped
  Bodies <- MCBodies
  MaxTxs <- MCMaxTxs
CHECK_DEADLOCK FALSE
SPECIFICATION Spec
INVARIANTS TypeOK Newest LargestShown ShownAsTyped
