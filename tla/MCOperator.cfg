\* Both commands after every short history of the chain.
CONSTANTS
  v1 = v1
  v2 = v2
  a1 = a1
  a2 = a2
  Val = {v1, v2}
  Account = {a1, a2}
  OperatorOf <- MCOperatorOf
  Unit = 7
  BadAddr = BadAddr
  VotingPower = 4
  Grant = 3
  AllowedLists <- Lists
  FundLists <- Funds
  MaxBlocks = 5
CHECK_DEADLOCK FALSE
SPECIFICATION Spec
INVARIANTS TypeOK Backed References AllPaid Restartable PanicExplained OneValidator FundedOnce
