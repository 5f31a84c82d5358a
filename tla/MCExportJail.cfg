\* Does an export with a list of validators not to jail come to its end?
CONSTANTS
  v1 = v1
  v2 = v2
  a1 = a1
  a2 = a2
  Val = {v1, v2}
  Account = {a1, a2}
  OperatorOf <- MCOperatorOf
  Unit = 7
  BadAddr = BadAddr
  VotingPower = 4
  Grant = 3
  AllowedLists <- Lists
  FundLists <- OneFund
  MaxBlocks = 2
CHECK_DEADLOCK FALSE
SPECIFICATION Spec
INVARIANT ExportCompletes
