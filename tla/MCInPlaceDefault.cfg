\* Does the in-place command start with no accounts listed?
CONSTANTS
  v1 = v1
  v2 = v2
  a1 = a1
  a2 = a2
  Val = {v1, v2}
  Account = {a1, a2}
  OperatorOf <- MCOperatorOf
  Unit = 7
  BadAddr = BadAddr
  VotingPower = 4
  Grant = 3
  AllowedLists <- NoList
  FundLists <- Funds
  MaxBlocks = 2
CHECK_DEADLOCK FALSE
SPECIFICATION Spec
INVARIANT DefaultsStart
