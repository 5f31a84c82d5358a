\* Up to three runs of the command over each other's directories.
CONSTANTS
  MaxNodes = 3
  NodeCounts = {1, 2, 3}
  StakeLists <- AllStakes
  PortLists <- AllPorts
  BadItem = BadItem
  DefaultStake = 2
  Funds = 5
  None = None
  MaxRuns = 3
CHECK_DEADLOCK FALSE
SPECIFICATION Spec
INVARIANTS TypeOK OneNetwork CanonicalState StaleOnlyFromLarger PortsDisjoint
