\* Every writer's bytes, and other encodings of the same messages.
CONSTANTS
  GroupBits = 6
  Width = 9
  ShortWidth = 5
  Inputs <- MCInputs
CHECK_DEADLOCK FALSE
SPECIFICATION FairSpec
INVARIANTS TypeOK InBounds Understood
PROPERTIES DecodingEnds MovesOn
