SPECIFICATION Spec
CONSTANTS
  Procs = {p1}
  Names <- TwoNames
  Paths <- MCPaths
  Handles = {h1}
  NSECTORS = 4
  RootSlots = 1
  MaxLeaks = 1
CHECK_DEADLOCK FALSE
INVARIANT TypeOK
INVARIANT NothingLost
INVARIANT CountsHolders
INVARIANT FollowsPath
PROPERTY NamesSpec
