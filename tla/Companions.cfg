SPECIFICATION Spec
CONSTANTS
  Labels <- MCLabels
  Values = {1, 2}
  Indexes <- MCIndexes
  Initial <- MCInitial
  Roots <- MCRoots
  MaxEvents = 2
  MaxQueue = 1
  MaxTrees = 0
INVARIANT CompanionsResolve
CHECK_DEADLOCK FALSE
