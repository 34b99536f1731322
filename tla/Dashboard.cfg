SPECIFICATION Spec
CONSTANTS
  Labels <- MCLabels
  Values = {1, 2}
  Indexes <- MCIndexes
  Initial <- MCInitial
  Roots <- MCRoots
  MaxEvents = 2
  MaxQueue = 1
  MaxTrees = 3
INVARIANTS TypeOK PageFollows SnapshotsWhole CompanionsArrive TreesExport PagesRender
PROPERTIES RestoreExact ReloadRecovers
CHECK_DEADLOCK FALSE
