SPECIFICATION FairSpec
CONSTANTS
  History <- Growing
  MaxVersion = 4
  Crashes = TRUE
INVARIANTS TypeOK LocalChainIntact NeverMixes
PROPERTIES RollsBackOnlyWhenKilled CatchesUp
