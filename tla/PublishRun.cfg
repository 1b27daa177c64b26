SPECIFICATION Spec
CONSTANTS
  Dir = {"root", "x", "y"}
  Root = "root"
  Order <- Names
  Trees <- SmallTrees
  NoTree = NoTree
  MaxEdition = 2
  KeyId = {1, 2, 3}
  CommandLines <- Lists
  Roots <- SomeRoots
  NoRoot = NoRoot
INVARIANTS FindsEveryFile CopiesWhatItHashed SignedByThreshold
PROPERTY EndsClean
CHECK_DEADLOCK FALSE
