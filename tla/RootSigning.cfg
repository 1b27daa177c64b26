SPECIFICATION Spec
CONSTANTS
  Key = {k1,k2}
  Role = {"root", "targets"}
  Root = "root"
  None = None
  Wrap = 4
  Threshold = {1, 2, 7}
  Given = {3, 7}
  DefaultThreshold = 3
  Bumped = {1, 3}
  MaxKeys = 2
SYMMETRY Interchangeable
INVARIANTS TypeOK SignaturesMatch KeysMapExact
PROPERTY RootsFollow
CHECK_DEADLOCK FALSE
