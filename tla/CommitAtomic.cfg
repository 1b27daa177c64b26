SPECIFICATION Spec
CONSTANTS
  File = {timestamp, snapshot, targets}
  Fault = {"stage", "sync", "stat", "backup", "swap", "undo", "clean", "tidy", "crash"}
  MaxGen = 3
SYMMETRY Interchangeable
INVARIANTS TypeOK AllOrNothing OldCopySurvives NothingLeftBehind
PROPERTY RefinesAtomicCommit
CHECK_DEADLOCK FALSE
