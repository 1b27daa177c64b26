SPECIFICATION Spec
CONSTANTS
  Name = {n1}
  Digest = {d1}
  None = None
  Torn = Torn
  Fault = {"sign", "disk", "stat"}
  MaxVersion = 3
  MaxRun = 3
  Use = {"create", "recreate", "transfer", "bump", "resign", "force", "incoming"}
  Addable <- OneFile
  Given = {1, 2}
  Policies = {"skip"}
SYMMETRY Interchangeable
INVARIANT SuccessIsConsistent
CHECK_DEADLOCK FALSE
