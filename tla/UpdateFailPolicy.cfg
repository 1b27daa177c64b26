SPECIFICATION Spec
CONSTANTS
  Name = {n1, n2}
  Digest = {d1}
  None = None
  Torn = Torn
  Fault = {}
  MaxVersion = 3
  MaxRun = 2
  Use = {"create", "bump"}
  Addable <- OneFile
  Given = {1}
  Policies = {"skip", "fail"}
SYMMETRY Interchangeable
INVARIANT FailPolicyLeavesUnchanged
CHECK_DEADLOCK FALSE
