SPECIFICATION Spec
CONSTANTS
  Name = {n1, n2}
  Digest = {d1, d2}
  None = None
  Torn = Torn
  Fault = {"sign", "disk", "crash", "tear"}
  MaxVersion = 4
  MaxRun = 4
  Use = {"create", "bump"}
  Addable <- OneFile
  Given = {1}
  Policies = {"skip", "replace", "fail"}
SYMMETRY Interchangeable
INVARIANTS TypeOK ChainHeld TargetsHeld
PROPERTIES RefinesPublication DamageComesBySkipping FailedEditsStayUnpublished
CHECK_DEADLOCK FALSE
