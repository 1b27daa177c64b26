SPECIFICATION Spec
CONSTANTS
  c1 = c1
  c2 = c2
  c3 = c3
  None = None
  Torn = Torn
  Bundle = "trusted_root.json"
  Name = {"trusted_root.json", "ca"}
  Digest <- FewContents
  CertOf <- OneCert
  Fault = {"sign"}
  Expires = {"none"}
  NoChange = TRUE
  Policies = {"skip"}
  MaxVersion = 4
  MaxRun = 4
INVARIANT FailureKeepsTargets
CHECK_DEADLOCK FALSE
