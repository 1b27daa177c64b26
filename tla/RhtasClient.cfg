SPECIFICATION RhtasClientSpec
CONSTANTS
  c1 = c1
  c2 = c2
  reader1 = reader1
  reader2 = reader2
  None = None
  Torn = Torn
  Bundle = "trusted_root.json"
  Name = {"trusted_root.json", "ca"}
  Digest <- FewContents
  CertOf <- OneCert
  Fault = {"sign", "disk", "crash", "remove", "tear"}
  Expires = {"none", "snapshot"}
  NoChange = FALSE
  Policies = {"skip", "fail"}
  MaxVersion = 4
  MaxRun = 2
  Reader = {reader1, reader2}
  Commands = {"clone", "download"}
  Wanted <- AllOrNone
INVARIANTS ChainIntact NeverRefused CopiesOnePublication CloneIsComplete
PROPERTY MissesOnlyWithdrawn
SYMMETRY Readers
CHECK_DEADLOCK FALSE
