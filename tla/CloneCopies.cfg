SPECIFICATION RhtasClientSpec
CONSTANTS
  c1 = c1
  c2 = c2
  reader1 = reader1
  reader2 = reader2
  None = None
  Torn = Torn
  Bundle = "trusted_root.json"
  Name = {"trusted_root.json", "ca"}
  Digest <- FewContents
  CertOf <- OneCert
  Fault = {}
  Expires = {"none"}
  NoChange = FALSE
  Policies = {"skip"}
  MaxVersion = 4
  MaxRun = 1
  Reader = {reader1}
  Commands = {"clone"}
  Wanted <- OneOrNone
INVARIANT CloneIsRepository
CHECK_DEADLOCK FALSE
