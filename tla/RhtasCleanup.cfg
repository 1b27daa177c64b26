SPECIFICATION Spec
CONSTANTS
  c1 = c1
  c2 = c2
  c3 = c3
  None = None
  Torn = Torn
  Bundle = "trusted_root.json"
  Name = {"trusted_root.json", "ca", "log"}
  Digest <- Contents
  CertOf <- Rotating
  Fault = {"remove"}
  Expires = {"none", "snapshot"}
  NoChange = TRUE
  Policies = {"skip", "replace"}
  MaxVersion = 4
  MaxRun = 4
INVARIANTS TypeOK TrustFollowsTargets CleanupIsRetryable
PROPERTY CleanupSparesPublished
CHECK_DEADLOCK FALSE
