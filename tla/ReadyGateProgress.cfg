\* HTTP E2E owed, one request at a time, fair runners and recorder
SPECIFICATION FairSpec
CONSTANTS
  Jobs = {j1, j2}
  Verifications = {v1, v2}
  Calls = {c1, c2}
  NoCommit = NoCommit
  Operations = {"implement", "verify"}
  ManualTargets = {}
  ConcurrentCalls = 1
  RequiresE2e = TRUE
  StoreOrdered = TRUE
  Stalls = FALSE
  Faults = TRUE
  MaxCrashes = 0
PROPERTIES ProofIsActedOn
CHECK_DEADLOCK FALSE
