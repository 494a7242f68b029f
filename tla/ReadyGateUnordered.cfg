\* The runner lists runs without an order
SPECIFICATION Spec
CONSTANTS
  Jobs = {j1, j2}
  Verifications = {}
  Calls = {c1, c2}
  NoCommit = NoCommit
  Operations = {"implement"}
  ManualTargets = {}
  ConcurrentCalls = 1
  RequiresE2e = FALSE
  StoreOrdered = FALSE
  Stalls = FALSE
  Faults = FALSE
  MaxCrashes = 0
INVARIANTS ReadyIsForLatestCommit
CHECK_DEADLOCK FALSE
