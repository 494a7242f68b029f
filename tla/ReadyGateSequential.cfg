\* One request at a time, no stall: repair, rebase, replan, manual transition
SPECIFICATION Spec
CONSTANTS
  Jobs = {j1, j2}
  Verifications = {}
  Calls = {c1, c2, c3}
  NoCommit = NoCommit
  Operations = {"implement", "rebase", "replan", "merge", "transition"}
  ManualTargets = {"PLANNED", "IMPLEMENTING"}
  ConcurrentCalls = 1
  RequiresE2e = FALSE
  StoreOrdered = TRUE
  Stalls = FALSE
  Faults = TRUE
  MaxCrashes = 0
SYMMETRY Symmetry
INVARIANTS ReadyIsForLatestCommit
CHECK_DEADLOCK FALSE
