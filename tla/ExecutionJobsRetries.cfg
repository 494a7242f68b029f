\* One request at a time beside the reconciler; cancellations, late answers, every fault
SPECIFICATION Spec
CONSTANTS
  Operations = {o1}
  Calls = {c1, c2}
  Passes = {p1}
  NoJob = NoJob
  MaxAttempt = 1
  ConcurrentCalls = 1
  PassesAlone = FALSE
  CancelsJobs = TRUE
  FaultKinds = {"runner", "early", "step", "stop", "request", "pass", "dispatch", "answer"}
  MaxFaults = 2
  Overdue = FALSE
  StaleReads = TRUE
SYMMETRY Symmetry
INVARIANTS TypeOK ReplayIsStatusOnly
CHECK_DEADLOCK FALSE
