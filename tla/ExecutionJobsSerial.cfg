\* Requests and reconciler passes one after the other; one runner, request or GitHub fault
SPECIFICATION FairSpec
CONSTANTS
  Operations = {o1, o2}
  Calls = {c1, c2}
  Passes = {p1}
  NoJob = NoJob
  MaxAttempt = 1
  ConcurrentCalls = 1
  PassesAlone = TRUE
  CancelsJobs = FALSE
  FaultKinds = {"runner", "early", "stop", "request", "dispatch", "answer"}
  MaxFaults = 1
  Overdue = FALSE
  StaleReads = FALSE
INVARIANTS OneJobInFlight
PROPERTIES CallbackIsFinal WorkIsNotParked
CHECK_DEADLOCK FALSE
