SPECIFICATION Spec
CONSTANTS
  q1 = q1  q2 = q2  q3 = q3  q4 = q4
  o1 = o1  o2 = o2  o3 = o3
  a = a  b = b
  na = na  nb = nb  nc = nc
  Requests = {q1, q2, q3, q4}
  Operations = {o1, o2, o3}
  OperationOf <- Operation
  Calls <- AllCalls
  Scenarios <- Overlaps
  Repositories = {a, b}
  Names = {na, nb, nc}
  FirstName <- FirstNames
  Bound = a
  Empty = {b}
  NoRepository = NoRepository
  MaxCommits = 2
INVARIANTS TypeOK OneLineOfBindings DoneIsDurable RegistrationKeepsRepository
PROPERTIES MovesWhatWasPinned RegisterSpec
CHECK_DEADLOCK FALSE
