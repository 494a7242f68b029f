\* Five-minute steps, a pass at least every quarter of an hour, GitHub may not answer
SPECIFICATION Spec
CONSTANTS
  Step = 5
  PassGap = 15
  Answers = {TRUE, FALSE}
  Conclusions = {"FAILURE", "CANCELLED"}
  MaxSame = 8
INVARIANTS TypeOK DueAttemptStartsSoon StallNoticedSoon
PROPERTIES CeilingSparesExecutions BackoffDoubles
CHECK_DEADLOCK FALSE
