SPECIFICATION Spec
CONSTANTS
  Jobs <- ReduceJobs
  Context = 1
  ZeroIsUnit = FALSE
INVARIANT InRankOrder
CHECK_DEADLOCK FALSE
