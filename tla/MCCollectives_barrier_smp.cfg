SPECIFICATION Spec
CONSTANTS
  Jobs <- FinalJobs
  Context = 1
  ZeroIsUnit = TRUE
INVARIANT FinalizeWaits
CHECK_DEADLOCK FALSE
