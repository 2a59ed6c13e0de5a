SPECIFICATION FairSpec
CONSTANTS
  Jobs <- AllJobs
  Context = 1
  ZeroIsUnit = TRUE
INVARIANTS TypeOK InScope OwnTraffic FinalizeWaits
PROPERTIES Implements Ends
CHECK_DEADLOCK FALSE
