CONSTANTS
  t1 = t1
  t2 = t2
  t3 = t3
  Thr = {t1, t2, t3}
  Tag = {1}
  AnySrc = AnySrc
  AnyTag = AnyTag
  NAsync = 2
  MaxOps <- OpsWaits
  Calls <- CallsWaits
  Sends <- SendsWaits
  Wants <- WantsWaits
  Faults = {}
SPECIFICATION WaitsSpec
INVARIANTS WaitReturnsComplete
PROPERTIES MatchedWaitEnds
CHECK_DEADLOCK FALSE
