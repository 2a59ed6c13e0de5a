CONSTANTS
  t1 = t1
  t2 = t2
  t3 = t3
  Thr = {t1, t2, t3}
  Tag = {1}
  AnySrc = AnySrc
  AnyTag = AnyTag
  NAsync = 1
  MaxOps <- OpsTimeout
  Calls <- CallsTimeout
  Sends <- SendsTimeout
  Wants <- WantsTimeout
  Faults = {"timeout"}
SPECIFICATION Spec
INVARIANTS WaitReturnsComplete
CHECK_DEADLOCK FALSE
