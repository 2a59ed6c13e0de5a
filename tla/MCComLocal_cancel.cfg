CONSTANTS
  t1 = t1
  t2 = t2
  t3 = t3
  Thr = {t1, t2, t3}
  Tag = {1}
  AnySrc = AnySrc
  AnyTag = AnyTag
  NAsync = 1
  MaxOps <- OpsCancel
  Calls <- CallsCancel
  Sends <- SendsCancel
  Wants <- WantsCancel
  Faults = {}
SPECIFICATION Spec
PROPERTIES CancelOnlyEmpty
CHECK_DEADLOCK FALSE
