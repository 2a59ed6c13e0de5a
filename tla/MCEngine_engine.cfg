CONSTANTS
  t1 = t1
  t2 = t2
  t3 = t3
  Thr = {t1, t2, t3}
  Tag = {1, 2}
  AnySrc = AnySrc
  AnyTag = AnyTag
  NAsync = 2
  MaxOps <- OpsFaults
  Calls <- CallsFaults
  Sends <- SendsFaults
  Wants <- WantsFaults
  Faults <- FaultNames
SPECIFICATION EngineSpec
INVARIANTS TypeOK NoLostMatch OneOwner ReturnedIsFree ProbeReliable WaitsSurviveFaults
PROPERTIES MatchesLikeMpi
CHECK_DEADLOCK FALSE
