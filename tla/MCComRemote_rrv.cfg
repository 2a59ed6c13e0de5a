CONSTANTS
  a = a
  b = b
  c = c
  d = d
  m1 = m1
  m2 = m2
  m3 = m3
  any = any
  Thr <- Thrs
  Home <- At
  Programs <- Merging
  AnySrc = any
  AnyTag = any
  Packets = 7
  Room = 4
  Spurious = {a}
SPECIFICATION Spec
INVARIANTS WholeMessages
CHECK_DEADLOCK FALSE
