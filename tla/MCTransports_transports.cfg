CONSTANTS
  a = a
  b = b
  c = c
  d = d
  m1 = m1
  m2 = m2
  m3 = m3
  any = any
  Thr <- Thrs
  Home <- At
  Programs <- Mixed
  AnySrc = any
  AnyTag = any
  Packets = 7
  Room = 4
  Spurious = {d}
  p1 = p1
  p2 = p2
  n1 = n1
  n2 = n2
  n3 = n3
  Null = Null
  Producers = {p1, p2}
  Items <- Objects
  Uses = 2
SPECIFICATION TransportsSpec
INVARIANTS RemoteWhole RemoteOrdered CopiedWhole EachOnce FreedBySecond LinksWhole
PROPERTIES Fifo AllEnd
CHECK_DEADLOCK FALSE
