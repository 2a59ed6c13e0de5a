CONSTANTS
  comm1 = comm1
  comm2 = comm2
  comm3 = comm3
  Procs = 4
  Length = 8
  INFO = 1
  Payloads = {1, 2}
  Programs <- SomePrograms
  Machines <- SomeMachines
SPECIFICATION LibrarySpec
INVARIANTS
  CommsSound MembersStayAgreed RecordExact TableSound ObjectsLive
  BufferTiled RequestsApart GroupsAsOrders TopologiesMatch PacksTheData OrderFree CallsEndClean
CHECK_DEADLOCK FALSE
