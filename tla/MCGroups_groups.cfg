CONSTANTS
  m1 = m1
  m2 = m2
  f1 = f1
  f2 = f2
  Nodes <- NodesDef
  Fathers = {f1, f2}
  Home <- HomeDef
  Own <- OwnDef
  Layout <- LayoutDef
  Main = f1
  Dflt = 1
SPECIFICATION ServersSpec
INVARIANTS RpcSound WaitEndsWhole TableInUse Lifecycle
PROPERTIES AllEnds
CHECK_DEADLOCK FALSE
