SPECIFICATION Spec
CONSTANTS
  LuaFuncs = {"f"}
  CFuncs = {"pcall"}
  Pcalls = {"pcall"}
  Threads = {main, co1, co2}
  Main = main
  Root = "root"
  None = None
  TailReturn = "tailret"
  VMs = {"puc51", "luajit"}
  LoadStacks = {FALSE}
  BaseFrames <- MCBase
  MaxStack = 3
  MaxTime = 1
  MaxCalls = 3
CHECK_DEADLOCK FALSE
SYMMETRY Symmetry
INVARIANTS
  TypeOK
  Nested
  ChildrenAddUp
  Attribution
  CountsInvocations
PROPERTY
  RootStays
