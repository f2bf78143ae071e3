SPECIFICATION Spec
CONSTANTS
  LuaFuncs = {"f"}
  CFuncs = {"pcall"}
  Pcalls = {"pcall"}
  Threads = {main, co1}
  Main = main
  Root = "root"
  None = None
  TailReturn = "tailret"
  VMs = {"puc51", "luajit"}
  LoadStacks = {TRUE}
  BaseFrames <- MCBase
  MaxStack = 5
  MaxTime = 1
  MaxCalls = 3
CHECK_DEADLOCK FALSE
INVARIANT
  CountsInvocations
