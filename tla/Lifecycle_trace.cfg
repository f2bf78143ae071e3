SPECIFICATION Spec
CONSTANTS
  Prof = {p1, p2}
  Threads = {main, co}
  Main = main
  Base = Base
  Null = Null
  None = None
  ModeArgs <- MCTraceModes
  VMs = {"puc51", "luajit"}
  MaxNest = 1
  Habits = {"trace_without_calls"}
INVARIANT
  NoFault
