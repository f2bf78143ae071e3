SPECIFICATION Spec
CONSTANTS
  Prof = {p1, p2}
  Threads = {main, co}
  Main = main
  Base = Base
  Null = Null
  None = None
  ModeArgs <- MCModes
  VMs = {"puc51", "luajit"}
  MaxNest = 1
  Habits = {"set_mode_in_profile"}
INVARIANT
  AllocatorHookRemoved
