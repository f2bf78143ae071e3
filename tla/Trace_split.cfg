SPECIFICATION Spec
CONSTANTS
  LuaFuncs = {"f"}
  CFuncs = {"pcall", "resume", "yield"}
  Pcalls = {"pcall"}
  ResumeFn = "resume"
  YieldFn = "yield"
  Threads = {main, co1, co2}
  Main = main
  Root = "root"
  GC = "gc"
  None = None
  Routine = "routine"
  FrameTrack = "frame"
  Stray = "stray"
  Confs <- MCSplit
  Ignorable = {"f"}
  BaseFrames <- MCBase
  MaxStack = 4
  MaxCalls = 4
CHECK_DEADLOCK FALSE
INVARIANT
  StopBalances
