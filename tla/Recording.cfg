SPECIFICATION Spec
CONSTANTS
  main = main
  other = other
  f = f
  g = g
  Main = main
  NoThread = NoThread
  Browser = Browser
  Sampler = Sampler
  Root = Root
  Threads = {main, other}
  Funcs = {f, g}
  Ignored = {g}
  BaseFrames <- MCBaseFrames
  Confs <- MCConfs
  MaxStack = 4
  PageSize = 3
  PageLimit = 3
  Event = {}
  TimeModulus = 64
INVARIANTS TypeOK PagesFilled EndsMeet CompressedScopes PerfettoNests TracyNests TracyCounts ReportsAgree OutputsAlike
PROPERTIES ActsAsList SessionEnds
CHECK_DEADLOCK FALSE
