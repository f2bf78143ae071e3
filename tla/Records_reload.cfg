SPECIFICATION Spec
CONSTANTS
  main = main
  other = other
  f = f
  g = g
  c = c
  start = start
  Threads = {main, other}
  Main = main
  Funcs = {f, g, c, start}
  Starter = start
  Identifier <- MCIdentifier
  LinesOf <- MCLinesOf
  BaseFrames <- MCBaseFrames
  Confs <- MCReload
  MaxStack = 4
  Key <- MCKey
  BucketCount = 2
  BucketOf <- MCBucketOf
INVARIANT Connected
CHECK_DEADLOCK FALSE
