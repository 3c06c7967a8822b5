CONSTANTS
  fn = fn
  RefValues <- MCValues
  NoValue = NoValue
  MaxRef = 4
  f1 = f1
  f2 = f2
  Nil = Nil
  NoThread = NoThread
  Threads <- OneThread
  Functions <- MCFunctions
  LUA_MINSTACK = 20
  FrameSize = 4
  MaxFailures = 3
  Main = Main
  Co = {c1, c2}
  LUAI_MAXCCALLS = 3
  ERRORCCALLS = 2
  BASIC_CI_SIZE = 5
  LUAI_MAXCALLS = 5
  MAXOPEN = 1
  MAXFRAMES = 8
  Modules = {m1, m2, m3}
  MaxRuns = 2
SPECIFICATION PartsSpec
SYMMETRY Symmetry
INVARIANTS LiveIntact RefIInv FramesKept RightCall ThreadsConsistent ModulesOnce
PROPERTIES NeverReissued ImplementsCoroutines
\* where a bound is reached there may be no next step
CHECK_DEADLOCK FALSE
