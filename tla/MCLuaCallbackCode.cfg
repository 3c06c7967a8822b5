CONSTANTS
  f1 = f1
  f2 = f2
  Nil = Nil
  NoThread = NoThread
  Threads <- OneThread
  Functions <- MCFunctions
  LUA_MINSTACK = 20
  FrameSize = 4
  MaxFailures = 3
SPECIFICATION Spec
INVARIANT ErrorReturnsCode
CHECK_DEADLOCK FALSE
