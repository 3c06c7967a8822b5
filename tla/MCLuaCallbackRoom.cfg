CONSTANTS
  f1 = f1
  f2 = f2
  Nil = Nil
  NoThread = NoThread
  Threads <- OneThread
  Functions <- MCFunctions
  LUA_MINSTACK = 20
  FrameSize = 4
  MaxFailures = 20
SPECIFICATION Spec
INVARIANT RoomToPush
CHECK_DEADLOCK FALSE
