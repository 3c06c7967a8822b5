CONSTANTS
  o1 = o1
  o2 = o2
  u1 = u1
  u2 = u2
  u3 = u3
  None = None
  Objects <- MCObjects
  Udata <- MCUdata
  h1 = h1
  h2 = h2
  h3 = h3
  t1 = t1
  t2 = t2
  n1 = n1
  Handles <- MCHandles
  Tables <- MCTables
  Names <- MCNames
  Nil = Nil
  NoObj = NoObj
  MaxStack = 4
  v1 = v1
  v2 = v2
  Values <- MCValues
  Handler = Handler
  Script = Script
  Native = Native
  LuaNil = LuaNil
  MaxFrames = 4
  MaxHeld = 1
  base = base
  middle = middle
  derived = derived
  k1 = k1
  Classes <- MCClasses
  Base <- MCBase
  Depth <- MCDepth
  Instances <- MCInstances
  Keys <- MCKeys
  FieldValues <- MCValues
  Nothing = Nothing
SPECIFICATION PartsSpec
INVARIANT CallerKept
CHECK_DEADLOCK FALSE
