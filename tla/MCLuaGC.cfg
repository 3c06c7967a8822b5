CONSTANTS
  a = a
  b = b
  c = c
  d = d
  Main = Main
  Nil = Nil
  Addrs <- MCAddrs
  Programs <- MCPrograms
SPECIFICATION Spec
INVARIANTS NothingDangles ListsAndColours
PROPERTIES Finalizers FullCollects
CHECK_DEADLOCK FALSE
