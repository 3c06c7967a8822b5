--------------------------- MODULE MCLuaCallback ---------------------------
(* Two script functions; the threads are set by each configuration. *)
EXTENDS LuaCallback

CONSTANTS f1, f2

MCFunctions == {f1, f2}
OneThread == {"worker"}
BothThreads == {"main", "worker"}

=============================================================================
