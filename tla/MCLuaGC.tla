------------------------------ MODULE MCLuaGC ------------------------------
(* Programs with tables, with weak tables and userdata, with closures over  *)
(* the main stack, and with coroutines whose upvalues may outlive them.     *)
EXTENDS LuaGC, TLC

CONSTANTS a, b, c, d

MCAddrs == {a, b, c, d}

Program(kinds, modes, fullgc, main, co, addrs, start) ==
  [kinds |-> kinds, modes |-> modes, fullgc |-> fullgc, main |-> main, co |-> co, addrs |-> addrs,
   start |-> start]

(* A closure over the slot of a coroutine that nothing else refers to. *)
Orphan(f, u, t) ==
  (f :> [tt |-> "function", up |-> u]) @@
  (u :> [tt |-> "upval", thread |-> t, slot |-> 1, val |-> Nil]) @@
  (t :> NewThread(1)) @@ (Main :> [tt |-> "thread", stack |-> <<f, Nil>>])

MCPrograms ==
  {Program({"table"}, {""}, TRUE, 2, 0, {a, b}, <<>>),
   Program({"table", "udata"}, {"k"}, FALSE, 2, 0, {a, b}, <<>>),
   Program({"table", "udata"}, {"v"}, TRUE, 2, 0, {a, b}, <<>>),
   Program({"function", "thread"}, {}, FALSE, 2, 0, {a, b, c}, <<>>),
   Program({"function", "thread"}, {}, FALSE, 1, 2, {a, b, c}, <<>>),
   Program({"thread"}, {}, FALSE, 2, 0, {d}, Orphan(a, b, c))}

=============================================================================
