------------------------------ MODULE MCTinker ------------------------------
(***************************************************************************)
(* lua_tinker's parts side by side.  They share no state, so a behaviour   *)
(* is one of one part, the others at rest where they began.                *)
(***************************************************************************)
EXTENDS TinkerObjects, TinkerTable, TinkerCall, TinkerClass, TLC

CONSTANTS
  o1, o2, u1, u2, u3,          \* TinkerObjects
  h1, h2, h3, t1, t2, n1,      \* TinkerTable
  v1, v2,                      \* TinkerCall
  base, middle, derived, k1    \* TinkerClass

(* Two objects and three userdata to hold them; three handles on two     *)
(* tables and one global name; two values, and calls nested in calls.      *)
MCObjects == {o1, o2}
MCUdata == {u1, u2, u3}
MCHandles == {h1, h2, h3}
MCTables == {t1, t2}
MCNames == {n1}
MCValues == {v1, v2}
MCClasses == {base, middle, derived}
MCBase == base :> Nothing @@ middle :> base @@ derived :> middle
MCDepth == base :> 0 @@ middle :> 1 @@ derived :> 2
MCInstances == {o1}
MCKeys == {k1}

Symmetry == Permutations(MCHandles) \cup Permutations(MCTables)

VARIABLE part  \* the part that runs

allVars   == <<part, vars, tableVars, callVars, classVars>>

ASSUME TableParameters /\ CallParameters

PartsInit ==
  /\ part \in {"objects", "table", "call", "class"}
  /\ Init /\ TableInit /\ CallInit /\ ClassInit
  /\ part # "objects" => ~registered
  /\ part # "table" => globals = [n \in MCNames |-> Nil]

PartsNext ==
  \/ part = "objects" /\ Next      /\ UNCHANGED <<part, tableVars, callVars, classVars>>
  \/ part = "table"   /\ TableNext /\ UNCHANGED <<part, vars, callVars, classVars>>
  \/ part = "call"    /\ CallNext  /\ UNCHANGED <<part, vars, tableVars, classVars>>
  \/ part = "class"   /\ ClassNext /\ UNCHANGED <<part, vars, tableVars, callVars>>

PartsSpec == PartsInit /\ [][PartsNext]_allVars

=============================================================================
