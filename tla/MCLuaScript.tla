---------------------------- MODULE MCLuaScript ----------------------------
(***************************************************************************)
(* What scripts build on: references, callbacks, threads with protected    *)
(* calls and coroutines, and modules.  They share no state, so a behaviour *)
(* is one of one part, the others at rest where they began.                *)
(***************************************************************************)
EXTENDS LuaRef, LuaCallback, LuaRequire, TLC

CONSTANTS
  fn, f1, f2,                      \* LuaRef's and LuaCallback's functions
  Main, Co, LUAI_MAXCCALLS, ERRORCCALLS, BASIC_CI_SIZE, LUAI_MAXCALLS, MAXOPEN, MAXFRAMES  \* LuaThread

VARIABLES
  part,  \* the part that runs
  th, C  \* LuaThread's

threadVars == <<th, C>>
allVars == <<part, refVars, vars, requireVars, threadVars>>

(* One anchored value is an opaque function, the other is the integer 2,   *)
(* which looks like a link of the free chain.  One thread calls back.      *)
MCValues == {fn, 2}
MCFunctions == {f1, f2}
OneThread == {"worker"}

T == INSTANCE LuaThread

Symmetry == Permutations(Co)

PartsInit ==
  /\ part \in {"references", "callbacks", "threads", "modules"}
  /\ RefInit /\ Init /\ RequireInit /\ T!Init
  /\ part # "callbacks" => \A which \in DOMAIN registered : registered[which] = Nil

PartsNext ==
  \/ part = "references" /\ RefNext     /\ UNCHANGED <<part, vars, requireVars, threadVars>>
  \/ part = "callbacks"  /\ Next        /\ UNCHANGED <<part, refVars, requireVars, threadVars>>
  \/ part = "threads"    /\ T!Next      /\ UNCHANGED <<part, refVars, vars, requireVars>>
  \/ part = "modules"    /\ RequireNext /\ UNCHANGED <<part, refVars, vars, threadVars>>

PartsSpec == PartsInit /\ [][PartsNext]_allVars

(* The threads' properties, stated where they are defined. *)
ThreadsConsistent    == T!ThreadsConsistent
ImplementsCoroutines == T!ImplementsCoroutines

=============================================================================
