--------------------------- MODULE TinkerObjects ---------------------------
(***************************************************************************)
(* The lifetimes of C++ objects that scripts hold through lua_tinker.  A   *)
(* userdata carries a val2user, which owns the object and deletes it when  *)
(* the collector calls __gc, or a ptr2user or ref2user, which only points  *)
(* to it.  __gc comes with the class's metatable: a userdata made before   *)
(* class_add has none.                                                     *)
(***************************************************************************)
EXTENDS Naturals, FiniteSets

CONSTANTS
  Objects,   \* C++ objects of one class; an address is not used again
  Udata,     \* userdata
  None       \* no userdata, no object

(* The userdata's content: the user of lua_tinker.h in it, and whether its *)
(* metatable has __gc.                                                     *)
Users == [kind : {"val", "ptr", "ref"}, m_p : Objects, gc : BOOLEAN]

ASSUME TinkerObjectsAssumption ==
  None \notin Udata \cup Objects \cup Users \cup {"program", "script", "early"}

VARIABLES
  registered,  \* whether class_add has run
  owner,       \* who answers for each object: the program, the script,
               \* "early" for values pushed before class_add, None if not made
  alive,       \* the objects made and not deleted
  udata,       \* the userdata, None where there is none
  held,        \* the userdata the script can reach
  tmudata,     \* those the collector has separated, waiting for __gc
  closing      \* whether lua_close has begun

vars == <<registered, owner, alive, udata, held, tmudata, closing>>

Used   == {u \in Udata : udata[u] # None}
Closed == closing /\ tmudata = {}

(* The userdata that will delete the object. *)
Owns(u, o) == udata[u] = [kind |-> "val", m_p |-> o, gc |-> TRUE]

Init ==
  /\ registered \in BOOLEAN
  /\ owner = [o \in Objects |-> None]
  /\ alive = {}
  /\ udata = [u \in Udata |-> None]
  /\ held = {} /\ tmudata = {}
  /\ closing = FALSE

-----------------------------------------------------------------------------
(* class_add and class_con. *)
Register ==
  /\ ~closing
  /\ registered' = TRUE
  /\ UNCHANGED <<owner, alive, udata, held, tmudata, closing>>

(* The program makes or deletes an object of its own. *)
ProgramNew(o) ==
  /\ owner[o] = None
  /\ owner' = [owner EXCEPT ![o] = "program"]
  /\ alive' = alive \cup {o}
  /\ UNCHANGED <<registered, udata, held, tmudata, closing>>

ProgramDelete(o) ==
  /\ owner[o] = "program" /\ o \in alive
  /\ alive' = alive \ {o}
  /\ UNCHANGED <<registered, owner, udata, held, tmudata, closing>>

(* A new userdata around an object, with the metatable push_meta finds. *)
NewUser(u, kind, o) ==
  /\ ~closing
  /\ udata[u] = None
  /\ udata' = [udata EXCEPT ![u] = [kind |-> kind, m_p |-> o, gc |-> registered]]
  /\ held' = held \cup {u}
  /\ UNCHANGED <<registered, tmudata, closing>>

(* Mutant of PushValue: the userdata takes the program's object itself. *)
PushValueUncopied(u, o) ==
  /\ o \in alive /\ owner[o] = "program"
  /\ NewUser(u, "val", o)
  /\ UNCHANGED <<alive, owner>>

(* val2lua, and the constructor the script calls: new T, or a copy. *)
PushValue(u, o) ==
  /\ owner[o] = None
  /\ owner' = [owner EXCEPT ![o] = IF registered THEN "script" ELSE "early"]
  /\ alive' = alive \cup {o}
  /\ NewUser(u, "val", o)

(* ptr2lua and ref2lua: of an object of the program, or of the script's    *)
(* when a method of it returns a pointer or reference.                     *)
PushPointer(u, o) ==
  /\ o \in alive
  /\ \E kind \in {"ptr", "ref"} : NewUser(u, kind, o)
  /\ UNCHANGED <<owner, alive>>

(* The script lets go of a userdata. *)
Drop(u) ==
  /\ u \in held
  /\ held' = held \ {u}
  /\ UNCHANGED <<registered, owner, alive, udata, tmudata, closing>>

(* Mutant of Separate: every unreachable userdata waits for a call. *)
SeparateAll(u) ==
  /\ ~closing
  /\ u \in Used \ (held \cup tmudata)
  /\ tmudata' = tmudata \cup {u}
  /\ UNCHANGED <<registered, owner, alive, udata, held, closing>>

(* luaC_separateudata of an unreachable userdata: one with __gc waits for  *)
(* its call, the others are freed as they are.                             *)
Separate(u) ==
  /\ ~closing
  /\ u \in Used \ (held \cup tmudata)
  /\ IF udata[u].gc THEN tmudata' = tmudata \cup {u} /\ UNCHANGED udata
                    ELSE udata' = [udata EXCEPT ![u] = None] /\ UNCHANGED tmudata
  /\ UNCHANGED <<registered, owner, alive, held, closing>>

(* Mutant of Destroyer: ~user not virtual, as the original had it. *)
DestroyerNotVirtual(u) == alive' = alive

(* Mutant of Destroyer: every user deletes. *)
DestroyerOfAll(u) == alive' = alive \ {udata[u].m_p}

(* destroyer: the virtual ~user; only ~val2user deletes. *)
Destroyer(u) == alive' = IF udata[u].kind = "val" THEN alive \ {udata[u].m_p} ELSE alive

(* GCTM: __gc of a separated userdata, which is then freed. *)
Finalize(u) ==
  /\ u \in tmudata
  /\ Destroyer(u)
  /\ tmudata' = tmudata \ {u}
  /\ udata' = [udata EXCEPT ![u] = None]
  /\ UNCHANGED <<registered, owner, held, closing>>

(* lua_close: everything goes, and __gc is called wherever there is one. *)
Close ==
  /\ ~closing
  /\ closing' = TRUE
  /\ held' = {}
  /\ tmudata' = {u \in Used : udata[u].gc}
  /\ udata' = [u \in Udata |-> IF u \in tmudata' THEN udata[u] ELSE None]
  /\ UNCHANGED <<registered, owner, alive>>

Next ==
  \/ Register \/ Close
  \/ \E o \in Objects : ProgramNew(o) \/ ProgramDelete(o)
  \/ \E u \in Udata :
       \/ Drop(u) \/ Separate(u) \/ Finalize(u)
       \/ \E o \in Objects : PushValue(u, o) \/ PushPointer(u, o)

Spec == Init /\ [][Next]_vars

-----------------------------------------------------------------------------
TypeOK ==
  /\ registered \in BOOLEAN
  /\ owner \in [Objects -> {None, "program", "script", "early"}]
  /\ alive \subseteq Objects
  /\ udata \in [Udata -> Users \cup {None}]
  /\ held \subseteq Used /\ tmudata \subseteq Used \ held
  /\ closing \in BOOLEAN

(* Every userdata that will delete an object is the only one, and the      *)
(* object is there to be deleted and is not the program's.                 *)
DeletedOnce ==
  \A u \in Used : udata[u].kind = "val" =>
    /\ udata[u].m_p \in alive /\ owner[udata[u].m_p] \in {"script", "early"}
    /\ \A w \in Used \ {u} : udata[w].kind = "val" => udata[w].m_p # udata[u].m_p

(* When the state is closed, no object the script answered for is left,    *)
(* whichever of them the collector had finalized, separated or not seen.   *)
NothingLeft == Closed => \A o \in alive : owner[o] \in {"program", "early"}

(* While it is not closed, each such object has its userdata, so that it   *)
(* goes with it and not before: the script may use what it holds by value. *)
KeptWhileHeld ==
  \A o \in Objects : owner[o] = "script" /\ ~closing =>
    (o \in alive <=> \E u \in Used : Owns(u, o))

-----------------------------------------------------------------------------
(* The userdata that own what is the script's are those with __gc.         *)
GcOwns ==
  /\ \A u \in Used : udata[u].kind = "val" =>
       (udata[u].gc <=> owner[udata[u].m_p] = "script")
  /\ \A u \in tmudata : udata[u].gc

(* What is left of the script's is with somebody who will delete it: any   *)
(* userdata before lua_close, a separated one from then on.                *)
OwnerLeft ==
  \A o \in alive : owner[o] = "script" =>
    \E u \in Used : Owns(u, o) /\ (closing => u \in tmudata)

Made == \A o \in alive : owner[o] # None

(* The invariant that carries the others. *)
IInv == TypeOK /\ DeletedOnce /\ GcOwns /\ OwnerLeft /\ Made

=============================================================================
