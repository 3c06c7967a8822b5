------------------------------- MODULE LuaGC -------------------------------
(***************************************************************************)
(* The incremental collector of lgc.c and the program that runs between    *)
(* its steps.  It marks from the threads with three colours, two of the    *)
(* whites taking turns, and sweeps the list of all objects; the program    *)
(* changes the graph meanwhile, behind the barriers of lgc.h.  Strings are *)
(* in LuaString: nothing is reached through them.                          *)
(*                                                                         *)
(* The main thread stands for all roots: the registry, the globals and the *)
(* basic metatables are tables that one of its slots may hold.  The lists  *)
(* through gclist are sequences, those through next are sets: in which     *)
(* order objects are swept and finalized is left open.                     *)
(***************************************************************************)
EXTENDS Integers, Sequences, SequencesExt, FiniteSets

CONSTANTS
  Main,      \* the main thread
  Addrs,     \* where other objects may be allocated
  Nil,       \* Lua's nil
  Programs   \* what a program may use: kinds of objects, weak modes,
             \* full collections, slots of the main thread and of a coroutine, where to
             \* allocate, and the part of the heap it starts with

VARIABLES
  heap,      \* the object at each address
  g,         \* the collector's part of global_State
  running,   \* the thread that runs
  full,      \* luaC_fullgc: "no", "sweep", "mark" in its two halves, "done"
  called,    \* history: the userdata whose __gc has run
  program    \* which program this is

vars == <<heap, g, running, full, called, program>>

Objs == Addrs \cup {Main}
Values == Addrs \cup {Nil}

(* A table has one entry, and the weakness its metatable's __mode asks for; *)
(* a userdata has its environment, a closure one upvalue, a thread a stack. *)
(* An open upvalue is [thread, slot], a closed one has its value in val.    *)
Modes    == {"", "k", "v", "kv"}
Table    == [tt : {"table"}, mode : Modes, key : Values, val : Values]
Udata    == [tt : {"udata"}, env : Values, fin : BOOLEAN]
Function == [tt : {"function"}, up : Addrs]
Upval    == [tt : {"upval"}, thread : Objs \cup {Nil}, slot : Nat, val : Values]
Thread   == [tt : {"thread"}, stack : Seq(Values)]
Free     == [tt |-> "free"]    \* an address that holds no object

Heaps == [Objs -> Table \cup Udata \cup Function \cup Upval \cup Thread \cup {Free}]

NewThread(n) == [tt |-> "thread", stack |-> [i \in 1 .. n |-> Nil]]
Allocated    == {o \in Objs : heap[o].tt # "free"}
Is(o, kind)  == o \in Objs /\ heap[o].tt = kind
IsOpen(u)    == heap[u].thread # Nil

(* What an upvalue holds, in its stack slot or in itself. *)
UpvalValue(h, u) == IF h[u].thread # Nil THEN h[h[u].thread].stack[h[u].slot] ELSE h[u].val

(* What an object keeps alive, and all it refers to. *)
Strong(h, o) ==
  CASE h[o].tt = "free"     -> {}
    [] h[o].tt = "table"    -> (IF h[o].mode \in {"", "v"} THEN {h[o].key} ELSE {})
                               \cup (IF h[o].mode \in {"", "k"} THEN {h[o].val} ELSE {})
    [] h[o].tt = "udata"    -> {h[o].env}
    [] h[o].tt = "function" -> {h[o].up}
    [] h[o].tt = "upval"    -> {UpvalValue(h, o)}
    [] h[o].tt = "thread"   -> Range(h[o].stack)

Refers(h, o) == Strong(h, o) \cup (IF h[o].tt = "table" THEN {h[o].key, h[o].val} ELSE {})

(* The heap a program starts with. *)
StartHeap(p) ==
  [o \in Objs |-> IF o \in DOMAIN p.start THEN p.start[o]
                  ELSE IF o = Main THEN NewThread(p.main) ELSE Free]

(* An open upvalue's slot exists, an environment is a table, and only       *)
(* functions refer to upvalues.                                             *)
SlotsExist(h) ==
  \A u \in Objs : h[u].tt = "upval" /\ h[u].thread # Nil =>
    h[h[u].thread].tt = "thread" /\ h[u].slot \in DOMAIN h[h[u].thread].stack
Leads(h, o) ==
  \A v \in Refers(h, o) \ {Nil} :
    /\ h[v].tt # "free"
    /\ h[v].tt = "upval" <=> h[o].tt = "function"
    /\ h[o].tt = "udata" => h[v].tt = "table"

ASSUME GCParameters ==
  /\ IsFiniteSet(Addrs) /\ Main \notin Addrs /\ Nil \notin Objs
  /\ \A p \in Programs :
       /\ p.main \in Nat /\ p.co \in Nat /\ p.fullgc \in BOOLEAN
       /\ p.addrs \subseteq Addrs /\ p.modes \subseteq Modes
       /\ p.kinds \subseteq {"table", "udata", "function", "thread"}
       /\ StartHeap(p) \in Heaps /\ StartHeap(p)[Main].tt = "thread"
       /\ SlotsExist(StartHeap(p))
       /\ \A o \in Objs : Leads(StartHeap(p), o)
       /\ \A o \in Objs : StartHeap(p)[o].tt = "udata" => StartHeap(p)[o].fin = FALSE

(* The object's colour: one of two whites, "gray" or "black". *)
Whites     == {"w0", "w1"}
IsWhite(o) == g.c[o] \in Whites
otherwhite == IF g.white = "w0" THEN "w1" ELSE "w0"
isdead(o)  == g.c[o] = otherwhite

(* A thread's open upvalues. *)
openupval(t) == {u \in Objs : Is(u, "upval") /\ heap[u].thread = t}

Init ==
  /\ program \in Programs
  /\ heap = StartHeap(program)
  /\ g = [state |-> "pause", white |-> "w0", c |-> [o \in Objs |-> "w0"],
          gray |-> <<>>, grayagain |-> <<>>, weak |-> <<>>,
          rootgc |-> {o \in Allocated : ~(Is(o, "upval") /\ IsOpen(o))},
          sweepgc |-> {}, tmudata |-> {}]
  /\ running = Main /\ full = "no" /\ called = {}

-----------------------------------------------------------------------------
(* Marking.  Each of these takes and returns a collector record.           *)

(* markvalue of all of V: what is white becomes gray and joins the list, a *)
(* userdata is black at once, with its environment marked.                 *)
mark(s, V) ==
  LET white == {o \in Objs : s.c[o] \in Whites}
      us == {o \in V \cap white : Is(o, "udata")}
      os == ((V \ us) \cup {heap[u].env : u \in us}) \cap white
  IN  [s EXCEPT !.c = [o \in Objs |-> IF o \in os THEN "gray" ELSE IF o \in us THEN "black" ELSE s.c[o]],
                !.gray = SetToSeq(os) \o s.gray]

(* reallymarkobject of an upvalue: black if closed, gray while open. *)
MarkUpval(s, u) ==
  IF s.c[u] \notin Whites THEN s
  ELSE LET t == mark(s, {UpvalValue(heap, u)})
       IN  [t EXCEPT !.c = [t.c EXCEPT ![u] = IF IsOpen(u) THEN "gray" ELSE "black"]]

(* Mutant of traversetable: the weak values are marked too. *)
traversetableStrong(s, h) == mark(s, {heap[h].key, heap[h].val})

(* Weak tables go to the list weak, to be cleared, and stay gray. *)
traversetable(s, h) ==
  IF heap[h].mode = "" THEN mark(s, Strong(heap, h))
  ELSE mark([s EXCEPT !.weak = <<h>> \o s.weak, !.c = [s.c EXCEPT ![h] = "gray"]], Strong(heap, h))

(* Threads stay gray, to be traversed again at the end. *)
traversestack(s, t) ==
  mark([s EXCEPT !.c = [s.c EXCEPT ![t] = "gray"], !.grayagain = <<t>> \o s.grayagain],
       Range(heap[t].stack))

propagatemark(s) ==
  LET o == Head(s.gray)
      t == [s EXCEPT !.gray = Tail(s.gray), !.c = [s.c EXCEPT ![o] = "black"]]
  IN  CASE heap[o].tt = "table"    -> traversetable(t, o)
        [] heap[o].tt = "function" -> MarkUpval(t, heap[o].up)
        [] heap[o].tt = "thread"   -> traversestack(t, o)

(* Each turn takes an object off the list that does not come back, or finds *)
(* the list empty.                                                          *)
propagateall(s) ==
  LET after[n \in Nat] ==
        IF n = 0 THEN s
        ELSE LET t == after[n - 1] IN IF t.gray = <<>> THEN t ELSE propagatemark(t)
  IN  after[Cardinality(Objs)]

markroot(s) ==
  mark([s EXCEPT !.gray = <<>>, !.grayagain = <<>>, !.weak = <<>>, !.state = "propagate"], {Main})

-----------------------------------------------------------------------------
(* The atomic end of the mark phase.                                       *)

(* The values of marked open upvalues: their threads may be dead. *)
remarkupvals(s) ==
  mark(s, {UpvalValue(heap, u) : u \in {v \in Objs : Is(v, "upval") /\ IsOpen(v) /\ s.c[v] = "gray"}})

(* propagateall again from the weak tables and the running thread, then    *)
(* from what is in grayagain.                                              *)
WeakAgain(s) == propagateall(mark([s EXCEPT !.gray = s.weak, !.weak = <<>>], {running}))
GrayAgain(s) == propagateall([s EXCEPT !.gray = s.grayagain, !.grayagain = <<>>])

(* Up to here what the program can reach is marked. *)
Ending(s) == GrayAgain(WeakAgain(propagateall(remarkupvals(s))))

(* Mutant of Separated: userdata called before are taken again. *)
SeparatedAgain(s) == {u \in s.rootgc : Is(u, "udata") /\ s.c[u] \in Whites}

(* luaC_separateudata: the unmarked userdata not finalized before.  Every  *)
(* userdata has a __gc here.                                               *)
Separated(s) == {u \in s.rootgc : Is(u, "udata") /\ s.c[u] \in Whites /\ ~heap[u].fin}

(* They wait for their __gc, off the list of objects, in the heap too. *)
Keeping(s)  == LET us == Separated(s) IN [s EXCEPT !.tmudata = s.tmudata \cup us, !.rootgc = s.rootgc \ us]
Waiting(us) == [o \in Objs |-> IF o \in us THEN [heap[o] EXCEPT !.fin = TRUE] ELSE heap[o]]

(* marktmu: a userdata that waits is kept, with all that it reaches. *)
marktmu(s) ==
  mark([s EXCEPT !.c = [o \in Objs |-> IF o \in s.tmudata THEN s.white ELSE s.c[o]]], s.tmudata)

(* A collected object, or, as a value, a userdata that was finalized. *)
iscleared(s, h, o, iskey) ==
  /\ o # Nil
  /\ s.c[o] \in Whites \/ (h[o].tt = "udata" /\ ~iskey /\ h[o].fin)

(* cleartable of every weak table. *)
Cleared(s, h) ==
  [o \in Objs |->
    IF o \in Range(s.weak) /\ (iscleared(s, h, h[o].key, TRUE) \/ iscleared(s, h, h[o].val, FALSE))
    THEN [h[o] EXCEPT !.key = Nil, !.val = Nil] ELSE h[o]]

(* The lists that markroot will empty before they are read are emptied here. *)
atomic ==
  LET s4 == Ending(g)
      s5 == propagateall(marktmu(Keeping(s4)))
  IN  /\ heap' = Cleared(s5, Waiting(Separated(s4)))
      /\ g' = [s5 EXCEPT !.white = otherwhite, !.sweepgc = s5.rootgc, !.state = "sweepstring",
                         !.grayagain = <<>>, !.weak = <<>>]

-----------------------------------------------------------------------------
(* Upvalues.                                                               *)

(* Mutant of linkupval: the value of an upvalue that closes is not marked. *)
linkupvalUnmarked(s, us) ==
  LET closed == IF s.state = "propagate" THEN "black" ELSE s.white
  IN  [s EXCEPT !.rootgc = s.rootgc \cup us,
                !.c = [o \in Objs |-> IF o \in us /\ s.c[o] = "gray" THEN closed ELSE s.c[o]]]

(* luaC_linkupval: a gray upvalue becomes black, with the barrier; white   *)
(* while sweeping.                                                         *)
linkupval(s, us) ==
  LET grays  == {u \in us : s.c[u] = "gray"}
      closed == IF s.state = "propagate" THEN "black" ELSE s.white
      t == [s EXCEPT !.rootgc = s.rootgc \cup us,
                     !.c = [o \in Objs |-> IF o \in grays THEN closed ELSE s.c[o]]]
  IN  IF s.state = "propagate" THEN mark(t, {UpvalValue(heap, u) : u \in grays}) ELSE t

(* The heap without the objects of gone, and with the upvalues us closed. *)
CloseIn(gone, us) ==
  [o \in Objs |-> IF o \in gone THEN Free
                  ELSE IF o \in us THEN [heap[o] EXCEPT !.thread = Nil, !.val = UpvalValue(heap, o)]
                  ELSE heap[o]]

(* luaF_close: the dead ones are freed. *)
luaF_close(t, level) ==
  LET us   == {u \in openupval(t) : heap[u].slot >= level}
      gone == {u \in us : isdead(u)}
  IN  heap' = CloseIn(gone, us \ gone) /\ g' = linkupval(g, us \ gone)

-----------------------------------------------------------------------------
(* singlestep.                                                             *)

Pause == g.state = "pause" /\ g' = markroot(g) /\ UNCHANGED heap

Propagate ==
  /\ g.state = "propagate"
  /\ IF g.gray # <<>> THEN g' = propagatemark(g) /\ UNCHANGED heap ELSE atomic

SweepString == g.state = "sweepstring" /\ g' = [g EXCEPT !.state = "sweep"] /\ UNCHANGED heap

(* sweeplist on one object, not on up to GCSWEEPMAX, a thread's open       *)
(* upvalues before itself.  A dead thread closes those that are left       *)
(* (luaE_freethread).                                                      *)
Sweep(o) ==
  LET swept == {o} \cup openupval(o)
      gone  == {p \in swept : isdead(p)}
      left  == IF isdead(o) THEN swept \ gone ELSE {}
      white == [g EXCEPT !.c = [p \in Objs |-> IF p \in swept \ gone THEN g.white ELSE g.c[p]],
                         !.rootgc = g.rootgc \ gone, !.sweepgc = g.sweepgc \ {o},
                         !.state = IF g.sweepgc = {o} THEN "finalize" ELSE "sweep",
                         !.grayagain = IF g.sweepgc = {o} THEN <<>> ELSE g.grayagain]
  IN  heap' = CloseIn(gone, left) /\ g' = linkupval(white, left)

SweepObject == g.state = "sweep" /\ \E o \in g.sweepgc : Sweep(o)

Finalized == g.state = "finalize" /\ g.tmudata = {} /\ g' = [g EXCEPT !.state = "pause"]
             /\ UNCHANGED heap

(* GCTM: a userdata that waits goes back to the list of objects and its    *)
(* __gc is called; that may keep it, in a free slot.                       *)
GCTM ==
  /\ g.state = "finalize"
  /\ \E o \in g.tmudata :
       /\ called' = called \cup {o}
       /\ g' = [g EXCEPT !.tmudata = g.tmudata \ {o}, !.c = [g.c EXCEPT ![o] = g.white],
                         !.rootgc = g.rootgc \cup {o}]
       /\ \/ UNCHANGED heap
          \/ \E i \in DOMAIN heap[running].stack :
               heap[running].stack[i] = Nil /\ heap' = [heap EXCEPT ![running].stack[i] = o]

singlestep ==
  /\ UNCHANGED <<running, program>>
  /\ \/ GCTM
     \/ /\ Pause \/ Propagate \/ SweepString \/ SweepObject \/ Finalized
        /\ called' = {o \in called : heap'[o].tt # "free"}

(* luaC_step, a step at a time. *)
Step == full \in {"no", "done"} /\ singlestep /\ full' = "no"

(* luaC_fullgc: what was marked is forgotten, a sweep makes all white. *)
FullStart ==
  /\ full = "no" /\ program.fullgc
  /\ full' = "sweep"
  /\ g' = IF g.state \in {"pause", "propagate"}
          THEN [g EXCEPT !.sweepgc = g.rootgc, !.gray = <<>>, !.grayagain = <<>>, !.weak = <<>>,
                         !.state = "sweepstring"]
          ELSE g
  /\ UNCHANGED <<heap, running, called, program>>

FullStep ==
  \/ /\ full = "sweep" /\ g.state # "finalize"
     /\ singlestep /\ UNCHANGED full
  \/ /\ full = "sweep" /\ g.state = "finalize"
     /\ g' = markroot(g) /\ full' = "mark"
     /\ UNCHANGED <<heap, running, called, program>>
  \/ /\ full = "mark"
     /\ singlestep
     /\ full' = IF g'.state = "pause" THEN "done" ELSE "mark"

-----------------------------------------------------------------------------
(* The program.  What it works with is on the stack of the running thread. *)
Stack == heap[running].stack
Slots == DOMAIN Stack
Held  == Range(Stack) \ {Nil}

ProgramStep == full \in {"no", "done"} /\ full' = "no" /\ UNCHANGED <<called, program>>

(* luaC_link, and luaS_newudata.  A new object may be swept or not: it is  *)
(* white already.                                                          *)
Link(s, o) == [s EXCEPT !.c = [s.c EXCEPT ![o] = s.white], !.rootgc = s.rootgc \cup {o}]

(* The address malloc returns, apart from those in S; which is no matter. *)
Fresh(S) ==
  LET free == {o \in program.addrs \ S : heap[o].tt = "free"}
  IN  IF free = {} THEN {} ELSE {CHOOSE o \in free : TRUE}

(* A new table, userdata or thread, in slot i. *)
New(o, i) ==
  /\ ProgramStep /\ o \in Fresh({})
  /\ \E x \in [tt : {"table"}, mode : program.modes, key : {Nil}, val : {Nil}]
            \cup [tt : {"udata"}, env : {Nil}, fin : {FALSE}]
            \cup {NewThread(program.co)} :
       /\ x.tt \in program.kinds
       /\ heap' = [heap EXCEPT ![o] = x, ![running].stack[i] = o]
  /\ g' = Link(g, o)
  /\ UNCHANGED running

(* setobj2s: the stack has no barrier. *)
Move(i, v) ==
  /\ ProgramStep /\ v # Stack[i]
  /\ heap' = [heap EXCEPT ![running].stack[i] = v]
  /\ UNCHANGED <<g, running>>

(* Reading a table, an upvalue or an environment into slot i. *)
Fields(o) ==
  CASE heap[o].tt = "table"    -> {heap[o].key, heap[o].val}
    [] heap[o].tt = "udata"    -> {heap[o].env}
    [] heap[o].tt = "function" -> {UpvalValue(heap, heap[o].up)}
    [] heap[o].tt = "thread"   -> {}

Get(i) == \E o \in Held : \E v \in Fields(o) \ {Nil} : Move(i, v)

(* Mutant of luaC_barriert: a table that is gray already is listed again. *)
luaC_barriertAgain(t, vs) ==
  IF ~IsWhite(t) /\ \E v \in vs \ {Nil} : IsWhite(v)
  THEN [g EXCEPT !.c = [g.c EXCEPT ![t] = "gray"], !.grayagain = <<t>> \o g.grayagain] ELSE g

(* luaC_barriert: a black table that takes a white value is gray again. *)
luaC_barriert(t, vs) ==
  IF g.c[t] = "black" /\ \E v \in vs \ {Nil} : IsWhite(v)
  THEN [g EXCEPT !.c = [g.c EXCEPT ![t] = "gray"], !.grayagain = <<t>> \o g.grayagain] ELSE g

(* luaC_barrier: the value is marked, or the object made white. *)
luaC_barrier(o, v) ==
  IF v # Nil /\ g.c[o] = "black" /\ IsWhite(v)
  THEN IF g.state = "propagate" THEN mark(g, {v}) ELSE [g EXCEPT !.c = [g.c EXCEPT ![o] = g.white]]
  ELSE g

(* A table's entry is set or removed; keys are objects in weak tables only. *)
SetTable(t, k, v) ==
  /\ ProgramStep /\ Is(t, "table")
  /\ k # Nil => heap[t].mode # "" /\ v # Nil
  /\ heap' = [heap EXCEPT ![t].key = k, ![t].val = v]
  /\ g' = luaC_barriert(t, {k, v})
  /\ UNCHANGED running

(* setmetatable with another __mode. *)
SetMode(t, mode) ==
  /\ ProgramStep /\ Is(t, "table") /\ heap[t].mode # mode
  /\ heap' = [heap EXCEPT ![t].mode = mode]
  /\ UNCHANGED <<g, running>>

(* lua_setfenv of a userdata. *)
SetEnv(u, e) ==
  /\ ProgramStep /\ Is(u, "udata") /\ Is(e, "table")
  /\ heap' = [heap EXCEPT ![u].env = e]
  /\ g' = luaC_barrier(u, e)
  /\ UNCHANGED running

(* OP_SETUPVAL. *)
SetUpval(f, v) ==
  /\ ProgramStep /\ Is(f, "function")
  /\ LET u == heap[f].up IN
     /\ heap' = IF IsOpen(u) THEN [heap EXCEPT ![heap[u].thread].stack[heap[u].slot] = v]
                             ELSE [heap EXCEPT ![u].val = v]
     /\ g' = luaC_barrier(u, v)
  /\ UNCHANGED running

(* OP_CLOSURE: a function f over slot j, whose upvalue luaF_findupval finds *)
(* and resurrects if dead, or makes.                                        *)
Closure(f, u, i, j) ==
  /\ ProgramStep /\ "function" \in program.kinds /\ f \in Fresh({})
  /\ LET found == u \in openupval(running) /\ heap[u].slot = j IN
     /\ found \/ (u \in Fresh({f}) /\ \A w \in openupval(running) : heap[w].slot # j)
     /\ heap' = [heap EXCEPT ![u] = [tt |-> "upval", thread |-> running, slot |-> j, val |-> Nil],
                             ![f] = [tt |-> "function", up |-> u], ![running].stack[i] = f]
     /\ g' = Link(IF found /\ ~isdead(u) THEN g ELSE [g EXCEPT !.c = [g.c EXCEPT ![u] = g.white]], f)
  /\ UNCHANGED running

(* OP_CLOSURE in the function e: f shares e's upvalue. *)
Nested(f, e, i) ==
  /\ ProgramStep /\ Is(e, "function") /\ f \in Fresh({})
  /\ heap' = [heap EXCEPT ![f] = heap[e], ![running].stack[i] = f]
  /\ g' = Link(g, f)
  /\ UNCHANGED running

(* The end of a block: its upvalues close. *)
Close(level) ==
  /\ ProgramStep /\ openupval(running) # {}
  /\ luaF_close(running, level)
  /\ UNCHANGED running

(* lua_resume and lua_yield, with a value from one stack to the other.     *)
Switch(t, i, j) ==
  /\ ProgramStep
  /\ IF running = Main THEN Is(t, "thread") /\ t \in Held ELSE t = Main
  /\ heap' = [heap EXCEPT ![t].stack[j] = Stack[i]]
  /\ running' = t
  /\ UNCHANGED g

Next ==
  \/ Step \/ FullStart \/ FullStep
  \/ \E i \in Slots :
       \/ \E o \in Addrs : New(o, i)
       \/ \E v \in Held \cup {Nil} : Move(i, v)
       \/ Get(i) \/ Close(i)
       \/ \E j \in Slots, f, u \in Addrs : Closure(f, u, i, j)
       \/ \E f \in Addrs, e \in Held : Nested(f, e, i)
       \/ \E t \in Held \cup {Main} : Is(t, "thread") /\ \E j \in DOMAIN heap[t].stack : Switch(t, i, j)
  \/ \E o \in Held :
       \/ \E k, v \in Held \cup {Nil} : SetTable(o, k, v)
       \/ \E v \in Held \cup {Nil} : SetEnv(o, v) \/ SetUpval(o, v)
       \/ \E mode \in program.modes : SetMode(o, mode)

Spec == Init /\ [][Next]_vars

-----------------------------------------------------------------------------
TypeOK ==
  /\ heap \in Heaps
  /\ g.c \in [Objs -> Whites \cup {"gray", "black"}]
  /\ running \in Objs /\ called \subseteq Allocated
  /\ g.rootgc \cup g.tmudata \subseteq Allocated /\ g.sweepgc \subseteq g.rootgc

(* What is reached from S in some number of steps. *)
ReachFrom(S) ==
  LET reached[n \in Nat] ==
        IF n = 0 THEN S
        ELSE LET R == reached[n - 1] IN R \cup UNION {Strong(heap, o) \ {Nil} : o \in R}
  IN  reached[Cardinality(Objs)]

Reachable == ReachFrom({Main, running})

(* Whatever the program does between the collector's steps, nothing it can *)
(* reach is freed, weak tables included: no reference is left dangling.    *)
NothingDangles == \A o \in Reachable : Refers(heap, o) \ {Nil} \subseteq Allocated

(* No object is on two of the lists, or twice on one: they all go through  *)
(* its one field gclist.                                                   *)
OnOneList ==
  LET lists == g.gray \o g.grayagain \o g.weak IN
  g.state = "propagate" =>
    IsInjective(lists) /\ \A i \in 1 .. Len(lists) : g.c[lists[i]] = "gray"

(* luaC_barrierf and luaC_barrierback assert that no barrier fires in the  *)
(* pause or while finalizing, and that neither object is dead: the sweep   *)
(* leaves only objects of the current white, but for userdata that wait    *)
(* for their __gc, and the program never sees a dead one.                  *)
WhiteAtRest ==
  /\ g.state \in {"pause", "finalize"} =>
       \A o \in Allocated \ g.tmudata : g.c[o] = g.white
  /\ \A o \in Reachable : ~isdead(o)

(* The comment at iscleared: a userdata being finalized stays in keys, but *)
(* not in values: no weak table keeps a value whose __gc has run, if it was *)
(* held when the collection ended its marking.  (A table that became weak  *)
(* after it was traversed is weak from the next collection on.)            *)
NoFinalizedValue ==
  [][\A t \in Reachable :
       g'.white # g.white /\ Is(t, "table") /\ heap[t].mode # "" /\ g.c[t] # "black"
         => heap'[t].val \notin called]_vars

(* __gc runs once for a userdata, and before it is freed. *)
FinalizedOnce ==
  [][/\ g.tmudata \cap called = {}
     /\ \A u \in Addrs : Is(u, "udata") /\ heap'[u].tt = "free" => u \in called]_vars

(* A full collection keeps only what the program can reach when the marks *)
(* end, or a userdata that waits for its __gc can.  (The weak entries that *)
(* are cleared then may have been all that led to what else they held: it  *)
(* is left to the next collection.)                                        *)
FullCollects ==
  [][full = "mark" /\ g'.white # g.white =>
       \A o \in Allocated : g'.c[o] # g.white => o \in ReachFrom({Main, running} \cup g'.tmudata)]_vars

(* The collector's own data: the lists it walks and the colours it leaves. *)
ListsAndColours == TypeOK /\ OnOneList /\ WhiteAtRest

(* What the program's finalizers may rely on. *)
Finalizers == FinalizedOnce /\ NoFinalizedValue

=============================================================================
