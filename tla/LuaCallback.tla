---------------------------- MODULE LuaCallback ----------------------------
(***************************************************************************)
(* How the engine calls the script back.  Both callbacks, onNewConnection  *)
(* on the main thread and onMessage on the worker, run on the one Lua      *)
(* state whose top frame is startServer's: push the function and its       *)
(* arguments, lua_pcall, forget the status.  The state is kept as lua_State *)
(* keeps it, and the calls are cut where another thread could come between. *)
(***************************************************************************)
EXTENDS Integers, FiniteSets

CONSTANTS
  Threads,      \* the threads calling back, out of "main" and "worker"
  Functions,    \* the script's functions
  Nil,          \* Lua's nil
  NoThread,     \* no thread
  LUA_MINSTACK, \* slots a C function may use
  FrameSize,    \* maxstacksize of the callbacks, their parameters included
  MaxFailures   \* bound: the number of callbacks that fail

Ip == <<"ip">>           \* startServer's first argument
Port == <<"port">>       \* and its second

ASSUME LuaCallbackAssumption ==
  /\ Threads \subseteq {"main", "worker"} /\ IsFiniteSet(Threads)
  /\ Nil \notin Functions /\ Ip \notin Functions /\ NoThread \notin Threads
  /\ LUA_MINSTACK \in Nat /\ FrameSize \in Nat /\ FrameSize >= 2
  /\ MaxFailures \in Nat

ErrorObject == <<"error in error handling">>
LuaOk == 0
LUA_ERRRUN == 2
LUA_ERRERR == 5

(* The arguments: onNewConnection gets the peer, onMessage time and text.  *)
NArgs(t) == IF t = "main" THEN 1 ELSE 2
Arg(t, i) == <<t, i>>

VARIABLES
  stack,      \* the Lua stack
  top,        \* L->top: the number of slots in use
  cis,        \* the call frames
  ci,         \* L->ci
  base,       \* L->base
  errfunc,    \* L->errfunc, the handler's slot
  errorJmp,   \* L->errorJmp: the thread whose lua_pcall catches an error
  registered, \* the functions set with _setNewConnectionCallback and _setMessageCallback
  pc, pushed, func, frame, status,  \* each thread's locals
  saved,      \* what each lua_pcall restores: [ci, errfunc, errorJmp]
  fetched,    \* history: the function a thread fetched for its call
  failures    \* history: the callbacks that failed

luaState == <<stack, top, cis, ci, base, errfunc, errorJmp>>
locals == <<pc, pushed, func, frame, status, saved>>
vars == <<luaState, registered, locals, fetched, failures>>

StackSize == 3 + MaxFailures + Cardinality(Threads) * (3 + FrameSize)
Slots == 1 .. StackSize
Frames == 1 .. 1 + Cardinality(Threads)

-----------------------------------------------------------------------------
(* startServer's frame: the function, its two arguments, and room for more. *)
Init ==
  /\ stack = [s \in Slots |-> CASE s = 2 -> Ip [] s = 3 -> Port [] OTHER -> Nil]
  /\ top = 3
  /\ cis = [f \in Frames |-> [func |-> 1, base |-> 2, top |-> 3 + LUA_MINSTACK]]
  /\ ci = 1 /\ base = 2
  /\ errfunc = 0 /\ errorJmp = NoThread
  /\ registered \in [{"main", "worker"} -> Functions \cup {Nil}]
  /\ pc = [t \in Threads |-> "idle"]
  /\ pushed = [t \in Threads |-> 0]
  /\ func = [t \in Threads |-> 0] /\ frame = [t \in Threads |-> 1]
  /\ saved = [t \in Threads |-> [ci |-> 1, errfunc |-> 0, errorJmp |-> NoThread]]
  /\ status = [t \in Threads |-> LuaOk]
  /\ fetched = [t \in Threads |-> Nil]
  /\ failures = 0

(* api_incr_top after a write: nothing but the assertion looks at ci->top. *)
PushValue(v) ==
  /\ stack' = [stack EXCEPT ![top + 1] = v]
  /\ top' = top + 1

(* lua_rawgeti(registry, reference): the callback, nil if none was set. *)
PushFunction(t) ==
  /\ pc[t] = "idle" /\ pc' = [pc EXCEPT ![t] = "push"]
  /\ failures < MaxFailures
  /\ PushValue(registered[t])
  /\ fetched' = [fetched EXCEPT ![t] = registered[t]]
  /\ pushed' = [pushed EXCEPT ![t] = 0]
  /\ UNCHANGED <<cis, ci, base, errfunc, errorJmp, registered, func, frame,
                 status, saved, failures>>

(* Mutant of PushArgument: the arguments in the wrong order. *)
PushArgumentBackwards(t) ==
  /\ pc[t] = "push" /\ pushed[t] < NArgs(t)
  /\ PushValue(Arg(t, NArgs(t) - pushed[t]))
  /\ pushed' = [pushed EXCEPT ![t] = @ + 1]
  /\ UNCHANGED <<cis, ci, base, errfunc, errorJmp, registered, pc, func, frame,
                 status, saved, fetched, failures>>

(* lua_pushstring, once for each argument. *)
PushArgument(t) ==
  /\ pc[t] = "push" /\ pushed[t] < NArgs(t)
  /\ PushValue(Arg(t, pushed[t] + 1))
  /\ pushed' = [pushed EXCEPT ![t] = @ + 1]
  /\ UNCHANGED <<cis, ci, base, errfunc, errorJmp, registered, pc, func, frame,
                 status, saved, fetched, failures>>

(* lua_pcall(L, n, 0, 1) up to luaD_call: the handler is looked for at     *)
(* index 1 of the running C function, where startServer has its ip string. *)
PCall(t) ==
  /\ pc[t] = "push" /\ pushed[t] = NArgs(t)
  /\ pc' = [pc EXCEPT ![t] = "precall"]
  /\ func' = [func EXCEPT ![t] = top - NArgs(t)]
  /\ saved' = [saved EXCEPT ![t] = [ci |-> ci, errfunc |-> errfunc, errorJmp |-> errorJmp]]
  /\ errfunc' = base
  /\ errorJmp' = t
  /\ UNCHANGED <<stack, top, cis, ci, base, registered, pushed, frame, status,
                 fetched, failures>>

(* luaD_precall up to inc_ci; a value that is no function is an error. *)
Precall(t) ==
  /\ pc[t] = "precall"
  /\ \/ /\ stack[func[t]] \in Functions
        /\ pc' = [pc EXCEPT ![t] = "enter"]
        /\ ci' = ci + 1
        /\ frame' = [frame EXCEPT ![t] = ci + 1]
        /\ cis' = [cis EXCEPT ![ci + 1].func = func[t]]
     \/ /\ stack[func[t]] \notin Functions
        /\ pc' = [pc EXCEPT ![t] = "raise"]
        /\ UNCHANGED <<ci, frame, cis>>
  /\ UNCHANGED <<stack, top, base, errfunc, errorJmp, registered, pushed, func,
                 status, saved, fetched, failures>>

(* The rest of luaD_precall for a Lua function: the frame begins after the *)
(* function, and what is not an argument is nil.                           *)
Enter(t) ==
  LET b == func[t] + 1 IN
  /\ pc[t] = "enter" /\ pc' = [pc EXCEPT ![t] = "run"]
  /\ base' = b
  /\ cis' = [cis EXCEPT ![frame[t]].base = b, ![frame[t]].top = func[t] + FrameSize]
  /\ stack' = [s \in Slots |->
                 IF s \in b + NArgs(t) .. func[t] + FrameSize THEN Nil ELSE stack[s]]
  /\ top' = func[t] + FrameSize
  /\ UNCHANGED <<ci, errfunc, errorJmp, registered, pushed, func, frame,
                 status, saved, fetched, failures>>

(* The script sets another callback from inside a callback. *)
SetCallback(t, which, f) ==
  /\ pc[t] = "run"
  /\ registered' = [registered EXCEPT ![which] = f]
  /\ UNCHANGED <<luaState, locals, fetched, failures>>

(* The callback returns: luaD_poscall drops the frame and the call, and    *)
(* luaD_pcall puts the caller's handler back.                              *)
Return(t) ==
  /\ pc[t] = "run" /\ pc' = [pc EXCEPT ![t] = "idle"]
  /\ ci' = ci - 1
  /\ base' = cis[ci - 1].base
  /\ top' = cis[ci].func - 1
  /\ errfunc' = saved[t].errfunc
  /\ errorJmp' = saved[t].errorJmp
  /\ status' = [status EXCEPT ![t] = LuaOk]
  /\ UNCHANGED <<stack, cis, registered, pushed, func, frame, saved,
                 fetched, failures>>

(* The callback fails. *)
Fail(t) ==
  /\ pc[t] = "run" /\ pc' = [pc EXCEPT ![t] = "raise"]
  /\ UNCHANGED <<luaState, registered, pushed, func, frame, saved,
                 status, fetched, failures>>

(* luaG_errormsg: a handler that is no function makes it an error in error *)
(* handling, one that is a function runs and the error stays what it was.  *)
ErrorStatus ==
  IF errfunc # 0 /\ stack[errfunc] \notin Functions THEN LUA_ERRERR ELSE LUA_ERRRUN

(* Mutant of Throw: the frame of the callback that failed stays current. *)
ThrowKeepFrame(t) ==
  /\ pc[t] = "raise" /\ errorJmp = t
  /\ pc' = [pc EXCEPT ![t] = "idle"]
  /\ status' = [status EXCEPT ![t] = ErrorStatus]
  /\ stack' = [stack EXCEPT ![func[t]] = ErrorObject]
  /\ top' = func[t]
  /\ errfunc' = saved[t].errfunc
  /\ errorJmp' = saved[t].errorJmp
  /\ failures' = failures + 1
  /\ UNCHANGED <<cis, ci, base, registered, pushed, func, frame, saved, fetched>>

(* luaD_throw to the innermost lua_pcall, and the end of luaD_pcall there: *)
(* the error replaces the function, and nobody pops it.  A throw that      *)
(* lands in another thread's lua_pcall is undefined and not continued.     *)
Throw(t) ==
  /\ pc[t] = "raise" /\ errorJmp = t
  /\ pc' = [pc EXCEPT ![t] = "idle"]
  /\ status' = [status EXCEPT ![t] = ErrorStatus]
  /\ stack' = [stack EXCEPT ![func[t]] = ErrorObject]
  /\ top' = func[t]
  /\ ci' = saved[t].ci
  /\ base' = cis[saved[t].ci].base
  /\ errfunc' = saved[t].errfunc
  /\ errorJmp' = saved[t].errorJmp
  /\ failures' = failures + 1
  /\ UNCHANGED <<cis, registered, pushed, func, frame, saved, fetched>>

Next ==
  \E t \in Threads :
    \/ PushFunction(t) \/ PushArgument(t) \/ PCall(t) \/ Precall(t) \/ Enter(t)
    \/ Return(t) \/ Fail(t) \/ Throw(t)
    \/ \E which \in {"main", "worker"}, f \in Functions : SetCallback(t, which, f)

Spec == Init /\ [][Next]_vars

-----------------------------------------------------------------------------
TypeOK ==
  /\ top \in 3 .. StackSize /\ ci \in Frames /\ base \in Slots /\ errfunc \in {0} \cup Slots
  /\ DOMAIN stack = Slots /\ DOMAIN cis = Frames
  /\ registered \in [{"main", "worker"} -> Functions \cup {Nil}]
  /\ pc \in [Threads -> {"idle", "push", "precall", "enter", "run", "raise"}]
  /\ status \in [Threads -> {LuaOk, LUA_ERRRUN, LUA_ERRERR}]
  /\ failures \in 0 .. MaxFailures

(* Between two callbacks startServer's frame is as it was, except for one  *)
(* error object left by every callback that failed.                        *)
FrameRestored ==
  (\A t \in Threads : pc[t] = "idle") =>
    /\ ci = 1 /\ base = 2 /\ errfunc = 0 /\ errorJmp = NoThread
    /\ stack[2] = Ip /\ stack[3] = Port
    /\ top = 3 + failures
    /\ \A s \in 4 .. top : stack[s] = ErrorObject

(* A running callback is the function fetched for it and sees its own      *)
(* arguments.                                                              *)
RightCall ==
  \A t \in Threads : pc[t] = "run" =>
    /\ stack[func[t]] = fetched[t] /\ fetched[t] # Nil
    /\ \A i \in 1 .. NArgs(t) : stack[base + i - 1] = Arg(t, i)

(* lvm.c's assertion before every instruction: the base the function runs  *)
(* with is the state's and that of the state's frame.                      *)
BaseIsFrameBase ==
  \A t \in Threads : pc[t] = "run" => func[t] + 1 = base /\ base = cis[ci].base

(* The comment on lua_pcall's fourth argument, 1, in onMessage and         *)
(* onNewConnection: "the code returned when an error occurs".              *)
ErrorCode == 1
ErrorReturnsCode == \A t \in Threads : status[t] \in {LuaOk, ErrorCode}

(* What it is instead: the index of a handler, and since index 1 holds     *)
(* startServer's ip, a failed callback always reports an error in error    *)
(* handling and what the script's error was is lost.                       *)
EveryErrorIsErrErr == \A t \in Threads : status[t] \in {LuaOk, LUA_ERRERR}

(* lapi.c's assertion in every push: the C function stays within the slots *)
(* its frame has room for.                                                 *)
RoomToPush == \A t \in Threads : pc[t] = "push" => top <= cis[ci].top

(* Frames are restored and used. *)
FramesKept == TypeOK /\ FrameRestored /\ BaseIsFrameBase

-----------------------------------------------------------------------------
(* The inductive invariant of one thread's callbacks, in parts: what the   *)
(* state holds at each step of a callback.                                 *)
Values == Functions \cup {Nil, Ip, Port, ErrorObject} \cup (Threads \X {1, 2})

LocalsOK ==
  /\ stack \in [Slots -> Values]
  /\ cis \in [Frames -> [func : Int, base : Int, top : Int]] /\ cis[1].base = 2
  /\ pushed \in [Threads -> Nat] /\ func \in [Threads -> Int] /\ frame \in [Threads -> Int]
  /\ saved \in [Threads -> [ci : Int, errfunc : Int, errorJmp : Threads \cup {NoThread}]]
  /\ fetched \in [Threads -> Functions \cup {Nil}]

(* Under every callback lies what startServer has and what failures left.  *)
Bottom ==
  /\ stack[2] = Ip /\ stack[3] = Port
  /\ \A s \in 4 .. 3 + failures : stack[s] = ErrorObject

(* The callback's place on the stack: the function and k of its arguments. *)
Place == 4 + failures
Prepared(t, k) ==
  /\ stack[Place] = fetched[t]
  /\ \A i \in 1 .. k : stack[Place + i] = Arg(t, i)

InStartServer == ci = 1 /\ base = 2
Unguarded == errfunc = 0 /\ errorJmp = NoThread
Guarded(t) ==
  /\ errfunc = 2 /\ errorJmp = t
  /\ saved[t] = [ci |-> 1, errfunc |-> 0, errorJmp |-> NoThread]
  /\ func[t] = Place
Called(t) ==
  /\ Guarded(t) /\ Prepared(t, NArgs(t)) /\ fetched[t] \in Functions
  /\ ci = 2 /\ cis[2].func = Place

AtIdle(t)    == pc[t] = "idle" => InStartServer /\ Unguarded /\ top = Place - 1
AtPush(t)    == pc[t] = "push" => /\ InStartServer /\ Unguarded
                                  /\ pushed[t] \in 0 .. NArgs(t) /\ top = Place + pushed[t]
                                  /\ Prepared(t, pushed[t])
AtPrecall(t) == pc[t] = "precall" => /\ InStartServer /\ Guarded(t)
                                     /\ top = Place + NArgs(t) /\ Prepared(t, NArgs(t))
AtEnter(t)   == pc[t] = "enter" => Called(t) /\ frame[t] = 2 /\ top = Place + NArgs(t)
AtRun(t)     == pc[t] = "run" => Called(t) /\ base = Place + 1 /\ cis[2].base = base
AtRaise(t)   == pc[t] = "raise" => Guarded(t)

IInv ==
  /\ TypeOK /\ LocalsOK /\ Bottom /\ EveryErrorIsErrErr
  /\ \A t \in Threads :
       /\ pc[t] # "idle" => failures < MaxFailures
       /\ AtIdle(t) /\ AtPush(t) /\ AtPrecall(t) /\ AtEnter(t) /\ AtRun(t) /\ AtRaise(t)

=============================================================================
