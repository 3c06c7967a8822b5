----------------------------- MODULE LuaThread -----------------------------
(***************************************************************************)
(* Threads, protected calls and coroutines (ldo.c, lbaselib.c): one C      *)
(* stack, on which luaV_execute and the C functions that call Lua nest,    *)
(* and for each thread a stack of values and one of CallInfos.  An error   *)
(* unwinds the C stack to the last protected call of the running thread    *)
(* and has to cut that thread's stacks, its counters and its open upvalues *)
(* to match; a yield leaves a thread's stacks as they are and unwinds only *)
(* the C stack, to the resume that runs it.                                *)
(*                                                                         *)
(* A Lua function has one parameter, and above it the results of the last  *)
(* call; it passes, returns and yields its thread's name.  The hooks,      *)
(* varargs, tail calls and stack sizes in slots are left out.              *)
(***************************************************************************)
EXTENDS Integers, Sequences, FiniteSets

CONSTANTS
  Main,             \* the thread of the state
  Co,               \* coroutines
  LUAI_MAXCCALLS,   \* C calls allowed to nest
  ERRORCCALLS,      \* and how many more handle the error: LUAI_MAXCCALLS>>3
  BASIC_CI_SIZE,    \* CallInfos of a new thread
  LUAI_MAXCALLS,    \* CallInfos allowed
  MAXOPEN,          \* open upvalues of a thread
  MAXFRAMES         \* bound: functions in progress, or that a coroutine died in, handlers of errors left out

VARIABLES
  th,   \* the threads
  C     \* the C functions in progress that called luaD_call or lua_resume

vars == <<th, C>>

States == {Main} \cup Co
LUA_YIELD  == 1
LUA_ERRRUN == 2
LUA_ERRERR == 5

-----------------------------------------------------------------------------
(* ci: func is the place of the called function, its base is the next one; *)
(* arg remembers what it was called with.  open: places of variables that  *)
(* closures share.  A thread that is not there has no CallInfo.            *)
Frame(func, lua, arg) == [func |-> func, lua |-> lua, arg |-> arg]

NoState == [stack |-> <<>>, ci |-> <<>>, size_ci |-> 0, status |-> 0, nCcalls |-> 0,
            baseCcalls |-> 0, errfunc |-> 0, open |-> {}]

luaE_newthread == [NoState EXCEPT !.stack = <<"nil">>, !.ci = <<Frame(1, FALSE, "nil")>>,
                                  !.size_ci = BASIC_CI_SIZE]

Last(s)  == s[Len(s)]
Front(s) == SubSeq(s, 1, Len(s) - 1)
First(s) == IF s = <<>> THEN "nil" ELSE s[1]

(* S is a state [th, C].  The last entry of C runs, in thread l; k is what *)
(* entered it, n its nexeccalls, and the rest what luaD_pcall saved.       *)
Activation(l, k, t) == [l |-> l, k |-> k, n |-> 0, top |-> Len(t.stack), ci |-> Len(t.ci),
                        nCcalls |-> t.nCcalls, errfunc |-> t.errfunc]
Resumes   == {"resume", "wrap"}
Protected == Resumes \cup {"program", "pcall"}

Run(S)        == Last(S.C).l
Put(S, l, t)  == [S EXCEPT !.th[l] = t]
Push(S, vs)   == [S EXCEPT !.th[Run(S)].stack = @ \o vs]
Enter(S, l, k) == [S EXCEPT !.C = Append(@, Activation(l, k, S.th[l]))]
Executes(S, n) == [S EXCEPT !.C[Len(S.C)].n = n]

luaF_close(t, level) == [t EXCEPT !.open = {i \in @ : i < level}]

(* luaD_poscall with LUA_MULTRET: the results replace the function.        *)
luaD_poscall(t, vs) ==
  [t EXCEPT !.stack = SubSeq(@, 1, Last(t.ci).func - 1) \o vs, !.ci = Front(@)]

(* A C function ends: its caller, a Lua function, goes on.                 *)
CReturn(S, vs) == Put(S, Run(S), luaD_poscall(S.th[Run(S)], vs))

(* restore_stack_limit *)
Limited(t) ==
  [t EXCEPT !.size_ci = IF @ > LUAI_MAXCALLS /\ Len(t.ci) < LUAI_MAXCALLS THEN LUAI_MAXCALLS ELSE @]

(* inc_ci *)
Full(t)    == Len(t.ci) = t.size_ci
GrowCI(t)  == [t EXCEPT !.size_ci = IF Full(t) THEN 2 * @ ELSE @]
HasRoom(t) == Full(t) => 2 * t.size_ci <= LUAI_MAXCALLS

(* Mutant of costatus: a coroutine that resumed another passes for a new one. *)
costatusByStatus(S, co) ==
  IF S.th[co].status \in {0, LUA_YIELD} /\ Len(S.th[co].stack) > 1 THEN "suspended" ELSE "dead"

(* costatus *)
costatus(S, co) ==
  LET t == S.th[co]
  IN  CASE co = Run(S)                          -> "running"
        [] co # Run(S) /\ t.status = LUA_YIELD  -> "suspended"
        [] co # Run(S) /\ t.status \notin {0, LUA_YIELD} -> "dead"
        [] co # Run(S) /\ t.status = 0 ->
             IF Len(t.ci) > 1 THEN "normal" ELSE IF Len(t.stack) = 1 THEN "dead" ELSE "suspended"

-----------------------------------------------------------------------------
RECURSIVE luaG_errormsg(_, _), luaD_throw(_, _, _), Precall(_, _), luaD_call(_, _)

(* growCI, when the CallInfos have reached their limit *)
GrowFail(S) ==
  LET t == S.th[Run(S)]
  IN  IF t.size_ci > LUAI_MAXCALLS THEN luaD_throw(S, LUA_ERRERR, "errerr")
      ELSE luaG_errormsg(Put(S, Run(S), GrowCI(t)), "msg")

(* luaD_precall of a Lua function, which then runs in luaV_execute *)
Precall(S, args) ==
  LET S1 == Push(S, <<"function", First(args)>>)
      t  == S1.th[Run(S)]
  IN  IF ~HasRoom(t) THEN GrowFail(S1)
      ELSE Executes(Put(S1, Run(S), [GrowCI(t) EXCEPT !.ci = Append(@, Frame(Len(t.stack) - 1, TRUE, First(args)))]),
                    Last(S.C).n + 1)

(* luaD_call, by the C function that the last entry of C stands for *)
luaD_call(S, args) ==
  LET S1 == [S EXCEPT !.th[Run(S)].nCcalls = @ + 1]
      n  == S1.th[Run(S)].nCcalls
  IN  CASE n < LUAI_MAXCCALLS -> Precall(S1, args)
        [] n = LUAI_MAXCCALLS -> luaG_errormsg(Push(S1, <<"function">> \o args), "msg")
        [] n > LUAI_MAXCCALLS ->
             IF n >= LUAI_MAXCCALLS + ERRORCCALLS THEN luaD_throw(S1, LUA_ERRERR, "errerr")
             ELSE Precall(S1, args)

(* luaG_errormsg: the handler is called where the error is.                *)
luaG_errormsg(S, msg) ==
  LET t == S.th[Run(S)]
  IN  CASE t.errfunc = 0 -> luaD_throw(S, LUA_ERRRUN, msg)
        [] t.errfunc # 0 /\ t.stack[t.errfunc] # "handler" -> luaD_throw(S, LUA_ERRERR, "errerr")
        [] t.errfunc # 0 /\ t.stack[t.errfunc] = "handler" -> luaD_call(Enter(S, Run(S), "handler"), <<msg>>)

(* auxresume answers -1: resume tells its caller, wrap's function fails.   *)
ResumeFails(S, k, msg) ==
  IF k = "resume" THEN CReturn(S, <<"false", msg>>) ELSE luaG_errormsg(S, msg)

(* luaD_throw, and what luaD_pcall or lua_resume does with the error: the  *)
(* one cuts the thread to what it was; the other leaves it, dead, with its *)
(* stacks and its open upvalues as they are, until luaE_freethread.        *)
luaD_throw(S, status, msg) ==
  LET l == Run(S)
      t == S.th[l]
      i == CHOOSE i \in 1 .. Len(S.C) :
             /\ S.C[i].l = l /\ S.C[i].k \in Protected
             /\ \A j \in i + 1 .. Len(S.C) : S.C[j].k \notin Protected
      a == S.C[i]
      caught == [S EXCEPT !.C = SubSeq(@, 1, i - 1),
                          !.th[l] = Limited([luaF_close(t, a.top + 1) EXCEPT
                             !.stack = SubSeq(@, 1, a.top), !.ci = SubSeq(@, 1, a.ci),
                             !.nCcalls = a.nCcalls, !.errfunc = a.errfunc])]
      dead   == [S EXCEPT !.C = SubSeq(@, 1, i - 1), !.th[l].status = status, !.th[l].nCcalls = @ - 1]
  IN  CASE a.k \in Resumes  -> ResumeFails(dead, a.k, msg)
        [] a.k = "pcall"    -> Put(caught, l, luaD_poscall(caught.th[l], <<"false", msg>>))
        [] a.k = "program"  -> caught

-----------------------------------------------------------------------------
(* What the C code that entered luaV_execute does when it returns.         *)
CallEnds(S) ==
  LET a == Last(S.C)
      t == S.th[a.l]
      top == IF a.k \in Resumes THEN 1 ELSE a.top
      vs == SubSeq(t.stack, top + 1, Len(t.stack))
      S1 == [S EXCEPT !.C = Front(@), !.th[a.l].nCcalls = @ - 1, !.th[a.l].stack = SubSeq(@, 1, top)]
  IN  CASE a.k = "program" -> S1
        [] a.k = "call"    -> Put(S1, a.l, luaD_poscall(S1.th[a.l], vs))
        [] a.k = "pcall"   -> Put(S1, a.l, luaD_poscall([S1.th[a.l] EXCEPT !.errfunc = a.errfunc], <<"true">> \o vs))
        [] a.k = "handler" -> luaD_throw(S1, LUA_ERRRUN, First(vs))
        [] a.k = "resume"  -> CReturn(S1, <<"true">> \o vs)
        [] a.k = "wrap"    -> CReturn(S1, vs)

(* A Lua function calls a C function, what it had above its variable gone: *)
(* F(S) is the function, and its arguments are on the stack.               *)
Base(t) == Last(t.ci).func + 1
InFunction(S) == [S EXCEPT !.th[Run(S)].stack = SubSeq(@, 1, Base(S.th[Run(S)]))]

CanCallC(S) == HasRoom(S.th[Run(S)])
CFunction(S, args) ==
  LET S1 == Push(S, <<"cfunction">> \o args)
      t  == S.th[Run(S)]
  IN  IF ~HasRoom(t) THEN GrowFail(S1)
      ELSE [S1 EXCEPT !.th[Run(S)] = [GrowCI(@) EXCEPT !.ci = Append(@, Frame(Len(t.stack) + 1, FALSE, "nil"))]]

(* resume: a fresh coroutine is started, another returns from its yield    *)
(* and all its Lua functions go on in one luaV_execute.                    *)
resume(S, co, args) ==
  LET t == S.th[co]
  IN  IF t.status = 0 THEN Precall(Put(S, co, [t EXCEPT !.stack = Front(@)]), args)
      ELSE Executes(Put(S, co, [luaD_poscall(t, args) EXCEPT !.status = 0]), Len(t.ci) - 2)

(* Mutant of lua_setlevel: a coroutine keeps its own count of C calls. *)
lua_setlevelNot(from, to) == to

(* lua_setlevel *)
lua_setlevel(from, to) == [to EXCEPT !.nCcalls = from.nCcalls]

(* lua_resume; resume_error leaves the coroutine its frames only *)
lua_resume(S, co, k, args) ==
  LET t == S.th[co]
  IN  IF t.nCcalls >= LUAI_MAXCCALLS
      THEN ResumeFails(Put(S, co, [t EXCEPT !.stack = SubSeq(@, 1, Last(t.ci).func)]), k, "msg")
      ELSE resume(Enter(Put(S, co, [t EXCEPT !.nCcalls = @ + 1, !.baseCcalls = t.nCcalls + 1]), co, k), co, args)

auxresume(S, co, k, args) ==
  IF costatus(S, co) # "suspended" THEN ResumeFails(S, k, "msg")
  ELSE lua_resume(Put(S, co, lua_setlevel(S.th[Run(S)], S.th[co])), co, k, args)

(* lua_yield, and lua_resume returning to auxresume *)
CanYield(t) == t.nCcalls <= t.baseCcalls

lua_yield(S, vs) ==
  LET a == Last(S.C)
      S1 == [S EXCEPT !.C = Front(@), !.th[a.l].status = LUA_YIELD, !.th[a.l].nCcalls = @ - 1,
                      !.th[a.l].stack = SubSeq(@, 1, Last(S.th[a.l].ci).func)]
  IN  CReturn(S1, IF a.k = "resume" THEN <<"true">> \o vs ELSE vs)

-----------------------------------------------------------------------------
State == [th |-> th, C |-> C]
Becomes(S) == th' = S.th /\ C' = S.C
Busy == C # <<>>
RECURSIVE InProgress(_)
InProgress(T) == IF T = {} THEN 0 ELSE LET t == CHOOSE t \in T : TRUE IN Len(th[t].ci) + InProgress(T \ {t})
CanCall == Busy /\ InProgress(States) < MAXFRAMES
Self == Run(State)
Now  == InFunction(State)

(* The C function f, if there is a CallInfo for it, becomes After.         *)
CallC(args, After) ==
  Becomes(IF CanCallC(Now) THEN After ELSE CFunction(Now, args))

(* The host calls a Lua function with lua_pcall and drops its results.     *)
Program ==
  /\ ~Busy
  /\ Becomes(luaD_call(Enter(State, Main, "program"), <<Main>>))

(* OP_CALL of a Lua function *)
Call ==
  /\ CanCall
  /\ Becomes(Precall(Now, <<Self>>))

(* A C function that calls a Lua function: a metamethod, table.sort, ...   *)
CallBack ==
  /\ CanCall
  /\ LET S == CFunction(Now, <<>>)
     IN  CallC(<<>>, luaD_call(Enter(S, Self, "call"), <<Self>>))

(* luaB_pcall *)
PCall ==
  /\ CanCall
  /\ LET S == Enter(CFunction(Now, <<>>), Self, "pcall")
     IN  CallC(<<>>, luaD_call([S EXCEPT !.th[Self].errfunc = 0], <<Self>>))

(* luaB_xpcall: the handler is its first argument, a function or not.      *)
XPCall(handler) ==
  /\ CanCall
  /\ LET S == Enter(CFunction(Now, <<handler>>), Self, "pcall")
     IN  CallC(<<handler>>, luaD_call([S EXCEPT !.th[Self].errfunc = Len(S.th[Self].stack)], <<>>))

(* An operation fails in Lua code: luaG_runerror.                          *)
Error ==
  /\ Busy
  /\ Becomes(luaG_errormsg(Now, "msg"))

(* OP_CLOSURE shares the function's variable.                              *)
Capture ==
  /\ Busy
  /\ Cardinality(th[Self].open) < MAXOPEN
  /\ th' = [th EXCEPT ![Self].open = @ \cup {Base(th[Self])}]
  /\ UNCHANGED C

(* OP_RETURN *)
Return ==
  /\ Busy
  /\ LET t == luaF_close(th[Self], Base(th[Self]))
         S == Executes(Put(State, Self, luaD_poscall(t, <<Self>>)), Last(C).n - 1)
     IN  Becomes(IF Last(C).n = 1 THEN CallEnds(S) ELSE S)

(* luaB_cocreate *)
Create(co) ==
  /\ Busy
  /\ th[co] = NoState
  /\ LET new == [luaE_newthread EXCEPT !.stack = Append(@, "function")]
     IN  CallC(<<"function">>, Put(CReturn(CFunction(Now, <<"function">>), <<"thread">>), co, new))

(* luaB_coresume and luaB_auxwrap *)
Resume(co, k) ==
  /\ CanCall
  /\ th[co] # NoState
  /\ CallC(<<Self>>, auxresume(CFunction(Now, <<>>), co, k, <<Self>>))

(* luaB_yield *)
Yield ==
  /\ Busy
  /\ LET S == CFunction(Now, <<Self>>)
     IN  CallC(<<Self>>, IF CanYield(th[Self]) THEN lua_yield(S, <<Self>>) ELSE luaG_errormsg(S, "msg"))

(* luaE_freethread: nothing refers to the coroutine any more.              *)
Collect(co) ==
  /\ th[co] # NoState
  /\ \A i \in 1 .. Len(C) : C[i].l # co
  /\ th' = [th EXCEPT ![co] = NoState]
  /\ UNCHANGED C

Init ==
  /\ th = [t \in States |-> IF t = Main THEN luaE_newthread ELSE NoState]
  /\ C = <<>>

Next ==
  \/ Program \/ Call \/ CallBack \/ PCall \/ Error \/ Capture \/ Return \/ Yield
  \/ \E h \in {"handler", "nofunction"} : XPCall(h)
  \/ \E co \in Co : Create(co) \/ Collect(co)
  \/ \E co \in Co, k \in Resumes : Resume(co, k)

Spec == Init /\ [][Next]_vars
-----------------------------------------------------------------------------
Of(t)         == {i \in 1 .. Len(C) : C[i].l = t}
LuaFrames(t)  == {i \in 1 .. Len(th[t].ci) : th[t].ci[i].lua}
Active(t)     == \E i \in 1 .. Len(C) : C[i].l = t
RECURSIVE SumN(_)
SumN(s) == IF s = <<>> THEN 0 ELSE Head(s).n + SumN(Tail(s))

(* What luaV_execute and the threads know of each other: every Lua function*)
(* in progress belongs to one luaV_execute of its thread, which will run   *)
(* it to its end, and nCcalls is the number of C functions below.          *)
CountsAgree ==
  \A t \in States : Active(t) =>
    LET last == CHOOSE i \in Of(t) : \A j \in Of(t) : j <= i
    IN  /\ SumN(SelectSeq(C, LAMBDA a : a.l = t)) = Len(SelectSeq(th[t].ci, LAMBDA f : f.lua))
        /\ th[t].nCcalls = last
        /\ t # Main => \E i \in Of(t) : C[i].k \in Resumes /\ th[t].baseCcalls = i

(* A function's variable is where the function finds it, with its value.   *)
VariablesInPlace ==
  \A t \in States : \A i \in LuaFrames(t) :
    LET f == th[t].ci[i]
    IN  /\ Len(th[t].stack) > f.func
        /\ th[t].stack[f.func] = "function"
        /\ th[t].stack[f.func + 1] = f.arg

(* An open upvalue is the variable of a function in progress, or of one    *)
(* that a coroutine died in.                                               *)
UpvaluesLive ==
  \A t \in States : th[t].open \subseteq {th[t].ci[i].func + 1 : i \in LuaFrames(t)}

(* A suspended coroutine can go on: all its functions are Lua functions,   *)
(* below the yield, and no handler of an error waits on its stack; a       *)
(* thread's handler is in place while it is set (the assertions of resume, *)
(* lua_resume and luaG_errormsg's use of the stack).                       *)
CanGoOn ==
  \A t \in States :
    /\ th[t].status = LUA_YIELD =>
         /\ ~Active(t)
         /\ LuaFrames(t) = 2 .. Len(th[t].ci) - 1
         /\ th[t].errfunc = 0
    /\ th[t].errfunc # 0 =>
         /\ th[t].errfunc <= Len(th[t].stack)
         /\ th[t].stack[th[t].errfunc] \in {"handler", "nofunction"}
    /\ Len(th[t].ci) <= th[t].size_ci

(* What the stacks, the CallInfos, the counters and the open upvalues of   *)
(* the threads say agrees with the C stack, whatever was thrown, caught or *)
(* yielded in between (luaD_throw, luaD_pcall, lua_resume, lua_yield).     *)
ThreadsConsistent == CountsAgree /\ VariablesInPlace /\ UpvaluesLive /\ CanGoOn

-----------------------------------------------------------------------------
(* The threads as a program sees them.                                     *)
ChainOf == LET entries == SelectSeq(C, LAMBDA a : a.k \in Resumes \cup {"program"})
           IN  [i \in 1 .. Len(entries) |-> entries[i].l]

PhaseOf(co) ==
  IF Active(co) THEN "active"
  ELSE IF th[co].status = LUA_YIELD THEN "suspended"
  ELSE IF th[co].status # 0 THEN "dead"
  ELSE IF th[co].ci = <<>> THEN "none"
  ELSE IF Len(th[co].stack) = 1 THEN "dead" ELSE "fresh"

Alive(t) == Active(t) \/ th[t].status = LUA_YIELD
VariablesOf(t) ==
  LET lua == SelectSeq(th[t].ci, LAMBDA f : f.lua)
  IN  IF Alive(t) THEN [i \in 1 .. Len(lua) |-> th[t].stack[lua[i].func + 1]] ELSE <<>>
HandedTo(t) ==
  IF Active(t) /\ Last(th[t].ci).lua
  THEN SubSeq(th[t].stack, Base(th[t]) + 1, Len(th[t].stack)) ELSE <<>>

Abstract == INSTANCE Coroutines WITH
  chain  <- ChainOf,
  phase  <- [co \in Co |-> PhaseOf(co)],
  frames <- [t \in States |-> VariablesOf(t)],
  handed <- [t \in States |-> HandedTo(t)]

(* Coroutines keep what they promise: a transfer reaches the thread it is  *)
(* for with the values given, a coroutine that does not run is as it was   *)
(* when it yielded, and an error ends the coroutines that do not catch it  *)
(* and no others (luaB_coresume, luaB_auxwrap, luaB_yield, luaD_throw).    *)
ImplementsCoroutines == Abstract!Spec
=============================================================================
