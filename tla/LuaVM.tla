-------------------------------- MODULE LuaVM --------------------------------
(***************************************************************************)
(* Lua's interpreter: luaV_execute of lvm.c with the calls and returns of  *)
(* ldo.c, the upvalues of lfunc.c and the metamethods of ltm.c.  One action *)
(* is one instruction.                                                     *)
(*                                                                         *)
(* L is the record the source calls lua_State.  A metamethod that is a Lua *)
(* function runs in the same state: the frame's field cont says what the C *)
(* code that called it does with its result, where luaV_execute returns to *)
(* when nexeccalls reaches 0; it does it in the step Continue.  Hooks and  *)
(* line numbers are left out, the stack does not move but has room for     *)
(* every call the CallInfos allow, and every function has the globals as   *)
(* its environment.                                                        *)
(***************************************************************************)
EXTENDS LuaParser, LuaCheck

CONSTANTS
  Loaded,          \* the programs: records of the text (tokens) and of what luaY_parser makes of it
  STACKSIZE,       \* bound: the stack slots there are, which must be enough
  BASIC_CI_SIZE,   \* how many CallInfos a state begins with
  LUAI_MAXCALLS,   \* how many it may have
  MAXTAGLOOP,      \* how long a chain of __index tables may be
  CFunctions       \* the names of the functions written in C, as globals

VARIABLES
  source,          \* the program's text
  main,            \* the compiled program
  L                \* the state it runs in

vars == <<source, main, L>>

Globals == TableV(1)

-----------------------------------------------------------------------------
(* The parts of a state.                                                   *)
Ci(l)   == l.ci[Len(l.ci)]
Base(l) == Ci(l).base
Reg(l, r) == l.stack[Base(l) + r]
Set(l, slot, v)    == [l EXCEPT !.stack[slot] = v]
SetReg(l, r, v)    == Set(l, Base(l) + r, v)
Fail(l, kind)      == [l EXCEPT !.status = kind]
Truth(v)           == ~l_isfalse(v)
Between(l, from, to) == [i \in 1 .. to - from |-> l.stack[from + i - 1]]

RECURSIVE ProtoAt(_, _)
ProtoAt(p, path) == IF path = <<>> THEN p ELSE ProtoAt(p.p[path[1]], Tail(path))
Closure(l) == l.closures[l.stack[Ci(l).func].fid]
CurProto(l) == ProtoAt(main, Closure(l).path)

InstrAt(l, pc) == CurProto(l).code[pc + 1]
I == InstrAt(L, Ci(L).pc)                                  \* the instruction that is next
N == [L EXCEPT !.ci[Len(L.ci)].pc = @ + 1]                 \* the state when it has been fetched
Op(op) == L.status = "run" /\ L.after.k = "none" /\ I.op = op

RKValue(l, x) == IF ISK(x) THEN CurProto(l).k[INDEXK(x) + 1] ELSE Reg(l, x)
KValue(l, bx) == CurProto(l).k[bx + 1]
dojump(l, offset) == [l EXCEPT !.ci[Len(l.ci)].pc = @ + offset]

(* A comparison is followed by a jump that is taken if its outcome is the expected one. *)
Branch(l, outcome, expected) ==
  dojump(l, 1 + (IF outcome = expected THEN InstrAt(l, Ci(l).pc).b ELSE 0))

-----------------------------------------------------------------------------
(* Metamethods.  A metatable remembers, in flags, the events of fasttm it  *)
(* does not define; assigning to it forgets them.                          *)
luaT_gettmbyobj(l, o, event) ==
  IF o.t = "table" /\ l.tables[o.tid].metatable # 0
  THEN luaH_get(l.tables[l.tables[o.tid].metatable].map, Str(event)) ELSE Nil

fasttm(l, mt, event) ==
  IF mt = 0 \/ event \in l.tables[mt].flags THEN Nil ELSE luaH_get(l.tables[mt].map, Str(event))

luaT_gettm(l, mt, event) ==
  IF mt # 0 /\ fasttm(l, mt, event) = Nil THEN [l EXCEPT !.tables[mt].flags = @ \cup {event}] ELSE l

RawSet(l, o, key, v) ==
  IF key \in {Nil, NaN} THEN Fail(l, "key")
  ELSE [l EXCEPT !.tables[o.tid].map = luaH_put(@, key, v), !.tables[o.tid].flags = {}]

-----------------------------------------------------------------------------
(* Upvalues.  openupval lists those that are still stack slots, the        *)
(* highest slot first.                                                     *)

(* Mutant of luaF_findupval: every closure gets an upvalue of its own. *)
luaF_findupvalAnew(l, level) ==
  LET above == Cardinality({u \in DOMAIN l.openupval : l.upvals[l.openupval[u]].v > level})
      id == Len(l.upvals) + 1
  IN [l |-> [l EXCEPT !.upvals = Append(@, [v |-> level, value |-> Nil]),
                      !.openupval = SubSeq(@, 1, above) \o <<id>> \o SubSeq(@, above + 1, Len(@))],
      id |-> id]

luaF_findupval(l, level) ==
  LET found == {u \in DOMAIN l.openupval : l.upvals[l.openupval[u]].v = level}
      above == Cardinality({u \in DOMAIN l.openupval : l.upvals[l.openupval[u]].v > level})
      id == Len(l.upvals) + 1
  IN IF found # {} THEN [l |-> l, id |-> l.openupval[CHOOSE u \in found : TRUE]]
     ELSE [l |-> [l EXCEPT !.upvals = Append(@, [v |-> level, value |-> Nil]),
                           !.openupval = SubSeq(@, 1, above) \o <<id>> \o SubSeq(@, above + 1, Len(@))],
           id |-> id]

CLOSED == -1

RECURSIVE luaF_close(_, _)
luaF_close(l, level) ==
  IF l.openupval = <<>> \/ l.upvals[l.openupval[1]].v < level THEN l
  ELSE LET uv == l.openupval[1]
       IN luaF_close([l EXCEPT !.openupval = Tail(@),
                               !.upvals[uv] = [v |-> CLOSED, value |-> l.stack[@.v]]], level)

UpValue(l, id) == IF l.upvals[id].v = CLOSED THEN l.upvals[id].value ELSE l.stack[l.upvals[id].v]
SetUpValue(l, id, v) == IF l.upvals[id].v = CLOSED THEN [l EXCEPT !.upvals[id].value = v] ELSE Set(l, l.upvals[id].v, v)

-----------------------------------------------------------------------------
(* Calls.                                                                  *)
NewTable(l) == [l EXCEPT !.tables = Append(@, [map |-> <<>>, metatable |-> 0, flags |-> {}])]

Nils(l, from, to)  == [l EXCEPT !.stack = Replaced(@, [s \in from .. to - 1 |-> Nil])]
Write(l, from, vs) == [l EXCEPT !.stack = Replaced(@, [s \in from .. from + Len(vs) - 1 |-> vs[s - from + 1]])]

(* Moves the fixed parameters above the extra arguments and makes the table arg. *)
adjust_varargs(l0, p, func) ==
  LET n == p.numparams
      actual == IF l0.top - func - 1 < n THEN n ELSE l0.top - func - 1
      l == [Nils(l0, l0.top, func + 1 + n) EXCEPT !.top = func + 1 + actual]
      nvar == actual - n
      extra == Between(l, l.top - nvar, l.top)
      entries == {Num(i) : i \in {i \in 1 .. nvar : extra[i] # Nil}} \cup {Str("n")}
      t == [NewTable(l) EXCEPT !.tables[Len(l.tables) + 1].map =
              [k \in entries |-> IF k = Str("n") THEN Num(nvar) ELSE extra[k.n]]]
      fixed == Between(l, func + 1, func + 1 + n)
      Moved(x) == Nils(Write(x, x.top, fixed), func + 1, func + 1 + n)
  IN IF "NEEDSARG" \in p.is_vararg
     THEN [l |-> [Set(Moved(t), t.top + n, TableV(Len(t.tables))) EXCEPT !.top = @ + n + 1], base |-> l.top]
     ELSE [l |-> [Moved(l) EXCEPT !.top = @ + n], base |-> l.top]

Results(vs, wanted) ==
  IF wanted = LUA_MULTRET THEN vs ELSE [i \in 1 .. wanted |-> IF i <= Len(vs) THEN vs[i] ELSE Nil]

(* The results of a call replace the function and its arguments. *)
Deliver(l, func, vs, wanted) ==
  LET r == Results(vs, wanted) IN [Write(l, func, r) EXCEPT !.top = func + Len(r)]

Cont(k) == [k |-> k, n |-> 0, a |-> 0, b |-> 0, total |-> 0, last |-> 0]

(* What follows a call.  Unless it was an instruction's, the C code that   *)
(* made the call goes on with the result in a step of its own.             *)
Returned(l, cont, nresults) ==
  CASE cont.k \in {"none", "program"} -> l
    [] cont.k = "call" -> IF nresults = LUA_MULTRET THEN l ELSE [l EXCEPT !.top = Ci(l).top]
    [] OTHER -> [l EXCEPT !.after = cont]

(* Functions written in C, and what each does with the stack slots from func + 1 to top. *)
CallC(l, name, func, nresults) ==
  LET args == Between(l, func + 1, l.top)
      o == args[1]
  IN CASE name = "pass" -> Deliver(l, func, args, nresults)
       [] name = "rawset" -> Deliver(RawSet(l, o, args[2], args[3]), func, <<o>>, nresults)
       [] name = "setmetatable" -> Deliver([l EXCEPT !.tables[o.tid].metatable = args[2].tid], func, <<o>>, nresults)

tryfuncTM(l, func) ==
  LET tm == luaT_gettmbyobj(l, l.stack[func], "__call")
  IN [Write(l, func, <<tm>> \o Between(l, func, l.top)) EXCEPT !.top = @ + 1]

(* growCI: the CallInfos, of which the first is the host's, are doubled    *)
(* until that makes more of them than are allowed.                         *)
size_ci[n \in Nat] == IF 2 * n > LUAI_MAXCALLS THEN n ELSE size_ci[2 * n]
end_ci(l) == Len(l.ci) + 1 = size_ci[BASIC_CI_SIZE]

(* Enters the function at func, whose arguments reach to the top. *)
luaD_precall(l0, func, nresults, cont) ==
  LET callable == l0.stack[func].t = "function"
      l == IF callable THEN l0 ELSE tryfuncTM(l0, func)
      cl == l.closures[l.stack[func].fid]
      p == ProtoAt(main, cl.path)
      v == IF p.is_vararg = {}
           THEN [l |-> [l EXCEPT !.top = IF @ > func + 1 + p.numparams THEN func + 1 + p.numparams ELSE @], base |-> func + 1]
           ELSE adjust_varargs(l, p, func)
      frame == [func |-> func, base |-> v.base, top |-> v.base + p.maxstacksize, nresults |-> nresults,
                pc |-> 0, cont |-> cont]
  IN IF ~callable /\ luaT_gettmbyobj(l0, l0.stack[func], "__call").t # "function" THEN Fail(l0, "call")
     ELSE IF end_ci(l) THEN Fail(l, "stack overflow")
     ELSE IF cl.c # "" THEN Returned(CallC(l, cl.c, func, nresults), cont, nresults)
     ELSE [Nils(v.l, v.l.top, frame.top) EXCEPT !.ci = Append(@, frame), !.top = frame.top]

(* luaD_poscall: leaves a function whose results are from firstResult to the top. *)
luaD_poscall(l, firstResult) ==
  LET frame == Ci(l)
      r == Between(l, firstResult, l.top)
  IN Returned(Deliver([l EXCEPT !.ci = SubSeq(@, 1, Len(@) - 1)], frame.func, r, frame.nresults),
              frame.cont, frame.nresults)

Push(l, vs) == [Write(l, l.top, vs) EXCEPT !.top = @ + Len(vs)]
callTMres(l, tm, p1, p2, cont) == luaD_precall(Push(l, <<tm, p1, p2>>), l.top, 1, cont)
Into(slot) == [Cont("store") EXCEPT !.a = slot]

-----------------------------------------------------------------------------
(* Operations that may call a metamethod.                                  *)
RECURSIVE luaV_gettable(_, _, _, _, _)
luaV_gettable(l, o, key, slot, loop) ==
  LET mt == l.tables[o.tid].metatable
      res == luaH_get(l.tables[o.tid].map, key)
      tm == IF o.t = "table" THEN fasttm(l, mt, "__index") ELSE luaT_gettmbyobj(l, o, "__index")
      m == IF o.t = "table" /\ res = Nil THEN luaT_gettm(l, mt, "__index") ELSE l
  IN CASE loop = MAXTAGLOOP -> Fail(l, "loop")
       [] o.t = "table" /\ (res # Nil \/ tm = Nil) -> Set(m, slot, res)
       [] tm = Nil -> Fail(m, "index")
       [] tm.t = "function" -> callTMres(m, tm, o, key, Into(slot))
       [] OTHER -> luaV_gettable(m, tm, key, slot, loop + 1)

(* The primitive set comes first, and with it the end of what flags remembers. *)
RECURSIVE luaV_settable(_, _, _, _, _)
luaV_settable(l, o, key, v, loop) ==
  LET mt == l.tables[o.tid].metatable
      oldval == luaH_get(l.tables[o.tid].map, key)
      touched == [l EXCEPT !.tables[o.tid].flags = {}]
      tm == IF o.t = "table" THEN fasttm(touched, mt, "__newindex") ELSE luaT_gettmbyobj(l, o, "__newindex")
      m == CASE o.t # "table" -> l
             [] oldval # Nil -> touched
             [] OTHER -> luaT_gettm(touched, mt, "__newindex")
  IN CASE loop = MAXTAGLOOP -> Fail(l, "loop")
       [] o.t = "table" /\ key \in {Nil, NaN} -> Fail(l, "key")
       [] o.t = "table" /\ (oldval # Nil \/ tm = Nil) -> RawSet(m, o, key, v)
       [] tm = Nil -> Fail(m, "index")
       [] tm.t = "function" -> luaD_precall(Push(m, <<tm, o, key, v>>), m.top, 0, Cont("none"))
       [] OTHER -> luaV_settable(m, tm, key, v, loop + 1)

call_binTM(l, v, w, event, cont, kind) ==
  LET tm == IF luaT_gettmbyobj(l, v, event) # Nil THEN luaT_gettmbyobj(l, v, event) ELSE luaT_gettmbyobj(l, w, event)
  IN IF tm = Nil THEN Fail(l, kind) ELSE callTMres(l, tm, v, w, cont)

Arith(l, op, slot, v, w) ==
  IF Nil \in {luaV_tonumber(v), luaV_tonumber(w)} THEN call_binTM(l, v, w, EventOf[op], Into(slot), "arithmetic")
  ELSE Set(l, slot, Arithmetic(op, luaV_tonumber(v), luaV_tonumber(w)))

(* A comparison's outcome decides a branch; swap is 0 if it is to be negated. *)
OnOutcome(a, swap) == [Cont("branch") EXCEPT !.a = a, !.b = swap]
Decide(l, holds, a) == Branch(l, IF holds THEN 1 ELSE 0, a)

CompTM(l, v, w, event) ==
  LET tm == luaT_gettmbyobj(l, v, event)
  IN IF tm # Nil /\ luaO_rawequalObj(tm, luaT_gettmbyobj(l, w, event)) THEN tm ELSE Nil

luaV_lessthan(l, v, w, a) ==
  CASE ttype(v) # ttype(w) -> Fail(l, "compare")
    [] ttype(v) = "number" -> Decide(l, Less(v, w), a)
    [] v.t = "string" -> Decide(l, l_strless(v, w), a)
    [] CompTM(l, v, w, "__lt") # Nil -> callTMres(l, CompTM(l, v, w, "__lt"), v, w, OnOutcome(a, 1))
    [] OTHER -> Fail(l, "compare")

lessequal(l, v, w, a) ==
  CASE ttype(v) # ttype(w) -> Fail(l, "compare")
    [] ttype(v) = "number" -> Decide(l, LessEq(v, w), a)
    [] v.t = "string" -> Decide(l, ~l_strless(w, v), a)
    [] CompTM(l, v, w, "__le") # Nil -> callTMres(l, CompTM(l, v, w, "__le"), v, w, OnOutcome(a, 1))
    [] CompTM(l, w, v, "__lt") # Nil -> callTMres(l, CompTM(l, w, v, "__lt"), w, v, OnOutcome(a, 0))
    [] OTHER -> Fail(l, "compare")

(* get_compTM: equality asks the metatables, and remembers what they lack. *)
equalobj(l, v, w, a) ==
  LET mt1 == l.tables[v.tid].metatable
      mt2 == l.tables[w.tid].metatable
      tm1 == fasttm(l, mt1, "__eq")
      one == luaT_gettm(l, mt1, "__eq")
      tm2 == fasttm(one, mt2, "__eq")
      two == IF tm1 = Nil \/ mt1 = mt2 THEN one ELSE luaT_gettm(one, mt2, "__eq")
  IN IF v.t # "table" \/ w.t # "table" \/ v = w THEN Decide(l, luaO_rawequalObj(v, w), a)
     ELSE IF tm1 = Nil \/ (mt1 # mt2 /\ ~luaO_rawequalObj(tm1, tm2)) THEN Decide(two, FALSE, a)
     ELSE callTMres(two, tm1, v, w, OnOutcome(a, 1))

RECURSIVE luaV_concat(_, _, _, _)

(* Concatenates the last of the values in registers, total of them, until one is left, for register A. *)
luaV_concat(l, total, last, cont) ==
  LET top == Base(l) + last + 1
      v == l.stack[top - 2]
      w == l.stack[top - 1]
      IsText(x) == luaV_tostring(x) # Nil
      texts == {n \in 2 .. total : \A i \in 1 .. n : IsText(l.stack[top - i])}
      n == CHOOSE n \in texts : \A m \in texts : m <= n
      Text(i) == luaV_tostring(l.stack[top - i]).s
      joined[i \in 1 .. n] == IF i = 1 THEN Text(1) ELSE Text(i) \o joined[i - 1]
      Rest(x, done) == luaV_concat(x, total - (done - 1), last - (done - 1), cont)
  IN IF total <= 1 THEN SetReg(l, cont.a, Reg(l, cont.b))
     ELSE IF ~IsText(v) \/ ~IsText(w)
     THEN call_binTM(l, v, w, "__concat", [cont EXCEPT !.total = total, !.last = last], "concatenate")
     ELSE IF Text(1) = "" THEN Rest(Set(l, top - 2, luaV_tostring(v)), 2)
     ELSE Rest(Set(l, top - n, Str(joined[n])), n)

(* What the C code does with the result below the top: callTMres stores it, call_orderTM *)
(* and luaV_equalval decide by it, luaV_concat goes on, OP_TFORLOOP tests it.            *)
After(l, cont) ==
  LET popped == [l EXCEPT !.top = @ - 1]
      v == l.stack[l.top - 1]
      cb == Base(l) + cont.a + 3
      control == l.stack[cb]
      m == [l EXCEPT !.top = Ci(l).top]
  IN CASE cont.k = "store"  -> Set(popped, cont.a, v)
       [] cont.k = "branch" -> Branch(popped, IF Truth(v) THEN cont.b ELSE 1 - cont.b, cont.a)
       [] cont.k = "concat" -> luaV_concat(Set(popped, Base(l) + cont.last - 1, v), cont.total - 1, cont.last - 1, cont)
       [] cont.k = "loop"   -> IF control = Nil THEN dojump(m, 1)
                               ELSE dojump(Set(m, cb - 1, control), 1 + InstrAt(l, Ci(l).pc).b)

-----------------------------------------------------------------------------
(* The instructions.                                                       *)
Becomes(l) == L' = l /\ UNCHANGED <<source, main>>

Move     == Op("MOVE") /\ Becomes(SetReg(N, I.a, Reg(L, I.b)))
LoadK    == Op("LOADK") /\ Becomes(SetReg(N, I.a, KValue(L, I.b)))
LoadBool == Op("LOADBOOL") /\ Becomes(dojump(SetReg(N, I.a, Bool(I.b = 1)), I.c))
LoadNil  == Op("LOADNIL") /\ Becomes(Nils(N, Base(L) + I.a, Base(L) + I.b + 1))

GetUpval  == Op("GETUPVAL") /\ Becomes(SetReg(N, I.a, UpValue(L, Closure(L).upvals[I.b + 1])))
SetUpval  == Op("SETUPVAL") /\ Becomes(SetUpValue(N, Closure(L).upvals[I.b + 1], Reg(L, I.a)))
GetGlobal == Op("GETGLOBAL") /\ Becomes(luaV_gettable(N, Globals, KValue(L, I.b), Base(L) + I.a, 0))
SetGlobal == Op("SETGLOBAL") /\ Becomes(luaV_settable(N, Globals, KValue(L, I.b), Reg(L, I.a), 0))
GetTable  == Op("GETTABLE") /\ Becomes(luaV_gettable(N, Reg(L, I.b), RKValue(L, I.c), Base(L) + I.a, 0))
SetTable  == Op("SETTABLE") /\ Becomes(luaV_settable(N, Reg(L, I.a), RKValue(L, I.b), RKValue(L, I.c), 0))
NewTab    == Op("NEWTABLE") /\ Becomes(SetReg(NewTable(N), I.a, TableV(Len(L.tables) + 1)))
Self      == Op("SELF") /\ LET m == SetReg(N, I.a + 1, Reg(L, I.b))
                           IN Becomes(luaV_gettable(m, Reg(m, I.b), RKValue(m, I.c), Base(L) + I.a, 0))

Arithmetics == \E op \in ArithOps \ {"UNM"} :
  Op(op) /\ Becomes(Arith(N, op, Base(L) + I.a, RKValue(L, I.b), RKValue(L, I.c)))
Unm == Op("UNM") /\ Becomes(Arith(N, "UNM", Base(L) + I.a, Reg(L, I.b), Reg(L, I.b)))
Not == Op("NOT") /\ Becomes(SetReg(N, I.a, Bool(~Truth(Reg(L, I.b)))))
Length ==
  /\ Op("LEN")
  /\ LET v == Reg(L, I.b)
     IN Becomes(CASE v.t = "table"  -> SetReg(N, I.a, Num(luaH_getn(L.tables[v.tid].map)))
                  [] v.t = "string" -> SetReg(N, I.a, Num(Len(v.s)))
                  [] OTHER -> Fail(N, "length"))
Concatenate == Op("CONCAT") /\ Becomes(luaV_concat(N, I.c - I.b + 1, I.c, [Cont("concat") EXCEPT !.a = I.a, !.b = I.b]))

Jump == Op("JMP") /\ Becomes(dojump(N, I.b))
Eq == Op("EQ") /\ Becomes(equalobj(N, RKValue(L, I.b), RKValue(L, I.c), I.a))
Lt == Op("LT") /\ Becomes(luaV_lessthan(N, RKValue(L, I.b), RKValue(L, I.c), I.a))
Le == Op("LE") /\ Becomes(lessequal(N, RKValue(L, I.b), RKValue(L, I.c), I.a))
Test == Op("TEST") /\ Becomes(Decide(N, Truth(Reg(L, I.a)), I.c))
TestSet ==
  /\ Op("TESTSET")
  /\ LET rb == Reg(L, I.b)
         taken == Truth(rb) = (I.c = 1)
     IN Becomes(Decide(IF taken THEN SetReg(N, I.a, rb) ELSE N, Truth(rb), I.c))

WithTop(l, a, b) == IF b # 0 THEN [l EXCEPT !.top = Base(l) + a + b] ELSE l

CallOp == Op("CALL") /\ Becomes(luaD_precall(WithTop(N, I.a, I.b), Base(L) + I.a, I.c - 1, Cont("call")))

(* A Lua function that is called last takes over the caller's frame. *)
TailCall ==
  /\ Op("TAILCALL")
  /\ LET called == luaD_precall(WithTop(N, I.a, I.b), Base(L) + I.a, LUA_MULTRET, Cont("call"))
         new == Ci(called)
         old == Ci(L)
         closed == luaF_close(called, old.base)
         moved == Write(closed, old.func, Between(closed, new.func, closed.top))
         shift == new.func - old.func
         frame == [old EXCEPT !.base = new.base - shift, !.top = new.top - shift, !.pc = new.pc]
     IN Becomes(IF Len(called.ci) = Len(L.ci) THEN called
                ELSE [moved EXCEPT !.ci = Append(SubSeq(L.ci, 1, Len(L.ci) - 1), frame), !.top = frame.top])

Return ==
  /\ Op("RETURN")
  /\ LET l == IF I.b # 0 THEN [N EXCEPT !.top = Base(L) + I.a + I.b - 1] ELSE N
         left == luaD_poscall(luaF_close(l, Base(L)), Base(L) + I.a)
     IN Becomes(IF Ci(L).cont.k = "program" THEN [left EXCEPT !.status = "done"] ELSE left)

ForLoop ==
  /\ Op("FORLOOP")
  /\ LET step == Reg(L, I.a + 2)
         idx == Arithmetic("ADD", Reg(L, I.a), step)
         limit == Reg(L, I.a + 1)
         again == IF Less(Num(0), step) THEN LessEq(idx, limit) ELSE LessEq(limit, idx)
     IN Becomes(IF again THEN dojump(SetReg(SetReg(N, I.a, idx), I.a + 3, idx), I.b) ELSE N)

ForPrep ==
  /\ Op("FORPREP")
  /\ LET x == [i \in 0 .. 2 |-> luaV_tonumber(Reg(L, I.a + i))]
         l == SetReg(SetReg(SetReg(N, I.a + 1, x[1]), I.a + 2, x[2]), I.a, Arithmetic("SUB", x[0], x[2]))
     IN Becomes(IF \E i \in 0 .. 2 : x[i] = Nil THEN Fail(N, "for") ELSE dojump(l, I.b))

TForLoop ==
  /\ Op("TFORLOOP")
  /\ LET cb == Base(L) + I.a + 3
         l == [Write(N, cb, Between(L, cb - 3, cb)) EXCEPT !.top = cb + 3]
     IN Becomes(luaD_precall(l, cb, I.c, [Cont("loop") EXCEPT !.a = I.a]))

SetList ==
  /\ Op("SETLIST")
  /\ LET n == IF I.b = 0 THEN L.top - (Base(L) + I.a) - 1 ELSE I.b
         l == IF I.b = 0 THEN [N EXCEPT !.top = Ci(L).top] ELSE N
         c == IF I.c = 0 THEN InstrAt(N, Ci(N).pc).b ELSE I.c
         m == IF I.c = 0 THEN dojump(l, 1) ELSE l
         first == (c - 1) * LFIELDS_PER_FLUSH
         Stored[i \in 0 .. n] == IF i = 0 THEN m ELSE RawSet(Stored[i - 1], Reg(L, I.a), Num(first + i), Reg(L, I.a + i))
     IN Becomes(Stored[n])

Close == Op("CLOSE") /\ Becomes(luaF_close(N, Base(L) + I.a))

(* The instructions after OP_CLOSURE say what the upvalues are. *)
RECURSIVE Captured(_, _, _)
Captured(l, n, ids) ==
  LET i == InstrAt(l, Ci(l).pc)
      found == luaF_findupval(l, Base(l) + i.b)
  IN IF n = 0 THEN [l |-> l, ids |-> ids]
     ELSE IF i.op = "GETUPVAL" THEN Captured(dojump(l, 1), n - 1, Append(ids, Closure(l).upvals[i.b + 1]))
     ELSE Captured(dojump(found.l, 1), n - 1, Append(ids, found.id))

Continue == /\ L.status = "run"
            /\ L.after.k # "none"
            /\ Becomes(After([L EXCEPT !.after = Cont("none")], L.after))

NewClosure ==
  /\ Op("CLOSURE")
  /\ LET path == Append(Closure(L).path, I.b + 1)
         r == Captured(N, Len(ProtoAt(main, path).upvalues), <<>>)
         l == [r.l EXCEPT !.closures = Append(@, [c |-> "", path |-> path, upvals |-> r.ids])]
     IN Becomes(SetReg(l, I.a, FunV(Len(l.closures))))

Vararg ==
  /\ Op("VARARG")
  /\ LET n == Base(L) - Ci(L).func - CurProto(L).numparams - 1
         extra == Between(L, Base(L) - n, Base(L))
         l == Write(N, Base(L) + I.a, Results(extra, I.b - 1))
     IN Becomes(IF I.b = 0 THEN [l EXCEPT !.top = Base(L) + I.a + n] ELSE l)

-----------------------------------------------------------------------------
(* A program is compiled and called without arguments.                     *)
CNames == [i \in 1 .. Len(CFunctions) |-> Str(CFunctions[i])]

Start(f) ==
  LET l == [stack |-> [s \in 0 .. STACKSIZE |-> Nil], ci |-> <<>>, top |-> 2, upvals |-> <<>>, openupval |-> <<>>,
            closures |-> [i \in DOMAIN CNames |-> [c |-> CFunctions[i], path |-> <<>>, upvals |-> <<>>]]
                         \o <<[c |-> "", path |-> <<>>, upvals |-> <<>>]>>,
            tables |-> <<[map |-> [x \in {CNames[i] : i \in DOMAIN CNames} |-> FunV(CHOOSE i \in DOMAIN CNames : CNames[i] = x)],
                          metatable |-> 0, flags |-> {}]>>,
            after |-> Cont("none"), status |-> "run"]
      called == Set(l, 1, FunV(Len(CNames) + 1))
      v == adjust_varargs(called, f, 1)
      frame == [func |-> 1, base |-> v.base, top |-> v.base + f.maxstacksize, nresults |-> LUA_MULTRET,
                pc |-> 0, cont |-> Cont("program")]
  IN IF f.err THEN Fail(l, "refused") ELSE [v.l EXCEPT !.ci = <<frame>>, !.top = frame.top]

Init ==
  /\ \E program \in Loaded : source = program.source /\ main = program.main
  /\ L = Start(main)

Instructions ==
  \/ Move \/ LoadK \/ LoadBool \/ LoadNil \/ GetUpval \/ SetUpval \/ GetGlobal \/ SetGlobal \/ GetTable \/ SetTable
  \/ NewTab \/ Self \/ Arithmetics \/ Unm \/ Not \/ Length \/ Concatenate \/ Jump \/ Eq \/ Lt \/ Le \/ Test \/ TestSet
  \/ CallOp \/ TailCall \/ Return \/ ForLoop \/ ForPrep \/ TForLoop \/ SetList \/ Close \/ NewClosure \/ Vararg \/ Continue

(* A program that has ended, or was refused, stays so. *)
Ended == L.status # "run" /\ UNCHANGED vars

Next == Instructions \/ Ended

Spec == Init /\ [][Next]_vars

-----------------------------------------------------------------------------
(* The assertions of the parser and the code generator held, and the code  *)
(* of every function passes luaG_checkcode (lparser.c:374).                *)
RECURSIVE Protos(_)
Protos(p) == {p} \cup UNION {Protos(p.p[i]) : i \in DOMAIN p.p}

CodeChecked == ~main.err => main.failed = {} /\ \A p \in Protos(main) : luaG_checkcode(p)

(* lvm.c:397: before every instruction the top is the frame's, or the      *)
(* instruction uses the values an open call or "..." left below it.        *)
TopInPlace ==
  L.status = "run" /\ L.after.k = "none" =>
    /\ L.top = Ci(L).top \/ luaG_checkopenop(I)
    /\ Base(L) <= L.top /\ L.top <= STACKSIZE

(* Closures that share a variable share its upvalue while the variable is  *)
(* on the stack: a slot has one open upvalue, openupval is sorted, and     *)
(* none outlives the frame that holds its slot.                            *)
OneUpvaluePerSlot ==
  LET Level(n) == L.upvals[L.openupval[n]].v
      open == {u \in DOMAIN L.upvals : L.upvals[u].v # CLOSED}
  IN  /\ \A n \in 2 .. Len(L.openupval) : Level(n - 1) > Level(n)
      /\ open = {L.openupval[n] : n \in DOMAIN L.openupval}
      /\ L.status = "run" =>
           \A n \in DOMAIN L.openupval :
             \E i \in DOMAIN L.ci : Level(n) \in L.ci[i].base .. L.ci[i].top - 1

(* An event a metatable remembers to lack is one it does lack. *)
FlagsFresh ==
  \A t \in DOMAIN L.tables : \A event \in L.tables[t].flags : luaH_get(L.tables[t].map, Str(event)) = Nil

MachineConsistent == TopInPlace /\ OneUpvaluePerSlot /\ FlagsFresh
=============================================================================
