------------------------------- MODULE LuaCode -------------------------------
(***************************************************************************)
(* Lua's code generator, lcode.c.  The parser asks it for the code of each *)
(* expression and statement; expressions are coded late, when it is known  *)
(* what they are for, and jumps whose target is not known yet are kept in  *)
(* lists threaded through the jumps themselves.                            *)
(*                                                                         *)
(* fs is the record the source calls FuncState.  The expression under work *)
(* (the argument e of the source's functions) is its field e, so that every *)
(* operator takes an fs and gives the next one.  fs.failed holds the places *)
(* of the source's assertions that did not hold; fs.err says that the      *)
(* program was refused with an error.  Line numbers are left out.          *)
(***************************************************************************)
EXTENDS LuaValue

CONSTANTS
  MAXSTACK,            \* how many registers a function may have
  BITRK,               \* an operand is a register below this, from here on a constant
  MAXARG_C,            \* the largest operand C
  MAXARG_Bx,           \* the largest operand Bx
  MAXARG_sBx,          \* the longest jump
  LFIELDS_PER_FLUSH    \* how many list items a constructor collects in registers

(* MAXSTACK = 250 in llimits.h; the others are the operands' widths in lopcodes.h. *)
ASSUME LimitsAssumption ==
  /\ {MAXSTACK, BITRK, MAXARG_C, MAXARG_Bx, MAXARG_sBx, LFIELDS_PER_FLUSH} \subseteq Nat \ {0}
  /\ MAXSTACK < BITRK

NO_JUMP == -1
NO_REG == BITRK - 1
LUA_MULTRET == -1
MAXINDEXRK == BITRK - 1

-----------------------------------------------------------------------------
ISK(x)    == x >= BITRK
INDEXK(x) == x - BITRK
RKASK(x)  == x + BITRK

Instr(op, a, b, c) == [op |-> op, a |-> a, b |-> b, c |-> c]
TestOps == {"EQ", "LT", "LE", "TEST", "TESTSET", "TFORLOOP"}
ArithOps == {"ADD", "SUB", "MUL", "DIV", "MOD", "POW", "UNM"}

Exp(k, info) == [k |-> k, info |-> info, aux |-> 0, nval |-> 0, t |-> NO_JUMP, f |-> NO_JUMP]
hasjumps(e)  == e.t # e.f
isnumeral(e) == e.k = "VKNUM" /\ ~hasjumps(e)
hasmultret(k) == k \in {"VCALL", "VVARARG"}

(* The record as open_func sets it up. *)
NewFuncState ==
  [code |-> <<>>, k |-> <<>>, p |-> <<>>, jpc |-> NO_JUMP, lasttarget |-> -1, freereg |-> 0,
   maxstacksize |-> 2, vars |-> <<>>, nactvar |-> 0, bl |-> <<>>, upvalues |-> <<>>,
   numparams |-> 0, is_vararg |-> {}, e |-> Exp("VVOID", 0), failed |-> {}, err |-> FALSE]

Pc(fs)      == Len(fs.code)
At(fs, pc)  == fs.code[pc + 1]
LastPc(fs)  == Len(fs.code) - 1

Assert(fs, place, holds) == IF holds THEN fs ELSE [fs EXCEPT !.failed = @ \cup {place}]
Limit(fs, holds)         == IF holds THEN fs ELSE [fs EXCEPT !.err = TRUE]
Became(fs, k, info)      == [fs EXCEPT !.e.k = k, !.e.info = info]
With(fs, e)              == [fs EXCEPT !.e = e]

-----------------------------------------------------------------------------
(* Jumps.  A jump's operand is the next jump of its list until it is       *)
(* patched; jpc is the list of the jumps to the next instruction.          *)
getjump(fs, pc) == LET offset == At(fs, pc).b
                   IN IF offset = NO_JUMP THEN NO_JUMP ELSE pc + 1 + offset

RECURSIVE Jumps(_, _)
Jumps(fs, list) == IF list = NO_JUMP THEN {} ELSE {list} \cup Jumps(fs, getjump(fs, list))

controlpc(fs, pc) == IF pc >= 1 /\ At(fs, pc - 1).op \in TestOps THEN pc - 1 ELSE pc

HasValue(fs, pc) == At(fs, controlpc(fs, pc)).op = "TESTSET"

need_value(fs, list) == \E j \in Jumps(fs, list) : ~HasValue(fs, j)

fixjump(fs, pc, dest) ==
  LET offset == dest - (pc + 1)
      checked == Assert(fs, "lcode.c:83", dest # NO_JUMP)
  IN Limit([checked EXCEPT !.code[pc + 1].b = offset], offset \in -MAXARG_sBx .. MAXARG_sBx)

RECURSIVE removevalues(_, _), patchlistaux(_, _, _, _, _)

(* Mutant of patchtestreg: a test nobody wants the value of keeps its place for it. *)
patchtestregKept(fs, node, reg) ==
  LET pc == controlpc(fs, node)
      i == At(fs, pc)
  IN IF HasValue(fs, node) /\ reg # NO_REG /\ reg # i.b THEN [fs EXCEPT !.code[pc + 1].a = reg] ELSE fs

(* Gives the value of a test to a register, or to none. *)
patchtestreg(fs, node, reg) ==
  LET pc == controlpc(fs, node)
      i == At(fs, pc)
  IN CASE ~HasValue(fs, node) -> fs
       [] reg # NO_REG /\ reg # i.b -> [fs EXCEPT !.code[pc + 1].a = reg]
       [] OTHER -> [fs EXCEPT !.code[pc + 1] = Instr("TEST", i.b, 0, i.c)]

removevalues(fs, list) ==
  IF list = NO_JUMP THEN fs ELSE removevalues(patchtestreg(fs, list, NO_REG), getjump(fs, list))

patchlistaux(fs, list, vtarget, reg, dtarget) ==
  LET dest == IF HasValue(fs, list) THEN vtarget ELSE dtarget
  IN IF list = NO_JUMP THEN fs
     ELSE patchlistaux(fixjump(patchtestreg(fs, list, reg), list, dest), getjump(fs, list), vtarget, reg, dtarget)

dischargejpc(fs) == [patchlistaux(fs, fs.jpc, Pc(fs), NO_REG, Pc(fs)) EXCEPT !.jpc = NO_JUMP]

(* luaK_concat: the list the first of two becomes, and the code with the second linked to it. *)
Joined(l1, l2) == IF l1 = NO_JUMP THEN l2 ELSE l1

Linked(fs, l1, l2) ==
  IF l1 = NO_JUMP \/ l2 = NO_JUMP THEN fs
  ELSE fixjump(fs, CHOOSE j \in Jumps(fs, l1) : getjump(fs, j) = NO_JUMP, l2)

luaK_getlabel(fs) == [fs EXCEPT !.lasttarget = Pc(fs)]

luaK_patchtohere(fs, list) ==
  [Linked(luaK_getlabel(fs), fs.jpc, list) EXCEPT !.jpc = Joined(@, list)]

luaK_patchlist(fs, list, target) ==
  IF target = Pc(fs) THEN luaK_patchtohere(fs, list)
  ELSE patchlistaux(Assert(fs, "lcode.c:173", target < Pc(fs)), list, target, NO_REG, target)

-----------------------------------------------------------------------------
(* Instructions.  The one that is coded is the last, at LastPc.            *)
luaK_code(fs, i) == LET g == dischargejpc(fs) IN [g EXCEPT !.code = Append(@, i)]
luaK_codeABC(fs, op, a, b, c) == luaK_code(fs, Instr(op, a, b, c))
luaK_codeABx(fs, op, a, bx)   == luaK_code(fs, Instr(op, a, bx, 0))

luaK_nil(fs, from, n) ==
  LET previous == At(fs, LastPc(fs))
      fresh == Pc(fs) > fs.lasttarget                        \* no jumps to this position
  IN IF fresh /\ Pc(fs) = 0 /\ from >= fs.nactvar THEN fs    \* registers are nil when a function starts
     ELSE IF fresh /\ Pc(fs) > 0 /\ previous.op = "LOADNIL" /\ from \in previous.a .. previous.b + 1
     THEN IF from + n - 1 > previous.b THEN [fs EXCEPT !.code[Pc(fs)].b = from + n - 1] ELSE fs
     ELSE luaK_codeABC(fs, "LOADNIL", from, from + n - 1, 0)

luaK_jump(fs) ==
  LET g == luaK_codeABx([fs EXCEPT !.jpc = NO_JUMP], "JMP", 0, NO_JUMP)
  IN Linked(g, LastPc(g), fs.jpc)

luaK_ret(fs, first, nret) == luaK_codeABC(fs, "RETURN", first, nret + 1, 0)

condjump(fs, op, a, b, c) == luaK_jump(luaK_codeABC(fs, op, a, b, c))

luaK_setlist(fs, base, nelems, tostore) ==
  LET c == (nelems - 1) \div LFIELDS_PER_FLUSH + 1
      b == IF tostore = LUA_MULTRET THEN 0 ELSE tostore
      g == Assert(fs, "lcode.c:822", tostore # 0)
      h == IF c <= MAXARG_C THEN luaK_codeABC(g, "SETLIST", base, b, c)
           ELSE luaK_code(luaK_codeABC(g, "SETLIST", base, b, 0), Instr("COUNT", 0, c, 0))
  IN [h EXCEPT !.freereg = base + 1]

-----------------------------------------------------------------------------
(* Registers and constants.                                                *)
luaK_checkstack(fs, n) ==
  LET newstack == fs.freereg + n
  IN IF newstack <= fs.maxstacksize THEN fs
     ELSE Limit([fs EXCEPT !.maxstacksize = newstack], newstack < MAXSTACK)

luaK_reserveregs(fs, n) == [luaK_checkstack(fs, n) EXCEPT !.freereg = @ + n]

freereg(fs, reg) ==
  IF ISK(reg) \/ reg < fs.nactvar THEN fs
  ELSE Assert([fs EXCEPT !.freereg = @ - 1], "lcode.c:218", reg = fs.freereg - 1)

freeexp(fs, e) == IF e.k = "VNONRELOC" THEN freereg(fs, e.info) ELSE fs

KIndex(fs, v) == IF \E n \in DOMAIN fs.k : fs.k[n] = v
                 THEN (CHOOSE n \in DOMAIN fs.k : fs.k[n] = v) - 1 ELSE Len(fs.k)

addk(fs, v) == IF KIndex(fs, v) < Len(fs.k) THEN fs
               ELSE Limit([fs EXCEPT !.k = Append(@, v)], Len(fs.k) < MAXARG_Bx)

ConstantOf(e) == CASE e.k = "VKNUM"  -> Num(e.nval)
                   [] e.k = "VNIL"   -> Nil
                   [] e.k = "VTRUE"  -> Bool(TRUE)
                   [] e.k = "VFALSE" -> Bool(FALSE)

-----------------------------------------------------------------------------
(* Expressions get their value: one result of a call, a variable's value,  *)
(* a value in a given register, in the next one, in any, or an operand.    *)
luaK_setreturns(fs, nresults) ==
  CASE fs.e.k = "VCALL"   -> [fs EXCEPT !.code[fs.e.info + 1].c = nresults + 1]
    [] fs.e.k = "VVARARG" -> luaK_reserveregs([fs EXCEPT !.code[fs.e.info + 1].b = nresults + 1,
                                                         !.code[fs.e.info + 1].a = fs.freereg], 1)
    [] OTHER -> fs

luaK_setoneret(fs) ==
  CASE fs.e.k = "VCALL"   -> Became(fs, "VNONRELOC", At(fs, fs.e.info).a)
    [] fs.e.k = "VVARARG" -> [fs EXCEPT !.code[fs.e.info + 1].b = 2, !.e.k = "VRELOCABLE"]
    [] OTHER -> fs

Relocable(fs) == Became(fs, "VRELOCABLE", LastPc(fs))

luaK_dischargevars(fs) ==
  LET e == fs.e IN
  CASE e.k = "VLOCAL"   -> [fs EXCEPT !.e.k = "VNONRELOC"]
    [] e.k = "VUPVAL"   -> Relocable(luaK_codeABC(fs, "GETUPVAL", 0, e.info, 0))
    [] e.k = "VGLOBAL"  -> Relocable(luaK_codeABx(fs, "GETGLOBAL", 0, e.info))
    [] e.k = "VINDEXED" -> Relocable(luaK_codeABC(freereg(freereg(fs, e.aux), e.info),
                                                  "GETTABLE", 0, e.info, e.aux))
    [] OTHER -> luaK_setoneret(fs)

code_label(fs, a, b, jump) == luaK_codeABC(luaK_getlabel(fs), "LOADBOOL", a, b, jump)

discharge2reg(fs0, reg) ==
  LET fs == luaK_dischargevars(fs0)
      e  == fs.e
      coded ==
        CASE e.k = "VNIL" -> luaK_nil(fs, reg, 1)
          [] e.k \in {"VTRUE", "VFALSE"} -> luaK_codeABC(fs, "LOADBOOL", reg, IF e.k = "VTRUE" THEN 1 ELSE 0, 0)
          [] e.k = "VK" -> luaK_codeABx(fs, "LOADK", reg, e.info)
          [] e.k = "VKNUM" -> luaK_codeABx(addk(fs, Num(e.nval)), "LOADK", reg, KIndex(fs, Num(e.nval)))
          [] e.k = "VRELOCABLE" -> [fs EXCEPT !.code[e.info + 1].a = reg]
          [] e.k = "VNONRELOC" -> IF reg = e.info THEN fs ELSE luaK_codeABC(fs, "MOVE", reg, e.info, 0)
          [] OTHER -> Assert(fs, "lcode.c:373", e.k \in {"VVOID", "VJMP"})
  IN IF e.k \in {"VVOID", "VJMP"} THEN coded ELSE Became(coded, "VNONRELOC", reg)

discharge2anyreg(fs) ==
  IF fs.e.k = "VNONRELOC" THEN fs ELSE discharge2reg(luaK_reserveregs(fs, 1), fs.freereg)

(* Jumps that do not bring a value get one from two LOADBOOLs. *)
exp2reg(fs0, reg) ==
  LET fs == discharge2reg(fs0, reg)
      isjump == fs.e.k = "VJMP"
      t  == IF isjump THEN Joined(fs.e.t, fs.e.info) ELSE fs.e.t
      a  == IF isjump THEN Linked(fs, fs.e.t, fs.e.info) ELSE fs
      need == need_value(a, t) \/ need_value(a, fs.e.f)
      over == IF isjump THEN a ELSE luaK_jump(a)
      loads == code_label(code_label(over, reg, 0, 1), reg, 1, 0)
      b  == IF need THEN luaK_patchtohere(loads, IF isjump THEN NO_JUMP ELSE LastPc(over)) ELSE a
      p_f == IF need THEN Pc(b) - 2 ELSE NO_JUMP
      p_t == IF need THEN Pc(b) - 1 ELSE NO_JUMP
      falses == patchlistaux(luaK_getlabel(b), fs.e.f, Pc(b), reg, p_f)
      done == IF t = fs.e.f THEN a ELSE patchlistaux(falses, t, Pc(b), reg, p_t)
  IN With(done, [fs.e EXCEPT !.f = NO_JUMP, !.t = NO_JUMP, !.info = reg, !.k = "VNONRELOC"])

luaK_exp2nextreg(fs) ==
  LET g == luaK_dischargevars(fs)
      h == luaK_reserveregs(freeexp(g, g.e), 1)
  IN exp2reg(h, h.freereg - 1)

luaK_exp2anyreg(fs) ==
  LET g == luaK_dischargevars(fs) IN
  CASE g.e.k = "VNONRELOC" /\ ~hasjumps(g.e) -> g
    [] g.e.k = "VNONRELOC" /\ hasjumps(g.e) /\ g.e.info >= g.nactvar -> exp2reg(g, g.e.info)
    [] OTHER -> luaK_exp2nextreg(g)

luaK_exp2val(fs) == IF hasjumps(fs.e) THEN luaK_exp2anyreg(fs) ELSE luaK_dischargevars(fs)

luaK_exp2RK(fs) ==
  LET g == luaK_exp2val(fs)
      literal == g.e.k \in {"VKNUM", "VTRUE", "VFALSE", "VNIL"}
      v == ConstantOf(g.e)
  IN CASE literal /\ Len(g.k) <= MAXINDEXRK -> Became(addk(g, v), "VK", KIndex(g, v))
       [] g.e.k = "VK" /\ g.e.info <= MAXINDEXRK -> g
       [] OTHER -> luaK_exp2anyreg(g)

RK(e) == IF e.k = "VK" THEN RKASK(e.info) ELSE e.info

luaK_storevar(fs, var) ==
  LET anyreg == luaK_exp2anyreg(fs)
      operand == luaK_exp2RK(fs)
  IN CASE var.k = "VLOCAL"   -> exp2reg(freeexp(fs, fs.e), var.info)
       [] var.k = "VUPVAL"   -> freeexp(luaK_codeABC(anyreg, "SETUPVAL", anyreg.e.info, var.info, 0), anyreg.e)
       [] var.k = "VGLOBAL"  -> freeexp(luaK_codeABx(anyreg, "SETGLOBAL", anyreg.e.info, var.info), anyreg.e)
       [] var.k = "VINDEXED" -> freeexp(luaK_codeABC(operand, "SETTABLE", var.info, var.aux, RK(operand.e)), operand.e)
       [] OTHER -> Assert(fs, "lcode.c:495", FALSE)

luaK_self(fs, key) ==
  LET object == luaK_exp2anyreg(fs)
      g == freeexp(object, object.e)
      h == luaK_exp2RK(With(luaK_reserveregs(g, 2), key))
      i == luaK_codeABC(h, "SELF", g.freereg, object.e.info, RK(h.e))
  IN With(freeexp(i, h.e), Exp("VNONRELOC", g.freereg))

luaK_indexed(fs, t) ==
  LET g == luaK_exp2RK(fs) IN With(g, [t EXCEPT !.aux = RK(g.e), !.k = "VINDEXED"])

-----------------------------------------------------------------------------
(* Conditions: an expression becomes a jump that is taken when it is false *)
(* (goiftrue) or when it is true (goiffalse).                              *)
invertjump(fs) ==
  LET c == controlpc(fs, fs.e.info)
      g == Assert(fs, "lcode.c:518", At(fs, c).op \in TestOps \ {"TESTSET", "TEST"})
  IN [g EXCEPT !.code[c + 1].a = 1 - @]

jumponcond(fs, cond) ==
  LET ie == At(fs, fs.e.info)
      g  == discharge2anyreg(fs)
  IN IF fs.e.k = "VRELOCABLE" /\ ie.op = "NOT"
     THEN condjump([fs EXCEPT !.code = SubSeq(@, 1, Len(@) - 1)], "TEST", ie.b, 0, 1 - cond)
     ELSE condjump(freeexp(g, g.e), "TESTSET", NO_REG, g.e.info, cond)

luaK_goiftrue(fs) ==
  LET g == luaK_dischargevars(fs)
      always == g.e.k \in {"VK", "VKNUM", "VTRUE"}
      h == CASE always -> g [] g.e.k = "VJMP" -> invertjump(g) [] OTHER -> jumponcond(g, 0)
      pc == CASE always -> NO_JUMP [] g.e.k = "VJMP" -> g.e.info [] OTHER -> LastPc(h)
      i == luaK_patchtohere(Linked(h, h.e.f, pc), h.e.t)
  IN [i EXCEPT !.e.f = Joined(@, pc), !.e.t = NO_JUMP]

luaK_goiffalse(fs) ==
  LET g == luaK_dischargevars(fs)
      never == g.e.k \in {"VNIL", "VFALSE"}
      h == IF never \/ g.e.k = "VJMP" THEN g ELSE jumponcond(g, 1)
      pc == CASE never -> NO_JUMP [] g.e.k = "VJMP" -> g.e.info [] OTHER -> LastPc(h)
      i == luaK_patchtohere(Linked(h, h.e.t, pc), h.e.f)
  IN [i EXCEPT !.e.t = Joined(@, pc), !.e.f = NO_JUMP]

codenot(fs) ==
  LET g == luaK_dischargevars(fs)
      r == discharge2anyreg(g)
      h == CASE g.e.k \in {"VNIL", "VFALSE"} -> [g EXCEPT !.e.k = "VTRUE"]
             [] g.e.k \in {"VK", "VKNUM", "VTRUE"} -> [g EXCEPT !.e.k = "VFALSE"]
             [] g.e.k = "VJMP" -> invertjump(g)
             [] g.e.k \in {"VRELOCABLE", "VNONRELOC"} ->
                  Relocable(luaK_codeABC(freeexp(r, r.e), "NOT", 0, r.e.info, 0))
      swapped == [h EXCEPT !.e.f = h.e.t, !.e.t = h.e.f]
  IN removevalues(removevalues(swapped, swapped.e.f), swapped.e.t)

-----------------------------------------------------------------------------
(* Operators.  What can be computed now is, unless it is not a number.     *)
Folds(op, e1, e2) == /\ isnumeral(e1) /\ isnumeral(e2)
                     /\ op \in ArithOps
                     /\ ~(op \in {"DIV", "MOD"} /\ e2.nval = 0)

codearith(fs, op, e1) ==
  LET g == IF op \in {"UNM", "LEN"} THEN fs ELSE luaK_exp2RK(fs)
      h == luaK_exp2RK(With(g, e1))
      o2 == IF op \in {"UNM", "LEN"} THEN 0 ELSE RK(g.e)
      o1 == RK(h.e)
      freed == IF o1 > o2 THEN freeexp(freeexp(h, h.e), g.e) ELSE freeexp(freeexp(h, g.e), h.e)
  IN IF Folds(op, e1, fs.e) THEN With(fs, [e1 EXCEPT !.nval = Arithmetic(op, Num(@), Num(fs.e.nval)).n])
     ELSE LET numerals == isnumeral(e1) /\ isnumeral(fs.e)
              g2 == Assert(freed, "lcode.c:645", numerals => op \in ArithOps \cup {"LEN"})
          IN Relocable(luaK_codeABC(g2, op, 0, o1, o2))

codecomp(fs, op, cond, e1) ==
  LET g == luaK_exp2RK(With(fs, e1))
      h == luaK_exp2RK(With(g, fs.e))
      freed == With(freeexp(freeexp(h, h.e), g.e), g.e)
      o1 == RK(g.e)
      o2 == RK(h.e)
      i == IF cond = 0 /\ op # "EQ" THEN condjump(freed, op, 1, o2, o1)
                                    ELSE condjump(freed, op, cond, o1, o2)
  IN Became(i, "VJMP", LastPc(i))

luaK_prefix(fs, op) ==
  LET operand == IF op = "#" \/ ~isnumeral(fs.e) THEN luaK_exp2anyreg(fs) ELSE fs
      zero == Exp("VKNUM", 0)
  IN CASE op = "-"   -> codearith(With(operand, zero), "UNM", operand.e)
       [] op = "not" -> codenot(fs)
       [] op = "#"   -> codearith(With(operand, zero), "LEN", operand.e)

luaK_infix(fs, op) ==
  CASE op = "and" -> luaK_goiftrue(fs)
    [] op = "or"  -> luaK_goiffalse(fs)
    [] op = ".."  -> luaK_exp2nextreg(fs)
    [] op \in {"+", "-", "*", "/", "%", "^"} -> IF isnumeral(fs.e) THEN fs ELSE luaK_exp2RK(fs)
    [] OTHER -> luaK_exp2RK(fs)

(* A concatenation takes over the one that its right operand ends with. *)
Concat(fs, e1) ==
  LET g == luaK_exp2val(fs)
      next == At(g, g.e.info)
      h == freeexp(Assert(g, "lcode.c:756", e1.info = next.b - 1), e1)
  IN IF g.e.k = "VRELOCABLE" /\ next.op = "CONCAT"
     THEN With([h EXCEPT !.code[g.e.info + 1].b = e1.info], [e1 EXCEPT !.k = "VRELOCABLE", !.info = g.e.info])
     ELSE codearith(luaK_exp2nextreg(g), "CONCAT", e1)

OpOf == [x \in {"+", "-", "*", "/", "%", "^"} |->
           CASE x = "+" -> "ADD" [] x = "-" -> "SUB" [] x = "*" -> "MUL"
             [] x = "/" -> "DIV" [] x = "%" -> "MOD" [] x = "^" -> "POW"]

luaK_posfix(fs, op, e1) ==
  LET g == luaK_dischargevars(fs) IN
  CASE op = "and" -> [Linked(Assert(g, "lcode.c:740", e1.t = NO_JUMP), g.e.f, e1.f)
                        EXCEPT !.e.f = Joined(@, e1.f)]
    [] op = "or"  -> [Linked(Assert(g, "lcode.c:747", e1.f = NO_JUMP), g.e.t, e1.t)
                        EXCEPT !.e.t = Joined(@, e1.t)]
    [] op = ".."  -> Concat(fs, e1)
    [] op = "=="  -> codecomp(fs, "EQ", 1, e1)
    [] op = "~="  -> codecomp(fs, "EQ", 0, e1)
    [] op = "<"   -> codecomp(fs, "LT", 1, e1)
    [] op = "<="  -> codecomp(fs, "LE", 1, e1)
    [] op = ">"   -> codecomp(fs, "LT", 0, e1)
    [] op = ">="  -> codecomp(fs, "LE", 0, e1)
    [] OTHER -> codearith(fs, OpOf[op], e1)
=============================================================================
