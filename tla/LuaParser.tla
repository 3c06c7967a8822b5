------------------------------ MODULE LuaParser ------------------------------
(***************************************************************************)
(* Lua's parser, lparser.c: one pass over the tokens, coding as it goes.   *)
(* s holds the tokens, the position, the functions that are open (the last *)
(* is the one being compiled) and the depth of the recursion.  The names   *)
(* of the debug information are left out.  A syntax error, or a limit that *)
(* is exceeded, refuses the program: the flag err of the record remembers  *)
(* it, and what is coded after that has no meaning.                        *)
(***************************************************************************)
EXTENDS LuaCode

CONSTANTS
  LUAI_MAXVARS,        \* how many local variables a function may have
  LUAI_MAXUPVALUES,    \* how many variables of outer functions it may use
  LUAI_MAXCCALLS       \* how deep the parser may recurse

(* llimits.h and luaconf.h: the variables of a function have registers. *)
ASSUME VariablesAssumption ==
  /\ {LUAI_MAXVARS, LUAI_MAXUPVALUES, LUAI_MAXCCALLS} \subseteq Nat \ {0}
  /\ LUAI_MAXVARS < MAXSTACK

Tok(s) == s.toks[s.i].t
Sem(s) == s.toks[s.i]
luaX_next(s) == IF Tok(s) = "eos" THEN s ELSE [s EXCEPT !.i = @ + 1]
luaX_lookahead(s) == Tok(luaX_next(s))

Fs(s) == s.fss[Len(s.fss)]
On(s, fs) == [s EXCEPT !.fss[Len(s.fss)] = fs]
E(s) == Fs(s).e
SyntaxError(s) == [On(s, [Fs(s) EXCEPT !.err = TRUE]) EXCEPT !.toks = <<[t |-> "eos"]>>, !.i = 1]   \* nothing more is read

testnext(s, c)  == IF Tok(s) = c THEN luaX_next(s) ELSE s
checknext(s, c) == IF Tok(s) = c THEN luaX_next(s) ELSE SyntaxError(s)
check(s, c)     == IF Tok(s) = c THEN s ELSE SyntaxError(s)

SetE(s, e) == On(s, With(Fs(s), e))
str_checkname(s) == IF Tok(s) = "name" THEN Sem(s).s ELSE ""
checkname(s) == LET v == Str(str_checkname(s))
                IN luaX_next(check(On(s, With(addk(Fs(s), v), Exp("VK", KIndex(Fs(s), v)))), "name"))

-----------------------------------------------------------------------------
(* Variables.  vars holds the names of the active variables, in the order  *)
(* of their registers, and after them those that are declared but not yet  *)
(* active.                                                                 *)
new_localvar(fs, name, n) ==
  Limit([fs EXCEPT !.vars = Append(SubSeq(@, 1, fs.nactvar + n), name)],
        fs.nactvar + n + 1 <= LUAI_MAXVARS)

adjustlocalvars(fs, nvars) == [fs EXCEPT !.nactvar = @ + nvars]

removevars(fs, tolevel) == [fs EXCEPT !.nactvar = tolevel]

searchvar(fs, n) ==
  LET found == {i \in 1 .. fs.nactvar : fs.vars[i] = n}
  IN IF found = {} THEN -1 ELSE (CHOOSE i \in found : \A j \in found : j <= i) - 1

markupval(fs, level) ==
  LET around == {b \in DOMAIN fs.bl : fs.bl[b].nactvar <= level}
  IN IF around = {} THEN fs
     ELSE [fs EXCEPT !.bl[CHOOSE b \in around : \A c \in around : c <= b].upval = TRUE]

(* The index of an upvalue, and the function with it added if it is new. *)
upvalindex(fs, u) == IF \E i \in DOMAIN fs.upvalues : fs.upvalues[i] = u
                     THEN (CHOOSE i \in DOMAIN fs.upvalues : fs.upvalues[i] = u) - 1
                     ELSE Len(fs.upvalues)

indexupvalue(fs, u) ==
  IF upvalindex(fs, u) < Len(fs.upvalues) THEN fs
  ELSE Limit([fs EXCEPT !.upvalues = Append(@, u)], Len(fs.upvalues) + 1 <= LUAI_MAXUPVALUES)

(* Looks a name up in function number d and the ones around it. *)
RECURSIVE singlevaraux(_, _, _, _)
singlevaraux(fss, n, d, base) ==
  IF d = 0 THEN [fss |-> fss, k |-> "VGLOBAL", info |-> NO_REG]
  ELSE LET v == searchvar(fss[d], n)
           outer == singlevaraux(fss, n, d - 1, FALSE)
           u == [k |-> outer.k, info |-> outer.info]
       IN IF v >= 0 THEN [fss |-> IF base THEN fss ELSE [fss EXCEPT ![d] = markupval(@, v)],
                          k |-> "VLOCAL", info |-> v]
          ELSE IF outer.k = "VGLOBAL" THEN outer
          ELSE [fss |-> [outer.fss EXCEPT ![d] = indexupvalue(@, u)],
                k |-> "VUPVAL", info |-> upvalindex(outer.fss[d], u)]

singlevar(s) ==
  LET n == str_checkname(s)
      var == singlevaraux(s.fss, n, Len(s.fss), TRUE)
      t == check([s EXCEPT !.fss = var.fss], "name")
      fs == Fs(t)
  IN luaX_next(IF var.k = "VGLOBAL" THEN On(t, With(addk(fs, Str(n)), Exp("VGLOBAL", KIndex(fs, Str(n)))))
                                    ELSE SetE(t, Exp(var.k, var.info)))

adjust_assign(fs, nvars, nexps) ==
  LET extra == nvars - nexps
      more == IF extra + 1 < 0 THEN 0 ELSE extra + 1                  \* includes the call itself
      open == luaK_setreturns(fs, more)
      shut == IF fs.e.k = "VVOID" THEN fs ELSE luaK_exp2nextreg(fs)
  IN IF hasmultret(fs.e.k) THEN IF more > 1 THEN luaK_reserveregs(open, more - 1) ELSE open
     ELSE IF extra > 0 THEN luaK_nil(luaK_reserveregs(shut, extra), shut.freereg, extra) ELSE shut

-----------------------------------------------------------------------------
(* Blocks and functions.                                                   *)
enterblock(fs, isbreakable) ==
  Assert([fs EXCEPT !.bl = Append(@, [breaklist |-> NO_JUMP, isbreakable |-> isbreakable,
                                      nactvar |-> fs.nactvar, upval |-> FALSE])],
         "lparser.c:292", fs.freereg = fs.nactvar)

Block(fs) == fs.bl[Len(fs.bl)]

leaveblock(fs) ==
  LET bl == Block(fs)
      left == [removevars(fs, bl.nactvar) EXCEPT !.bl = SubSeq(@, 1, Len(@) - 1)]
      closed == IF bl.upval THEN luaK_codeABC(left, "CLOSE", bl.nactvar, 0, 0) ELSE left
      g == Assert(closed, "lparser.c:303", ~(bl.isbreakable /\ bl.upval))
  IN luaK_patchtohere([g EXCEPT !.freereg = bl.nactvar], bl.breaklist)

open_func(s) == [s EXCEPT !.fss = Append(@, NewFuncState)]

(* What is left of a function when it is compiled. *)
Proto(fs) == [code |-> fs.code, k |-> fs.k, p |-> fs.p, upvalues |-> fs.upvalues,
              numparams |-> fs.numparams, is_vararg |-> fs.is_vararg, maxstacksize |-> fs.maxstacksize]

close_func(fs) == LET g == luaK_ret(removevars(fs, 0), 0, 0)
                  IN Assert(g, "lparser.c:375", g.bl = <<>>)

pushclosure(fs, func) ==
  LET adopted == [fs EXCEPT !.p = Append(@, Proto(func)), !.failed = @ \cup func.failed,
                            !.err = @ \/ func.err \/ Len(fs.p) >= MAXARG_Bx]
      closure == With(luaK_codeABx(adopted, "CLOSURE", 0, Len(fs.p)), Exp("VRELOCABLE", Pc(fs)))
      Capture(u) == Instr(IF u.k = "VLOCAL" THEN "MOVE" ELSE "GETUPVAL", 0, u.info, 0)
  IN [closure EXCEPT !.code = @ \o [i \in DOMAIN func.upvalues |-> Capture(func.upvalues[i])]]

-----------------------------------------------------------------------------
RECURSIVE subexpr(_, _), chunk(_)
expr(s) == subexpr(s, 0)

enterlevel(s) == LET t == [s EXCEPT !.nCcalls = @ + 1]
                 IN On(t, Limit(Fs(t), t.nCcalls <= LUAI_MAXCCALLS))
leavelevel(s) == [s EXCEPT !.nCcalls = @ - 1]

Indexed(s, t) == On(s, luaK_indexed(Fs(s), t))
AnyReg(s)  == On(s, luaK_exp2anyreg(Fs(s)))
NextReg(s) == On(s, luaK_exp2nextreg(Fs(s)))

field(s) == LET t == AnyReg(s) IN Indexed(checkname(luaX_next(t)), E(t))

yindex(s) == LET t == expr(luaX_next(s)) IN checknext(On(t, luaK_exp2val(Fs(t))), "]")

RECURSIVE moreexps(_, _)
moreexps(s, n) == IF Tok(s) = "," THEN moreexps(expr(luaX_next(NextReg(s))), n + 1)
                                  ELSE [s |-> s, n |-> n]
explist1(s) == moreexps(expr(s), 1)

(* A constructor.  cc.v is the last list item that was read. *)
recfield(s, cc) ==
  LET key == IF Tok(s) = "name" THEN checkname(s) ELSE yindex(s)
      rkkey == luaK_exp2RK(Fs(key))
      val == expr(checknext(On(key, rkkey), "="))
      rkval == luaK_exp2RK(Fs(val))
      fs == luaK_codeABC(rkval, "SETTABLE", cc.t, RK(rkkey.e), RK(rkval.e))
  IN [s |-> On(val, [fs EXCEPT !.freereg = Fs(s).freereg]), cc |-> [cc EXCEPT !.nh = @ + 1]]

closelistfield(s, cc) ==
  LET fs == luaK_exp2nextreg(With(Fs(s), cc.v))
      full == cc.tostore = LFIELDS_PER_FLUSH
  IN IF cc.v.k = "VVOID" THEN [s |-> s, cc |-> cc]
     ELSE [s |-> On(s, IF full THEN luaK_setlist(fs, cc.t, cc.na, cc.tostore) ELSE fs),
           cc |-> [cc EXCEPT !.v = Exp("VVOID", 0), !.tostore = IF full THEN 0 ELSE @]]

lastlistfield(fs, cc) ==
  LET open == luaK_setreturns(With(fs, cc.v), LUA_MULTRET)
      shut == IF cc.v.k = "VVOID" THEN fs ELSE luaK_exp2nextreg(With(fs, cc.v))
  IN IF cc.tostore = 0 THEN fs
     ELSE IF hasmultret(cc.v.k) THEN luaK_setlist(open, cc.t, cc.na, LUA_MULTRET)
     ELSE luaK_setlist(shut, cc.t, cc.na, cc.tostore)

listfield(s, cc) ==
  LET t == expr(s)
  IN [s |-> t, cc |-> [cc EXCEPT !.v = E(t), !.na = @ + 1, !.tostore = @ + 1]]

RECURSIVE fields(_, _)
fields(s0, cc0) ==
  LET s == On(s0, Assert(Fs(s0), "lparser.c:511", cc0.v.k = "VVOID" \/ cc0.tostore > 0))
      closed == closelistfield(s, cc0)
      isrec == Tok(s) = "[" \/ (Tok(s) = "name" /\ luaX_lookahead(s) = "=")
      item == IF isrec THEN recfield(closed.s, closed.cc) ELSE listfield(closed.s, closed.cc)
  IN IF Tok(s) = "}" THEN [s |-> s, cc |-> cc0]
     ELSE IF Tok(item.s) \in {",", ";"} THEN fields(luaX_next(item.s), item.cc)
     ELSE item

(* luaO_int2fb: a size of a new table, as a floating point byte (eeeeexxx), rounded up. *)
RECURSIVE int2fb(_, _)
int2fb(x, e) == IF x >= 16 THEN int2fb((x + 1) \div 2, e + 1)
                ELSE IF x < 8 THEN x ELSE (e + 1) * 8 + (x - 8)
luaO_int2fb(x) == int2fb(x, 0)

constructor(s) ==
  LET pc == Pc(Fs(s))
      t == NextReg(On(s, With(luaK_codeABC(Fs(s), "NEWTABLE", 0, 0, 0), Exp("VRELOCABLE", Pc(Fs(s))))))
      r == fields(checknext(t, "{"), [v |-> Exp("VVOID", 0), t |-> E(t).info, nh |-> 0, na |-> 0, tostore |-> 0])
      last == lastlistfield(Fs(r.s), r.cc)
      na == IF r.cc.tostore # 0 /\ hasmultret(r.cc.v.k) THEN r.cc.na - 1 ELSE r.cc.na
  IN checknext(On(r.s, With([last EXCEPT !.code[pc + 1].b = luaO_int2fb(na),
                                         !.code[pc + 1].c = luaO_int2fb(r.cc.nh)], E(t))), "}")

-----------------------------------------------------------------------------
(* Functions and calls.                                                    *)
RECURSIVE params(_, _)
params(s, nparams) ==
  CASE Tok(s) = "name" ->
         LET t == luaX_next(On(s, new_localvar(Fs(s), str_checkname(s), nparams)))
         IN IF Tok(t) = "," THEN params(luaX_next(t), nparams + 1) ELSE [s |-> t, n |-> nparams + 1]
    [] Tok(s) = "..." ->                                      \* LUA_COMPAT_VARARG: arg is a parameter too
         LET fs == new_localvar(Fs(s), "arg", nparams)
         IN [s |-> luaX_next(On(s, [fs EXCEPT !.is_vararg = {"HASARG", "NEEDSARG", "ISVARARG"}])),
             n |-> nparams + 1]
    [] OTHER -> [s |-> SyntaxError(s), n |-> nparams]

parlist(s) ==
  LET r == IF Tok(s) = ")" THEN [s |-> s, n |-> 0] ELSE params(s, 0)
      fs == adjustlocalvars(Fs(r.s), r.n)
      hasarg == IF "HASARG" \in fs.is_vararg THEN 1 ELSE 0
  IN On(r.s, luaK_reserveregs([fs EXCEPT !.numparams = fs.nactvar - hasarg], fs.nactvar))

body(s, needself) ==
  LET opened == checknext(open_func(s), "(")
      self == adjustlocalvars(new_localvar(Fs(opened), "self", 0), 1)
      t == checknext(chunk(checknext(parlist(IF needself THEN On(opened, self) ELSE opened), ")")), "end")
      func == close_func(Fs(t))
      back == [t EXCEPT !.fss = SubSeq(@, 1, Len(@) - 1)]
  IN On(back, pushclosure(Fs(back), func))

(* The arguments of a call; the function is in the register base. *)
Arguments(s) ==
  CASE Tok(s) = "(" ->
         IF luaX_lookahead(s) = ")" THEN luaX_next(luaX_next(SetE(s, Exp("VVOID", 0))))
         ELSE LET t == explist1(luaX_next(s)).s
              IN checknext(On(t, luaK_setreturns(Fs(t), LUA_MULTRET)), ")")
    [] Tok(s) = "{" -> constructor(s)
    [] Tok(s) = "string" ->
         LET v == Str(Sem(s).s)
         IN luaX_next(On(s, With(addk(Fs(s), v), Exp("VK", KIndex(Fs(s), v)))))
    [] OTHER -> SyntaxError(s)

funcargs(s0) ==
  LET s == On(s0, Assert(Fs(s0), "lparser.c:642", E(s0).k = "VNONRELOC"))
      base == E(s).info
      t == Arguments(s)
      args == E(t).k
      fs == IF hasmultret(args) \/ args = "VVOID" THEN Fs(t) ELSE luaK_exp2nextreg(Fs(t))
      nparams == IF hasmultret(args) THEN LUA_MULTRET ELSE fs.freereg - (base + 1)
      call == luaK_codeABC(fs, "CALL", base, nparams + 1, 2)
  IN On(t, [With(call, Exp("VCALL", LastPc(call))) EXCEPT !.freereg = base + 1])

-----------------------------------------------------------------------------
(* Expressions.                                                            *)
prefixexp(s) ==
  CASE Tok(s) = "(" -> LET t == checknext(expr(luaX_next(s)), ")") IN On(t, luaK_dischargevars(Fs(t)))
    [] Tok(s) = "name" -> singlevar(s)
    [] OTHER -> SyntaxError(s)

RECURSIVE suffixes(_)
suffixes(s) ==
  CASE Tok(s) = "." -> suffixes(field(s))
    [] Tok(s) = "[" -> LET t == AnyReg(s) IN suffixes(Indexed(yindex(t), E(t)))
    [] Tok(s) = ":" -> LET key == checkname(luaX_next(s))
                       IN suffixes(funcargs(On(key, luaK_self(With(Fs(key), E(s)), E(key)))))
    [] Tok(s) \in {"(", "string", "{"} -> suffixes(funcargs(NextReg(s)))
    [] OTHER -> s

primaryexp(s) == suffixes(prefixexp(s))

simpleexp(s) ==
  CASE Tok(s) = "number" -> luaX_next(SetE(s, [Exp("VKNUM", 0) EXCEPT !.nval = Sem(s).n]))
    [] Tok(s) = "string" -> LET v == Str(Sem(s).s)
                            IN luaX_next(On(s, With(addk(Fs(s), v), Exp("VK", KIndex(Fs(s), v)))))
    [] Tok(s) = "nil"    -> luaX_next(SetE(s, Exp("VNIL", 0)))
    [] Tok(s) = "true"   -> luaX_next(SetE(s, Exp("VTRUE", 0)))
    [] Tok(s) = "false"  -> luaX_next(SetE(s, Exp("VFALSE", 0)))
    [] Tok(s) = "..."    -> LET fs == Limit(Fs(s), Fs(s).is_vararg # {})
                                g == luaK_codeABC([fs EXCEPT !.is_vararg = @ \ {"NEEDSARG"}], "VARARG", 0, 1, 0)
                            IN luaX_next(On(s, With(g, Exp("VVARARG", LastPc(g)))))
    [] Tok(s) = "{"        -> constructor(s)
    [] Tok(s) = "function" -> body(luaX_next(s), FALSE)
    [] OTHER -> primaryexp(s)

priority ==
  LET P(ops, l, r) == [op \in ops |-> [left |-> l, right |-> r]]
      Both(f, g) == [x \in DOMAIN f \cup DOMAIN g |-> IF x \in DOMAIN f THEN f[x] ELSE g[x]]
  IN Both(P({"+", "-"}, 6, 6), Both(P({"*", "/", "%"}, 7, 7), Both(P({"^"}, 10, 9), Both(P({".."}, 5, 4),
     Both(P({"~=", "==", "<", "<=", ">", ">="}, 3, 3), Both(P({"and"}, 2, 2), P({"or"}, 1, 1)))))))

UNARY_PRIORITY == 8

RECURSIVE operators(_, _)
operators(s, limit) ==
  LET op == Tok(s)
      left == On(luaX_next(s), luaK_infix(Fs(s), op))
      right == subexpr(left, priority[op].right)
  IN IF op \in DOMAIN priority /\ priority[op].left > limit
     THEN operators(On(right, luaK_posfix(Fs(right), op, E(left))), limit)
     ELSE s

subexpr(s, limit) ==
  LET t == enterlevel(s)
      operand == subexpr(luaX_next(t), UNARY_PRIORITY)
      first == IF Tok(s) \in {"not", "-", "#"} THEN On(operand, luaK_prefix(Fs(operand), Tok(s)))
                                               ELSE simpleexp(t)
  IN leavelevel(operators(first, limit))

-----------------------------------------------------------------------------
(* Statements.                                                             *)
block_follow(s) == Tok(s) \in {"else", "elseif", "end", "until", "eos"}

block(s) ==
  LET t == chunk(On(s, enterblock(Fs(s), FALSE)))
      fs == Assert(Fs(t), "lparser.c:887", Block(Fs(t)).breaklist = NO_JUMP)
  IN On(t, leaveblock(fs))

(* Mutant of Conflicts: only the key is looked at, not the table. *)
ConflictsOfKey(lhs, v) == {i \in DOMAIN lhs : lhs[i].k = "VINDEXED" /\ v.info = lhs[i].aux}

(* A local that is assigned after a table or a key that it names in the    *)
(* same statement: the earlier assignments use a copy.  lhs is the list of *)
(* those assignments.                                                      *)
Conflicts(lhs, v) == {i \in DOMAIN lhs : lhs[i].k = "VINDEXED" /\ v.info \in {lhs[i].info, lhs[i].aux}}

Copied(lhs, v, extra) ==
  [i \in DOMAIN lhs |-> IF i \notin Conflicts(lhs, v) THEN lhs[i]
                        ELSE [lhs[i] EXCEPT !.info = IF @ = v.info THEN extra ELSE @,
                                            !.aux  = IF @ = v.info THEN extra ELSE @]]

check_conflict(fs, lhs, v) ==
  IF Conflicts(lhs, v) = {} THEN fs
  ELSE luaK_reserveregs(luaK_codeABC(fs, "MOVE", fs.freereg, v.info, 0), 1)

storedefault(s, var) == On(s, luaK_storevar(With(Fs(s), Exp("VNONRELOC", Fs(s).freereg - 1)), var))

(* Stores in the variables from the last to the first. *)
RECURSIVE storeall(_, _)
storeall(s, lhs) == IF lhs = <<>> THEN s
                    ELSE storeall(storedefault(s, lhs[Len(lhs)]), SubSeq(lhs, 1, Len(lhs) - 1))

RECURSIVE assignment(_, _)
assignment(s0, lhs) ==
  LET last == lhs[Len(lhs)]
      nvars == Len(lhs)
      s == IF last.k \in {"VLOCAL", "VUPVAL", "VGLOBAL", "VINDEXED"} THEN s0 ELSE SyntaxError(s0)
      nv == primaryexp(luaX_next(s))
      islocal == E(nv).k = "VLOCAL"
      checked == IF islocal THEN check_conflict(Fs(nv), lhs, E(nv)) ELSE Fs(nv)
      safe == IF islocal THEN Copied(lhs, E(nv), Fs(nv).freereg) ELSE lhs
      r == explist1(checknext(s, "="))
      one == luaK_storevar(luaK_setoneret(Fs(r.s)), last)
      adjusted == adjust_assign(Fs(r.s), nvars, r.n)
      cut == IF r.n > nvars THEN [adjusted EXCEPT !.freereg = @ - (r.n - nvars)] ELSE adjusted
  IN IF Tok(s) = ","
     THEN assignment(On(nv, Limit(checked, nvars <= LUAI_MAXCCALLS - s.nCcalls)), Append(safe, E(nv)))
     ELSE IF r.n = nvars THEN storeall(On(r.s, one), SubSeq(lhs, 1, nvars - 1))
     ELSE storeall(On(r.s, cut), lhs)

(* A condition; the result's e.f lists the jumps for when it is false. *)
cond(s) ==
  LET t == expr(s)
      fs == IF E(t).k = "VNIL" THEN [Fs(t) EXCEPT !.e.k = "VFALSE"] ELSE Fs(t)
  IN On(t, luaK_goiftrue(fs))

breakstat(fs) ==
  LET loops == {b \in DOMAIN fs.bl : fs.bl[b].isbreakable}
      loop == CHOOSE b \in loops : \A c \in loops : c <= b
      upval == \E b \in DOMAIN fs.bl : b > loop /\ fs.bl[b].upval
      closed == IF upval THEN luaK_codeABC(fs, "CLOSE", fs.bl[loop].nactvar, 0, 0) ELSE fs
      jump == luaK_jump(closed)
  IN IF loops = {} THEN Limit(fs, FALSE)
     ELSE [Linked(jump, fs.bl[loop].breaklist, LastPc(jump)) EXCEPT !.bl[loop].breaklist = Joined(@, LastPc(jump))]

Back(fs, target) == LET g == luaK_jump(fs) IN luaK_patchlist(g, LastPc(g), target)

whilestat(s) ==
  LET whileinit == Pc(Fs(s))
      c == cond(luaX_next(On(s, luaK_getlabel(Fs(s)))))
      t == block(checknext(On(c, enterblock(Fs(c), TRUE)), "do"))
      looped == leaveblock(Back(Fs(t), whileinit))
  IN checknext(On(t, luaK_patchtohere(looped, E(c).f)), "end")

repeatstat(s) ==
  LET repeat_init == Pc(Fs(s))
      body2 == chunk(luaX_next(On(s, enterblock(enterblock(luaK_getlabel(Fs(s)), TRUE), FALSE))))
      c == cond(checknext(body2, "until"))
      condexit == E(c).f
      plain == luaK_patchlist(leaveblock(Fs(c)), condexit, repeat_init)
      withup == Back(leaveblock(luaK_patchtohere(breakstat(Fs(c)), condexit)), repeat_init)
  IN On(c, leaveblock(IF Block(Fs(c)).upval THEN withup ELSE plain))

exp1(s) == NextReg(expr(s))

forbody(s0, base, nvars, isnum) ==
  LET s == checknext(On(s0, adjustlocalvars(Fs(s0), 3)), "do")
      start == IF isnum THEN luaK_codeABx(Fs(s), "FORPREP", base, NO_JUMP) ELSE luaK_jump(Fs(s))
      prep == LastPc(start)
      scope == luaK_reserveregs(adjustlocalvars(enterblock(start, FALSE), nvars), nvars)
      t == block(On(s, scope))
      left == luaK_patchtohere(leaveblock(Fs(t)), prep)
      loop == IF isnum THEN luaK_codeABx(left, "FORLOOP", base, NO_JUMP)
              ELSE luaK_jump(luaK_codeABC(left, "TFORLOOP", base, 0, nvars))
  IN On(t, luaK_patchlist(loop, LastPc(loop), prep + 1))

Control(fs, names) == new_localvar(new_localvar(new_localvar(fs, names[1], 0), names[2], 1), names[3], 2)

fornum(s, varname) ==
  LET base == Fs(s).freereg
      fs == new_localvar(Control(Fs(s), <<"(for index)", "(for limit)", "(for step)">>), varname, 3)
      limit == exp1(checknext(exp1(checknext(On(s, fs), "=")), ","))
      g == addk(Fs(limit), Num(1))
      default == luaK_reserveregs(luaK_codeABx(g, "LOADK", g.freereg, KIndex(Fs(limit), Num(1))), 1)
      step == IF Tok(limit) = "," THEN exp1(luaX_next(limit)) ELSE On(limit, default)
  IN forbody(step, base, 1, TRUE)

RECURSIVE names(_, _)
names(s, nvars) ==
  LET t == check(On(s, new_localvar(Fs(s), str_checkname(s), nvars)), "name")
      after == luaX_next(t)
  IN IF Tok(after) = "," THEN names(luaX_next(after), nvars + 1) ELSE [s |-> after, n |-> nvars + 1]

forlist(s, indexname) ==
  LET base == Fs(s).freereg
      fs == new_localvar(Control(Fs(s), <<"(for generator)", "(for state)", "(for control)">>), indexname, 3)
      vars == IF Tok(s) = "," THEN names(luaX_next(On(s, fs)), 4) ELSE [s |-> On(s, fs), n |-> 4]
      r == explist1(checknext(vars.s, "in"))
  IN forbody(On(r.s, luaK_checkstack(adjust_assign(Fs(r.s), 3, r.n), 3)), base, vars.n - 3, FALSE)

forstat(s) ==
  LET t == luaX_next(On(s, enterblock(Fs(s), TRUE)))
      after == luaX_next(check(t, "name"))
      loop == CASE Tok(after) = "=" -> fornum(after, str_checkname(t))
                [] Tok(after) \in {",", "in"} -> forlist(after, str_checkname(t))
                [] OTHER -> SyntaxError(after)
      done == checknext(loop, "end")
  IN On(done, leaveblock(Fs(done)))

(* IF cond THEN block; flist lists the jumps for when the condition is false. *)
test_then_block(s) ==
  LET c == cond(luaX_next(s)) IN [s |-> block(checknext(c, "then")), flist |-> E(c).f]

Escape(fs, escapelist) ==
  LET g == luaK_jump(fs)
  IN [fs |-> Linked(g, escapelist, LastPc(g)), list |-> Joined(escapelist, LastPc(g))]

RECURSIVE elseparts(_, _, _)
elseparts(s, flist, escapelist) ==
  LET escape == Escape(Fs(s), escapelist)
      here == On(s, luaK_patchtohere(escape.fs, flist))
      next == test_then_block(here)
      otherwise == block(luaX_next(here))
  IN CASE Tok(s) = "elseif" -> elseparts(next.s, next.flist, escape.list)
       [] Tok(s) = "else"   -> On(otherwise, luaK_patchtohere(Fs(otherwise), escape.list))
       [] OTHER -> On(s, luaK_patchtohere(Linked(Fs(s), escapelist, flist), Joined(escapelist, flist)))

ifstat(s) == LET t == test_then_block(s) IN checknext(elseparts(t.s, t.flist, NO_JUMP), "end")

localfunc(s) ==
  LET fs == new_localvar(Fs(s), str_checkname(s), 0)
      v == Exp("VLOCAL", fs.freereg)
      t == body(luaX_next(check(On(s, adjustlocalvars(luaK_reserveregs(fs, 1), 1)), "name")), FALSE)
  IN On(t, luaK_storevar(Fs(t), v))

localstat(s) ==
  LET vars == names(s, 0)
      r == IF Tok(vars.s) = "=" THEN explist1(luaX_next(vars.s))
           ELSE [s |-> SetE(vars.s, Exp("VVOID", 0)), n |-> 0]
  IN On(r.s, adjustlocalvars(adjust_assign(Fs(r.s), vars.n, r.n), vars.n))

RECURSIVE dots(_)
dots(s) == IF Tok(s) = "." THEN dots(field(s)) ELSE s

funcstat(s) ==
  LET name == dots(singlevar(luaX_next(s)))
      needself == Tok(name) = ":"
      var == IF needself THEN field(name) ELSE name
      b == body(var, needself)
  IN On(b, luaK_storevar(Fs(b), E(var)))

exprstat(s) ==
  LET v == primaryexp(s)
  IN IF E(v).k = "VCALL" THEN On(v, [Fs(v) EXCEPT !.code[E(v).info + 1].c = 1])
     ELSE assignment(v, <<E(v)>>)

retstat(s) ==
  LET t == luaX_next(s)
      r == explist1(t)
      fs == Fs(r.s)
      e == fs.e
      open == luaK_setreturns(fs, LUA_MULTRET)
      tail == e.k = "VCALL" /\ r.n = 1
      called == Assert([open EXCEPT !.code[e.info + 1].op = "TAILCALL"],
                       "lparser.c:1252", At(open, e.info).a = open.nactvar)
      any == luaK_exp2anyreg(fs)
      next == luaK_exp2nextreg(fs)
  IN IF block_follow(t) \/ Tok(t) = ";" THEN On(t, luaK_ret(Fs(t), 0, 0))
     ELSE On(r.s, CASE hasmultret(e.k) -> luaK_ret(IF tail THEN called ELSE open, fs.nactvar, LUA_MULTRET)
                    [] ~hasmultret(e.k) /\ r.n = 1 -> luaK_ret(any, any.e.info, 1)
                    [] OTHER -> luaK_ret(Assert(next, "lparser.c:1263", r.n = next.freereg - fs.nactvar),
                                         fs.nactvar, r.n))

statement(s) ==
  CASE Tok(s) = "if"       -> ifstat(s)
    [] Tok(s) = "while"    -> whilestat(s)
    [] Tok(s) = "do"       -> checknext(block(luaX_next(s)), "end")
    [] Tok(s) = "for"      -> forstat(s)
    [] Tok(s) = "repeat"   -> repeatstat(s)
    [] Tok(s) = "function" -> funcstat(s)
    [] Tok(s) = "local"    -> LET t == luaX_next(s)
                              IN IF Tok(t) = "function" THEN localfunc(luaX_next(t)) ELSE localstat(t)
    [] Tok(s) = "return"   -> retstat(s)
    [] Tok(s) = "break"    -> On(luaX_next(s), breakstat(Fs(s)))
    [] OTHER               -> exprstat(s)

RECURSIVE statements(_)
statements(s) ==
  LET islast == Tok(s) \in {"return", "break"}
      t == testnext(statement(s), ";")
      fs == Assert(Fs(t), "lparser.c:1332", Fs(t).freereg \in Fs(t).nactvar .. Fs(t).maxstacksize)
      next == On(t, [fs EXCEPT !.freereg = fs.nactvar])
  IN IF block_follow(s) \/ Fs(s).err THEN s ELSE IF islast THEN next ELSE statements(next)

chunk(s) == leavelevel(statements(enterlevel(s)))

(* A whole program is a function with a variable number of arguments. *)
luaY_parser(toks) ==
  LET opened == open_func([toks |-> toks, i |-> 1, fss |-> <<>>, nCcalls |-> 0])
      s == check(chunk(On(opened, [Fs(opened) EXCEPT !.is_vararg = {"ISVARARG"}])), "eos")
  IN Assert(close_func(Fs(s)), "lparser.c:395", Fs(s).upvalues = <<>>)
=============================================================================
