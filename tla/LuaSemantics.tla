---------------------------- MODULE LuaSemantics ----------------------------
(***************************************************************************)
(* What a Lua program means, without registers, jumps or stacks: the       *)
(* abstract specification that compiled code is compared with.  A program  *)
(* is a tree; variables are cells, functions are pairs of a tree and the   *)
(* cells it can see, and evaluation gives values or the kind of an error.  *)
(* Tokens gives the text of a tree, with no more parentheses than the      *)
(* precedence of the operators needs.                                      *)
(***************************************************************************)
EXTENDS LuaValue

Call0(r)    == [v |-> IF r.vs = <<>> THEN Nil ELSE r.vs[1], st |-> r.st]
Adjust(vs, n) == [i \in 1 .. n |-> IF i <= Len(vs) THEN vs[i] ELSE Nil]
Fail(st, kind) == IF st.err = "" THEN [st EXCEPT !.err = kind] ELSE st
ArithOpOf == [x \in {"+", "-", "*", "/", "%", "^"} |->
                CASE x = "+" -> "ADD" [] x = "-" -> "SUB" [] x = "*" -> "MUL"
                  [] x = "/" -> "DIV" [] x = "%" -> "MOD" [] x = "^" -> "POW"]

NewTable(st)   == [st EXCEPT !.tables = Append(@, [map |-> <<>>, meta |-> 0])]

Bind(env, st, ns, vs) ==
  [env |-> [n \in DOMAIN env \cup {ns[i] : i \in DOMAIN ns} |->
              IF \E i \in DOMAIN ns : ns[i] = n
              THEN Len(st.cells) + (CHOOSE i \in DOMAIN ns : ns[i] = n /\ \A j \in DOMAIN ns : ns[j] = n => j <= i)
              ELSE env[n]],
   st  |-> [st EXCEPT !.cells = @ \o Adjust(vs, Len(ns))]]

Meta(st, v, event) ==
  IF v.t = "table" /\ st.tables[v.tid].meta # 0
  THEN luaH_get(st.tables[st.tables[v.tid].meta].map, Str(event)) ELSE Nil

RawSet(st, v, key, w) == [st EXCEPT !.tables[v.tid].map = luaH_put(@, key, w)]

Primitive(st, name, args) ==
  CASE name = "pass" -> [vs |-> args, st |-> st]
    [] name = "rawset" -> [vs |-> <<args[1]>>, st |-> RawSet(st, args[1], args[2], args[3])]
    [] name = "setmetatable" -> [vs |-> <<args[1]>>, st |-> [st EXCEPT !.tables[args[1].tid].meta = args[2].tid]]

RECURSIVE Eval(_, _, _, _), EvalAll(_, _, _, _), Call(_, _, _), Run(_, _, _, _)

RECURSIVE Index(_, _, _), SetIndex(_, _, _, _)
Index(st, o, key) ==
  LET raw == luaH_get(st.tables[o.tid].map, key)
      h == Meta(st, o, "__index")
  IN CASE o.t = "table" /\ (raw # Nil \/ h = Nil) -> [v |-> raw, st |-> st]
       [] h = Nil -> [v |-> Nil, st |-> Fail(st, "index")]
       [] h.t = "function" -> Call0(Call(st, h, <<o, key>>))
       [] OTHER -> Index(st, h, key)

SetIndex(st, o, key, w) ==
  LET raw == luaH_get(st.tables[o.tid].map, key)
      h == Meta(st, o, "__newindex")
  IN CASE o.t = "table" /\ (raw # Nil \/ h = Nil) ->
            IF key \in {Nil, NaN} THEN Fail(st, "key") ELSE RawSet(st, o, key, w)
       [] h = Nil -> Fail(st, "index")
       [] h.t = "function" -> Call(st, h, <<o, key, w>>).st
       [] OTHER -> SetIndex(st, h, key, w)

(* A metamethod of the first operand or else of the second. *)
Handle(st, v, w, event, kind) ==
  LET h == IF Meta(st, v, event) # Nil THEN Meta(st, v, event) ELSE Meta(st, w, event)
  IN IF h = Nil THEN [v |-> Nil, st |-> Fail(st, kind)] ELSE Call0(Call(st, h, <<v, w>>))

Arith(st, op, v, w) ==
  IF Nil \in {luaV_tonumber(v), luaV_tonumber(w)} THEN Handle(st, v, w, EventOf[op], "arithmetic")
  ELSE [v |-> Arithmetic(op, luaV_tonumber(v), luaV_tonumber(w)), st |-> st]

Truth(r) == [v |-> Bool(~l_isfalse(r.v)), st |-> r.st]

Equals(st, v, w) ==
  LET h == Meta(st, v, "__eq")
  IN IF v.t = "table" /\ w.t = "table" /\ v # w /\ h # Nil /\ h = Meta(st, w, "__eq")
     THEN Truth(Call0(Call(st, h, <<v, w>>)))
     ELSE [v |-> Bool(luaO_rawequalObj(v, w)), st |-> st]

Shared(st, v, w, event) == IF Meta(st, v, event) = Meta(st, w, event) THEN Meta(st, v, event) ELSE Nil
Compare(st, v, w, event) == Truth(Call0(Call(st, Shared(st, v, w, event), <<v, w>>)))

Below(st, v, w) ==
  CASE ttype(v) # ttype(w) -> [v |-> Nil, st |-> Fail(st, "compare")]
    [] ttype(v) = "number" -> [v |-> Bool(Less(v, w)), st |-> st]
    [] v.t = "string" -> [v |-> Bool(l_strless(v, w)), st |-> st]
    [] Shared(st, v, w, "__lt") # Nil -> Compare(st, v, w, "__lt")
    [] OTHER -> [v |-> Nil, st |-> Fail(st, "compare")]

AtMost(st, v, w) ==
  LET less == Below(st, w, v)
  IN CASE ttype(v) = ttype(w) /\ ttype(v) = "number" -> [v |-> Bool(LessEq(v, w)), st |-> st]
       [] v.t = "string" /\ w.t = "string" -> [v |-> Bool(~l_strless(w, v)), st |-> st]
       [] ttype(v) = ttype(w) /\ Shared(st, v, w, "__le") # Nil -> Compare(st, v, w, "__le")
       [] OTHER -> [v |-> Bool(l_isfalse(less.v)), st |-> less.st]

Joins(st, v, w) ==
  IF Nil \in {luaV_tostring(v), luaV_tostring(w)} THEN Handle(st, v, w, "__concat", "concatenate")
  ELSE [v |-> Str(luaV_tostring(v).s \o luaV_tostring(w).s), st |-> st]

Binary(st, op, v, w) ==
  CASE op \in DOMAIN ArithOpOf -> Arith(st, ArithOpOf[op], v, w)
    [] op = ".." -> Joins(st, v, w)
    [] op = "==" -> Equals(st, v, w)
    [] op = "~=" -> LET r == Equals(st, v, w) IN [r EXCEPT !.v = Bool(l_isfalse(@))]
    [] op = "<"  -> Below(st, v, w)
    [] op = ">"  -> Below(st, w, v)
    [] op = "<=" -> AtMost(st, v, w)
    [] op = ">=" -> AtMost(st, w, v)

Unary(st, op, v) ==
  CASE op = "not" -> [v |-> Bool(l_isfalse(v)), st |-> st]
    [] op = "-"   -> Arith(st, "UNM", v, v)
    [] op = "#" /\ v.t = "table"  -> [v |-> Num(luaH_getn(st.tables[v.tid].map)), st |-> st]
    [] op = "#" /\ v.t = "string" -> [v |-> Num(Len(v.s)), st |-> st]
    [] OTHER -> [v |-> Nil, st |-> Fail(st, "length")]

(* Calls.  The parameter arg exists in functions that say ... as a         *)
(* parameter; it is a table unless the function also says ... in its body. *)
Call(st, fv, args) ==
  LET fn == st.funs[fv.fid]
      n == Len(fn.f.params)
      extra == SubSeq(args, n + 1, Len(args))
      argtable == [i \in {Num(j) : j \in DOMAIN extra} \cup {Str("n")} |->
                     IF i = Str("n") THEN Num(Len(extra)) ELSE extra[i.n]]
      filled == [st EXCEPT !.tables = Append(@, [map |-> [k \in {k \in DOMAIN argtable : argtable[k] # Nil} |-> argtable[k]],
                                                 meta |-> 0])]
      entry == IF fn.f.dots = "arg" THEN filled ELSE st
      arg == IF fn.f.dots = "arg" THEN TableV(Len(entry.tables)) ELSE Nil
      names == IF fn.f.dots = "" THEN fn.f.params ELSE Append(fn.f.params, "arg")
      b == Bind(fn.env, entry, names, Append(Adjust(args, n), arg))
      r == Run(fn.f.body, b.env, extra, b.st)
      h == Meta(st, fv, "__call")
  IN CASE st.err # "" -> [vs |-> <<>>, st |-> st]
       [] fv.t = "function" /\ fn.c # "" -> Primitive(st, fn.c, args)
       [] fv.t = "function" -> [vs |-> r.vs, st |-> r.st]
       [] h.t = "function" -> Call(st, h, <<fv>> \o args)
       [] OTHER -> [vs |-> <<>>, st |-> Fail(st, "call")]

One(e, env, va, st) == Call0(Eval(e, env, va, st))

EvalAll(es, env, va, st) ==
  LET first == IF Len(es) = 1 THEN Eval(es[1], env, va, st)
               ELSE LET r == One(es[1], env, va, st) IN [vs |-> <<r.v>>, st |-> r.st]
      rest == EvalAll(Tail(es), env, va, first.st)
  IN IF es = <<>> THEN [vs |-> <<>>, st |-> st] ELSE [vs |-> first.vs \o rest.vs, st |-> rest.st]

(* A constructor's items from number i on; n of them were positional. *)
RECURSIVE Items(_, _, _, _, _, _, _)
Items(items, i, n, tv, env, va, st) ==
  LET key == One(items[i].key[1], env, va, st)
      val == One(items[i].val, env, va, key.st)
      pos == IF i = Len(items) THEN Eval(items[i].val, env, va, st)
             ELSE LET r == One(items[i].val, env, va, st) IN [vs |-> <<r.v>>, st |-> r.st]
      put == [pos.st EXCEPT !.tables[tv.tid].map =
                [k \in DOMAIN @ \cup {Num(n + j) : j \in {j \in DOMAIN pos.vs : pos.vs[j] # Nil}} |->
                   IF k \in DOMAIN @ THEN @[k] ELSE pos.vs[k.n - n]]]
  IN IF i > Len(items) THEN st
     ELSE IF items[i].key # <<>>
     THEN Items(items, i + 1, n, tv, env, va, SetIndex(val.st, tv, key.v, val.v))
     ELSE Items(items, i + 1, n + 1, tv, env, va, put)

Closure(st, f, env) == [vs |-> <<FunV(Len(st.funs) + 1)>>,
                        st |-> [st EXCEPT !.funs = Append(@, [c |-> "", f |-> f, env |-> env])]]

Lookup(n, env, st) == IF n \in DOMAIN env THEN [v |-> st.cells[env[n]], st |-> st]
                      ELSE Index(st, TableV(1), Str(n))

Single(r) == [vs |-> <<r.v>>, st |-> r.st]

Eval(e, env, va, st) ==
  CASE e.k = "Const" -> [vs |-> <<e.v>>, st |-> st]
    [] e.k = "Dots"  -> [vs |-> va, st |-> st]
    [] e.k = "Name"  -> Single(Lookup(e.n, env, st))
    [] e.k = "Paren" -> Single(One(e.e, env, va, st))
    [] e.k = "Function" -> Closure(st, e, env)
    [] e.k = "Index" -> LET o == One(e.o, env, va, st)
                            i == One(e.i, env, va, o.st)
                        IN Single(Index(i.st, o.v, i.v))
    [] e.k = "Call" -> LET f == One(e.f, env, va, st)
                           args == EvalAll(e.args, env, va, f.st)
                       IN Call(args.st, f.v, args.vs)
    [] e.k = "Method" -> LET o == One(e.o, env, va, st)
                             f == Index(o.st, o.v, Str(e.n))
                             args == EvalAll(e.args, env, va, f.st)
                         IN Call(args.st, f.v, <<o.v>> \o args.vs)
    [] e.k = "Table" -> LET tv == TableV(Len(st.tables) + 1)
                        IN [vs |-> <<tv>>, st |-> Items(e.items, 1, 0, tv, env, va, NewTable(st))]
    [] e.k = "Un" -> LET r == One(e.e, env, va, st) IN Single(Unary(r.st, e.op, r.v))
    [] e.k = "Bin" -> LET l == One(e.l, env, va, st)
                          r == One(e.r, env, va, l.st)
                      IN CASE e.op = "and" /\ l_isfalse(l.v)  -> Single(l)
                           [] e.op = "or"  /\ ~l_isfalse(l.v) -> Single(l)
                           [] e.op \in {"and", "or"} -> Single(r)
                           [] OTHER -> Single(Binary(r.st, e.op, l.v, r.v))

-----------------------------------------------------------------------------
(* Statements.  flow says how one ended.                                   *)
Done(env, st) == [flow |-> "", vs |-> <<>>, env |-> env, st |-> st]
Inside(r, env) == [r EXCEPT !.env = env]
AfterLoop(r, env) == [Inside(r, env) EXCEPT !.flow = IF @ = "break" THEN "" ELSE @]

(* The places of an assignment: what they depend on is evaluated first. *)
Place(e, env, va, st) ==
  LET o == One(e.o, env, va, st)
      i == One(e.i, env, va, o.st)
  IN IF e.k = "Name" THEN [n |-> e.n, o |-> Nil, i |-> Nil, st |-> st] ELSE [n |-> "", o |-> o.v, i |-> i.v, st |-> i.st]

RECURSIVE Places(_, _, _, _)
Places(es, env, va, st) ==
  LET p == Place(es[1], env, va, st)
      r == Places(Tail(es), env, va, p.st)
  IN IF es = <<>> THEN [ps |-> <<>>, st |-> st] ELSE [ps |-> <<p>> \o r.ps, st |-> r.st]

Store(p, w, env, st) ==
  CASE p.n = "" -> SetIndex(st, p.o, p.i, w)
    [] p.n \in DOMAIN env -> [st EXCEPT !.cells[env[p.n]] = w]
    [] OTHER -> SetIndex(st, TableV(1), Str(p.n), w)

RECURSIVE StoreAll(_, _, _, _)
StoreAll(ps, vs, env, st) ==
  IF ps = <<>> \/ st.err # "" THEN st
  ELSE StoreAll(SubSeq(ps, 1, Len(ps) - 1), vs, env, Store(ps[Len(ps)], vs[Len(ps)], env, st))

RECURSIVE While(_, _, _, _), Repeat(_, _, _, _), Clauses(_, _, _, _, _), NumLoop(_, _, _, _, _), ListLoop(_, _, _, _, _)
While(s, env, va, st) ==
  LET c == One(s.c, env, va, st)
      r == Run(s.body, env, va, c.st)
  IN IF c.st.err # "" \/ l_isfalse(c.v) THEN Done(env, c.st)
     ELSE IF r.flow # "" \/ r.st.err # "" THEN AfterLoop(r, env) ELSE While(s, env, va, r.st)

Repeat(s, env, va, st) ==
  LET r == Run(s.body, env, va, st)
      c == One(s.c, r.env, va, r.st)
  IN IF r.flow # "" \/ r.st.err # "" THEN AfterLoop(r, env)
     ELSE IF ~l_isfalse(c.v) \/ c.st.err # "" THEN Done(env, c.st) ELSE Repeat(s, env, va, c.st)

Clauses(s, i, env, va, st) ==
  LET c == One(s.clauses[i].c, env, va, st)
  IN IF i > Len(s.clauses) THEN Inside(Run(s.els, env, va, st), env)
     ELSE IF c.st.err # "" THEN Done(env, c.st)
     ELSE IF l_isfalse(c.v) THEN Clauses(s, i + 1, env, va, c.st)
     ELSE Inside(Run(s.clauses[i].body, env, va, c.st), env)

NumLoop(s, x, env, va, st) ==
  LET within == IF Less(Num(0), x[3]) THEN LessEq(x[1], x[2]) ELSE LessEq(x[2], x[1])
      b == Bind(env, st, <<s.n>>, <<x[1]>>)
      r == Run(s.body, b.env, va, b.st)
  IN IF ~within THEN Done(env, st)
     ELSE IF r.flow # "" \/ r.st.err # "" THEN AfterLoop(r, env)
     ELSE NumLoop(s, [x EXCEPT ![1] = Arithmetic("ADD", @, x[3])], env, va, r.st)

ListLoop(s, x, env, va, st) ==
  LET c == Call(st, x[1], <<x[2], x[3]>>)
      b == Bind(env, c.st, s.names, c.vs)
      r == Run(s.body, b.env, va, b.st)
  IN IF c.st.err # "" \/ Call0(c).v = Nil THEN Done(env, c.st)
     ELSE IF r.flow # "" \/ r.st.err # "" THEN AfterLoop(r, env)
     ELSE ListLoop(s, [x EXCEPT ![3] = c.vs[1]], env, va, r.st)

Statement(s, env, va, st) ==
  LET all == EvalAll(s.exps, env, va, st)
      places == Places(s.vars, env, va, st)
      values == EvalAll(s.exps, env, va, places.st)
      bound == Bind(env, all.st, s.names, all.vs)
      self == Bind(env, st, <<s.n>>, <<Nil>>)
      fn == Closure(self.st, s.f, self.env)
      range == [i \in 1 .. 3 |-> luaV_tonumber(Adjust(all.vs, 3)[i])]
  IN CASE s.k = "Local"   -> Done(bound.env, bound.st)
       [] s.k = "LocalFunction" -> Done(self.env, [fn.st EXCEPT !.cells[self.env[s.n]] = fn.vs[1]])
       [] s.k = "Assign"  -> Done(env, StoreAll(places.ps, Adjust(values.vs, Len(s.vars)), env, values.st))
       [] s.k = "CallStat" -> Done(env, Eval(s.e, env, va, st).st)
       [] s.k = "Do"      -> Inside(Run(s.body, env, va, st), env)
       [] s.k = "While"   -> While(s, env, va, st)
       [] s.k = "Repeat"  -> Repeat(s, env, va, st)
       [] s.k = "If"      -> Clauses(s, 1, env, va, st)
       [] s.k = "ForNum"  -> IF Nil \in {range[i] : i \in 1 .. 3} THEN Done(env, Fail(all.st, "for"))
                             ELSE NumLoop(s, range, env, va, all.st)
       [] s.k = "ForIn"   -> ListLoop(s, Adjust(all.vs, 3), env, va, all.st)
       [] s.k = "Return"  -> [Done(env, all.st) EXCEPT !.flow = "return", !.vs = all.vs]
       [] s.k = "Break"   -> [Done(env, st) EXCEPT !.flow = "break"]

Run(ss, env, va, st) ==
  LET r == Statement(ss[1], env, va, st)
  IN IF ss = <<>> \/ st.err # "" THEN Done(env, st)
     ELSE IF r.flow # "" \/ r.st.err # "" THEN r ELSE Run(Tail(ss), r.env, va, r.st)

Primitives == <<"pass", "rawset", "setmetatable">>

Meaning(program) ==
  LET st == [cells |-> <<>>, err |-> "",
             tables |-> <<[map |-> [x \in {Str(Primitives[i]) : i \in 1 .. 3} |->
                                      FunV(CHOOSE i \in 1 .. 3 : Str(Primitives[i]) = x)], meta |-> 0]>>,
             funs |-> [i \in 1 .. 3 |-> [c |-> Primitives[i]]]]
      r == Run(program, <<>>, <<>>, st)
  IN [err |-> r.st.err, vs |-> IF r.st.err = "" THEN r.vs ELSE <<>>]

-----------------------------------------------------------------------------
(* The text of a program.                                                  *)
Word(w)  == <<[t |-> w]>>
NameT(n) == <<[t |-> "name", s |-> n]>>

Prec(e) ==
  CASE e.k = "Un" -> 7
    [] e.k = "Bin" -> (CASE e.op = "or" -> 1 [] e.op = "and" -> 2
                        [] e.op \in {"==", "~=", "<", "<=", ">", ">="} -> 3
                        [] e.op = ".." -> 4 [] e.op \in {"+", "-"} -> 5
                        [] e.op \in {"*", "/", "%"} -> 6 [] e.op = "^" -> 8)
    [] OTHER -> 9

RECURSIVE ExpT(_), ListT(_), BlockT(_), StatT(_), NamesT(_), ItemsT(_)
InParens(b, toks) == IF b THEN Word("(") \o toks \o Word(")") ELSE toks

(* Two operators bind to the right; a unary operator may stand on the right of any. *)
LeftT(e)  == InParens(Prec(e.l) < Prec(e) \/ (Prec(e.l) = Prec(e) /\ e.op \in {"..", "^"}), ExpT(e.l))
RightT(e) == InParens((Prec(e.r) < Prec(e) /\ e.r.k # "Un") \/ (Prec(e.r) = Prec(e) /\ e.op \notin {"..", "^"}), ExpT(e.r))

ConstT(v) ==
  CASE v.t = "nil" -> Word("nil")
    [] v.t = "boolean" -> Word(IF v.b THEN "true" ELSE "false")
    [] v.t = "number" -> <<[t |-> "number", n |-> v.n]>>
    [] v.t = "string" -> <<[t |-> "string", s |-> v.s]>>

FunctionT(f) ==
  Word("(") \o NamesT(f.params)
  \o (IF f.dots = "" THEN <<>> ELSE (IF f.params = <<>> THEN <<>> ELSE Word(",")) \o Word("..."))
  \o Word(")") \o BlockT(f.body) \o Word("end")

ArgsT(args) == IF Len(args) = 1 /\ (args[1].k = "Table" \/ (args[1].k = "Const" /\ args[1].v.t = "string"))
               THEN ExpT(args[1]) ELSE Word("(") \o ListT(args) \o Word(")")

ExpT(e) ==
  CASE e.k = "Const" -> ConstT(e.v)
    [] e.k = "Dots"  -> Word("...")
    [] e.k = "Name"  -> NameT(e.n)
    [] e.k = "Paren" -> InParens(TRUE, ExpT(e.e))
    [] e.k = "Function" -> Word("function") \o FunctionT(e)
    [] e.k = "Index" -> ExpT(e.o) \o (IF e.i.k = "Const" /\ e.i.v.t = "string"
                                      THEN Word(".") \o NameT(e.i.v.s) ELSE Word("[") \o ExpT(e.i) \o Word("]"))
    [] e.k = "Call"   -> ExpT(e.f) \o ArgsT(e.args)
    [] e.k = "Method" -> ExpT(e.o) \o Word(":") \o NameT(e.n) \o ArgsT(e.args)
    [] e.k = "Table"  -> Word("{") \o ItemsT(e.items) \o Word("}")
    [] e.k = "Un"  -> Word(e.op) \o InParens(Prec(e.e) < 7, ExpT(e.e))
    [] e.k = "Bin" -> LeftT(e) \o Word(e.op) \o RightT(e)

Separated(ss, First(_), rest) == IF ss = <<>> THEN <<>> ELSE First(ss[1]) \o (IF Len(ss) = 1 THEN <<>> ELSE Word(",") \o rest)
ListT(es)  == Separated(es, ExpT, ListT(Tail(es)))
NamesT(ns) == Separated(ns, NameT, NamesT(Tail(ns)))
ItemT(i)   == (IF i.key = <<>> THEN <<>>
               ELSE IF i.key[1].k = "Const" /\ i.key[1].v.t = "string" THEN NameT(i.key[1].v.s) \o Word("=")
               ELSE Word("[") \o ExpT(i.key[1]) \o Word("]") \o Word("=")) \o ExpT(i.val)
ItemsT(is) == Separated(is, ItemT, ItemsT(Tail(is)))

RECURSIVE ClausesT(_, _)
ClausesT(clauses, word) ==
  IF clauses = <<>> THEN <<>>
  ELSE Word(word) \o ExpT(clauses[1].c) \o Word("then") \o BlockT(clauses[1].body) \o ClausesT(Tail(clauses), "elseif")

(* function t:m(...) is written for the assignment of a function that has self as its first parameter. *)
IsMethod(s) == /\ s.k = "Assign" /\ Len(s.vars) = 1 /\ s.exps[1].k = "Function"
               /\ s.vars[1].k = "Index" /\ s.vars[1].o.k = "Name"
               /\ s.exps[1].params # <<>> /\ s.exps[1].params[1] = "self"

StatT(s) ==
  CASE IsMethod(s) -> Word("function") \o ExpT(s.vars[1].o) \o Word(":") \o NameT(s.vars[1].i.v.s)
                      \o FunctionT([s.exps[1] EXCEPT !.params = Tail(@)])
    [] s.k = "Assign" /\ ~IsMethod(s) -> ListT(s.vars) \o Word("=") \o ListT(s.exps)
    [] s.k = "Local" -> Word("local") \o NamesT(s.names)
                        \o (IF s.exps = <<>> THEN <<>> ELSE Word("=") \o ListT(s.exps))
    [] s.k = "LocalFunction" -> Word("local") \o Word("function") \o NameT(s.n) \o FunctionT(s.f)
    [] s.k = "CallStat" -> ExpT(s.e)
    [] s.k = "Do"     -> Word("do") \o BlockT(s.body) \o Word("end")
    [] s.k = "While"  -> Word("while") \o ExpT(s.c) \o Word("do") \o BlockT(s.body) \o Word("end")
    [] s.k = "Repeat" -> Word("repeat") \o BlockT(s.body) \o Word("until") \o ExpT(s.c)
    [] s.k = "If"     -> ClausesT(s.clauses, "if")
                         \o (IF s.els = <<>> THEN <<>> ELSE Word("else") \o BlockT(s.els)) \o Word("end")
    [] s.k = "ForNum" -> Word("for") \o NameT(s.n) \o Word("=") \o ListT(s.exps) \o Word("do") \o BlockT(s.body) \o Word("end")
    [] s.k = "ForIn"  -> Word("for") \o NamesT(s.names) \o Word("in") \o ListT(s.exps) \o Word("do") \o BlockT(s.body) \o Word("end")
    [] s.k = "Return" -> Word("return") \o ListT(s.exps)
    [] s.k = "Break"  -> Word("break")

BlockT(ss) == IF ss = <<>> THEN <<>> ELSE StatT(ss[1]) \o Word(";") \o BlockT(Tail(ss))

Tokens(program) == BlockT(program) \o Word("eos")
=============================================================================
