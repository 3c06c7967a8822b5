---------------------------- MODULE LuaPrograms ----------------------------
(***************************************************************************)
(* The programs that the compiler and the interpreter are checked with:    *)
(* every condition of a small grammar in three contexts, programs chosen   *)
(* for what the compiler and the interpreter find difficult, and programs  *)
(* that exceed a limit.  Expectations pairs the text of each with what it  *)
(* means.                                                                  *)
(***************************************************************************)
EXTENDS LuaSemantics

const(v)   == [k |-> "Const", v |-> v]
int(n)     == const(Num(n))
text(s)    == const(Str(s))
nil        == const(Nil)
yes        == const(Bool(TRUE))
no         == const(Bool(FALSE))
id(n)      == [k |-> "Name", n |-> n]
dots       == [k |-> "Dots"]
paren(e)   == [k |-> "Paren", e |-> e]
un(op, e)  == [k |-> "Un", op |-> op, e |-> e]
bin(l, op, r) == [k |-> "Bin", l |-> l, op |-> op, r |-> r]
at(o, i)   == [k |-> "Index", o |-> o, i |-> i]
dot(o, n)  == at(o, text(n))
func(ps, body)    == [k |-> "Function", params |-> ps, dots |-> "", body |-> body]
varargs(ps, body) == [k |-> "Function", params |-> ps, dots |-> "used", body |-> body]
argfunc(ps, body) == [k |-> "Function", params |-> ps, dots |-> "arg", body |-> body]
call(f, args)      == [k |-> "Call", f |-> f, args |-> args]
method(o, n, args) == [k |-> "Method", o |-> o, n |-> n, args |-> args]
item(e)     == [key |-> <<>>, val |-> e]
field(c, e) == [key |-> <<c>>, val |-> e]
tab(items)  == [k |-> "Table", items |-> items]
list(es)    == tab([i \in DOMAIN es |-> item(es[i])])

locals(ns, es) == [k |-> "Local", names |-> ns, exps |-> es]
let(n, e)      == locals(<<n>>, <<e>>)
letfun(n, f)   == [k |-> "LocalFunction", n |-> n, f |-> f]
assign(vs, es) == [k |-> "Assign", vars |-> vs, exps |-> es]
put(v, e)      == assign(<<v>>, <<e>>)
stat(e)        == [k |-> "CallStat", e |-> e]
do(body)       == [k |-> "Do", body |-> body]
while(c, body) == [k |-> "While", c |-> c, body |-> body]
repeat(body, c) == [k |-> "Repeat", body |-> body, c |-> c]
if(c, body, els) == [k |-> "If", clauses |-> <<[c |-> c, body |-> body]>>, els |-> els]
for(n, a, b, c, body) == [k |-> "ForNum", n |-> n, exps |-> <<a, b, c>>, body |-> body]
forin(ns, es, body)   == [k |-> "ForIn", names |-> ns, exps |-> es, body |-> body]
ret(es)        == [k |-> "Return", exps |-> es]
break          == [k |-> "Break"]

x == id("x")
y == id("y")
z == id("z")
f == id("f")
g == id("g")
t == id("t")
u == id("u")
plus(e, n) == bin(e, "+", int(n))
setmeta(o, items) == call(id("setmetatable"), <<o, tab(items)>>)
none == <<>>

-----------------------------------------------------------------------------
(* Conditions, as a value, as a branch and as the end of a loop. *)
Atoms == {x, y, no}
Conds1 ==
  Atoms \cup {un("not", a) : a \in Atoms} \cup {bin(x, "<", y), bin(x, "==", y), bin(y, ">=", int(1))}
        \cup {bin(a, op, b) : a \in Atoms, op \in {"and", "or"}, b \in Atoms}
Conds == Conds1 \cup {un("not", c) : c \in Conds1}
                \cup {bin(c, op, d) : c \in Conds1, op \in {"and", "or"}, d \in Conds1}

OnCondition(c) ==
  <<locals(<<"x", "y">>, <<nil, int(1)>>), let("z", c)>>
  \o <<if(bin(bin(x, "==", y), "or", c), <<put(x, bin(z, "or", c))>>, <<>>), ret(<<x, c>>)>>

-----------------------------------------------------------------------------
(* Closures and the variables they share. *)
Counter == func(none, <<put(x, plus(x, 1)), ret(<<x>>)>>)
Closures == {
  \* two functions share a variable that outlives its frame; a third call of the maker has another
  <<letfun("f", func(none, <<let("x", int(0)), ret(<<Counter, func(none, <<ret(<<x>>)>>)>>)>>)),
    locals(<<"g", "u">>, <<call(f, none)>>), locals(<<"z">>, <<call(f, none)>>),
    stat(call(g, none)), stat(call(g, none)), stat(call(z, none)),
    ret(<<call(u, none), call(z, none), call(g, none)>>)>>,
  \* each turn of a loop has its own variable
  <<let("t", tab(<<>>)),
    for("i", int(1), int(3), int(1), <<let("x", id("i")), put(at(t, id("i")), Counter)>>),
    stat(call(at(t, int(1)), none)),
    ret(<<call(at(t, int(1)), none), call(at(t, int(2)), none), call(at(t, int(3)), none)>>)>>,
  \* the control variable itself, and a break out of a block with one
  <<let("t", tab(<<>>)),
    for("i", int(1), int(5), int(2), <<put(at(t, id("i")), func(none, <<ret(<<id("i")>>)>>)),
                                      if(bin(id("i"), "==", int(3)), <<break>>, <<>>)>>),
    ret(<<call(at(t, int(1)), none), call(at(t, int(3)), none), at(t, int(5))>>)>>,
  \* until sees the variables of the body, captured or not
  <<locals(<<"f", "y">>, <<>>), put(y, int(0)),
    repeat(<<let("x", y), put(f, func(none, <<put(x, plus(x, 5)), ret(<<x>>)>>)), put(y, plus(y, 1))>>,
           bin(x, "==", int(2))),
    ret(<<y, call(f, none), call(f, none)>>)>>,
  <<let("x", int(0)),
    repeat(<<let("y", x), put(x, plus(x, 1)), if(bin(x, "==", int(9)), <<break>>, <<>>)>>, bin(y, ">=", int(1))), ret(<<x>>)>>,
  \* a while whose body is left by break with a captured variable
  <<locals(<<"x", "f">>, <<int(0)>>),
    while(bin(x, "<", int(3)), <<let("y", x), put(f, func(none, <<put(y, plus(y, 10)), ret(<<y>>)>>)), put(x, plus(x, 1)),
                                 if(bin(x, "==", int(2)), <<break>>, <<>>)>>),
    ret(<<call(f, none), call(f, none), x>>)>>,
  \* an upvalue of an upvalue, written through both
  <<let("x", int(1)),
    letfun("f", func(none, <<ret(<<func(none, <<put(x, plus(x, 1)), ret(<<x>>)>>)>>)>>)),
    let("g", call(f, none)), stat(call(g, none)), put(x, plus(x, 10)), ret(<<call(g, none), x>>)>>,
  \* arguments are captured; the frame is reused by a tail call
  <<letfun("f", func(<<"x">>, <<ret(<<func(none, <<put(x, plus(x, 1)), ret(<<x>>)>>)>>)>>)),
    letfun("g", func(<<"x", "y">>, <<let("z", call(f, <<x>>)), stat(call(z, none)),
                                     letfun("u", func(none, <<put(y, plus(y, 7)), ret(<<y>>)>>)),
                                     ret(<<call(id("pass"), <<z, u>>)>>)>>)),
    locals(<<"t", "u">>, <<call(g, <<int(4), int(5)>>)>>),
    ret(<<call(t, none), call(u, none), call(u, none)>>)>>,
  \* captured out of order, the first captured last
  <<locals(<<"x", "y", "z">>, <<int(1), int(2), int(3)>>),
    let("f", func(none, <<put(y, plus(y, 1)), ret(<<y>>)>>)), let("g", func(none, <<put(z, plus(z, 1)), ret(<<z>>)>>)),
    let("u", func(none, <<put(x, plus(x, 1)), put(y, plus(y, 1)), ret(<<x>>)>>)),
    stat(call(f, none)), stat(call(u, none)), stat(call(g, none)), ret(<<x, y, z>>)>>,
  <<do(<<let("x", int(1)), put(f, func(none, <<put(x, plus(x, 1)), ret(<<x>>)>>)),
         do(<<let("y", int(5)), put(g, func(none, <<put(x, plus(x, 1)), put(y, bin(y, "+", x)), ret(<<y>>)>>))>>)>>),
    let("t", int(0)), let("u", int(0)),
    ret(<<call(f, none), call(g, none), call(f, none), call(g, none)>>)>>}

(* Calls: their arguments, their results and the frames they use. *)
Calls == {
  <<letfun("f", varargs(<<"x">>, <<locals(<<"y", "z">>, <<dots>>), ret(<<z, y, x, dots>>)>>)),
    ret(<<call(f, <<int(1), int(2), int(3), int(4)>>)>>)>>,
  <<letfun("f", varargs(<<"x", "y">>, <<ret(<<y, dots>>)>>)), ret(<<call(f, <<int(1)>>), call(f, <<int(1), int(2), int(3)>>)>>)>>,
  <<letfun("f", argfunc(<<"x">>, <<ret(<<dot(id("arg"), "n"), at(id("arg"), int(2)), x>>)>>)),
    ret(<<call(f, <<int(1), int(2), int(3)>>)>>)>>,
  <<letfun("f", argfunc(none, <<ret(<<dot(id("arg"), "n")>>)>>)), ret(<<call(f, none), call(f, <<nil, int(2)>>)>>)>>,
  <<letfun("f", varargs(none, <<let("t", tab(<<item(int(9)), item(dots)>>)), ret(<<un("#", t), paren(dots), dots>>)>>)),
    ret(<<call(f, <<int(1), int(2), int(3)>>), call(f, none)>>)>>,
  \* tail calls: with more arguments than the caller had, of a C function, of a vararg function
  <<locals(<<"f">>, none), put(f, func(<<"x", "y">>, <<if(bin(x, "==", int(0)), <<ret(<<y>>)>>, <<>>),
                                                     ret(<<call(f, <<bin(x, "-", int(1)), plus(y, 2)>>)>>)>>)),
    let("z", call(f, <<int(3), int(0)>>)), ret(<<z>>)>>,
  <<letfun("g", varargs(<<"x">>, <<ret(<<x, dots>>)>>)),
    letfun("f", func(none, <<ret(<<call(g, <<int(1), int(2), int(3), int(4), int(5)>>)>>)>>)),
    locals(<<"x", "y">>, <<call(f, none)>>), ret(<<y, x, call(f, none)>>)>>,
  <<letfun("f", varargs(none, <<ret(<<call(id("pass"), <<dots>>)>>)>>)), ret(<<call(f, <<int(1), call(f, <<int(2), int(3)>>)>>)>>)>>,
  <<ret(<<call(id("pass"), <<call(id("pass"), none), call(id("pass"), <<int(1), int(2)>>)>>)>>)>>,
  <<letfun("f", func(none, none)), locals(<<"x", "y">>, <<int(1), call(f, none)>>), ret(<<y, paren(call(f, none)), call(f, none)>>)>>,
  \* more names than values, more values than names
  <<letfun("f", func(none, <<ret(<<int(1), int(2), int(3)>>)>>)),
    locals(<<"x", "y">>, <<call(f, none)>>), locals(<<"z">>, none), assign(<<z, x>>, <<call(f, none), call(f, none)>>),
    locals(<<"t", "u">>, <<int(7)>>), assign(<<u>>, <<int(3), call(f, none)>>), ret(<<x, y, z, t, u>>)>>,
  \* generic for, over a function and over nothing
  <<letfun("f", func(<<"t", "i">>, <<if(bin(id("i"), "<", t), <<ret(<<plus(id("i"), 1), bin(id("i"), "*", id("i"))>>)>>, <<>>)>>)),
    let("x", int(0)), forin(<<"i", "y">>, <<f, int(3), int(0)>>, <<put(x, bin(bin(x, "*", int(10)), "+", bin(y, "+", id("i"))))>>),
    forin(<<"i">>, <<f, int(0), int(0)>>, <<put(x, int(0))>>), ret(<<x>>)>>,
  <<let("z", int(0)),
    forin(<<"i">>, <<func(<<"t", "i">>, <<if(bin(id("i"), "==", nil), <<ret(<<t>>)>>, <<>>)>>), int(4)>>,
          <<put(f, func(none, <<put(id("i"), plus(id("i"), 1)), ret(<<id("i")>>)>>)), put(z, plus(z, 1))>>),
    ret(<<call(f, none), call(f, none), z>>)>>,
  \* numeric for, up, down and not at all
  <<let("x", int(0)), for("i", int(3), int(1), int(-1), <<put(x, bin(bin(x, "*", int(10)), "+", id("i")))>>),
    for("i", int(3), int(1), int(1), <<put(x, int(0))>>), ret(<<x>>)>>,
  <<let("x", int(0)), for("i", text("1"), int(2), text("1"), <<put(x, bin(x, "+", id("i"))), put(id("i"), int(9))>>), ret(<<x>>)>>,
  <<while(yes, <<while(yes, <<break>>), if(yes, <<break>>, none)>>), repeat(<<break>>, no), ret(none)>>,
  <<let("x", int(0)), while(bin(x, "<", int(2)), <<put(x, plus(x, 1)), if(bin(x, "==", int(1)), none, <<ret(<<x>>)>>)>>)>>,
  \* a method and a function in a field
  <<let("t", tab(<<field(text("n"), int(1))>>)),
    assign(<<dot(t, "m")>>, <<func(<<"self", "x">>, <<put(dot(id("self"), "n"), bin(dot(id("self"), "n"), "+", x)), ret(<<id("self")>>)>>)>>),
    put(dot(t, "f"), varargs(<<"x">>, <<ret(<<x, dots>>)>>)),
    ret(<<dot(method(method(t, "m", <<int(2)>>), "m", <<int(3)>>), "n"), call(dot(t, "f"), <<int(8), int(9)>>)>>)>>,
  <<stat(call(paren(func(<<"x">>, <<put(id("G"), x)>>)), <<text("a")>>)), ret(<<id("G"), call(id("pass"), <<text("b")>>)>>)>>}

(* Assignments and constructors. *)
Stores == {
  <<locals(<<"x", "y">>, <<int(1), int(2)>>), assign(<<x, y>>, <<y, x>>), ret(<<x, y>>)>>,
  \* an assignment to a local that a place before it depends on
  <<locals(<<"x", "t">>, <<int(1), list(<<int(5), int(6)>>)>>), assign(<<at(t, x), x>>, <<int(7), int(2)>>), ret(<<at(t, int(1)), at(t, int(2)), x>>)>>,
  <<locals(<<"x", "t">>, <<int(1), list(<<int(5), int(6)>>)>>), assign(<<x, at(t, x)>>, <<int(2), int(7)>>), ret(<<at(t, int(1)), at(t, int(2)), x>>)>>,
  <<let("t", tab(none)), let("u", t), assign(<<dot(t, "x"), t>>, <<int(1), int(2)>>), ret(<<dot(u, "x"), t>>)>>,
  <<let("t", list(<<int(3)>>)), let("u", t), let("x", int(1)), assign(<<at(t, x), at(u, x), t, x>>, <<int(4), int(5), int(6), int(7)>>), ret(<<at(u, int(1)), t, x>>)>>,
  <<let("t", list(<<int(3)>>)), let("u", t), letfun("f", func(none, <<assign(<<at(t, int(2)), t>>, <<int(1), int(2)>>)>>)), stat(call(f, none)), ret(<<at(u, int(2)), t>>)>>,
  <<assign(<<id("G"), x, id("H")>>, <<int(1), int(2)>>), ret(<<id("G"), x, id("H")>>)>>,
  \* constructors around the batches of SETLIST, ending in one value or in many
  <<ret(<<un("#", list(<<int(1), int(2), int(3), int(4)>>)), at(paren(list(<<int(1), int(2), int(3), int(4), int(5)>>)), int(5))>>)>>,
  <<let("t", list(<<int(1), call(id("pass"), <<int(2), int(3)>>)>>)), ret(<<at(t, int(2)), at(t, int(3))>>)>>,
  <<let("t", list(<<int(1), int(2), call(id("pass"), <<int(3), int(4)>>)>>)), ret(<<at(t, int(2)), at(t, int(3)), at(t, int(4))>>)>>,
  <<let("t", list(<<int(1), int(2), paren(call(id("pass"), <<int(3), int(4)>>))>>)), ret(<<at(t, int(3)), at(t, int(4))>>)>>,
  \* more batches than operand C can count
  <<let("t", list(<<int(1), int(2), int(3), int(4), int(5), int(6), int(7), int(8), int(9)>>)), ret(<<at(t, int(7)), at(t, int(9)), un("#", t)>>)>>,
  <<let("t", tab(<<item(int(1)), field(text("x"), int(7)), item(int(2)), field(int(9), int(3)), item(nil), item(call(id("pass"), <<int(4), int(5)>>)), field(text("y"), int(8))>>)),
    ret(<<at(t, int(2)), at(t, int(4)), at(t, int(5)), at(t, int(9)), dot(t, "x"), dot(t, "y")>>)>>,
  <<let("t", tab(none)), put(at(t, int(1)), t), put(dot(at(t, int(1)), "x"), int(3)), ret(<<dot(at(at(t, int(1)), int(1)), "x"), dot(t, "y")>>)>>,
  \* nil at the start of a function and in a row
  <<locals(<<"x", "y">>, none), let("z", nil), if(x, <<locals(<<"t">>, none)>>, none), locals(<<"u", "v">>, <<nil, nil>>), ret(<<x, z, id("v")>>)>>,
  <<letfun("f", func(<<"x">>, <<locals(<<"y">>, none), if(x, none, <<put(y, int(3))>>), locals(<<"z">>, none), ret(<<y, z>>)>>)), stat(call(f, <<int(1)>>)),
    ret(<<call(f, <<no>>)>>)>>,
  \* constants beyond those an operand can name
  <<let("x", int(0)), put(x, bin(x, "+", int(11))), put(x, bin(x, "-", int(12))), put(x, bin(x, "+", int(13))), put(x, bin(x, "-", int(14))),
    put(x, bin(x, "+", int(15))), put(x, bin(x, "-", int(16))), put(x, bin(x, "+", int(17))), put(x, bin(x, "-", int(18))), put(x, bin(x, "+", int(19))),
    put(x, bin(x, "-", int(20))), put(x, bin(int(21), "-", x)), let("t", tab(none)), put(dot(t, "a"), int(22)), put(at(t, x), int(23)),
    ret(<<bin(x, "<", int(24)), dot(t, "a"), at(t, x), x>>)>>}

(* Operators: what is folded, what is converted, what is compared. *)
Operators == {
  <<let("x", int(2)), ret(<<bin(bin(int(1), "+", int(2)), "*", int(3)), bin(x, "^", bin(int(3), "^", int(2))), un("-", bin(x, "^", int(2))), bin(un("-", x), "^", int(2)),
                            bin(int(2), "^", un("-", un("-", x))), bin(int(8), "-", bin(int(3), "-", x)), bin(bin(int(8), "-", int(3)), "-", x)>>)>>,
  <<let("x", int(8)), ret(<<bin(x, "/", int(2)), bin(x, "%", int(-3)), bin(int(6), "/", int(3)), bin(int(7), "%", int(4)), un("-", int(3)), un("not", nil), un("not", int(0))>>)>>,
  \* a division by zero is not folded, and what it gives is not equal to itself
  <<let("x", bin(int(1), "%", int(0))), ret(<<bin(x, "==", x), bin(x, "<", x), un("not", bin(x, "~=", x)), un("not", bin(x, ">=", x))>>)>>,
  <<let("x", text("3")), ret(<<bin(x, "+", int(1)), bin(x, "..", int(1)), un("-", x), un("#", x), bin(x, "==", int(3)), bin(bin(int(1), "..", int(2)), "+", int(1))>>)>>,
  <<locals(<<"x", "y">>, <<text("a"), text("b")>>), ret(<<bin(x, "<", y), bin(x, ">", y), bin(x, "<=", text("a")), bin(x, ">=", y), bin(x, "..", bin(y, "..", text("c"))),
                                                       bin(bin(x, "..", y), "..", int(1)), bin(x, "..", text(""))>>)>>,
  <<let("t", tab(none)), let("f", func(none, none)), ret(<<bin(t, "==", tab(none)), bin(t, "==", t), bin(f, "~=", f), bin(text("1"), "==", int(1)), bin(nil, "==", no)>>)>>,
  <<let("x", int(3)), ret(<<bin(un("not", bin(x, "==", int(3))), "or", bin(x, "<", int(2))), bin(bin(x, ">", int(2)), "and", un("not", bin(x, "<=", int(2))))>>)>>,
  <<let("x", nil), ret(<<bin(bin(int(1), "<", int(2)), "==", yes), bin(x, "and", dot(x, "y")), bin(x, "or", un("#", text("ab")))>>)>>,
  <<[k |-> "If", clauses |-> <<[c |-> no, body |-> <<ret(<<int(1)>>)>>], [c |-> nil, body |-> <<ret(<<int(2)>>)>>], [c |-> int(1), body |-> <<put(x, int(3))>>]>>,
     els |-> <<ret(<<int(4)>>)>>], ret(<<x>>)>>,
  <<let("x", int(1)), [k |-> "If", clauses |-> <<[c |-> bin(x, "==", int(2)), body |-> <<put(x, int(9))>>], [c |-> bin(x, "==", int(1)), body |-> none]>>, els |-> <<put(x, int(8))>>], ret(<<x>>)>>}

(* Metamethods. *)
Meta1(event, fn) == setmeta(tab(none), <<field(text(event), fn)>>)
TwoWith(event, fn) == <<locals(<<"t", "u", "z">>, <<tab(none)>>), put(u, tab(<<field(text(event), fn)>>)),
                        put(z, call(id("setmetatable"), <<tab(none), u>>)), stat(call(id("setmetatable"), <<t, u>>))>>
Answer(e) == func(<<"x", "y">>, <<ret(<<e>>)>>)
Metamethods == {
  <<let("t", Meta1("__index", Answer(y))), ret(<<dot(t, "a"), at(t, int(3)), dot(call(id("rawset"), <<t, text("a"), int(5)>>), "a")>>)>>,
  <<let("u", tab(<<field(text("a"), int(1))>>)), let("t", setmeta(Meta1("__index", u), none)),
    let("z", setmeta(tab(none), <<field(text("__index"), Meta1("__index", u))>>)), ret(<<dot(t, "a"), dot(z, "a"), dot(z, "b"), dot(u, "b")>>)>>,
  <<let("u", tab(none)), let("t", Meta1("__newindex", u)), put(dot(t, "a"), int(1)), let("g", tab(none)),
    let("z", Meta1("__newindex", func(<<"t", "x", "y">>, <<put(at(g, x), t), stat(call(id("rawset"), <<t, x, plus(y, 1)>>))>>))),
    put(dot(z, "a"), int(1)), put(dot(z, "a"), int(8)), ret(<<dot(t, "a"), dot(u, "a"), dot(z, "a"), bin(dot(g, "a"), "==", z)>>)>>,
  TwoWith("__add", Answer(int(6))) \o <<ret(<<bin(t, "+", int(1)), bin(int(1), "+", z), bin(t, "+", z)>>)>>,
  <<let("t", setmeta(tab(none), <<field(text("__unm"), Answer(bin(x, "==", y))), field(text("__mul"), Answer(y)), field(text("__sub"), Answer(x)),
                                  field(text("__div"), Answer(int(1))), field(text("__mod"), Answer(int(2))), field(text("__pow"), Answer(int(3)))>>)),
    ret(<<un("-", t), bin(t, "*", int(4)), bin(int(5), "-", t), bin(t, "/", t), bin(t, "%", t), bin(int(2), "^", t)>>)>>,
  TwoWith("__eq", Answer(int(1))) \o <<ret(<<bin(t, "==", z), bin(t, "~=", z), bin(t, "==", u), un("not", bin(t, "==", int(1)))>>)>>,
  TwoWith("__eq", Answer(nil)) \o <<if(bin(t, "==", z), <<ret(<<int(1)>>)>>, <<ret(<<bin(t, "==", t), bin(t, "~=", z)>>)>>)>>,
  TwoWith("__lt", Answer(bin(x, "==", t))) \o <<ret(<<bin(t, "<", z), bin(t, ">", z), bin(t, "<=", z), bin(t, ">=", z), bin(un("not", bin(t, "<=", z)), "or", int(3))>>)>>,
  TwoWith("__le", Answer(bin(x, "==", t))) \o <<ret(<<bin(t, "<=", z), bin(t, ">=", z)>>)>>,
  TwoWith("__concat", Answer(text("c"))) \o <<ret(<<bin(t, "..", text("a")), bin(text("a"), "..", bin(text("b"), "..", t)), bin(bin(t, "..", z), "..", int(1)),
                                                    bin(text("a"), "..", bin(t, "..", bin(text("b"), "..", z)))>>)>>,
  <<let("t", Meta1("__call", varargs(<<"self", "x">>, <<ret(<<x, dots>>)>>))), locals(<<"x", "y">>, <<call(t, <<int(1), int(2)>>)>>),
    letfun("f", func(none, <<ret(<<call(t, <<int(5), int(6)>>)>>)>>)), ret(<<y, x, call(f, none)>>)>>,
  <<let("t", Meta1("__index", tab(<<field(text("m"), func(<<"self", "x">>, <<ret(<<bin(id("self"), "==", t), x>>)>>))>>))), ret(<<method(t, "m", <<int(3)>>)>>)>>,
  \* a metatable's memory of what it lacks, when the event is given to it later
  <<let("u", tab(none)), let("t", call(id("setmetatable"), <<tab(none), u>>)), let("x", dot(t, "a")), put(dot(u, "__index"), Answer(int(4))), ret(<<x, dot(t, "a")>>)>>,
  <<let("u", tab(none)), locals(<<"t", "z">>, <<call(id("setmetatable"), <<tab(none), u>>), call(id("setmetatable"), <<tab(none), u>>)>>),
    let("x", bin(t, "==", z)), put(dot(u, "__eq"), Answer(yes)), ret(<<x, bin(t, "==", z)>>)>>,
  <<let("u", tab(none)), let("t", call(id("setmetatable"), <<tab(none), u>>)), put(dot(t, "a"), int(1)),
    stat(call(id("rawset"), <<u, text("__newindex"), func(<<"t", "x", "y">>, <<put(z, y)>>)>>)), put(dot(t, "b"), int(2)), ret(<<z, dot(t, "a"), dot(t, "b")>>)>>,
  \* a table that is its own metatable is told the event that the same assignment looks for
  <<let("t", tab(none)), stat(call(id("setmetatable"), <<t, t>>)), put(dot(t, "__newindex"), func(<<"t", "x", "y">>, <<put(z, y)>>)),
    put(dot(t, "a"), int(2)), ret(<<z, dot(t, "a")>>)>>,
  <<let("t", tab(none)), stat(call(id("setmetatable"), <<t, t>>)), put(dot(t, "__index"), Answer(int(4))), ret(<<dot(t, "a"), dot(t, "b")>>)>>,
  \* two metatables with one __eq, and two that differ
  <<let("f", Answer(yes)), locals(<<"t", "z">>, <<Meta1("__eq", f), Meta1("__eq", f)>>), ret(<<bin(t, "==", z), bin(t, "==", Meta1("__eq", Answer(yes))), bin(t, "==", tab(none))>>)>>}

(* Programs that stop with an error. *)
Errors == {
  <<ret(<<dot(x, "a")>>)>>, <<put(dot(x, "a"), int(1))>>, <<stat(call(x, none))>>, <<ret(<<call(x, none)>>)>>, <<ret(<<plus(tab(none), 1)>>)>>, <<ret(<<un("-", tab(none))>>)>>,
  <<ret(<<un("#", x)>>)>>, <<ret(<<bin(x, "..", int(1))>>)>>, <<ret(<<bin(int(1), "<", text("1"))>>)>>, <<ret(<<bin(tab(none), "<=", tab(none))>>)>>,
  <<for("i", int(1), x, int(1), none)>>, <<let("t", tab(none)), put(at(t, x), int(1))>>, <<let("t", tab(<<field(bin(int(0), "%", int(0)), int(1))>>))>>,
  <<letfun("f", func(none, <<ret(<<bin(x, "+", int(1))>>)>>)), ret(<<call(f, none)>>)>>, <<ret(<<bin(text("q"), "*", int(2))>>)>>, <<let("t", tab(none)), ret(<<method(t, "m", none)>>)>>}

Programs == {OnCondition(c) : c \in Conds} \cup Closures \cup Calls \cup Stores \cup Operators \cup Metamethods \cup Errors

-----------------------------------------------------------------------------
(* Programs that meet a limit or are not programs, and what becomes of them. *)
Names == <<"a", "b", "c", "d", "e", "h", "i", "j", "k", "l", "m", "n", "o", "p", "q">>
RECURSIVE Nest(_, _)
Nest(n, e) == IF n = 0 THEN e ELSE paren(Nest(n - 1, e))

Refused == {
  <<locals(Names, none)>>,                                                            \* too many local variables
  <<stat(call(f, [i \in 1 .. 15 |-> nil]))>>,                                         \* too many registers
  <<locals(SubSeq(Names, 1, 6), none), letfun("f", func(none, <<ret([i \in 1 .. 6 |-> id(Names[i])])>>))>>,   \* too many upvalues
  <<ret(<<Nest(12, int(1))>>)>>,                                                      \* nested too deep
  <<while(x, [i \in 1 .. 45 |-> put(x, y)])>>,                                        \* a jump that is too long
  <<let("x", int(0))>> \o [i \in 1 .. 45 |-> put(x, int(i))],                         \* too many constants
  <<break>>, <<while(x, <<letfun("f", func(none, <<break>>))>>)>>,                    \* no loop to break
  <<letfun("f", func(none, <<ret(<<dots>>)>>))>>}                                     \* no arguments to mean

NotPrograms == {
  Word("return") \o Word(")") \o Word("eos"),
  NameT("x") \o Word("=") \o Word("=") \o Word("eos"),
  Word("while") \o NameT("x") \o Word("do") \o Word("eos"),
  NameT("x") \o Word("eos"),
  NameT("f") \o Word("(") \o Word(")") \o Word("=") \o Word("nil") \o Word("eos"),
  Word("return") \o Word(";") \o Word("break") \o Word("eos"),
  Word("local") \o Word("nil") \o Word("eos"),
  Word("for") \o NameT("x") \o Word("do") \o Word("end") \o Word("eos"),
  Word("return") \o Word("{") \o NameT("x") \o NameT("y") \o Word("}") \o Word("eos")}

Loops == {
  <<let("t", tab(none)), stat(call(id("setmetatable"), <<t, t>>)), put(dot(t, "__index"), t), ret(<<dot(t, "a")>>)>>,
  <<let("t", tab(none)), let("u", tab(<<field(text("__newindex"), t)>>)), stat(call(id("setmetatable"), <<t, u>>)), put(dot(t, "a"), int(1))>>}

Overflows == {<<put(f, func(none, <<let("x", call(f, none))>>)), stat(call(f, none))>>}

Stops(err, programs) == {[text |-> Tokens(p), means |-> [err |-> err, vs |-> none]] : p \in programs}

Expectations ==
  {[text |-> Tokens(p), means |-> Meaning(p)] : p \in Programs}
  \cup Stops("refused", Refused) \cup Stops("loop", Loops) \cup Stops("stack overflow", Overflows)
  \cup {[text |-> p, means |-> [err |-> "refused", vs |-> none]] : p \in NotPrograms}
=============================================================================
