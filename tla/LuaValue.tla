------------------------------ MODULE LuaValue ------------------------------
(***************************************************************************)
(* Lua's values and the primitive operations on them that compiled code    *)
(* and constant folding share.  Numbers are whole numbers and the one that *)
(* is not a number; quotients are asked for only where they are whole.     *)
(* Strings are compared by a given collation, as strcoll does.             *)
(***************************************************************************)
EXTENDS Integers, Sequences, FiniteSets
LOCAL INSTANCE TLC

CONSTANT Collation     \* strings that are compared, in the order of the locale

Nil         == [t |-> "nil"]
Bool(b)     == [t |-> "boolean", b |-> b]
Num(n)      == [t |-> "number", n |-> n]
NaN         == [t |-> "nan"]
Str(s)      == [t |-> "string", s |-> s]
TableV(id)  == [t |-> "table", tid |-> id]
FunV(id)    == [t |-> "function", fid |-> id]

ttype(v)     == IF v.t = "nan" THEN "number" ELSE v.t
l_isfalse(v) == v = Nil \/ v = Bool(FALSE)

luaO_rawequalObj(v, w) == v = w /\ v # NaN

(* luaO_str2d, for the numerals that programs here convert. *)
Numerals == -20 .. 20

luaV_tonumber(v) ==
  CASE ttype(v) = "number" -> v
    [] v.t = "string" -> LET n == {x \in Numerals : ToString(x) = v.s}
                         IN IF n = {} THEN Nil ELSE Num(CHOOSE x \in n : TRUE)
    [] OTHER -> Nil

luaV_tostring(v) ==
  CASE v.t = "string" -> v
    [] v.t = "number" -> Str(ToString(v.n))
    [] v.t = "nan"    -> Str("-nan")
    [] OTHER -> Nil

l_strless(v, w) ==
  LET Place(x) == CHOOSE i \in DOMAIN Collation : Collation[i] = x.s IN Place(v) < Place(w)

nummod(x, y) == IF y > 0 THEN x % y ELSE -((-x) % (-y))
numdiv(x, y) == IF y > 0 THEN x \div y ELSE (-x) \div (-y)

(* An arithmetic operation on two numbers. *)
Arithmetic(op, v, w) ==
  IF NaN \in {v, w} THEN NaN
  ELSE CASE op = "ADD" -> Num(v.n + w.n)
         [] op = "SUB" -> Num(v.n - w.n)
         [] op = "MUL" -> Num(v.n * w.n)
         [] op = "DIV" -> IF w.n = 0 THEN NaN ELSE Num(numdiv(v.n, w.n))
         [] op = "MOD" -> IF w.n = 0 THEN NaN ELSE Num(nummod(v.n, w.n))
         [] op = "POW" -> Num(v.n ^ w.n)
         [] op = "UNM" -> Num(-v.n)

Less(v, w)   == NaN \notin {v, w} /\ v.n < w.n
LessEq(v, w) == NaN \notin {v, w} /\ v.n <= w.n

(* A function with some of its values replaced. *)
Replaced(f, by) == by @@ f

(* A table as what its keys have been given; LuaTable shows that it is one. *)
luaH_get(h, key) == IF key \in DOMAIN h THEN h[key] ELSE Nil

luaH_put(h, key, v) ==
  IF v = Nil THEN [k \in DOMAIN h \ {key} |-> h[k]] ELSE (key :> v) @@ h

luaH_getn(h) == CHOOSE n \in 0 .. Cardinality(DOMAIN h) :
                  luaH_get(h, Num(n + 1)) = Nil /\ \A m \in 1 .. n : luaH_get(h, Num(m)) # Nil

EventOf == [ADD |-> "__add", SUB |-> "__sub", MUL |-> "__mul", DIV |-> "__div", MOD |-> "__mod",
            POW |-> "__pow", UNM |-> "__unm", CONCAT |-> "__concat", LT |-> "__lt", LE |-> "__le"]
=============================================================================
