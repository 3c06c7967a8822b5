------------------------------ MODULE MCLuaVM ------------------------------
(***************************************************************************)
(* The compiler and the interpreter with the programs of LuaPrograms and   *)
(* limits small enough that the programs meet them.                        *)
(***************************************************************************)
EXTENDS LuaVM

MCCollation  == <<"a", "ab", "b">>
MCCFunctions == <<"pass", "rawset", "setmetatable">>

CONSTANT Expected        \* the programs' texts and meanings

P == INSTANCE LuaPrograms
MCExpected == LET all == P!Expectations IN all
MCLoaded ==
  LET texts == {x.text : x \in MCExpected}
  IN  {[source |-> x, main |-> luaY_parser(x)] : x \in texts}

(* Every program ends as its meaning says: with the same results, or with  *)
(* the same kind of error (luaY_parser and luaV_execute together).         *)
Outcome ==
  IF L.status = "done" THEN [err |-> "", vs |-> Between(L, 1, L.top)] ELSE [err |-> L.status, vs |-> <<>>]

Computes == L.status # "run" => [text |-> source, means |-> Outcome] \in Expected
=============================================================================
