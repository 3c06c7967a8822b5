----------------------------- MODULE MCLuaData -----------------------------
(***************************************************************************)
(* Lua's data, and the libraries' algorithms on it: tables, strings,       *)
(* patterns, the table library and binary chunks.  They share no state,    *)
(* so a behaviour is one of one part, the others at rest.                  *)
(***************************************************************************)
EXTENDS LuaTable, LuaString, LuaTableLib, TLC

CONSTANTS o1, o2, Null, Unknown

VARIABLES
  part,                                   \* the part that runs
  s, p, src, found, done,                 \* LuaMatch's
  f, strip, pieces, status, z, loaded     \* LuaChunk's

matchVars  == <<s, p, src, found, done>>
chunkVars  == <<f, strip, pieces, status, z, loaded>>
allVars    == <<part, vars, stringVars, matchVars, sortVars, chunkVars>>

-----------------------------------------------------------------------------
(* Tables: four integers and two objects as keys, with hash functions that *)
(* let some of them collide.                                               *)
MCInts == 1 .. 4
MCObjects == {o1, o2}
MCHashes == {(o1 :> 0) @@ (o2 :> 0) @@ <<0, 1, 2, 3>>, (o1 :> 1) @@ (o2 :> 2) @@ <<1, 1, 0, 2>>}

(* Strings: two contents share a bucket until the table has eight. *)
MCContents == {0, 1, 4}
MCIds == 1 .. 4

ASSUME StringParameters

(* Patterns: every sequence of two items, and longer ones with captures to *)
(* be undone; subjects over two characters.                                *)
MCSubjects == UNION {[1 .. n -> {1, 2}] : n \in 0 .. 3} \cup {<<1, 1, 2, 1>>}

It(k) == [k |-> k]
Chars == {[k |-> "set", cs |-> {1}, rep |-> r] : r \in {"?", "*"}}
         \cup {[k |-> "set", cs |-> {1, 2}, rep |-> r] : r \in {"-", "+"}}
         \cup {[k |-> "set", cs |-> {2}, rep |-> "1"]}
Open == It("(")
Shut == It(")")
Back == [k |-> "%1", l |-> 1]
Items == Chars \cup {Open, Shut, It("()"), It("$"), Back, [k |-> "%b", b |-> 1, e |-> 2],
                     [k |-> "%f", cs |-> {2}]}

MCPatterns ==
  {q \in UNION {[1 .. n -> Items] : n \in 0 .. 2} : Len(q) = 2 => q[1] # It("$")}
  \cup {<<Open, a, b, Shut>> : a, b \in Chars}
  \cup {<<Open, a, Shut, b>> : a \in Chars, b \in Chars \cup {Back}}
  \cup {<<a, Open, b, Shut>> : a, b \in Chars}
  \cup {<<a, b, Back>> : a \in {Open, It("()")}, b \in Chars}
  \cup {<<a, Open, Open, b, Shut, c, Shut>> : a, b, c \in Chars}

M == INSTANCE LuaMatch WITH Subjects <- MCSubjects, Patterns <- MCPatterns, LUA_MAXCAPTURES <- 2

(* Sort: every array of up to five of three numbers, and two of seven. *)
MCArrays == UNION {[1 .. n -> 1 .. 3] : n \in 0 .. 5} \cup {<<2, 1, 3, 2, 1, 3, 1>>, <<1, 3, 3, 1, 2, 3, 3>>}

(* Chunks: functions with the constants, sources and names that could be   *)
(* taken for one another, nested up to one level more than is allowed.     *)
Fn(source, k, subs, locs) ==
  [source |-> source, nups |-> 1, code |-> <<5, 6>>, k |-> k, p |-> subs, lineinfo |-> <<1, 2>>,
   locvars |-> locs, upvalues |-> <<<<>>>>]

Str(x) == [t |-> 4, v |-> x]
Leaves ==
  {Fn(<<x>>, k, <<>>, v) :
     x \in {8, 9},
     k \in {<<>>, <<[t |-> 0], [t |-> 1, v |-> FALSE]>>, <<Str(<<>>), [t |-> 3, v |-> 3], Str(<<7>>)>>},
     v \in {<<>>, <<[name |-> <<7>>, startpc |-> 0, endpc |-> 1]>>}}

MCProtos ==
  Leaves \cup {Fn(<<8>>, <<>>, <<a>>, <<>>) : a \in Leaves}
         \cup {Fn(<<8>>, <<>>, <<a, Fn(<<9>>, <<>>, <<a>>, <<>>)>>, <<>>) : a \in Leaves}

K == INSTANCE LuaChunk WITH Protos <- MCProtos, LUAI_MAXCCALLS <- 2

-----------------------------------------------------------------------------
TableRest == t = [array |-> <<>>, node |-> <<>>, lastfree |-> 0] /\ hash = <<>> /\ loop = NoLoop /\ map = <<>>
MatchRest == s = <<>> /\ p = <<>> /\ src = 1 /\ found = <<>> /\ done = FALSE
SortRest  == /\ array = <<>> /\ given = <<>> /\ order = "<" /\ l = 1 /\ u = 0 /\ i = 0 /\ j = 0
             /\ P = LuaNil /\ calls = <<>> /\ pc = "done"
ChunkRest == f = Null /\ strip = FALSE /\ pieces = <<>> /\ status = "ok" /\ z = <<>> /\ loaded = Null

PartsInit ==
  \/ part = "table"  /\ Init      /\ StringInit /\ MatchRest /\ SortRest /\ ChunkRest
  \/ part = "string" /\ TableRest /\ StringInit /\ MatchRest /\ SortRest /\ ChunkRest
  \/ part = "match"  /\ TableRest /\ StringInit /\ M!Init    /\ SortRest /\ ChunkRest
  \/ part = "sort"   /\ TableRest /\ StringInit /\ MatchRest /\ SortInit /\ ChunkRest
  \/ part = "chunk"  /\ TableRest /\ StringInit /\ MatchRest /\ SortRest /\ K!Init

TableStep  == part = "table"  /\ Next       /\ UNCHANGED <<part, stringVars, matchVars, sortVars, chunkVars>>
StringStep == part = "string" /\ StringNext /\ UNCHANGED <<part, vars, matchVars, sortVars, chunkVars>>
MatchStep  == part = "match"  /\ M!Next     /\ UNCHANGED <<part, vars, stringVars, sortVars, chunkVars>>
SortStep   == part = "sort"   /\ SortNext    /\ UNCHANGED <<part, vars, stringVars, matchVars, chunkVars>>
ChunkStep  == part = "chunk"  /\ K!Next     /\ UNCHANGED <<part, vars, stringVars, matchVars, sortVars>>

PartsNext == TableStep \/ StringStep \/ MatchStep \/ SortStep \/ ChunkStep

PartsSpec == PartsInit /\ [][PartsNext]_allVars /\ WF_allVars(SortStep)

(* The parts' properties, stated where they are defined. *)
TableHoldsMap      == part = "table" => TypeOK /\ ImplementsMap /\ OnePlace /\ BoundaryFound
TableLoopComplete  == part = "table" => LoopComplete
FindsPreferred     == part = "match" => M!FindsPreferred /\ M!PlainFindsFirst /\ M!GmatchMoves /\ M!GsubTiles
TableSteps         == VisitedOnce /\ ArrayWorthIt
RoundTrip          == part = "chunk" => K!RoundTrip /\ K!PrefixRefused /\ K!WriterStops

=============================================================================
