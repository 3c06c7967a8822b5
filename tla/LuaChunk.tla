------------------------------ MODULE LuaChunk ------------------------------
(***************************************************************************)
(* Binary chunks: ldump.c writes a function as a stream, a reader hands it *)
(* over in pieces (lzio.c) and lundump.c builds the function again.  The   *)
(* stream is one of bytes: an int, a size, an instruction and a number are *)
(* two of them.  The writer may fail at any byte of any block, so what the *)
(* reader hands over may end anywhere, also inside a block.                *)
(***************************************************************************)
EXTENDS Integers, Sequences, SequencesExt, FiniteSets

CONSTANTS
  Protos,   \* function prototypes, see Proto
  Null,         \* no string, which is not the empty one
  Unknown,      \* "=?", the source of a chunk that has none
  LUAI_MAXCCALLS

VARIABLES
  f,        \* the function that is dumped
  strip,    \* without its debug information
  pieces,   \* what the writer has taken, call by call
  status,   \* what the writer has returned, "ok" or "failed"
  z,        \* the pieces the reader still has
  loaded    \* what luaU_undump gives: a function, or an error

vars == <<f, strip, pieces, status, z, loaded>>

(* A prototype.  A constant is its type and value; code and lines are      *)
(* numbers; locvars are names with the range of code they live in.         *)
Proto(source, nups, code, k, p, lineinfo, locvars, upvalues) ==
  [source |-> source, nups |-> nups, code |-> code, k |-> k, p |-> p,
   lineinfo |-> lineinfo, locvars |-> locvars, upvalues |-> upvalues]

Header == <<27, 76>>

(* An int, a size, an instruction or a number. *)
Word(x) == <<x \div 16, x % 16>>
WordAt(s, i) == 16 * s[i] + s[i + 1]

LUA_TNIL == 0
LUA_TBOOLEAN == 1
LUA_TNUMBER == 3
LUA_TSTRING == 4

-----------------------------------------------------------------------------
(* ldump.c: each operator gives its blocks. *)
DumpVector(v) == <<Word(Len(v)), FlattenSeq([i \in DOMAIN v |-> Word(v[i])])>>

DumpString(s) == IF s = Null THEN <<Word(0)>> ELSE <<Word(Len(s) + 1), Append(s, 0)>>

DumpConstant(o) ==
  <<<<o.t>>>> \o (CASE o.t = LUA_TNIL -> <<>>
                    [] o.t = LUA_TBOOLEAN -> <<<<IF o.v THEN 1 ELSE 0>>>>
                    [] o.t = LUA_TNUMBER -> <<Word(o.v)>>
                    [] o.t = LUA_TSTRING -> DumpString(o.v))

Each(Op(_), s) == <<Word(Len(s))>> \o FlattenSeq([i \in DOMAIN s |-> Op(s[i])])

DumpDebug(g, stripped) ==
  LET kept(s) == IF stripped THEN <<>> ELSE s IN
  DumpVector(kept(g.lineinfo))
  \o Each(LAMBDA v : DumpString(v.name) \o <<Word(v.startpc), Word(v.endpc)>>, kept(g.locvars))
  \o Each(DumpString, kept(g.upvalues))

RECURSIVE DumpFunction(_, _, _)
DumpFunction(g, parent, stripped) ==
  DumpString(IF g.source = parent \/ stripped THEN Null ELSE g.source)
  \o <<<<g.nups>>>>
  \o DumpVector(g.code)
  \o Each(DumpConstant, g.k)
  \o Each(LAMBDA x : DumpFunction(x, g.source, stripped), g.p)
  \o DumpDebug(g, stripped)

luaU_dump(g, stripped) == <<Header>> \o DumpFunction(g, Null, stripped)

-----------------------------------------------------------------------------
(* lundump.c: each operator gives a value and the rest of the stream; an   *)
(* error jumps out, so after one nothing else matters.                     *)
At(v, y) == [v |-> v, z |-> y]
IsBroken(y) == y.error # "none"
Broken(y, why) == IF IsBroken(y) THEN y ELSE [y EXCEPT !.error = why]

Zeros(n) == [i \in 1 .. n |-> 0]

(* What was read before r, in front of it; a stream whose first piece is left. *)
After(v, r) == At(v \o r.v, r.z)
WithFirst(y, left) == [y EXCEPT !.pieces = IF left = <<>> THEN Tail(@) ELSE <<left>> \o Tail(@)]

(* luaZ_read: n bytes, from as many pieces as it takes; an empty piece is *)
(* the end, and what is missing is an error that LoadBlock raises.        *)
RECURSIVE luaZ_read(_, _)
luaZ_read(y, n) ==
  IF n = 0 THEN At(<<>>, y)
  ELSE IF y.pieces = <<>> \/ Head(y.pieces) = <<>> THEN At(Zeros(n), Broken(y, "unexpected end"))
  ELSE LET piece == Head(y.pieces)
           m     == IF n <= Len(piece) THEN n ELSE Len(piece)
       IN  After(SubSeq(piece, 1, m), luaZ_read(WithFirst(y, SubSeq(piece, m + 1, Len(piece))), n - m))

(* Mutant of LoadBlock: an end is noticed only where there is nothing at all. *)
LoadBlockSome(y, n) ==
  IF IsBroken(y) THEN At(Zeros(n), y)
  ELSE LET r == luaZ_read(y, n) IN
       IF y.pieces = <<>> THEN r ELSE At(r.v, [r.z EXCEPT !.error = "none"])

LoadBlock(y, n) == IF IsBroken(y) THEN At(Zeros(n), y) ELSE luaZ_read(y, n)

(* The byte, the number, the numbers and the string that a block is. *)
Byte(r) == At(r.v[1], r.z)
Number(r) == At(WordAt(r.v, 1), r.z)
Numbers(r) == At([i \in 1 .. Len(r.v) \div 2 |-> WordAt(r.v, 2 * i - 1)], r.z)
Terminated(r) == At(Front(r.v), r.z)

LoadChar(y) == Byte(LoadBlock(y, 1))
LoadInt(y) == Number(LoadBlock(y, 2))
Vector(n) == Numbers(LoadBlock(n.z, 2 * n.v))
LoadVector(y) == Vector(LoadInt(y))
Sized(n) == LoadBlock(n.z, n.v)

StringOf(size) == IF size.v = 0 THEN At(Null, size.z) ELSE Terminated(Sized(size))
LoadString(y) == StringOf(LoadInt(y))

Constant(t, r) == At([t |-> t, v |-> IF t = LUA_TBOOLEAN THEN r.v # 0 ELSE r.v], r.z)
ConstantOf(t) ==
  CASE t.v = LUA_TNIL -> At([t |-> LUA_TNIL], t.z)
    [] t.v = LUA_TBOOLEAN -> Constant(t.v, LoadChar(t.z))
    [] t.v = LUA_TNUMBER -> Constant(t.v, LoadInt(t.z))
    [] t.v = LUA_TSTRING -> Constant(t.v, LoadString(t.z))
    [] OTHER -> At([t |-> LUA_TNIL], Broken(t.z, "bad constant"))
LoadConstant(y) == ConstantOf(LoadChar(y))

Added(v, x) == At(Append(v, x.v), x.z)
Repeated(Op(_), n) ==
  FoldLeft(LAMBDA r, i : Added(r.v, Op(r.z)), At(<<>>, n.z), [i \in 1 .. n.v |-> i])
LoadMany(Op(_), y) == Repeated(Op, LoadInt(y))

LoadLocVar(y) ==
  LET name    == LoadString(y)
      startpc == LoadInt(name.z)
      endpc   == LoadInt(startpc.z)
  IN  At([name |-> name.v, startpc |-> startpc.v, endpc |-> endpc.v], endpc.z)

RECURSIVE LoadFunction(_, _, _)
LoadFunction(y, parent, nCcalls) ==
  LET named    == LoadString(y)
      source   == IF named.v = Null THEN parent ELSE named.v
      nups     == LoadChar(named.z)
      code     == LoadVector(nups.z)
      k        == LoadMany(LoadConstant, code.z)
      p        == LoadMany(LAMBDA x : LoadFunction(x, source, nCcalls + 1), k.z)
      lineinfo == LoadVector(p.z)
      locvars  == LoadMany(LoadLocVar, lineinfo.z)
      upvalues == LoadMany(LoadString, locvars.z)
  IN  IF nCcalls > LUAI_MAXCCALLS THEN At(Null, Broken(y, "code too deep"))
      ELSE At(Proto(source, nups.v, code.v, k.v, p.v, lineinfo.v, locvars.v, upvalues.v), upvalues.z)

luaU_undump(y) ==
  LET h == LoadBlock(y, Len(Header))
      g == LoadFunction(h.z, Unknown, 1)
  IN  IF ~ IsBroken(h.z) /\ h.v # Header THEN [f |-> Null, error |-> "bad header"]
      ELSE [f |-> g.v, error |-> g.z.error]

-----------------------------------------------------------------------------
Nothing == [f |-> Null, error |-> "not loaded"]

Init ==
  /\ f \in Protos /\ strip \in BOOLEAN
  /\ pieces = <<>> /\ status = "ok" /\ z = <<>> /\ loaded = Nothing

(* DumpBlock: one call of the writer, which may fail after any part of the *)
(* block; then it is not called again.                                     *)
DumpBlock ==
  LET blocks == luaU_dump(f, strip)
      block  == blocks[Len(pieces) + 1]
  IN
  /\ z = <<>> /\ Len(pieces) < Len(blocks)
  /\ status = "ok"
  /\ \/ pieces' = Append(pieces, block) /\ UNCHANGED status
     \/ \E n \in 0 .. Len(block) :
          pieces' = Append(pieces, SubSeq(block, 1, n)) /\ status' = "failed"
  /\ UNCHANGED <<f, strip, z, loaded>>

(* What was written is read again, cut into pieces elsewhere, here of n    *)
(* bytes; a writer that has failed leaves a chunk without its end.         *)
Cut(s, n) == [i \in 1 .. (Len(s) + n - 1) \div n |->
                SubSeq(s, (i - 1) * n + 1, IF i * n < Len(s) THEN i * n ELSE Len(s))]

Stream == FlattenSeq(pieces)

Reopen(n) ==
  /\ z = <<>> /\ loaded = Nothing /\ Stream # <<>>
  /\ z' = Cut(Stream, n)
  /\ UNCHANGED <<f, strip, pieces, status, loaded>>

Undump ==
  /\ z # <<>> /\ loaded = Nothing
  /\ loaded' = luaU_undump([pieces |-> z, error |-> "none"])
  /\ UNCHANGED <<f, strip, pieces, status, z>>

Next == DumpBlock \/ (\E n \in {1, 2, 5} : Reopen(n)) \/ Undump

Spec == Init /\ [][Next]_vars

-----------------------------------------------------------------------------
RECURSIVE Stripped(_), Deep(_)
Stripped(g) ==
  [g EXCEPT !.source = Unknown, !.lineinfo = <<>>, !.locvars = <<>>, !.upvalues = <<>>,
            !.p = [i \in DOMAIN g.p |-> Stripped(g.p[i])]]
Deep(g) == 1 + FoldLeft(LAMBDA m, x : IF Deep(x) > m THEN Deep(x) ELSE m, 0, g.p)

Whole == FlattenSeq(luaU_dump(f, strip))

(* The function that was written completely is the one that is read, with *)
(* its sources, also where a nested function has another one than its     *)
(* parent; stripped, it is the same without its names and lines.          *)
RoundTrip ==
  loaded # Nothing /\ Len(Stream) = Len(Whole) /\ Deep(f) <= LUAI_MAXCCALLS
    => loaded = [f |-> IF strip THEN Stripped(f) ELSE f, error |-> "none"]

(* A chunk that ends early, after any of its bytes, is refused: what is    *)
(* missing is never filled up.                                             *)
PrefixRefused == loaded # Nothing /\ Len(Stream) < Len(Whole) => loaded.error # "none"

(* A writer that has failed is not called again, so the chunk it leaves is *)
(* a beginning of the whole.                                               *)
WriterStops == IsPrefix(Stream, Whole)

=============================================================================
