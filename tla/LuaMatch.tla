------------------------------ MODULE LuaMatch ------------------------------
(***************************************************************************)
(* The patterns of lstrlib.c.  A subject is a sequence of characters, a    *)
(* pattern a sequence of items: a set of characters with a suffix, and the *)
(* special items.  The matcher backtracks over one record of captures that *)
(* it changes in place and must restore; what it finds is compared with    *)
(* the choice of repetitions that the pattern prefers.                     *)
(***************************************************************************)
EXTENDS Integers, Sequences, SequencesExt, FiniteSets, FiniteSetsExt, Functions

CONSTANTS
  Subjects,         \* sequences of characters, which are numbers from 1 on
  Patterns,         \* sequences of items
  LUA_MAXCAPTURES

(* An item is a record with its kind k: "set" with its characters cs and  *)
(* its suffix rep ("1" stands for none), "(", "()", ")", "%1" with the     *)
(* number l of a capture, "%b" with b and e, "%f" with cs, and "$".        *)

VARIABLES
  s, p,    \* the subject and the pattern
  src,     \* gmatch: where it goes on
  found,   \* gmatch: what it has found, <<start, end, captures>>
  done

vars == <<s, p, src, found, done>>

Unfinished == -1
PositionCapture == -2

(* What match returns: where the match ends (the next character), or NULL, *)
(* or Error; and the captures, which a failed attempt may have changed.    *)
NULL  == 0
Error == -1
Res(e, ms) == [e |-> e, ms |-> ms]

src_end(x) == Len(x) + 1

singlematch(x, i, item) == i < src_end(x) /\ x[i] \in item.cs

(* matchbalance: past the end that balances the begin at i, or NULL. *)
matchbalance(x, i, item) ==
  LET depth(j) == Cardinality({n \in i .. j : n = i \/ (x[n] = item.b /\ item.b # item.e)})
                  - Cardinality({n \in i + 1 .. j : x[n] = item.e})
      ends == {j \in i + 1 .. Len(x) : depth(j) = 0}
  IN  IF i < src_end(x) /\ x[i] = item.b /\ ends # {} THEN Min(ends) + 1 ELSE NULL

capture_to_close(ms) == SelectLastInSeq(ms, LAMBDA c : c.len = Unfinished)

(* match_capture: the text of a capture again; a position never matches,   *)
(* its length is a huge unsigned number.                                   *)
match_capture(x, i, ms, l) ==
  IF l > Len(ms) \/ ms[l].len = Unfinished THEN Error
  ELSE LET len == ms[l].len IN
       IF /\ len # PositionCapture /\ src_end(x) - i >= len
          /\ \A n \in 0 .. len - 1 : x[ms[l].init + n] = x[i + n]
       THEN i + len ELSE NULL

-----------------------------------------------------------------------------
RECURSIVE match(_, _, _, _, _), max_try(_, _, _, _, _, _)

(* The other repetitions, down to none, until the rest matches. *)
max_try(x, q, i, j, n, ms) ==
  LET r == match(x, q, i + n, j + 1, ms) IN
  IF r.e # NULL \/ n = 0 THEN r ELSE max_try(x, q, i, j, n - 1, r.ms)

max_expand(x, q, i, j, ms) ==
  max_try(x, q, i, j,
          Max({n \in 0 .. src_end(x) - i : \A m \in 0 .. n - 1 : singlematch(x, i + m, q[j])}), ms)

RECURSIVE min_expand(_, _, _, _, _)
min_expand(x, q, i, j, ms) ==
  LET r == match(x, q, i, j + 1, ms) IN
  IF r.e # NULL \/ ~singlematch(x, i, q[j]) THEN r ELSE min_expand(x, q, i + 1, j, r.ms)

start_capture(x, q, i, j, ms, what) ==
  IF Len(ms) >= LUA_MAXCAPTURES THEN Res(Error, ms)
  ELSE LET r == match(x, q, i, j + 1, Append(ms, [init |-> i, len |-> what])) IN
       IF r.e = NULL THEN Res(NULL, Front(r.ms)) ELSE r

(* Mutant of end_capture: a capture stays closed when the rest fails. *)
end_captureKept(x, q, i, j, ms) ==
  LET l == capture_to_close(ms) IN
  IF l = 0 THEN Res(Error, ms)
  ELSE match(x, q, i, j + 1, [ms EXCEPT ![l].len = i - ms[l].init])

end_capture(x, q, i, j, ms) ==
  LET l == capture_to_close(ms) IN
  IF l = 0 THEN Res(Error, ms)
  ELSE LET r == match(x, q, i, j + 1, [ms EXCEPT ![l].len = i - ms[l].init]) IN
       IF r.e = NULL THEN Res(NULL, [r.ms EXCEPT ![l].len = Unfinished]) ELSE r

(* An item of characters, with its suffix. *)
pattern_item(x, q, i, j, ms) ==
  LET m == singlematch(x, i, q[j]) IN
  CASE q[j].rep = "?" ->
         LET r == match(x, q, i + 1, j + 1, ms) IN
         IF ~m THEN match(x, q, i, j + 1, ms)
         ELSE IF r.e # NULL THEN r ELSE match(x, q, i, j + 1, r.ms)
    [] q[j].rep = "*" -> max_expand(x, q, i, j, ms)
    [] q[j].rep = "+" -> IF m THEN max_expand(x, q, i + 1, j, ms) ELSE Res(NULL, ms)
    [] q[j].rep = "-" -> min_expand(x, q, i, j, ms)
    [] OTHER -> IF m THEN match(x, q, i + 1, j + 1, ms) ELSE Res(NULL, ms)

(* The rest of the pattern from item j on, at character i.  Before the     *)
(* first character and after the last the frontier sees a 0.               *)
match(x, q, i, j, ms) ==
  IF j > Len(q) THEN Res(i, ms)
  ELSE CASE q[j].k = "set" -> pattern_item(x, q, i, j, ms)
    [] q[j].k = "("  -> start_capture(x, q, i, j, ms, Unfinished)
    [] q[j].k = "()" -> start_capture(x, q, i, j, ms, PositionCapture)
    [] q[j].k = ")"  -> end_capture(x, q, i, j, ms)
    [] q[j].k = "$"  -> Res(IF i = src_end(x) THEN i ELSE NULL, ms)
    [] q[j].k = "%f" ->
         LET before == IF i = 1 THEN 0 ELSE x[i - 1]
             at     == IF i = src_end(x) THEN 0 ELSE x[i]
         IN  IF before \in q[j].cs \/ at \notin q[j].cs THEN Res(NULL, ms)
             ELSE match(x, q, i, j + 1, ms)
    [] OTHER ->
         LET e == IF q[j].k = "%b" THEN matchbalance(x, i, q[j]) ELSE match_capture(x, i, ms, q[j].l)
         IN  IF e \in {NULL, Error} THEN Res(e, ms) ELSE match(x, q, e, j + 1, ms)

(* push_captures: all of them, or the whole match; none may be unfinished. *)
push_captures(i, r) == IF r.ms = <<>> THEN <<[init |-> i, len |-> r.e - i]>> ELSE r.ms

Raises(r) ==
  r.e = Error \/ (r.e # NULL /\ \E n \in 1 .. Len(r.ms) : r.ms[n].len = Unfinished)

-----------------------------------------------------------------------------
(* posrelat, then the limits that str_find_aux puts to it. *)
posrelat(pos, len) == LET n == IF pos < 0 THEN pos + len + 1 ELSE pos IN IF n >= 0 THEN n ELSE 0
StartAt(x, init) ==
  LET n == posrelat(init, Len(x)) IN IF n < 1 THEN 1 ELSE IF n > src_end(x) THEN src_end(x) ELSE n

(* str_find_aux: from each start on, until one matches or raises an error. *)
RECURSIVE FindFrom(_, _, _, _)
FindFrom(x, q, i, anchor) ==
  LET r == match(x, q, i, 1, <<>>) IN
  IF Raises(r) THEN <<Error>>
  ELSE IF r.e # NULL THEN <<i, r.e, push_captures(i, r)>>
  ELSE IF i < src_end(x) /\ ~anchor THEN FindFrom(x, q, i + 1, anchor) ELSE <<>>

str_find(x, q, init, anchor) == FindFrom(x, q, StartAt(x, init), anchor)

(* lmemfind: the plain search for y, through the places of its first character. *)
RECURSIVE lmemfind(_, _, _)
lmemfind(x, i, y) ==
  IF y = <<>> THEN i
  ELSE IF src_end(x) - i < Len(y) THEN NULL
  ELSE LET at == SelectInSubSeq(x, i, src_end(x) - Len(y), LAMBDA c : c = y[1]) IN
       IF at = 0 THEN NULL
       ELSE IF SubSeq(x, at, at + Len(y) - 1) = y THEN at ELSE lmemfind(x, at + 1, y)

(* add_value with a function: it is asked, and what it gives is added. *)
add_value(pieces, i, e) == Append(pieces, <<"repl", i, e>>)

(* str_gsub with a function: the pieces of the result, those the function  *)
(* is asked for and those that are copied, and how often it was asked.     *)
RECURSIVE GsubFrom(_, _, _, _, _, _, _)
GsubFrom(x, q, i, n, max_s, anchor, pieces) ==
  LET r    == match(x, q, i, 1, <<>>)
      hit  == r.e # NULL
      with == IF hit THEN add_value(pieces, i, r.e) ELSE pieces
      n2   == IF hit THEN n + 1 ELSE n
      tail(b, j) == [n |-> n2, pieces |-> Append(b, <<"copy", j, src_end(x)>>)]
  IN  IF n >= max_s THEN [n |-> n, pieces |-> Append(pieces, <<"copy", i, src_end(x)>>)]
      ELSE IF Raises(r) THEN [n |-> Error, pieces |-> <<>>]
      ELSE IF hit /\ r.e > i
           THEN IF anchor THEN tail(with, r.e) ELSE GsubFrom(x, q, r.e, n2, max_s, anchor, with)
      ELSE IF i < src_end(x)
           THEN LET copied == Append(with, <<"copy", i, i + 1>>) IN
                IF anchor THEN tail(copied, i + 1) ELSE GsubFrom(x, q, i + 1, n2, max_s, anchor, copied)
      ELSE tail(with, i)

str_gsub(x, q, max_s, anchor) == GsubFrom(x, q, 1, 0, max_s, anchor, <<>>)

-----------------------------------------------------------------------------
(* gmatch: one call of the iterator per step. *)
Init ==
  /\ s \in Subjects /\ p \in Patterns
  /\ src = 1 /\ found = <<>> /\ done = FALSE

gmatch_aux ==
  /\ ~done
  /\ LET f == IF src > src_end(s) THEN <<>> ELSE FindFrom(s, p, src, FALSE) IN
     IF f = <<>> \/ f[1] = Error THEN done' = TRUE /\ UNCHANGED <<src, found>>
     ELSE /\ found' = Append(found, f)
          /\ src' = IF f[2] = f[1] THEN f[2] + 1 ELSE f[2]
          /\ UNCHANGED done
  /\ UNCHANGED <<s, p>>

Next == gmatch_aux

Spec == Init /\ [][Next]_vars

-----------------------------------------------------------------------------
(* What a pattern means: each item takes a number of characters, its width, *)
(* and of the choices of widths that fit, the first item with a choice has  *)
(* the preference, for more or, with "-", for fewer.                        *)
StartOf(c, i, j) == i + FoldLeft(LAMBDA a, b : a + b, 0, SubSeq(c, 1, j - 1))

Opens(q)   == {j \in 1 .. Len(q) : q[j].k \in {"(", "()"}}
Nth(q, l)  == CHOOSE j \in Opens(q) : Cardinality({n \in Opens(q) : n <= j}) = l
Depth(q, a, b) == Cardinality({n \in a .. b : q[n].k = "("}) - Cardinality({n \in a .. b : q[n].k = ")"})
Closes(q, o) == {j \in o + 1 .. Len(q) : Depth(q, o, j) = 0}

CaptureOf(q, c, i, o) ==
  IF q[o].k = "()" THEN [init |-> StartOf(c, i, o), len |-> PositionCapture]
  ELSE [init |-> StartOf(c, i, o), len |-> StartOf(c, i, Min(Closes(q, o))) - StartOf(c, i, o)]

WellFormed(q) ==
  /\ Cardinality(Opens(q)) <= LUA_MAXCAPTURES
  /\ \A j \in 1 .. Len(q) : Depth(q, 1, j) >= 0 /\ (q[j].k = "(" => Closes(q, j) # {})
  /\ \A j \in 1 .. Len(q) : q[j].k = "%1" =>
       /\ Cardinality({o \in Opens(q) : o < j}) >= q[j].l
       /\ q[Nth(q, q[j].l)].k = "(" => Min(Closes(q, Nth(q, q[j].l))) < j

Balanced(x, item) ==
  LET opens(n)  == Cardinality({m \in 1 .. n : x[m] = item.b})
      closes(n) == Cardinality({m \in 1 .. n : x[m] = item.e})
  IN  /\ Len(x) > 1 /\ x[1] = item.b /\ Last(x) = item.e
      /\ IF item.b = item.e THEN closes(Len(x)) = 2
         ELSE opens(Len(x)) = closes(Len(x)) /\ \A n \in 1 .. Len(x) - 1 : opens(n) > closes(n)

FitsItem(x, q, c, i, j) ==
  LET from == StartOf(c, i, j)
      text == SubSeq(x, from, from + c[j] - 1)   \* if it ends within the subject
  IN  /\ from + c[j] <= src_end(x)
      /\ CASE q[j].k = "set" -> /\ Range(text) \subseteq q[j].cs
                                /\ q[j].rep \in {"1", "+"} => c[j] > 0
                                /\ q[j].rep \in {"1", "?"} => c[j] <= 1
           [] q[j].k = "%b" -> Balanced(text, q[j])
           [] q[j].k = "%1" ->
                LET cap == CaptureOf(q, c, i, Nth(q, q[j].l)) IN
                cap.len # PositionCapture /\ text = SubSeq(x, cap.init, cap.init + cap.len - 1)
           [] q[j].k = "%f" -> /\ c[j] = 0 /\ from <= Len(x) /\ x[from] \in q[j].cs
                               /\ from > 1 => x[from - 1] \notin q[j].cs
           [] q[j].k = "$" -> c[j] = 0 /\ from = src_end(x)
           [] OTHER -> c[j] = 0

Widths(x, q, i) ==
  LET wide == {j \in 1 .. Len(q) : q[j].k \in {"set", "%b", "%1"}}
      all  == {[j \in 1 .. Len(q) |-> IF j \in wide THEN c[j] ELSE 0] : c \in [wide -> 0 .. Len(x)]}
  IN  {c \in all : \A j \in 1 .. Len(q) : FitsItem(x, q, c, i, j)}

Preferred(q, c, d) ==
  LET j == Min({n \in 1 .. Len(q) : c[n] # d[n]}) IN
  IF q[j].k = "set" /\ q[j].rep = "-" THEN c[j] < d[j] ELSE c[j] > d[j]

MatchAt(x, q, i) ==
  LET c == CHOOSE c \in Widths(x, q, i) : \A d \in Widths(x, q, i) \ {c} : Preferred(q, c, d)
      caps == [l \in 1 .. Cardinality(Opens(q)) |-> CaptureOf(q, c, i, Nth(q, l))]
      end == StartOf(c, i, Len(q) + 1)
  IN  <<i, end, IF caps = <<>> THEN <<[init |-> i, len |-> end - i]>> ELSE caps>>

(* Whatever the backtracking went through, the first place where the       *)
(* pattern fits is found, with the widths it prefers and their captures.   *)
FindsPreferred ==
  src = 1 /\ WellFormed(p) => \A anchor \in BOOLEAN :
    LET starts == {i \in (IF anchor THEN {1} ELSE 1 .. src_end(s)) : Widths(s, p, i) # {}} IN
    str_find(s, p, 1, anchor) = IF starts = {} THEN <<>> ELSE MatchAt(s, p, Min(starts))

(* gmatch goes on, also past empty matches: it cannot find one twice. *)
GmatchMoves ==
  \A n \in 2 .. Len(found) : found[n][1] > found[n - 1][1] /\ found[n][1] >= found[n - 1][2]

(* gsub copies or replaces every character once, in order, replaces no     *)
(* more than it was told to, and what gmatch finds.                        *)
GsubTiles ==
  done => \A max_s \in 0 .. Len(s) + 1 :
    LET g == str_gsub(s, p, max_s, FALSE)
        hits == SelectSeq(g.pieces, LAMBDA x : x[1] = "repl")
    IN  g.n # Error =>
        /\ \A n \in 1 .. Len(g.pieces) : g.pieces[n][2] = IF n = 1 THEN 1 ELSE g.pieces[n - 1][3]
        /\ Last(g.pieces)[3] = src_end(s)
        /\ hits = [n \in 1 .. Min({max_s, Len(found)}) |-> <<"repl", found[n][1], found[n][2]>>]

(* The plain search finds the first place, whatever prefixes repeat. *)
PlainFindsFirst ==
  src = 1 => \A y \in Subjects :
    lmemfind(s, 1, y) =
      Min({i \in 1 .. src_end(s) - Len(y) : SubSeq(s, i, i + Len(y) - 1) = y} \cup {src_end(s) + 1})
        % (src_end(s) + 1)

=============================================================================
