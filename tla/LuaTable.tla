------------------------------ MODULE LuaTable ------------------------------
(***************************************************************************)
(* The tables of ltable.c: an array part, and a hash part whose nodes are  *)
(* chained within one vector.  A new key moves a colliding node that is    *)
(* out of its main position; when no free node is left, both parts get new *)
(* sizes and everything is inserted again.  A loop with next goes over the *)
(* table by position while fields are assigned and the collector turns the *)
(* keys of empty nodes into dead ones.                                     *)
(***************************************************************************)
EXTENDS Integers, Sequences, SequencesExt, FiniteSets, FiniteSetsExt

CONSTANTS
  Ints,      \* integer keys, all positive
  Objects,   \* keys that the collector may find dead
  Nil,       \* Lua's nil
  Hashes,    \* the hash functions, of numbers and pointers, to consider
  MAX_INT    \* the largest int

Keys == Ints \cup Objects

VARIABLES
  t,      \* the table
  hash,   \* the hash function
  loop,   \* a loop with next: [on, key, left, error], the keys that it has
          \* still to see
  map     \* what the program has assigned

vars == <<t, hash, loop, map>>

(* t.array has the values of keys 1, 2, ..; t.node the nodes, none for     *)
(* dummynode; t.lastfree counts the nodes that may still be free.  A value *)
(* other than nil is its key, so that a value under a wrong key shows.     *)
EmptyNode == [key |-> Nil, dead |-> FALSE, val |-> Nil, next |-> 0]

sizearray(h) == Len(h.array)
sizenode(h)  == Len(h.node)

(* hashmod: modulo the number of nodes less one, made odd. *)
mainposition(h, k) ==
  LET n == sizenode(h) - 1 IN (hash[k] % (IF n % 2 = 0 THEN n + 1 ELSE n)) + 1

(* The nodes from node i on, along the chain. *)
RECURSIVE Chain(_, _), luaH_set(_, _, _)
Chain(h, i) == IF i = 0 THEN <<>> ELSE <<i>> \o Chain(h, h.node[i].next)

ChainOf(h, k) == IF h.node = <<>> THEN <<>> ELSE Chain(h, mainposition(h, k))

InArray(h, k) == k \in Ints /\ k <= sizearray(h)

(* The first node of a key; 0 if there is none.  Dead keys match only for next. *)
NodeOf(h, k, dead) ==
  LET chain == ChainOf(h, k)
      at == SelectInSeq(chain, LAMBDA i : h.node[i].key = k /\ (dead \/ ~h.node[i].dead))
  IN  IF at = 0 THEN 0 ELSE chain[at]

(* luaH_get: the value, nil for a key without a place. *)
luaH_get(h, k) ==
  IF InArray(h, k) THEN h.array[k]
  ELSE IF NodeOf(h, k, FALSE) = 0 THEN Nil ELSE h.node[NodeOf(h, k, FALSE)].val

-----------------------------------------------------------------------------
(* Rehash.                                                                 *)

(* The largest power of two of which more than half are in use. *)
computesizes(S) ==
  Max({0} \cup {n \in {2 ^ i : i \in 0 .. 4} :
                  /\ \E k \in S : n \div 2 < k /\ k <= n
                  /\ Cardinality({k \in S : k <= n}) * 2 > n})

twoto_ceillog2(n) == IF n = 0 THEN 0 ELSE Min({m \in {2 ^ i : i \in 0 .. 4} : m >= n})

setarrayvector(a, n) == [i \in 1 .. n |-> IF i <= Len(a) THEN a[i] ELSE Nil]

(* New parts; what was past the new array, and then the nodes from the     *)
(* last, are inserted again.                                               *)
resize(h, nasize, nhsize) ==
  LET n   == twoto_ceillog2(nhsize)
      new == [array |-> setarrayvector(h.array, nasize), node |-> [i \in 1 .. n |-> EmptyNode],
              lastfree |-> n]
      cut == [i \in 1 .. Max({0, sizearray(h) - nasize}) |-> nasize + i]
      s   == FoldLeft(LAMBDA r, i : IF h.array[i] = Nil THEN r ELSE luaH_set(r, i, h.array[i]), new, cut)
  IN  FoldRight(LAMBDA x, r : IF x.val = Nil THEN r ELSE luaH_set(r, x.key, x.val), h.node, s)

(* numusearray and numusehash: the keys in use. *)
numuse(h) ==
  {i \in 1 .. sizearray(h) : h.array[i] # Nil}
  \cup {h.node[i].key : i \in {j \in 1 .. sizenode(h) : h.node[j].val # Nil}}

(* Every key in use and the new one are counted. *)
rehash(h, k) ==
  LET used == numuse(h) \cup {k}
      nasize == computesizes(used \cap Ints)
  IN  resize(h, nasize, Cardinality({x \in used : x \notin Ints \/ x > nasize}))

-----------------------------------------------------------------------------
(* getfreepos: the last node below lastfree that never had a key. *)
getfreepos(h) == Max({0} \cup {i \in 1 .. h.lastfree : h.node[i].key = Nil})

(* Mutant of newkey: the colliding node moves without its chain being redone. *)
newkeyLost(h, k, v) ==
  LET mp == mainposition(h, k)
      n  == getfreepos(h)
      othern == mainposition(h, h.node[mp].key)
      new == [key |-> k, dead |-> FALSE, val |-> v, next |-> 0]
  IN  IF h.node # <<>> /\ h.node[mp].val = Nil
      THEN [h EXCEPT !.node[mp] = [new EXCEPT !.next = h.node[mp].next]]
      ELSE IF n = 0 THEN luaH_set(rehash(h, k), k, v)
      ELSE IF othern # mp
           THEN [h EXCEPT !.lastfree = n - 1, !.node[n] = h.node[mp], !.node[mp] = new]
           ELSE [h EXCEPT !.lastfree = n - 1, !.node[mp].next = n,
                          !.node[n] = [new EXCEPT !.next = h.node[mp].next]]

(* newkey, with the value that is then assigned: in its main position if   *)
(* that is free, or if the node there can move, or chained behind it.      *)
newkey(h, k, v) ==
  LET mp == mainposition(h, k)
      n  == getfreepos(h)
      othern == mainposition(h, h.node[mp].key)
      previous == CHOOSE i \in Range(Chain(h, othern)) : h.node[i].next = mp  \* if othern # mp
      new == [key |-> k, dead |-> FALSE, val |-> v, next |-> 0]
  IN  IF h.node # <<>> /\ h.node[mp].val = Nil
      THEN [h EXCEPT !.node[mp] = [new EXCEPT !.next = h.node[mp].next]]
      ELSE IF n = 0 THEN luaH_set(rehash(h, k), k, v)
      ELSE IF othern # mp
           THEN [h EXCEPT !.lastfree = n - 1, 
                            !.node = [@ EXCEPT ![previous].next = n, ![n] = h.node[mp], ![mp] = new]]
           ELSE [h EXCEPT !.lastfree = n - 1, !.node[mp].next = n,
                          !.node[n] = [new EXCEPT !.next = h.node[mp].next]]

(* luaH_set and the assignment to the place it returns. *)
luaH_set(h, k, v) ==
  IF InArray(h, k) THEN [h EXCEPT !.array[k] = v]
  ELSE LET n == NodeOf(h, k, FALSE) IN
       IF n # 0 THEN [h EXCEPT !.node[n].val = v] ELSE newkey(h, k, v)

-----------------------------------------------------------------------------
(* Traversal and length.                                                   *)

(* Mutant of findindex: a dead key is not found. *)
findindexLive(h, k) ==
  IF k = Nil THEN 0 ELSE IF InArray(h, k) THEN k
  ELSE LET n == NodeOf(h, k, FALSE) IN IF n = 0 THEN -1 ELSE sizearray(h) + n

(* Mutant of findindex: the size of the array is not added for a node. *)
findindexNode(h, k) ==
  IF k = Nil THEN 0 ELSE IF InArray(h, k) THEN k
  ELSE LET n == NodeOf(h, k, TRUE) IN IF n = 0 THEN -1 ELSE n

(* The position of a key, array first; -1 if next must complain. *)
findindex(h, k) ==
  IF k = Nil THEN 0 ELSE IF InArray(h, k) THEN k
  ELSE LET n == NodeOf(h, k, TRUE) IN IF n = 0 THEN -1 ELSE sizearray(h) + n

(* luaH_next: the next key with a value, nil at the end. *)
luaH_next(h, k) ==
  LET found == {i \in findindex(h, k) + 1 .. sizearray(h) + sizenode(h) :
                  IF i <= sizearray(h) THEN h.array[i] # Nil ELSE h.node[i - sizearray(h)].val # Nil}
  IN  IF found = {} THEN Nil
      ELSE LET i == Min(found) IN IF i <= sizearray(h) THEN i ELSE h.node[i - sizearray(h)].key

getnum(h, i) == IF i \in Ints THEN luaH_get(h, i) ELSE Nil

(* A boundary between i, present or 0, and j, absent. *)
RECURSIVE BinarySearch(_, _, _)
BinarySearch(h, i, j) ==
  IF j - i <= 1 THEN i
  ELSE LET m == (i + j) \div 2 IN
       IF getnum(h, m) = Nil THEN BinarySearch(h, i, m) ELSE BinarySearch(h, m, j)

RECURSIVE LinearSearch(_, _)
LinearSearch(h, i) == IF getnum(h, i) = Nil THEN i - 1 ELSE LinearSearch(h, i + 1)

(* unbound_search: double j until it is absent, or no int any more. *)
RECURSIVE unbound_search(_, _, _)
unbound_search(h, i, j) ==
  IF getnum(h, j) = Nil THEN BinarySearch(h, i, j)
  ELSE IF j * 2 > MAX_INT THEN LinearSearch(h, 1)
  ELSE unbound_search(h, j, j * 2)

luaH_getn(h) ==
  LET j == sizearray(h) IN
  IF j > 0 /\ h.array[j] = Nil THEN BinarySearch(h, 0, j)
  ELSE IF h.node = <<>> THEN j ELSE unbound_search(h, j, j + 1)

-----------------------------------------------------------------------------
NoLoop == [on |-> FALSE, key |-> Nil, left |-> {}, error |-> FALSE]

(* luaH_new, with the sizes a table constructor asks for. *)
Init ==
  /\ hash \in Hashes
  /\ \E narray \in 0 .. 2, nhash \in {0, 2} :
       t = [array |-> setarrayvector(<<>>, narray), node |-> [i \in 1 .. nhash |-> EmptyNode],
            lastfree |-> nhash]
  /\ loop = NoLoop
  /\ map = [k \in Keys |-> Nil]

(* t[k] = v.  A loop may assign to the fields that exist, also nil. *)
Set(k, v) ==
  /\ loop.on => map[k] # Nil
  /\ v # map[k]
  /\ t' = luaH_set(t, k, v)
  /\ map' = [map EXCEPT ![k] = v]
  /\ loop' = [loop EXCEPT !.left = @ \ {k}]
  /\ UNCHANGED hash

(* OP_SETLIST makes room in the array ahead of the values. *)
Resizearray(n) ==
  /\ ~loop.on /\ n > sizearray(t)
  /\ t' = resize(t, n, sizenode(t))
  /\ UNCHANGED <<hash, loop, map>>

(* The collector finds an empty node: the key is dead. *)
removeentry(i) ==
  /\ t.node[i].val = Nil /\ t.node[i].key \in Objects /\ ~t.node[i].dead
  /\ t' = [t EXCEPT !.node[i].dead = TRUE]
  /\ UNCHANGED <<hash, loop, map>>

Begin ==
  /\ ~loop.on
  /\ loop' = [NoLoop EXCEPT !.on = TRUE, !.left = {k \in Keys : map[k] # Nil}]
  /\ UNCHANGED <<t, hash, map>>

(* One call of next by the loop. *)
Step ==
  /\ loop.on
  /\ LET k == luaH_next(t, loop.key) IN
     loop' = IF findindex(t, loop.key) = -1 THEN [loop EXCEPT !.on = FALSE, !.error = TRUE]
             ELSE IF k = Nil THEN [loop EXCEPT !.on = FALSE, !.key = Nil]
             ELSE [loop EXCEPT !.key = k, !.left = @ \ {k}]
  /\ UNCHANGED <<t, hash, map>>

(* The loop is left early, or its result used. *)
End == loop # NoLoop /\ loop' = NoLoop /\ UNCHANGED <<t, hash, map>>

Next ==
  \/ \E k \in Keys : Set(k, k) \/ Set(k, Nil)
  \/ \E n \in Ints : Resizearray(n)
  \/ \E i \in 1 .. sizenode(t) : removeentry(i)
  \/ Begin \/ Step \/ End

Spec == Init /\ [][Next]_vars

-----------------------------------------------------------------------------
TypeOK ==
  /\ t.array \in Seq(Keys \cup {Nil})
  /\ t.node \in Seq([key : Keys \cup {Nil}, dead : BOOLEAN, val : Keys \cup {Nil},
                     next : 0 .. sizenode(t)])
  /\ t.lastfree \in 0 .. sizenode(t)
  /\ hash \in Hashes
  /\ loop.key \in Keys \cup {Nil} /\ loop.left \subseteq Keys

(* Whatever the collisions, moves, rehashes and dead keys, the table holds *)
(* what was assigned, each value under its key and nothing else.           *)
ImplementsMap == \A k \in Keys : luaH_get(t, k) = map[k]

(* A key has one place with a value: an integer is not both in the array   *)
(* and in a node, or next would visit it twice.                            *)
OnePlace ==
  \A i \in 1 .. sizenode(t) : t.node[i].val # Nil =>
    /\ ~InArray(t, t.node[i].key) /\ ~t.node[i].dead
    /\ NodeOf(t, t.node[i].key, FALSE) = i

(* The manual's next: a loop that assigns to existing fields, clears some, *)
(* and is interrupted by the collector visits each key that stays, once,   *)
(* and never meets "invalid key to 'next'".                                *)
LoopComplete ==
  /\ ~loop.error
  /\ ~loop.on => loop.left = {}

VisitedOnce == [][loop.on /\ loop'.key # loop.key /\ loop'.on => loop'.key \in loop.left]_vars

(* The comment at luaH_getn: the length is a boundary, whatever the parts. *)
BoundaryFound ==
  LET n == luaH_getn(t) IN (n = 0 \/ getnum(t, n) # Nil) /\ getnum(t, n + 1) = Nil

(* "more than half elements present": a rehash never gives the array more  *)
(* than twice the elements that are in it.                                 *)
ArrayWorthIt ==
  [][\A k \in Keys : Len(t'.array) # Len(t.array) /\ map[k] = Nil /\ map'[k] = k
       => LET n == Len(t'.array) IN
          n = 0 \/ Cardinality({i \in 1 .. n : t'.array[i] # Nil}) * 2 > n]_vars

=============================================================================
