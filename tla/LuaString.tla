----------------------------- MODULE LuaString -----------------------------
(***************************************************************************)
(* The strings of lstring.c: equal strings are one object, found through a *)
(* hash table that grows and shrinks while the collector sweeps it bucket  *)
(* by bucket, and that may hand out a string the collector has given up.   *)
(* A string is known by an identity; its content is what must be unique.   *)
(* The order of the strings in a bucket is left open.                      *)
(***************************************************************************)
EXTENDS Integers, Sequences, FiniteSets

CONSTANTS
  Contents,       \* the contents; each is its hash, a natural number
  Ids,            \* identities of string objects
  None,           \* the content of an identity that is not in use
  MINSTRTABSIZE   \* the size of the first table

(* What is assumed of the parameters. *)
StringParameters ==
  /\ Contents \subseteq Nat /\ None \notin Contents
  /\ IsFiniteSet(Ids)
  /\ MINSTRTABSIZE \in Nat \ {0}

VARIABLES
  strt,         \* the buckets, each a set of identities
  nuse,         \* g->strt.nuse
  content,      \* the content of each identity
  marked,       \* black, or which of the two whites
  currentwhite, \* 0 or 1
  gcstate,      \* "pause", "sweepstring" or "sweep"
  sweepstrgc,   \* how many buckets are swept
  held          \* the strings that the program holds

stringVars == <<strt, nuse, content, marked, currentwhite, gcstate, sweepstrgc, held>>

size == Len(strt)

(* lmod: the bucket of a content in a table of n buckets. *)
lmod(c, n) == (c % n) + 1

black == 2

isdead(i) == marked[i] = 1 - currentwhite

-----------------------------------------------------------------------------

(* Every string is put into its new bucket. *)
luaS_resize(table, n) ==
  [b \in 1 .. n |->
     {i \in UNION {table[k] : k \in 1 .. Len(table)} : lmod(content'[i], n) = b}]

(* Mutant of Found: a dead string is handed out as it is. *)
FoundDead(i) == held' = held \cup {i} /\ UNCHANGED <<strt, nuse, content, marked>>

(* luaS_newlstr meets the string: it may be dead. *)
Found(i) ==
  /\ held' = held \cup {i}
  /\ marked' = [marked EXCEPT ![i] = IF isdead(i) THEN currentwhite ELSE @]
  /\ UNCHANGED <<strt, nuse, content>>

(* newlstr: a new string in its bucket; a table too crowded is doubled,    *)
(* but not while the collector goes over its buckets.                      *)
newlstr(c) ==
  /\ \E j \in Ids : content[j] = None
  /\ LET i == CHOOSE j \in Ids : content[j] = None IN
    /\ content' = [content EXCEPT ![i] = c]
    /\ marked' = [marked EXCEPT ![i] = currentwhite]
    /\ nuse' = nuse + 1
    /\ held' = held \cup {i}
    /\ LET chained == [strt EXCEPT ![lmod(c, size)] = @ \cup {i}] IN
       strt' = IF nuse' > size /\ gcstate # "sweepstring"
               THEN luaS_resize(chained, size * 2) ELSE chained

luaS_newlstr(c) ==
  /\ LET at == {i \in strt[lmod(c, size)] : content[i] = c}
     IN  IF at # {} THEN \E i \in at : Found(i) ELSE newlstr(c)
  /\ UNCHANGED <<currentwhite, gcstate, sweepstrgc>>

(* The program gives a string up. *)
Drop(i) ==
  /\ held' = held \ {i}
  /\ UNCHANGED <<strt, nuse, content, marked, currentwhite, gcstate, sweepstrgc>>

-----------------------------------------------------------------------------
(* atomic, with the marking before it: what the program holds is black,    *)
(* what is white of the other colour is dead from now on.                  *)
atomic ==
  /\ gcstate = "pause"
  /\ marked' = [i \in Ids |-> IF i \in held THEN black ELSE marked[i]]
  /\ currentwhite' = 1 - currentwhite
  /\ gcstate' = "sweepstring" /\ sweepstrgc' = 0
  /\ UNCHANGED <<strt, nuse, content, held>>

(* luaC_fullgc before the marking has ended: what is marked is forgotten,  *)
(* and a sweep without new dead begins.                                    *)
luaC_fullgc ==
  /\ gcstate = "pause"
  /\ gcstate' = "sweepstring" /\ sweepstrgc' = 0
  /\ UNCHANGED <<strt, nuse, content, marked, currentwhite, held>>

(* GCSsweepstring: one bucket. *)
SweepString ==
  /\ gcstate = "sweepstring"
  /\ LET b    == sweepstrgc + 1
         gone == {i \in strt[b] : isdead(i)}
     IN  /\ strt' = [strt EXCEPT ![b] = @ \ gone]
         /\ marked' = [i \in Ids |-> IF i \in gone THEN 0
                                   ELSE IF i \in strt[b] THEN currentwhite ELSE marked[i]]
         /\ content' = [i \in Ids |-> IF i \in gone THEN None ELSE content[i]]
         /\ nuse' = nuse - Cardinality(gone)
         /\ gcstate' = IF b >= size THEN "sweep" ELSE gcstate
  /\ sweepstrgc' = sweepstrgc + 1
  /\ UNCHANGED <<currentwhite, held>>

(* checkSizes, when the sweep ends: a table that is too big is halved. *)
checkSizes ==
  /\ gcstate = "sweep"
  /\ gcstate' = "pause"
  /\ UNCHANGED <<nuse, content, marked, currentwhite, sweepstrgc, held>>
  /\ strt' = IF nuse < size \div 4 /\ size > MINSTRTABSIZE * 2
             THEN luaS_resize(strt, size \div 2) ELSE strt

StringInit ==
  /\ strt = [b \in 1 .. MINSTRTABSIZE |-> {}]
  /\ nuse = 0 /\ content = [i \in Ids |-> None]
  /\ marked = [i \in Ids |-> 0] /\ currentwhite = 0
  /\ gcstate = "pause" /\ sweepstrgc = 0 /\ held = {}

StringNext ==
  \/ \E c \in Contents : luaS_newlstr(c)
  \/ \E i \in held : Drop(i)
  \/ atomic \/ luaC_fullgc \/ SweepString \/ checkSizes

StringSpec == StringInit /\ [][StringNext]_stringVars

-----------------------------------------------------------------------------
StringTypeOK ==
  /\ strt \in Seq(SUBSET Ids)
  /\ content \in [Ids -> Contents \cup {None}]
  /\ marked \in [Ids -> {0, 1, black}]
  /\ currentwhite \in {0, 1} /\ gcstate \in {"pause", "sweepstring", "sweep"}
  /\ nuse \in 0 .. Cardinality(Ids) /\ held \subseteq Ids

(* What makes comparing pointers enough for strings: no two objects have   *)
(* the same content, whatever was freed, revived or moved in between.      *)
OneObjectPerContent ==
  \A i, j \in Ids : content[i] = content[j] /\ content[i] # None => i = j

(* A string that the program holds is never given up by the sweep that is  *)
(* going on, and is counted and in the table.                              *)
HeldStays ==
  /\ \A i \in held : content[i] # None
  /\ nuse = Cardinality({i \in Ids : content[i] # None})
  /\ \A i \in Ids : content[i] # None => \E b \in 1 .. size : i \in strt[b]

StringsUnique == StringTypeOK /\ OneObjectPerContent /\ HeldStays

(* Every string is in the bucket of its content, and in no other. *)
InBucket ==
  /\ size > 0
  /\ \A i \in Ids : \A b \in 1 .. size :
       i \in strt[b] <=> content[i] # None /\ lmod(content[i], size) = b

(* Nothing dead is left in the buckets that are swept, which are all when  *)
(* no sweep of the strings is going on; and what the program holds is not  *)
(* dead, at any time.                                                      *)
Swept(b) == gcstate = "sweepstring" => b <= sweepstrgc
NoDead ==
  /\ sweepstrgc \in Nat /\ (gcstate = "sweepstring" => sweepstrgc < size)
  /\ \A b \in 1 .. size : Swept(b) => \A i \in strt[b] : ~isdead(i)
  /\ \A i \in held : ~isdead(i)

StringIInv == StringsUnique /\ InBucket /\ NoDead

=============================================================================
