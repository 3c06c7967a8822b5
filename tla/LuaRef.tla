------------------------------- MODULE LuaRef -------------------------------
(***************************************************************************)
(* The reference store of the Lua auxiliary library: luaL_ref anchors a    *)
(* value in a table (for the engine: its two script callbacks in the       *)
(* registry) and returns an integer key, luaL_unref gives the key back.    *)
(* Free keys are chained through the table itself, slot FREELIST_REF being *)
(* the head of the chain, so the same slot holds a script value while its  *)
(* key is out and a link once the key is back.                             *)
(***************************************************************************)
EXTENDS Integers, Sequences, FiniteSets

CONSTANTS
  RefValues, \* the non-nil Lua values a client may anchor, small integers included
  NoValue,   \* Lua's nil, the content of an absent key
  MaxRef     \* bound: keys above MaxRef are never handed out

ASSUME LuaRefAssumption ==
  /\ MaxRef \in Nat \ {0}
  /\ NoValue \notin RefValues \cup Int

VARIABLES
  t,     \* the integer part of the table
  live,  \* history: the value a client anchored under a key it still holds, or nil
  free,  \* history: the keys clients gave back, the last one first
  peak   \* history: the largest number of keys ever held at once

refVars == <<t, live, free, peak>>

FREELIST_REF == 0
Refs  == 1 .. MaxRef
RefSlots == 0 .. MaxRef + 1  \* slot MaxRef + 1 stays nil: the end of the table is in view

Held     == {r \in Refs : live[r] # NoValue}
Released == {free[i] : i \in 1 .. Len(free)}

(* What lua_objlen may answer: any border of the table's array part. *)
Borders == {n \in 0 .. MaxRef : (n = 0 \/ t[n] # NoValue) /\ t[n + 1] = NoValue}

(* The head of the chain of free keys; lua_tointeger turns an absent head  *)
(* into 0.                                                                 *)
FirstFree == IF t[FREELIST_REF] = NoValue THEN 0 ELSE t[FREELIST_REF]

-----------------------------------------------------------------------------
RefInit ==
  /\ t = [k \in RefSlots |-> NoValue]
  /\ live = [r \in Refs |-> NoValue]
  /\ free = <<>>
  /\ peak = 0

(* The bookkeeping of the history variables when key r is handed out for v. *)
HandOut(r, v) ==
  /\ live' = [live EXCEPT ![r] = v]
  /\ free' = IF free = <<>> THEN <<>> ELSE Tail(free)
  /\ peak' = IF Cardinality(Held \cup {r}) > peak THEN Cardinality(Held \cup {r}) ELSE peak

(* luaL_ref of a nil value returns LUA_REFNIL and leaves the table alone: a *)
(* stuttering step.  The two actions below are luaL_ref of a value.        *)

(* Mutant of RefReuse: the key is handed out and stays in the chain. *)
RefReuseStillLinked(v) ==
  LET ref == FirstFree IN
  /\ ref # 0
  /\ t' = [t EXCEPT ![ref] = v]
  /\ HandOut(ref, v)

(* luaL_ref with a free key in the chain: unlink it and store v there. *)
RefReuse(v) ==
  LET ref == FirstFree IN
  /\ ref # 0
  /\ t' = [t EXCEPT ![FREELIST_REF] = t[ref], ![ref] = v]
  /\ HandOut(ref, v)

(* Mutant of RefFresh: the value is stored at the border itself. *)
RefFreshAtBorder(v) ==
  /\ FirstFree = 0
  /\ \E n \in Borders :
       /\ n < MaxRef
       /\ t' = [t EXCEPT ![n] = v]
       /\ HandOut(n + 1, v)

(* luaL_ref with an empty chain: store v just above a border. *)
RefFresh(v) ==
  /\ FirstFree = 0
  /\ \E n \in Borders :
       /\ n < MaxRef
       /\ t' = [t EXCEPT ![n + 1] = v]
       /\ HandOut(n + 1, v)

(* Mutant of Unref: the head is overwritten before it is linked to. *)
UnrefHeadFirst(ref) ==
  /\ ref \in Held
  /\ t' = [t EXCEPT ![FREELIST_REF] = ref, ![ref] = ref]
  /\ live' = [live EXCEPT ![ref] = NoValue]
  /\ free' = <<ref>> \o free
  /\ UNCHANGED peak

(* luaL_unref: the key becomes the head of the chain.  A client gives back *)
(* only keys it holds.                                                     *)
Unref(ref) ==
  /\ ref \in Held
  /\ t' = [t EXCEPT ![ref] = t[FREELIST_REF], ![FREELIST_REF] = ref]
  /\ live' = [live EXCEPT ![ref] = NoValue]
  /\ free' = <<ref>> \o free
  /\ UNCHANGED peak

RefNext ==
  \/ \E v \in RefValues : RefReuse(v) \/ RefFresh(v)
  \/ \E ref \in Refs : Unref(ref)

RefSpec == RefInit /\ [][RefNext]_refVars

-----------------------------------------------------------------------------
RefTypeOK ==
  /\ t \in [RefSlots -> RefValues \cup Refs \cup {NoValue}]
  /\ live \in [Refs -> RefValues \cup {NoValue}]
  /\ free \in Seq(Refs)
  /\ peak \in 0 .. MaxRef

(* A value anchored under a key is still there, unchanged, for as long as  *)
(* the client holds the key, however many other keys come and go: the chain *)
(* of free keys never runs through a key that is out.                      *)
LiveIntact == \A r \in Held : t[r] = live[r]

(* luaL_ref never returns a key somebody holds. *)
NeverReissued == [][\A r \in Held : r \in Held' => live'[r] = live[r]]_refVars

(* The table never grows while a key given back could be used instead: the *)
(* keys in circulation are exactly 1 .. peak.                              *)
Compact == Held \cup Released = 1 .. peak

(* The chain in the table is the list of the keys given back, last one first. *)
Chain ==
  /\ t[FREELIST_REF] = IF free = <<>> THEN NoValue ELSE free[1]
  /\ \A i \in 1 .. Len(free) :
       t[free[i]] = IF i = Len(free) THEN NoValue ELSE free[i + 1]
  /\ \A i, j \in 1 .. Len(free) : free[i] = free[j] => i = j
  /\ Held \cap Released = {}

(* Nothing is stored above the high-water mark, so the only border of a    *)
(* table without free keys is peak itself.                                 *)
NothingAbovePeak == \A k \in RefSlots : k > peak => t[k] = NoValue

(* The inductive invariant behind the properties above. *)
RefIInv == RefTypeOK /\ LiveIntact /\ Compact /\ Chain /\ NothingAbovePeak

=============================================================================
