---------------------------- MODULE TinkerClass ----------------------------
(***************************************************************************)
(* The fields of C++ objects in scripts (lua_tinker.cpp, meta_get and      *)
(* meta_set).  A class is a table in the globals, the metatable of its     *)
(* objects, with the table of its base class under "__parent".  It holds   *)
(* methods, member variables, which lead into the C++ object, and what     *)
(* scripts assigned to names the class does not know: such a field is the  *)
(* class's, whichever object it was assigned through.  Pushing a null      *)
(* pointer gives the class's metatable to nil, for every script: nil then  *)
(* has the class's fields too, but no C++ object behind them.              *)
(***************************************************************************)
EXTENDS Integers, Sequences

CONSTANTS
  Classes,      \* registered C++ classes
  Base,         \* the base class of a class, or Nothing
  Depth,        \* how far down a class is in its hierarchy
  Instances,    \* C++ objects scripts hold
  Keys,         \* names of fields
  FieldValues,  \* values of variables and fields
  Nothing

(* No class is above itself. *)
ASSUME ClassParameters ==
  /\ Nothing \notin Classes \cup Instances
  /\ Depth \in [Classes -> Nat]
  /\ \A c \in Classes : Base[c] # Nothing => Base[c] \in Classes /\ Depth[Base[c]] < Depth[c]

VARIABLES
  added,      \* the classes class_add has made tables for
  meta,       \* what those tables hold under each key
  parent,     \* their "__parent"
  object,     \* the class of each object, Nothing if not made
  member,     \* the C++ variables of each object
  nilmeta,    \* the class whose metatable nil has, or Nothing
  first       \* what a script assigned first to a name of a class: history

classVars == <<added, meta, parent, object, member, nilmeta, first>>

(* What a slot of the Lua stack holds. *)
Entry(t, x) == [t |-> t, x |-> x]
NilValue == Entry("nil", Nothing)
Method   == Entry("method", Nothing)
Variable == Entry("userdata", "mem_var")
Data(v)  == Entry("data", v)
Table(c) == Entry("table", c)
Wild     == Entry("undefined", Nothing)    \* what no definition says

(* A userdata a script stores: an object, as if it were a mem_var. *)
Stored == Entry("userdata", "object")

ClassInit ==
  /\ added = {}
  /\ meta = [c \in Classes |-> [k \in Keys |-> NilValue]]
  /\ parent = [c \in Classes |-> Nothing]
  /\ object = [o \in Instances |-> Nothing]
  /\ member = [o \in Instances |-> [k \in Keys |-> Nothing]]
  /\ nilmeta = Nothing
  /\ first = [c \in Classes |-> [k \in Keys |-> NilValue]]

-----------------------------------------------------------------------------
Top(S)        == S[Len(S)]
RemoveSecond(S) == Append(SubSeq(S, 1, Len(S) - 2), Top(S))

(* The stacks that end with the table of a class; the key is the second.   *)
Entries == [t : {"nil", "method", "userdata", "data", "table", "object", "key", "undefined"},
            x : {"mem_var", "object", Nothing} \cup Classes \cup Instances \cup Keys \cup FieldValues]
Stacks ==
  {S \in Seq(Entries) : Len(S) >= 3 /\ S[2].x \in Keys /\ Top(S).t = "table" /\ Top(S).x \in Classes}

invoke_parent[S \in Stacks] ==
  LET p == parent[Top(S).x]
      u == meta[p][S[2].x]
  IN  IF p = Nothing THEN Append(S, NilValue)
      ELSE IF u # NilValue THEN RemoveSecond(S \o <<Table(p), u>>)
      ELSE RemoveSecond(invoke_parent[Append(S, Table(p))])

(* The class of an object, or of nil, here Nothing. *)
ClassOf(o) == IF o = Nothing THEN nilmeta ELSE object[o]

(* var_base::get of what the class holds: only a mem_var has it, and nil   *)
(* is refused.                                                             *)
get(u, o, k) ==
  CASE u # Variable -> Wild
    [] u = Variable /\ o = Nothing -> NilValue
    [] u = Variable /\ o # Nothing -> Data(member[o][k])

(* Mutant of meta_get: the class's table stays under what its bases say. *)
meta_getKeeping(o, k) ==
  LET c == ClassOf(o)
      S == <<Entry("object", o), Entry("key", k), Table(c)>>
      u == meta[c][k]
  IN  CASE u.t = "userdata" -> RemoveSecond(Append(S, get(u, o, k)))
        [] u.t = "nil"      -> invoke_parent[S]
        [] u.t \notin {"userdata", "nil"} -> RemoveSecond(Append(S, u))

(* meta_get: the stack after a read of o's field k; an error is NilValue.  *)
meta_get(o, k) ==
  LET c == ClassOf(o)
      S == <<Entry("object", o), Entry("key", k), Table(c)>>
      u == meta[c][k]
  IN  CASE u.t = "userdata" -> RemoveSecond(Append(S, get(u, o, k)))
        [] u.t = "nil"      -> RemoveSecond(invoke_parent[S])
        [] u.t \notin {"userdata", "nil"} -> RemoveSecond(Append(S, u))

-----------------------------------------------------------------------------
class_add(c) ==
  /\ c \notin added
  /\ added' = added \cup {c}
  /\ UNCHANGED <<meta, parent, object, member, nilmeta, first>>

(* class_inh: a base class that is not there yet leaves no parent. *)
class_inh(c) ==
  /\ c \in added
  /\ parent' = [parent EXCEPT ![c] = IF Base[c] \in added THEN Base[c] ELSE Nothing]
  /\ UNCHANGED <<added, meta, object, member, nilmeta, first>>

(* class_def and class_mem replace what scripts put there. *)
Enter(c, k, u) ==
  /\ c \in added
  /\ meta' = [meta EXCEPT ![c][k] = u]
  /\ first' = [first EXCEPT ![c][k] = NilValue]
  /\ UNCHANGED <<added, parent, object, member, nilmeta>>

class_def(c, k) == Enter(c, k, Method)
class_mem(c, k) == Enter(c, k, Variable)

constructor(o, c, v) ==
  /\ object[o] = Nothing
  /\ c \in added
  /\ object' = [object EXCEPT ![o] = c]
  /\ member' = [member EXCEPT ![o] = [k \in Keys |-> v]]
  /\ UNCHANGED <<added, meta, parent, nilmeta, first>>

(* ptr2lua of a null pointer pushes nil, object2lua sets its metatable.    *)
PushNull(c) ==
  /\ nilmeta' = IF c \in added THEN c ELSE Nothing
  /\ UNCHANGED <<added, meta, parent, object, member, first>>

(* meta_set: a variable is assigned in the object, a name the class does   *)
(* not have in the class's table; whatever else is there stays as it is    *)
(* (on a stored userdata set is called as on a variable: undefined).       *)
meta_set(o, k, u) ==
  LET c == ClassOf(o)
  IN  /\ c # Nothing
      /\ \/ /\ meta[c][k] = Variable
            /\ u.t = "data" /\ o # Nothing
            /\ member' = [member EXCEPT ![o][k] = u.x]
            /\ UNCHANGED <<meta, first>>
         \/ /\ meta[c][k] = NilValue
            /\ meta' = [meta EXCEPT ![c][k] = u]
            /\ first' = [first EXCEPT ![c][k] = u]
            /\ UNCHANGED member
         \/ /\ meta[c][k].t \in {"method", "data"}
            /\ UNCHANGED <<meta, member, first>>
      /\ UNCHANGED <<added, parent, object, nilmeta>>

ClassNext ==
  \/ \E c \in Classes : class_add(c) \/ class_inh(c) \/ PushNull(c)
  \/ \E c \in Classes, k \in Keys : class_def(c, k) \/ class_mem(c, k)
  \/ \E o \in Instances, c \in Classes, v \in FieldValues : constructor(o, c, v)
  \/ \E o \in Instances \cup {Nothing}, k \in Keys, u \in {Data(v) : v \in FieldValues} \cup {Stored} : meta_set(o, k, u)

ClassSpec == ClassInit /\ [][ClassNext]_classVars

-----------------------------------------------------------------------------
(* The classes above c: its parent, the parent's parent and so on. *)
Above(c) ==
  {p \in Classes : \A S \in SUBSET Classes :
     ({parent[c]} \cup {parent[q] : q \in S}) \ {Nothing} \subseteq S => p \in S}

Inherited(c, k) ==
  LET has == {p \in Above(c) : meta[p][k] # NilValue}
  IN  IF has = {} THEN NilValue
      ELSE meta[CHOOSE p \in has : \A q \in has : Depth[q] <= Depth[p]][k]

(* A read leaves one value above its arguments: the variable in the object *)
(* itself, or what the nearest class says - for an inherited variable the  *)
(* userdata that stands for it, not its value - and it is undefined only   *)
(* where a script stored a userdata in the class (meta_get, invoke_parent).*)
ReadsNearest ==
  \A o \in Instances \cup {Nothing}, k \in Keys : ClassOf(o) # Nothing =>
    LET S == meta_get(o, k)
        u == meta[ClassOf(o)][k]
    IN  /\ Len(S) = 3
        /\ Top(S) = CASE u = NilValue      -> Inherited(ClassOf(o), k)
                      [] u = Variable -> get(u, o, k)
                      [] u = Stored   -> Wild
                      [] u \notin {NilValue, Variable, Stored} -> u

(* What a script first assigns to a name the class does not have is what   *)
(* all objects of the class have there until C++ registers the name: later *)
(* assignments, through whatever object, are dropped (meta_set).           *)
FirstStays ==
  \A c \in Classes, k \in Keys : first[c][k] = NilValue \/ meta[c][k] = first[c][k]

FieldsAgree == ReadsNearest /\ FirstStays
=============================================================================
