---------------------------- MODULE TinkerTable ----------------------------
(***************************************************************************)
(* lua_tinker's table handles.  A handle (table) shares a table_obj, which *)
(* counts its handles and remembers a slot of the Lua stack and the address *)
(* of the table in it.  The table_obj owns that slot: it is taken off the  *)
(* stack with the last handle.  Slots move when one below them goes; a     *)
(* table_obj that does not find its table where it was searches the stack. *)
(***************************************************************************)
EXTENDS Integers, Sequences, SequencesExt, FiniteSets

CONSTANTS
  Handles,   \* the table variables of the C++ program
  Tables,    \* the addresses of Lua tables
  Names,     \* the names of global tables
  Nil,       \* Lua's nil, a null pointer
  NoObj,     \* no table_obj, no handle
  MaxStack   \* bound: slots of the stack

VARIABLES
  stack,    \* the stack above what the C++ function was called with
  globals,  \* the global table of each name
  objs,     \* the table_objs, or NoObj when deleted: [index, pointer, ref], and
            \* named, whether table(L, name) made it
  m_obj     \* the table_obj of each handle

tableVars == <<stack, globals, objs, m_obj>>

Ids  == 1 .. Cardinality(Handles)
Live == {o \in Ids : objs[o] # NoObj}
Objs == [index : 1 .. MaxStack, pointer : Tables \cup {Nil}, ref : Int, named : BOOLEAN]

(* What is assumed of the parameters. *)
TableParameters ==
  /\ IsFiniteSet(Handles) /\ MaxStack \in Nat
  /\ Nil \notin Tables
  /\ NoObj \notin Objs /\ NoObj \notin Ids

(* An address with no table: on the stack nor global. *)
Fresh == {t \in Tables : (\A i \in 1 .. Len(stack) : stack[i] # t)
                         /\ (\A n \in Names : globals[n] # t)}

TableInit ==
  /\ stack = <<>>
  /\ globals \in [Names -> Tables \cup {Nil}]
  /\ objs = [o \in Ids |-> NoObj]
  /\ m_obj = [h \in Handles |-> NoObj]

-----------------------------------------------------------------------------

(* table_obj::validate: the slot of the table, 0 if it is gone. *)
Slot(o) ==
  LET p == objs[o].pointer
      i == objs[o].index
      at == {j \in 1 .. Len(stack) : stack[j] = p}
  IN  IF p = Nil \/ at = {} THEN 0
      ELSE IF i \in at THEN i
      ELSE CHOOSE j \in at : \A k \in at : j <= k

(* What validate leaves in the object. *)
Validated(o) ==
  IF Slot(o) = 0 THEN [objs[o] EXCEPT !.pointer = Nil]
                 ELSE [objs[o] EXCEPT !.index = Slot(o)]

(* A handle on a new table_obj for the slot that is now on top. *)
Hold(h, v, named) ==
  /\ m_obj[h] = NoObj /\ Len(stack) < MaxStack
  /\ stack' = Append(stack, v)
  /\ \E o \in Ids \ (Live \cup {m_obj[k] : k \in Handles}) :
       /\ objs' = [objs EXCEPT ![o] = [index |-> Len(stack) + 1, pointer |-> v,
                                      ref |-> IF named THEN 0 ELSE 1, named |-> named]]
       /\ m_obj' = [m_obj EXCEPT ![h] = o]

(* table(L): a new table. *)
New(h) ==
  /\ \E t \in Fresh : Hold(h, t, FALSE)
  /\ UNCHANGED globals

(* table(L, name): the global table, made if there is none.  This object   *)
(* starts without a reference.                                             *)
FromName(h, n) ==
  /\ \/ /\ globals[n] # Nil
        /\ Hold(h, globals[n], TRUE)
        /\ UNCHANGED globals
     \/ /\ globals[n] = Nil
        /\ \E t \in Fresh : /\ Hold(h, t, TRUE)
                            /\ globals' = [globals EXCEPT ![n] = t]

(* get<table> of a field, pop<table>: the value is pushed and stays as the *)
(* slot of table(L, index), a table or, for a missing field, nil.          *)
Get(h) ==
  /\ \E v \in Tables \cup {Nil} : Hold(h, v, FALSE)
  /\ UNCHANGED globals

(* Mutant of Copy: the reference is not counted. *)
CopyUncounted(h, k) ==
  /\ m_obj[h] # NoObj /\ m_obj[k] = NoObj
  /\ m_obj' = [m_obj EXCEPT ![k] = m_obj[h]]
  /\ objs[m_obj[h]] # NoObj
  /\ UNCHANGED <<stack, globals, objs>>

(* table(const table&). *)
Copy(h, k) ==
  /\ m_obj[h] # NoObj /\ m_obj[k] = NoObj
  /\ objs[m_obj[h]] # NoObj
  /\ m_obj' = [m_obj EXCEPT ![k] = m_obj[h]]
  /\ objs' = [objs EXCEPT ![m_obj[h]].ref = @ + 1]
  /\ UNCHANGED <<stack, globals>>

(* Mutant of Release: the slot is dropped without validate. *)
ReleaseUnvalidated(h) ==
  LET o == m_obj[h] IN
  /\ o # NoObj /\ objs[o] # NoObj
  /\ m_obj' = [m_obj EXCEPT ![h] = NoObj]
  /\ IF objs[o].ref - 1 # 0
     THEN /\ objs' = [objs EXCEPT ![o].ref = @ - 1]
          /\ UNCHANGED stack
     ELSE /\ objs' = [objs EXCEPT ![o] = NoObj]
          /\ stack' = IF objs[o].index <= Len(stack) THEN RemoveAt(stack, objs[o].index) ELSE stack
  /\ UNCHANGED globals

(* ~table: dec_ref, and ~table_obj with the last reference. *)
Release(h) ==
  LET o == m_obj[h] IN
  /\ o # NoObj /\ objs[o] # NoObj
  /\ m_obj' = [m_obj EXCEPT ![h] = NoObj]
  /\ IF objs[o].ref - 1 # 0
     THEN /\ objs' = [objs EXCEPT ![o].ref = @ - 1]
          /\ UNCHANGED stack
     ELSE /\ objs' = [objs EXCEPT ![o] = NoObj]
          /\ stack' = IF Slot(o) = 0 THEN stack ELSE RemoveAt(stack, Slot(o))
  /\ UNCHANGED globals

(* table::set and get of a plain value: validate and leave the stack as it *)
(* was.                                                                    *)
Use(h) ==
  LET o == m_obj[h] IN
  /\ o # NoObj /\ objs[o] # NoObj
  /\ objs' = [objs EXCEPT ![o] = Validated(o)]
  /\ UNCHANGED <<stack, globals, m_obj>>

TableNext ==
  \E h \in Handles :
    \/ New(h) \/ Get(h) \/ Release(h) \/ Use(h)
    \/ \E n \in Names : FromName(h, n)
    \/ \E k \in Handles : Copy(h, k)

TableSpec == TableInit /\ [][TableNext]_tableVars

-----------------------------------------------------------------------------
TableTypeOK ==
  /\ stack \in Seq(Tables \cup {Nil}) /\ Len(stack) <= MaxStack
  /\ globals \in [Names -> Tables \cup {Nil}]
  /\ objs \in [Ids -> Objs \cup {NoObj}]
  /\ m_obj \in [Handles -> Ids \cup {NoObj}]

(* No handle is left with a table_obj that another one deleted: every      *)
(* handle counts, as the comment in table(L) asks for (inc_ref, dec_ref).  *)
HandleAlive == \A h \in Handles : m_obj[h] # NoObj => objs[m_obj[h]] # NoObj

(* The count of a table_obj is the number of its handles, so that it is    *)
(* there for as long as one is and no longer; one less when it was made    *)
(* from a name.                                                            *)
CountIsHandles ==
  \A o \in Live : LET n == Cardinality({h \in Handles : m_obj[h] = o}) IN
    IF objs[o].named THEN objs[o].ref = n - 1 ELSE objs[o].ref = n /\ n > 0

(* A table_obj not made from a name goes with its last handle, under none. *)
DeletedWithLast ==
  [][\A o \in Live : objs'[o] = NoObj /\ ~objs[o].named => \A h \in Handles : m_obj'[h] # o]_tableVars

(* However handles and slots come and go, and even when several objects    *)
(* stand for one table, every object has a slot of its own: a handle       *)
(* always finds its table, and no slot outlives its object.                *)
SlotForEach ==
  \A t \in Tables : Cardinality({i \in 1 .. Len(stack) : stack[i] = t})
                    = Cardinality({o \in Live : objs[o].pointer = t})

(* Slots, objects and handles, counted. *)
SlotPerObject == TableTypeOK /\ SlotForEach /\ CountIsHandles

(* A table_obj made on a table finds that table for as long as it lives:   *)
(* validate never gives it up because slots below it went.                 *)
TableKept == [][\A o \in Live : objs'[o] # NoObj => objs'[o].pointer = objs[o].pointer]_tableVars

(* What a handle may rely on as long as it is there. *)
HandlesKeep == TableKept /\ DeletedWithLast

=============================================================================
