---------------------------- MODULE MessagePipe ----------------------------
(***************************************************************************)
(* What LuaServer promises the script: it hears of a connection before any *)
(* of the connection's messages, and it is handed every message the codec  *)
(* extracted, once, in the order of extraction over all connections.       *)
(***************************************************************************)
EXTENDS Naturals, Sequences

CONSTANT Conns

VARIABLES
  announced,  \* the connections the script was told about
  from,       \* from[n] is the connection of the n-th message extracted
  handled     \* the messages handed to the script

vars == <<announced, from, handled>>

Init ==
  /\ announced = {}
  /\ from = <<>>
  /\ handled = <<>>

Announce(c) ==
  /\ c \notin announced
  /\ announced' = announced \cup {c}
  /\ UNCHANGED <<from, handled>>

Arrive(c) ==
  /\ c \in announced
  /\ from' = Append(from, c)
  /\ UNCHANGED <<announced, handled>>

Handle ==
  /\ Len(handled) < Len(from)
  /\ handled' = Append(handled, Len(handled) + 1)
  /\ UNCHANGED <<announced, from>>

Next == (\E c \in Conns : Announce(c) \/ Arrive(c)) \/ Handle

(* Every message is handed over in the end. *)
Spec == Init /\ [][Next]_vars /\ WF_vars(Handle)

=============================================================================
