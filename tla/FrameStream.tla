---------------------------- MODULE FrameStream ----------------------------
(***************************************************************************)
(* What a peer of LengthHeaderCodec may rely on: the messages of a         *)
(* connection reach the queue callback unchanged, in the order they were   *)
(* sent and once each, up to the first one the receiver does not accept,   *)
(* which ends the stream, as the loss of the connection does.              *)
(***************************************************************************)
EXTENDS Naturals, Sequences

CONSTANTS
  Messages,    \* what the peer may send
  Acceptable   \* the messages the receiver takes

VARIABLES
  outbox,   \* the messages the peer sent
  inbox,    \* the messages the callback got
  conn      \* "up", "shut" by the receiver, or "down"

vars == <<outbox, inbox, conn>>

Init ==
  /\ outbox = <<>>
  /\ inbox = <<>>
  /\ conn = "up"

Send(m) ==
  /\ outbox' = Append(outbox, m)
  /\ UNCHANGED <<inbox, conn>>

HasNext == conn = "up" /\ Len(inbox) < Len(outbox)
NextMessage == outbox[Len(inbox) + 1]

Deliver ==
  /\ HasNext
  /\ NextMessage \in Acceptable
  /\ inbox' = Append(inbox, NextMessage)
  /\ UNCHANGED <<outbox, conn>>

(* Only an unacceptable message makes the receiver shut a connection. *)
Refuse ==
  /\ HasNext
  /\ NextMessage \notin Acceptable
  /\ conn' = "shut"
  /\ UNCHANGED <<outbox, inbox>>

Lose ==
  /\ conn' = "down"
  /\ UNCHANGED <<outbox, inbox>>

Next == (\E m \in Messages : Send(m)) \/ Deliver \/ Refuse \/ Lose

Spec == Init /\ [][Next]_vars /\ WF_vars(Deliver) /\ WF_vars(Refuse)

=============================================================================
