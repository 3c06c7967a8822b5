----------------------------- MODULE ChatClient -----------------------------
(***************************************************************************)
(* The chat client's two threads.  The main thread reads lines and writes  *)
(* each to connection_, under mutex_; the event loop connects, sets and    *)
(* resets connection_ in onConnection, under mutex_ too, and connects      *)
(* again when a connection is lost.  send, called outside the loop, leaves *)
(* the bytes to the loop as a functor.  At the end main's locals go in the *)
(* reverse order: first the client, then the EventLoopThread, which has    *)
(* the loop quit and waits for it.  muduo's TcpClient, TcpConnection and   *)
(* event loop are modelled as far as Client.cc uses them.                  *)
(***************************************************************************)
EXTENDS Naturals, Sequences

CONSTANTS
  None,      \* no connection
  MaxLines,  \* bound: the number of lines typed
  MaxConns   \* bound: the number of connections established

ClientParameters == None \notin Nat /\ MaxLines \in Nat /\ MaxConns \in Nat

VARIABLES
  typing,       \* where the main thread is
  loop,         \* where the event loop is
  clientMutex,  \* the owner of mutex_: "main", "loop" or "free"
  connection_,  \* the client's connection, a number, or None
  ptr,          \* main's get_pointer(connection_)
  retry,        \* TcpClient::connect_: connect again after a loss
  client,       \* TcpClient::connection_, the number of the connection or None
  state,        \* the state of the last connection
  count,        \* the number of connections established
  functors,     \* the loop's pending functors: lines to send
  target,       \* history: target[k] is the connection line k was written to, or None
  written       \* history: the lines put on the wire, with their connections

typingVars == <<typing, ptr, target>>
tcpVars == <<retry, client, state, count>>
clientVars == <<typingVars, loop, clientMutex, connection_, tcpVars, functors, written>>

ClientInit ==
  /\ typing = "type" /\ loop = "poll" /\ clientMutex = "free"
  /\ connection_ = None /\ ptr = None
  /\ retry = TRUE /\ client = None /\ state = "connecting" /\ count = 0
  /\ functors = <<>>
  /\ target = <<>> /\ written = <<>>

-----------------------------------------------------------------------------
(* The main thread: getline and write. *)
TypeLine ==
  /\ typing = "type" /\ typing' = "lock"
  /\ Len(target) < MaxLines
  /\ UNCHANGED <<ptr, target, loop, clientMutex, connection_, tcpVars, functors, written>>

(* Mutant of LockToWrite: connection_ is looked at before the lock is taken. *)
LookUnlocked ==
  /\ typing = "lock" /\ typing' = "send"
  /\ ptr' = connection_
  /\ target' = Append(target, connection_)
  /\ UNCHANGED <<loop, clientMutex, connection_, tcpVars, functors, written>>

(* The lock is taken and connection_ looked at. *)
LockToWrite ==
  /\ typing = "lock" /\ typing' = "send"
  /\ clientMutex = "free" /\ clientMutex' = "main"
  /\ ptr' = connection_
  /\ target' = Append(target, connection_)
  /\ UNCHANGED <<loop, connection_, tcpVars, functors, written>>

(* codec_.send, if there is a connection: TcpConnection::send takes the    *)
(* line when the connection is up.  The lock goes.                         *)
Write ==
  /\ typing = "send" /\ typing' = "type"
  /\ functors' = IF ptr # None /\ ptr = count /\ state = "connected"
                 THEN Append(functors, [line |-> Len(target), conn |-> ptr])
                 ELSE functors
  /\ clientMutex' = "free"
  /\ ptr' = None
  /\ UNCHANGED <<target, loop, connection_, tcpVars, written>>

(* The end of the input: TcpClient::disconnect, no more connections after  *)
(* the one that is there, which is half closed.                            *)
EndOfInput ==
  /\ typing = "type" /\ typing' = "sleep"
  /\ retry' = FALSE
  /\ state' = IF client # None /\ state = "connected" THEN "disconnecting" ELSE state
  /\ UNCHANGED <<ptr, target, loop, clientMutex, connection_, client, count, functors, written>>

(* A second later the client is destroyed, whatever has happened: its      *)
(* connection_ and its TcpClient are gone, without the lock, while the     *)
(* loop goes on with the connection there is and with its functors.        *)
Destroy ==
  /\ typing = "sleep" /\ typing' = "destroyed"
  /\ connection_' = None /\ client' = None
  /\ UNCHANGED <<ptr, target, loop, clientMutex, retry, state, count, functors, written>>

(* ~EventLoopThread: the loop is told to quit, and waited for. *)
QuitLoop ==
  /\ typing = "destroyed" /\ typing' = "join"
  /\ UNCHANGED <<ptr, target, loop, clientMutex, connection_, tcpVars, functors, written>>

Joined ==
  /\ typing = "join" /\ loop = "ended" /\ typing' = "ended"
  /\ UNCHANGED <<ptr, target, loop, clientMutex, connection_, tcpVars, functors, written>>

(* There is no client any more. *)
Gone == typing \in {"destroyed", "join", "ended"}

-----------------------------------------------------------------------------
(* The event loop: a connection is established, onConnection is called.    *)
(* ~TcpClient has stopped the connector.                                   *)
Established ==
  /\ loop = "poll" /\ ~ Gone /\ loop' = "up"
  /\ state = "connecting" /\ state' = "connected"
  /\ count < MaxConns /\ count' = count + 1
  /\ client' = count + 1
  /\ UNCHANGED <<typingVars, clientMutex, connection_, retry, functors, written>>

(* The connection is lost or the peer closes it; onConnection is called.   *)
Lost ==
  /\ loop = "poll" /\ loop' = "down"
  /\ state \in {"connected", "disconnecting"} /\ state' = "disconnected"
  /\ UNCHANGED <<typingVars, clientMutex, connection_, retry, client, count, functors, written>>

(* onConnection waits for the lock. *)
LockToSet ==
  /\ loop \in {"up", "down"} /\ ~ Gone
  /\ clientMutex = "free" /\ clientMutex' = "loop"
  /\ loop' = IF loop = "up" THEN "set" ELSE "reset"
  /\ UNCHANGED <<typingVars, connection_, tcpVars, functors, written>>

(* Mutant of SetConnection: a local variable of that name is set. *)
SetLocal ==
  /\ loop = "set" /\ ~ Gone /\ loop' = "poll"
  /\ clientMutex' = "free"
  /\ UNCHANGED <<typingVars, connection_, tcpVars, functors, written>>

SetConnection ==
  /\ loop = "set" /\ ~ Gone /\ loop' = "poll"
  /\ connection_' = client
  /\ clientMutex' = "free"
  /\ UNCHANGED <<typingVars, tcpVars, functors, written>>

(* connection_.reset(), and back in TcpClient::removeConnection the client *)
(* connects again unless it was disconnected.                              *)
ResetConnection ==
  /\ loop = "reset" /\ ~ Gone /\ loop' = "poll"
  /\ connection_' = None
  /\ clientMutex' = "free"
  /\ client' = None
  /\ state' = IF retry THEN "connecting" ELSE "idle"
  /\ UNCHANGED <<typingVars, retry, count, functors, written>>

(* onConnection of a client that is destroyed, or is being destroyed while *)
(* it runs: undefined behaviour, not followed.                             *)
OnDestroyed ==
  /\ loop \in {"up", "down", "set", "reset"} /\ Gone
  /\ loop' = "undefined"
  /\ UNCHANGED <<typingVars, clientMutex, connection_, tcpVars, functors, written>>

(* A pending functor: sendInLoop, which gives up on a connection that is   *)
(* down.                                                                   *)
SendInLoop ==
  /\ loop = "poll" /\ functors # <<>>
  /\ functors' = Tail(functors)
  /\ written' = IF Head(functors).conn = count /\ state \in {"connected", "disconnecting"}
                THEN Append(written, Head(functors)) ELSE written
  /\ UNCHANGED <<typingVars, loop, clientMutex, connection_, tcpVars>>

(* The loop was told to quit and has run the functors of its last round;   *)
(* the ones queued since are never run.                                    *)
EndLoop ==
  /\ loop = "poll" /\ typing = "join" /\ loop' = "ended"
  /\ functors' = <<>>
  /\ UNCHANGED <<typingVars, clientMutex, connection_, tcpVars, written>>

TypingStep == LockToWrite \/ Write \/ Destroy \/ QuitLoop \/ Joined
LoopStep == LockToSet \/ SetConnection \/ ResetConnection \/ OnDestroyed \/ SendInLoop \/ EndLoop

ClientNext == TypeLine \/ EndOfInput \/ TypingStep \/ LoopStep \/ Established \/ Lost

(* Both threads run, until they end; nobody types, ends the input or       *)
(* connects.                                                               *)
ClientFairness ==
  /\ WF_clientVars(TypingStep) /\ WF_clientVars(LoopStep)

ClientSpec == ClientInit /\ [][ClientNext]_clientVars /\ ClientFairness

-----------------------------------------------------------------------------
Connections == 1 .. MaxConns
Lines == [line : 1 .. MaxLines, conn : Connections]

ClientTypeOK ==
  /\ typing \in {"type", "lock", "send", "sleep", "destroyed", "join", "ended"}
  /\ loop \in {"poll", "up", "down", "set", "reset", "undefined", "ended"}
  /\ clientMutex \in {"free", "main", "loop"}
  /\ connection_ \in Connections \cup {None} /\ ptr \in Connections \cup {None}
  /\ client \in Connections \cup {None}
  /\ retry \in BOOLEAN /\ count \in 0 .. MaxConns
  /\ state \in {"connecting", "connected", "disconnecting", "disconnected", "idle"}
  /\ functors \in Seq(Lines) /\ written \in Seq(Lines)
  /\ target \in Seq(Connections \cup {None})

(* The raw pointer write hands to the codec is kept alive by connection_   *)
(* for as long as it is used: onConnection cannot reset it meanwhile.      *)
PointerAlive == typing = "send" => ptr = connection_

(* The client never holds on to a connection that is gone: once the loop   *)
(* is back from onConnection, connection_ is TcpClient's connection.       *)
SameConnection == loop = "poll" => connection_ = client

(* Lines reach the wire in the order typed, at most once, and each on the  *)
(* connection of the moment it was typed: the ones typed while there was   *)
(* none are dropped and not sent later on another.                         *)
LinesInOrder ==
  /\ \A i, j \in 1 .. Len(written) : i < j => written[i].line < written[j].line
  /\ \A i \in 1 .. Len(written) : written[i].conn = target[written[i].line]

(* A line written to a connection that is still up is on the wire or about *)
(* to be put there: nothing loses it but the loss of its connection and    *)
(* the end of the loop.                                                    *)
NothingDroppedWhileUp ==
  state \in {"connected", "disconnecting"} /\ typing # "send" /\ loop # "ended" =>
    \A k \in 1 .. Len(target) : target[k] = count =>
      [line |-> k, conn |-> count] \in
        {written[i] : i \in 1 .. Len(written)} \cup {functors[i] : i \in 1 .. Len(functors)}

(* The client's safety, as one. *)
LinesKept == ClientTypeOK /\ PointerAlive /\ SameConnection /\ LinesInOrder /\ NothingDroppedWhileUp

(* A line typed while the client's connection is up is put on the wire of  *)
(* that connection, unless the connection is lost or the loop ends first:  *)
(* neither thread keeps the mutex from the other, and no line waits for    *)
(* the next one.                                                           *)
EveryLineSettled ==
  \A k \in 1 .. MaxLines, c \in Connections :
    (typing = "lock" /\ Len(target) = k - 1 /\ loop = "poll" /\ client = c /\ state = "connected") ~>
      \/ \E i \in 1 .. Len(written) : written[i] = [line |-> k, conn |-> c]
      \/ state \notin {"connected", "disconnecting"} \/ count > c
      \/ loop \in {"ended", "undefined"}

(* What the comment on the second's sleep promises: it waits for the       *)
(* disconnect, so that the callback of a connection that goes down still   *)
(* finds the client.                                                       *)
DisconnectAwaited == ~ (loop = "undefined" /\ state = "disconnected")

-----------------------------------------------------------------------------
(* The parts of the inductive invariant.  mutex_ is held where the code    *)
(* holds it.                                                               *)
Owner ==
  /\ clientMutex = "main" <=> typing = "send"
  /\ loop \in {"set", "reset"} => clientMutex = "loop"
  /\ clientMutex = "loop" => loop \in {"set", "reset", "undefined"}

(* TcpClient's connection is the last one while that one is not cleared    *)
(* away and there is a client, and onConnection runs because of the state  *)
(* it is in.                                                               *)
ConnOfState ==
  /\ IF state \in {"connecting", "idle"} THEN client = None
     ELSE count > 0 /\ (Gone \/ client = count)
  /\ loop \in {"up", "set"} => state \in {"connected", "disconnecting"}
  /\ loop \in {"down", "reset"} => state = "disconnected"
  /\ state = "disconnected" => loop \in {"down", "reset", "undefined"}

(* No more than the typing thread disconnects, after its last line, and    *)
(* the loop ends, or runs into a client destroyed, after that.             *)
DisconnectLast ==
  /\ state = "disconnecting" => typing = "sleep" \/ Gone
  /\ loop \in {"ended", "undefined"} => Gone

(* No connection is known before it is established. *)
ConnsKnown ==
  /\ connection_ # None => connection_ <= count
  /\ \A k \in 1 .. Len(target) : target[k] # None => target[k] <= count

(* The line in hand is the last one typed, for the connection looked at.   *)
LineInHand ==
  /\ typing = "lock" => Len(target) < MaxLines
  /\ typing = "send" => Len(target) > 0 /\ ptr = target[Len(target)]
  /\ Len(target) <= MaxLines

(* The lines the main thread is done with. *)
Done == IF typing = "send" THEN Len(target) - 1 ELSE Len(target)

(* What is on the wire and what is pending, behind it, are lines done      *)
(* with, in order, each for the connection of its moment.                  *)
PendingInOrder ==
  /\ \A i \in 1 .. Len(written) : written[i].line <= Done
  /\ \A i \in 1 .. Len(functors) :
       functors[i].line <= Done /\ functors[i].conn = target[functors[i].line]
  /\ \A i, j \in 1 .. Len(functors) : i < j => functors[i].line < functors[j].line
  /\ \A i \in 1 .. Len(written), j \in 1 .. Len(functors) : written[i].line < functors[j].line

(* NothingDroppedWhileUp, while a line is in hand too. *)
DoneKept ==
  state \in {"connected", "disconnecting"} /\ loop # "ended" =>
    \A k \in 1 .. Done : target[k] = count =>
      \/ \E i \in 1 .. Len(written) : written[i] = [line |-> k, conn |-> count]
      \/ \E i \in 1 .. Len(functors) : functors[i] = [line |-> k, conn |-> count]

ClientIInv ==
  /\ LinesKept
  /\ Owner /\ ConnOfState /\ DisconnectLast /\ ConnsKnown /\ LineInHand
  /\ PendingInOrder /\ DoneKept

=============================================================================
