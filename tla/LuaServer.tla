----------------------------- MODULE LuaServer -----------------------------
(***************************************************************************)
(* The chat server's two threads.  The main thread is inside startServer:  *)
(* it starts the worker, builds and publishes the server, and runs the      *)
(* event loop, which announces connections to the script and puts every    *)
(* message the codec extracts into messageQueue_.  The worker runs         *)
(* hanleMessageQueue: it looks at the queue without the lock, takes the    *)
(* whole of it under the lock and hands the messages to the script.        *)
(*                                                                         *)
(* A message is the number of its extraction, 0 is any timer message.      *)
(***************************************************************************)
EXTENDS Naturals, Sequences

CONSTANTS
  Conns,      \* TCP connections; one that comes back is a new one
  NoConn,     \* no connection
  MaxFrames,  \* bound: the number of messages extracted
  MaxTimers,  \* bound: the number of timer messages
  MaxBurst    \* bound: the number of messages extracted from one read

ASSUME LuaServerAssumption ==
  /\ NoConn \notin Conns
  /\ MaxFrames \in Nat /\ MaxTimers \in Nat /\ MaxBurst \in Nat

VARIABLES
  main,       \* where the main thread is
  worker,     \* where the worker is
  mutex,      \* the owner of mutex_: "main", "worker" or "free"
  server,     \* g_server is set
  connections_,
  messageQueue_,
  current,    \* the connection the event loop is serving
  todo,       \* complete frames left in the buffer being parsed
  hand,       \* the message the main thread is about to push
  view,       \* the list as the main thread found it when it began to push
  batch,      \* the worker's local list, the messages still to handle
  announced,  \* history: the connections onNewConnection returned for
  from,       \* history: the connection (conn_) of each message extracted
  handled,    \* history: the messages given to onMessage, timers left out
  timers      \* history: the number of timer messages

mainVars == <<main, server, connections_, current, todo, hand, view, announced, from, timers>>
workerVars == <<worker, batch, handled>>
shared == <<mutex, messageQueue_>>
vars == <<mainVars, workerVars, shared>>

Timer == 0

Init ==
  /\ main = "startThread" /\ worker = "off"
  /\ mutex = "free"
  /\ server = FALSE
  /\ connections_ = {}
  /\ messageQueue_ = <<>>
  /\ current = NoConn /\ todo = 0 /\ hand = Timer /\ view = <<>>
  /\ batch = <<>>
  /\ announced = {} /\ from = <<>> /\ handled = <<>> /\ timers = 0

-----------------------------------------------------------------------------
(* startServer: the worker runs before there is a server to look at. *)
StartThread ==
  /\ main = "startThread" /\ main' = "construct"
  /\ worker' = "check"
  /\ UNCHANGED <<server, connections_, current, todo, hand, view, announced, from, timers,
                 batch, handled, shared>>

ConstructServer ==
  /\ main = "construct" /\ main' = "publish"
  /\ UNCHANGED <<server, connections_, current, todo, hand, view, announced, from, timers,
                 workerVars, shared>>

PublishServer ==
  /\ main = "publish" /\ main' = "loop"
  /\ server' = TRUE
  /\ UNCHANGED <<connections_, current, todo, hand, view, announced, from, timers,
                 workerVars, shared>>

-----------------------------------------------------------------------------
(* Mutant of Accept: the script is not told. *)
AcceptSilently(c) ==
  /\ main = "loop"
  /\ c \notin announced
  /\ connections_' = connections_ \cup {c}
  /\ current' = c
  /\ UNCHANGED <<main, server, todo, hand, view, announced, from, timers,
                 workerVars, shared>>

(* onConnection, connected: the connection is recorded and the script told. *)
Accept(c) ==
  /\ main = "loop" /\ main' = "announce"
  /\ c \notin announced
  /\ connections_' = connections_ \cup {c}
  /\ current' = c
  /\ UNCHANGED <<server, todo, hand, view, announced, from, timers, workerVars, shared>>

(* The script's callback returns, with or without an error. *)
Announced ==
  /\ main = "announce" /\ main' = "loop"
  /\ announced' = announced \cup {current}
  /\ UNCHANGED <<server, connections_, current, todo, hand, view, from, timers,
                 workerVars, shared>>

(* onConnection, not connected. *)
Disconnect(c) ==
  /\ main = "loop"
  /\ c \in connections_
  /\ connections_' = connections_ \ {c}
  /\ UNCHANGED <<main, server, current, todo, hand, view, announced, from, timers,
                 workerVars, shared>>

(* A read completes n frames; the codec's loop takes them out one by one. *)
Read(c, n) ==
  /\ main = "loop" /\ main' = "parse"
  /\ c \in connections_
  /\ Len(from) + n <= MaxFrames
  /\ current' = c /\ todo' = n
  /\ UNCHANGED <<server, connections_, hand, view, announced, from, timers,
                 workerVars, shared>>

(* The codec makes a message of the next frame and calls onMessageQueue. *)
Extract ==
  /\ main = "parse" /\ main' = "lock"
  /\ todo > 0 /\ todo' = todo - 1
  /\ from' = Append(from, current)
  /\ hand' = Len(from) + 1
  /\ UNCHANGED <<server, connections_, current, view, announced, timers, workerVars, shared>>

Parsed ==
  /\ main = "parse" /\ main' = "loop"
  /\ todo = 0
  /\ UNCHANGED <<server, connections_, current, todo, hand, view, announced, from, timers,
                 workerVars, shared>>

(* A timer of the event loop calls onTimerMessage. *)
TimerMessage ==
  /\ main = "loop" /\ main' = "lock"
  /\ timers < MaxTimers /\ timers' = timers + 1
  /\ hand' = Timer
  /\ UNCHANGED <<server, connections_, current, todo, view, announced, from,
                 workerVars, shared>>

(* Mutant of LockToPush: no MutexLockGuard. *)
PushUnlocked ==
  /\ main = "lock" /\ main' = "push"
  /\ mutex' = "main"
  /\ UNCHANGED <<server, connections_, current, todo, hand, view, announced, from, timers,
                 workerVars, messageQueue_>>

LockToPush ==
  /\ main = "lock" /\ main' = "push"
  /\ mutex = "free" /\ mutex' = "main"
  /\ UNCHANGED <<server, connections_, current, todo, hand, view, announced, from, timers,
                 workerVars, messageQueue_>>

(* push_back and push_front find the list ... *)
BeginPush ==
  /\ main = "push" /\ main' = "link"
  /\ view' = messageQueue_
  /\ UNCHANGED <<server, connections_, current, todo, hand, announced, from, timers,
                 workerVars, shared>>

(* ... and link the message in: onMessageQueue at the back, onTimerMessage *)
(* at the front.  The lock goes with the guard's scope.                    *)
EndPush ==
  /\ main = "link" /\ main' = "parse"
  /\ messageQueue_' = IF hand = Timer THEN <<hand>> \o view ELSE Append(view, hand)
  /\ mutex' = "free"
  /\ UNCHANGED <<server, connections_, current, todo, hand, view, announced, from, timers,
                 workerVars>>

-----------------------------------------------------------------------------
(* Mutant of CheckServer: the worker does not ask whether there is a server. *)
CheckNothing ==
  /\ worker = "check" /\ worker' = "look"
  /\ UNCHANGED <<mainVars, batch, handled, shared>>

(* One turn of the worker's loop: g_server first; nothing to do leads back *)
(* to the start.                                                           *)
CheckServer ==
  /\ worker = "check"
  /\ worker' = IF server THEN "look" ELSE "check"
  /\ UNCHANGED <<mainVars, batch, handled, shared>>

(* What empty() may answer: reading a list another thread is changing, it  *)
(* may see either state.                                                   *)
HasMessage == IF mutex = "main" THEN BOOLEAN ELSE {messageQueue_ # <<>>}

(* hasMessge, without the lock. *)
Look ==
  /\ worker = "look"
  /\ \E has \in HasMessage : worker' = IF has THEN "lock" ELSE "check"
  /\ UNCHANGED <<mainVars, batch, handled, shared>>

(* Mutant of LockToSwap: no MutexLockGuard. *)
SwapUnlocked ==
  /\ worker = "lock" /\ worker' = "swap"
  /\ mutex' = "worker"
  /\ UNCHANGED <<mainVars, batch, handled, messageQueue_>>

LockToSwap ==
  /\ worker = "lock" /\ worker' = "swap"
  /\ mutex = "free" /\ mutex' = "worker"
  /\ UNCHANGED <<mainVars, batch, handled, messageQueue_>>

(* distillMessageQueue: the local list takes over the messages ... *)
BeginSwap ==
  /\ worker = "swap" /\ worker' = "clear"
  /\ batch' = messageQueue_
  /\ UNCHANGED <<mainVars, handled, shared>>

(* ... and the queue is left empty. *)
EndSwap ==
  /\ worker = "clear" /\ worker' = "next"
  /\ messageQueue_' = <<>>
  /\ mutex' = "free"
  /\ UNCHANGED <<mainVars, batch, handled>>

Handle ==
  /\ worker = "next" /\ worker' = "call"
  /\ batch # <<>> /\ batch' = Tail(batch)
  /\ handled' = IF Head(batch) = Timer THEN handled ELSE Append(handled, Head(batch))
  /\ UNCHANGED <<mainVars, shared>>

(* The script's callback returns, with or without an error. *)
Handled ==
  /\ worker = "call" /\ worker' = "next"
  /\ UNCHANGED <<mainVars, batch, handled, shared>>

BatchDone ==
  /\ worker = "next" /\ worker' = "check"
  /\ batch = <<>>
  /\ UNCHANGED <<mainVars, batch, handled, shared>>

-----------------------------------------------------------------------------
Boot == StartThread \/ ConstructServer \/ PublishServer
Event ==
  \/ \E c \in Conns : Accept(c) \/ Disconnect(c) \/ (\E n \in 1 .. MaxBurst : Read(c, n))
  \/ TimerMessage
MainStep == Announced \/ Extract \/ Parsed \/ LockToPush \/ BeginPush \/ EndPush
WorkerStep ==
  \/ CheckServer \/ Look \/ LockToSwap \/ BeginSwap \/ EndSwap
  \/ Handle \/ Handled \/ BatchDone

Next == Boot \/ Event \/ MainStep \/ WorkerStep

(* Both threads get to run, and the script's callbacks return. *)
Fairness == WF_vars(Boot) /\ WF_vars(MainStep) /\ WF_vars(WorkerStep)

Spec == Init /\ [][Next]_vars /\ Fairness

-----------------------------------------------------------------------------
TypeOK ==
  /\ main \in {"startThread", "construct", "publish", "loop", "announce", "parse",
               "lock", "push", "link"}
  /\ worker \in {"off", "check", "look", "lock", "swap", "clear", "next", "call"}
  /\ mutex \in {"free", "main", "worker"}
  /\ server \in BOOLEAN
  /\ connections_ \in SUBSET Conns /\ announced \in SUBSET Conns
  /\ current \in Conns \cup {NoConn}
  /\ todo \in Nat /\ hand \in Nat /\ timers \in Nat
  /\ from \in Seq(Conns)
  /\ messageQueue_ \in Seq(Nat) /\ view \in Seq(Nat) /\ batch \in Seq(Nat) /\ handled \in Seq(Nat)

(* q holds the messages after the lo-th up to the hi-th in order, behind   *)
(* any timer messages.                                                     *)
Holds(q, lo, hi) ==
  /\ lo <= hi /\ hi - lo <= Len(q)
  /\ \A i \in 1 .. Len(q) :
       q[i] = IF hi - (Len(q) - i) > lo THEN hi - (Len(q) - i) ELSE Timer

Pushed == IF main \in {"lock", "push", "link"} /\ hand # Timer THEN Len(from) - 1 ELSE Len(from)

(* What is in the queue and not yet in the worker's list. *)
Waiting == IF worker = "clear" THEN <<>> ELSE messageQueue_

(* However the threads interleave, and although the queue is looked at     *)
(* without the lock, no message is lost, duplicated or overtaken: those    *)
(* handled, those in the worker's list, those in the queue and the one     *)
(* about to be pushed are all the messages extracted, in that order; only  *)
(* timer messages go ahead.                                                *)
NothingLost ==
  /\ \A i \in 1 .. Len(handled) : handled[i] = i
  /\ \E taken \in 0 .. Len(from) :
       /\ Holds(batch, Len(handled), taken)
       /\ Holds(Waiting, taken, Pushed)

(* The unlocked look at the queue never makes the worker take an empty one: *)
(* what it saw is still there when it gets the lock.                       *)
SwapFindsMessages == worker = "swap" => messageQueue_ # <<>>

(* The worker, running before the server exists, touches it only when it   *)
(* is built and published.                                                 *)
NoEarlyUse ==
  worker \notin {"off", "check"} =>
    main \notin {"startThread", "construct", "publish"}

(* To the script the two threads are one pipe of messages. *)
MP == INSTANCE MessagePipe
ImplementsMessagePipe == MP!Spec

-----------------------------------------------------------------------------
(* The parts of the inductive invariant that are not properties above.     *)

LockOwner ==
  /\ mutex = "main" <=> main \in {"push", "link"}
  /\ mutex = "worker" <=> worker \in {"swap", "clear"}

(* Nobody changes the list under the thread that holds the lock. *)
ListStable ==
  /\ main = "link" => view = messageQueue_
  /\ worker = "clear" => batch = messageQueue_

(* The queue the worker saw messages in still has them, or a push it saw   *)
(* half done is about to end.                                              *)
SeenStaysTrue == worker \in {"lock", "swap"} => messageQueue_ # <<>> \/ main \in {"push", "link"}

Published ==
  /\ server <=> main \notin {"startThread", "construct", "publish"}
  /\ worker \notin {"off", "check"} => server

(* The worker takes the queue with an empty list of its own. *)
BatchEmpty == worker \in {"off", "check", "look", "lock", "swap"} => batch = <<>>

(* The message the main thread pushes is the last one extracted. *)
InHand == main \in {"lock", "push", "link"} => hand = Timer \/ (hand = Len(from) /\ hand > 0)

(* The event loop serves a connection only after its announcement. *)
AnnouncedFirst ==
  /\ main \in {"startThread", "construct", "publish", "loop", "announce"} => todo = 0
  /\ todo > 0 => current \in announced
  /\ main = "announce" => current \in Conns \ announced
  /\ \A c \in connections_ : c \in announced \/ (main = "announce" /\ c = current)

IInv ==
  /\ TypeOK /\ NothingLost /\ LockOwner /\ ListStable /\ SeenStaysTrue
  /\ Published /\ BatchEmpty /\ InHand /\ AnnouncedFirst

=============================================================================
