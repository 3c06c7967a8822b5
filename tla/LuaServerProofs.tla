-------------------------- MODULE LuaServerProofs --------------------------
(***************************************************************************)
(* The hand-over from the event loop to the worker, for any number of      *)
(* connections, messages and timers.                                       *)
(***************************************************************************)
EXTENDS LuaServer, SequenceTheorems, TLAPS

-----------------------------------------------------------------------------
(* Lists of consecutive messages behind timers: the list operations the    *)
(* two threads use keep the form.                                          *)

LEMMA HoldsNone ==
  ASSUME NEW n \in Nat
  PROVE  Holds(<<>>, n, n)
BY DEF Holds

LEMMA HoldsOfEmpty ==
  ASSUME NEW lo \in Nat, NEW hi \in Nat, Holds(<<>>, lo, hi)
  PROVE  lo = hi
BY DEF Holds

LEMMA HoldsAppend ==
  ASSUME NEW q \in Seq(Nat), NEW lo \in Nat, NEW hi \in Nat, Holds(q, lo, hi)
  PROVE  Holds(Append(q, hi + 1), lo, hi + 1)
<1> DEFINE r == Append(q, hi + 1)
<1>1. Len(q) \in Nat /\ Len(r) = Len(q) + 1 /\ r[Len(q) + 1] = hi + 1
  BY AppendProperties
<1>2. lo <= hi + 1 /\ (hi + 1) - lo <= Len(r)
  BY <1>1 DEF Holds
<1>3. ASSUME NEW i \in 1 .. Len(r)
      PROVE  r[i] = IF (hi + 1) - (Len(r) - i) > lo THEN (hi + 1) - (Len(r) - i) ELSE Timer
  <2>1. (hi + 1) - (Len(r) - i) = hi - (Len(q) - i)
    BY <1>1
  <2>2. CASE i = Len(q) + 1
    <3>1. hi - (Len(q) - i) = hi + 1 /\ hi + 1 > lo
      BY <2>2, <1>1 DEF Holds
    <3> QED
      BY <3>1, <2>1, <2>2, <1>1
  <2>3. CASE i # Len(q) + 1
    <3>1. i \in 1 .. Len(q)
      BY <2>3, <1>1
    <3>2. r[i] = q[i]
      BY <3>1, AppendProperties
    <3>3. q[i] = IF hi - (Len(q) - i) > lo THEN hi - (Len(q) - i) ELSE Timer
      BY <3>1 DEF Holds
    <3> QED
      BY <3>2, <3>3, <2>1
  <2> QED
    BY <2>2, <2>3
<1> QED
  BY <1>2, <1>3 DEF Holds

LEMMA HoldsTimer ==
  ASSUME NEW q \in Seq(Nat), NEW lo \in Nat, NEW hi \in Nat, Holds(q, lo, hi)
  PROVE  /\ <<Timer>> \o q \in Seq(Nat)
         /\ Holds(<<Timer>> \o q, lo, hi)
<1> DEFINE r == <<Timer>> \o q
<1>1. <<Timer>> \in Seq(Nat) /\ Len(<<Timer>>) = 1 /\ <<Timer>>[1] = Timer
  BY DEF Timer
<1>2. /\ Len(q) \in Nat
      /\ r \in Seq(Nat) /\ Len(r) = 1 + Len(q)
      /\ \A i \in 1 .. 1 + Len(q) : r[i] = IF i <= 1 THEN <<Timer>>[i] ELSE q[i - 1]
  BY <1>1, ConcatProperties
<1>3. lo <= hi /\ hi - lo <= Len(q) /\ hi - lo <= Len(r)
  BY <1>2 DEF Holds
<1>4. ASSUME NEW i \in 1 .. Len(r)
      PROVE  r[i] = IF hi - (Len(r) - i) > lo THEN hi - (Len(r) - i) ELSE Timer
  <2>1. CASE i = 1
    <3>1. ~ (hi - (Len(r) - i) > lo)
      BY <2>1, <1>2, <1>3
    <3> QED
      BY <3>1, <2>1, <1>1, <1>2
  <2>2. CASE i # 1
    <3>1. i - 1 \in 1 .. Len(q) /\ Len(r) - i = Len(q) - (i - 1) /\ r[i] = q[i - 1]
      BY <2>2, <1>2
    <3>2. q[i - 1] = IF hi - (Len(q) - (i - 1)) > lo THEN hi - (Len(q) - (i - 1)) ELSE Timer
      BY <3>1 DEF Holds
    <3> QED
      BY <3>1, <3>2
  <2> QED
    BY <2>1, <2>2
<1>5. Holds(r, lo, hi)
  BY <1>3, <1>4 DEF Holds
<1> QED
  BY <1>2, <1>5

LEMMA HoldsHead ==
  ASSUME NEW q \in Seq(Nat), q # <<>>, NEW lo \in Nat, NEW hi \in Nat, Holds(q, lo, hi)
  PROVE  \/ Head(q) = Timer /\ Holds(Tail(q), lo, hi)
         \/ Head(q) = lo + 1 /\ Holds(Tail(q), lo + 1, hi)
<1> DEFINE r == Tail(q)
<1>1. /\ Len(q) \in Nat \ {0} /\ 1 \in 1 .. Len(q)
      /\ Head(q) = q[1] /\ Len(r) = Len(q) - 1
      /\ \A i \in 1 .. Len(r) : r[i] = q[i + 1]
  BY EmptySeq, HeadTailProperties
<1>2. /\ lo <= hi /\ hi - lo <= Len(q)
      /\ Head(q) = IF hi - (Len(q) - 1) > lo THEN hi - (Len(q) - 1) ELSE Timer
  BY <1>1 DEF Holds
<1>3. ASSUME NEW i \in 1 .. Len(r)
      PROVE  r[i] = IF hi - (Len(r) - i) > lo THEN hi - (Len(r) - i) ELSE Timer
  <2>1. i + 1 \in 1 .. Len(q) /\ Len(q) - (i + 1) = Len(r) - i /\ r[i] = q[i + 1]
    BY <1>1
  <2>2. q[i + 1] = IF hi - (Len(q) - (i + 1)) > lo THEN hi - (Len(q) - (i + 1)) ELSE Timer
    BY <2>1 DEF Holds
  <2> QED
    BY <2>1, <2>2
<1>4. CASE hi - (Len(q) - 1) > lo
  <2>1. hi - lo = Len(q) /\ Head(q) = lo + 1
    BY <1>4, <1>1, <1>2
  <2>2. \A i \in 1 .. Len(r) : hi - (Len(r) - i) > lo + 1
    BY <2>1, <1>1
  <2>3. lo + 1 <= hi /\ hi - (lo + 1) <= Len(r)
    BY <2>1, <1>1
  <2>4. ASSUME NEW i \in 1 .. Len(r)
        PROVE  r[i] = IF hi - (Len(r) - i) > lo + 1 THEN hi - (Len(r) - i) ELSE Timer
    <3>1. hi - (Len(r) - i) > lo + 1
      BY <2>2
    <3>2. hi - (Len(r) - i) > lo
      BY <3>1, <1>1
    <3> QED
      BY <3>1, <3>2, <1>3
  <2>5. Holds(r, lo + 1, hi)
    BY <2>3, <2>4 DEF Holds
  <2> QED
    BY <2>1, <2>5
<1>5. CASE ~ (hi - (Len(q) - 1) > lo)
  <2>1. Head(q) = Timer /\ hi - lo <= Len(r)
    BY <1>5, <1>1, <1>2
  <2>2. Holds(r, lo, hi)
    BY <2>1, <1>2, <1>3 DEF Holds
  <2> QED
    BY <2>1, <2>2
<1> QED
  BY <1>4, <1>5

-----------------------------------------------------------------------------
LEMMA InitIInv == Init => IInv
<1> SUFFICES ASSUME Init PROVE IInv
  OBVIOUS
<1> USE DEF Init, Timer
<1>1. TypeOK
  BY EmptySeq DEF TypeOK
<1>2. NothingLost
  <2>1. Len(from) = 0 /\ Len(handled) = 0 /\ Pushed = 0 /\ 0 \in 0 .. Len(from)
    BY EmptySeq DEF Pushed
  <2>2. Holds(batch, Len(handled), 0) /\ Holds(Waiting, 0, Pushed)
    BY <2>1, HoldsNone DEF Waiting
  <2> QED
    BY <2>1, <2>2 DEF NothingLost
<1>3. LockOwner /\ ListStable /\ SeenStaysTrue /\ Published /\ BatchEmpty /\ InHand /\ AnnouncedFirst
  BY DEF LockOwner, ListStable, SeenStaysTrue, Published, BatchEmpty, InHand, AnnouncedFirst
<1> QED
  BY <1>1, <1>2, <1>3 DEF IInv

(* A step that leaves the lists and the messages alone keeps them in order. *)
LEMMA SameLists ==
  ASSUME NothingLost, UNCHANGED <<from, handled, batch>>,
         Waiting' = Waiting, Pushed' = Pushed
  PROVE  NothingLost'
BY DEF NothingLost

(* The worker starts. *)
LEMMA StartThreadIInv ==
  ASSUME IInv, StartThread
  PROVE  IInv'
<1>1. TypeOK'
  BY DEF IInv, TypeOK, StartThread, Timer, mainVars, workerVars, shared
<1>2. LockOwner' /\ ListStable' /\ SeenStaysTrue' /\ Published' /\ BatchEmpty'
  BY DEF IInv, TypeOK, LockOwner, ListStable, SeenStaysTrue, Published,
         BatchEmpty, HasMessage,
         StartThread, Timer, mainVars, workerVars, shared
<1>3. InHand' /\ AnnouncedFirst'
  BY DEF IInv, TypeOK, InHand, AnnouncedFirst, StartThread, Timer, mainVars, workerVars, shared
<1>4. NothingLost'
  <2>1. worker # "clear"
    BY DEF IInv, Published, StartThread
  <2> QED
    BY <2>1, SameLists DEF IInv, Pushed, Waiting, StartThread, Timer, mainVars, workerVars, shared
<1> QED
  BY <1>1, <1>2, <1>3, <1>4 DEF IInv

(* The server is built. *)
LEMMA ConstructServerIInv ==
  ASSUME IInv, ConstructServer
  PROVE  IInv'
<1>1. TypeOK'
  BY DEF IInv, TypeOK, ConstructServer, Timer, mainVars, workerVars, shared
<1>2. LockOwner' /\ ListStable' /\ SeenStaysTrue' /\ Published' /\ BatchEmpty'
  BY DEF IInv, TypeOK, LockOwner, ListStable, SeenStaysTrue, Published,
         BatchEmpty, HasMessage,
         ConstructServer, Timer, mainVars, workerVars, shared
<1>3. InHand' /\ AnnouncedFirst'
  BY DEF IInv, TypeOK, InHand, AnnouncedFirst, ConstructServer, Timer, mainVars, workerVars, shared
<1>4. NothingLost'
  BY SameLists DEF IInv, Pushed, Waiting, ConstructServer, Timer, mainVars, workerVars, shared
<1> QED
  BY <1>1, <1>2, <1>3, <1>4 DEF IInv

(* The server is published. *)
LEMMA PublishServerIInv ==
  ASSUME IInv, PublishServer
  PROVE  IInv'
<1>1. TypeOK'
  BY DEF IInv, TypeOK, PublishServer, Timer, mainVars, workerVars, shared
<1>2. LockOwner' /\ ListStable' /\ SeenStaysTrue' /\ Published' /\ BatchEmpty'
  BY DEF IInv, TypeOK, LockOwner, ListStable, SeenStaysTrue, Published,
         BatchEmpty, HasMessage,
         PublishServer, Timer, mainVars, workerVars, shared
<1>3. InHand' /\ AnnouncedFirst'
  BY DEF IInv, TypeOK, InHand, AnnouncedFirst, PublishServer, Timer, mainVars, workerVars, shared
<1>4. NothingLost'
  BY SameLists DEF IInv, Pushed, Waiting, PublishServer, Timer, mainVars, workerVars, shared
<1> QED
  BY <1>1, <1>2, <1>3, <1>4 DEF IInv

(* A connection comes in. *)
LEMMA AcceptIInv ==
  ASSUME IInv, NEW c \in Conns, Accept(c)
  PROVE  IInv'
<1>1. TypeOK'
  BY DEF IInv, TypeOK, Accept, Timer, mainVars, workerVars, shared
<1>2. LockOwner' /\ ListStable' /\ SeenStaysTrue' /\ Published' /\ BatchEmpty'
  BY DEF IInv, TypeOK, LockOwner, ListStable, SeenStaysTrue, Published,
         BatchEmpty, HasMessage,
         Accept, Timer, mainVars, workerVars, shared
<1>3. InHand' /\ AnnouncedFirst'
  BY DEF IInv, TypeOK, InHand, AnnouncedFirst, Accept, Timer, mainVars, workerVars, shared
<1>4. NothingLost'
  BY SameLists DEF IInv, Pushed, Waiting, Accept, Timer, mainVars, workerVars, shared
<1> QED
  BY <1>1, <1>2, <1>3, <1>4 DEF IInv

(* The script has been told. *)
LEMMA AnnouncedIInv ==
  ASSUME IInv, Announced
  PROVE  IInv'
<1>1. TypeOK'
  <2>1. current \in Conns
    BY DEF IInv, AnnouncedFirst, Announced
  <2> QED
    BY <2>1 DEF IInv, TypeOK, Announced, mainVars, workerVars, shared
<1>2. LockOwner' /\ ListStable' /\ SeenStaysTrue' /\ Published' /\ BatchEmpty'
  BY DEF IInv, TypeOK, LockOwner, ListStable, SeenStaysTrue, Published,
         BatchEmpty, HasMessage,
         Announced, Timer, mainVars, workerVars, shared
<1>3. InHand' /\ AnnouncedFirst'
  BY DEF IInv, TypeOK, InHand, AnnouncedFirst, Announced, Timer, mainVars, workerVars, shared
<1>4. NothingLost'
  BY SameLists DEF IInv, Pushed, Waiting, Announced, Timer, mainVars, workerVars, shared
<1> QED
  BY <1>1, <1>2, <1>3, <1>4 DEF IInv

(* A connection goes. *)
LEMMA DisconnectIInv ==
  ASSUME IInv, NEW c \in Conns, Disconnect(c)
  PROVE  IInv'
<1>1. TypeOK'
  BY DEF IInv, TypeOK, Disconnect, Timer, mainVars, workerVars, shared
<1>2. LockOwner' /\ ListStable' /\ SeenStaysTrue' /\ Published' /\ BatchEmpty'
  BY DEF IInv, TypeOK, LockOwner, ListStable, SeenStaysTrue, Published,
         BatchEmpty, HasMessage,
         Disconnect, Timer, mainVars, workerVars, shared
<1>3. InHand' /\ AnnouncedFirst'
  BY DEF IInv, TypeOK, InHand, AnnouncedFirst, Disconnect, Timer, mainVars, workerVars, shared
<1>4. NothingLost'
  BY SameLists DEF IInv, Pushed, Waiting, Disconnect, Timer, mainVars, workerVars, shared
<1> QED
  BY <1>1, <1>2, <1>3, <1>4 DEF IInv

(* A read completes frames. *)
LEMMA ReadIInv ==
  ASSUME IInv, NEW c \in Conns, NEW n \in 1 .. MaxBurst, Read(c, n)
  PROVE  IInv'
<1>1. TypeOK'
  BY DEF IInv, TypeOK, Read, Timer, mainVars, workerVars, shared
<1>2. LockOwner' /\ ListStable' /\ SeenStaysTrue' /\ Published' /\ BatchEmpty'
  BY DEF IInv, TypeOK, LockOwner, ListStable, SeenStaysTrue, Published,
         BatchEmpty, HasMessage,
         Read, Timer, mainVars, workerVars, shared
<1>3. InHand' /\ AnnouncedFirst'
  BY DEF IInv, TypeOK, InHand, AnnouncedFirst, Read, Timer, mainVars, workerVars, shared
<1>4. NothingLost'
  BY SameLists DEF IInv, Pushed, Waiting, Read, Timer, mainVars, workerVars, shared
<1> QED
  BY <1>1, <1>2, <1>3, <1>4 DEF IInv

(* The message in hand is counted as extracted, not as pushed. *)
LEMMA ExtractIInv ==
  ASSUME IInv, Extract
  PROVE  IInv'
<1>1. TypeOK'
  <2>1. current \in Conns /\ from \in Seq(Conns) /\ todo \in Nat /\ todo > 0
    BY DEF IInv, TypeOK, AnnouncedFirst, Extract
  <2>2. Append(from, current) \in Seq(Conns) /\ Len(from) + 1 \in Nat /\ todo - 1 \in Nat
    BY <2>1, AppendProperties, LenProperties
  <2> QED
    BY <2>2 DEF IInv, TypeOK, Extract, workerVars, shared
<1>2. LockOwner' /\ ListStable' /\ SeenStaysTrue' /\ Published' /\ BatchEmpty'
  BY DEF IInv, TypeOK, LockOwner, ListStable, SeenStaysTrue, Published,
         BatchEmpty, HasMessage,
         Extract, Timer, mainVars, workerVars, shared
<1>3. InHand' /\ AnnouncedFirst'
  BY DEF IInv, TypeOK, InHand, AnnouncedFirst, Extract, Timer, mainVars, workerVars, shared
<1>4. NothingLost'
  <2>1. /\ from \in Seq(Conns) /\ Len(from) \in Nat /\ Len(from') = Len(from) + 1
        /\ UNCHANGED <<handled, batch>> /\ Waiting' = Waiting
    BY AppendProperties DEF IInv, TypeOK, AnnouncedFirst, Extract, workerVars, shared, Waiting
  <2>2. Pushed' = Pushed
    BY <2>1 DEF Pushed, Extract, Timer
  <2> QED
    BY <2>1, <2>2 DEF IInv, NothingLost
<1> QED
  BY <1>1, <1>2, <1>3, <1>4 DEF IInv

(* The buffer is parsed. *)
LEMMA ParsedIInv ==
  ASSUME IInv, Parsed
  PROVE  IInv'
<1>1. TypeOK'
  BY DEF IInv, TypeOK, Parsed, Timer, mainVars, workerVars, shared
<1>2. LockOwner' /\ ListStable' /\ SeenStaysTrue' /\ Published' /\ BatchEmpty'
  BY DEF IInv, TypeOK, LockOwner, ListStable, SeenStaysTrue, Published,
         BatchEmpty, HasMessage,
         Parsed, Timer, mainVars, workerVars, shared
<1>3. InHand' /\ AnnouncedFirst'
  BY DEF IInv, TypeOK, InHand, AnnouncedFirst, Parsed, Timer, mainVars, workerVars, shared
<1>4. NothingLost'
  BY SameLists DEF IInv, Pushed, Waiting, Parsed, Timer, mainVars, workerVars, shared
<1> QED
  BY <1>1, <1>2, <1>3, <1>4 DEF IInv

(* A timer fires. *)
LEMMA TimerMessageIInv ==
  ASSUME IInv, TimerMessage
  PROVE  IInv'
<1>1. TypeOK'
  BY DEF IInv, TypeOK, TimerMessage, Timer, mainVars, workerVars, shared
<1>2. LockOwner' /\ ListStable' /\ SeenStaysTrue' /\ Published' /\ BatchEmpty'
  BY DEF IInv, TypeOK, LockOwner, ListStable, SeenStaysTrue, Published,
         BatchEmpty, HasMessage,
         TimerMessage, Timer, mainVars, workerVars, shared
<1>3. InHand' /\ AnnouncedFirst'
  BY DEF IInv, TypeOK, InHand, AnnouncedFirst, TimerMessage, Timer, mainVars, workerVars, shared
<1>4. NothingLost'
  BY SameLists DEF IInv, Pushed, Waiting, TimerMessage, Timer, mainVars, workerVars, shared
<1> QED
  BY <1>1, <1>2, <1>3, <1>4 DEF IInv

(* The main thread takes the lock. *)
LEMMA LockToPushIInv ==
  ASSUME IInv, LockToPush
  PROVE  IInv'
<1>1. TypeOK'
  BY DEF IInv, TypeOK, LockToPush, Timer, mainVars, workerVars, shared
<1>2. LockOwner' /\ ListStable' /\ SeenStaysTrue' /\ Published' /\ BatchEmpty'
  BY DEF IInv, TypeOK, LockOwner, ListStable, SeenStaysTrue, Published,
         BatchEmpty, HasMessage,
         LockToPush, Timer, mainVars, workerVars, shared
<1>3. InHand' /\ AnnouncedFirst'
  BY DEF IInv, TypeOK, InHand, AnnouncedFirst, LockToPush, Timer, mainVars, workerVars, shared
<1>4. NothingLost'
  BY SameLists DEF IInv, Pushed, Waiting, LockToPush, Timer, mainVars, workerVars, shared
<1> QED
  BY <1>1, <1>2, <1>3, <1>4 DEF IInv

(* The main thread finds the list. *)
LEMMA BeginPushIInv ==
  ASSUME IInv, BeginPush
  PROVE  IInv'
<1>1. TypeOK'
  BY DEF IInv, TypeOK, BeginPush, Timer, mainVars, workerVars, shared
<1>2. LockOwner' /\ ListStable' /\ SeenStaysTrue' /\ Published' /\ BatchEmpty'
  BY DEF IInv, TypeOK, LockOwner, ListStable, SeenStaysTrue, Published,
         BatchEmpty, HasMessage,
         BeginPush, Timer, mainVars, workerVars, shared
<1>3. InHand' /\ AnnouncedFirst'
  BY DEF IInv, TypeOK, InHand, AnnouncedFirst, BeginPush, Timer, mainVars, workerVars, shared
<1>4. NothingLost'
  BY SameLists DEF IInv, Pushed, Waiting, BeginPush, Timer, mainVars, workerVars, shared
<1> QED
  BY <1>1, <1>2, <1>3, <1>4 DEF IInv

(* The message in hand goes to its end of the queue. *)
LEMMA EndPushIInv ==
  ASSUME IInv, EndPush
  PROVE  IInv'
<1>1. TypeOK'
  <2>1. messageQueue_' \in Seq(Nat)
    <3>1. hand \in Nat /\ view \in Seq(Nat)
      BY DEF IInv, TypeOK
    <3>2. <<hand>> \in Seq(Nat)
      BY <3>1
    <3>3. <<hand>> \o view \in Seq(Nat) /\ Append(view, hand) \in Seq(Nat)
      BY <3>1, <3>2, AppendProperties, ConcatProperties
    <3> QED
      BY <3>3 DEF EndPush
  <2> QED
    BY <2>1 DEF IInv, TypeOK, EndPush, mainVars, workerVars, shared
<1>2. LockOwner' /\ ListStable' /\ SeenStaysTrue' /\ Published' /\ BatchEmpty'
  <2>1. messageQueue_' # <<>>
    <3>1. hand \in Nat /\ view \in Seq(Nat) /\ Len(view) \in Nat
      BY LenProperties DEF IInv, TypeOK
    <3>2. <<hand>> \in Seq(Nat) /\ Len(<<hand>>) = 1
      BY <3>1
    <3>3. /\ Len(<<hand>> \o view) # 0
          /\ Len(Append(view, hand)) # 0
      BY <3>1, <3>2, AppendProperties, ConcatProperties
    <3> QED
      BY <3>3, EmptySeq DEF EndPush
  <2> QED
    BY <2>1 DEF IInv, TypeOK, LockOwner, ListStable, SeenStaysTrue, Published, BatchEmpty,
                EndPush, mainVars, workerVars, shared
<1>3. InHand' /\ AnnouncedFirst'
  BY DEF IInv, TypeOK, InHand, AnnouncedFirst, EndPush, Timer, mainVars, workerVars, shared
<1>4. NothingLost'
  <2>1. PICK taken \in 0 .. Len(from) :
           Holds(batch, Len(handled), taken) /\ Holds(Waiting, taken, Pushed)
    BY DEF IInv, NothingLost
  <2>2. /\ from \in Seq(Conns) /\ Len(from) \in Nat /\ taken \in Nat
        /\ messageQueue_ \in Seq(Nat) /\ view = messageQueue_
        /\ Waiting = messageQueue_ /\ Waiting' = messageQueue_'
        /\ UNCHANGED <<from, handled, batch>> /\ main = "link" /\ main' = "parse"
    BY DEF IInv, TypeOK, EndPush, LockOwner, ListStable, Waiting, workerVars
  <2>3. Pushed' = Len(from)
    BY <2>2 DEF Pushed
  <2>4. CASE hand = Timer
    <3>1. Pushed = Len(from) /\ Waiting' = <<Timer>> \o Waiting /\ Waiting \in Seq(Nat)
      BY <2>2, <2>4 DEF Pushed, EndPush
    <3>2. Holds(Waiting', taken, Pushed')
      BY <3>1, <2>1, <2>2, <2>3, HoldsTimer
    <3> QED
      BY <3>2, <2>1, <2>2 DEF IInv, NothingLost
  <2>5. CASE hand # Timer
    <3>1. /\ hand = Len(from) /\ Len(from) > 0 /\ Pushed = Len(from) - 1
          /\ Pushed \in Nat /\ Pushed + 1 = Len(from)
          /\ Waiting' = Append(Waiting, Pushed + 1) /\ Waiting \in Seq(Nat)
      BY <2>2, <2>5 DEF IInv, InHand, Pushed, EndPush, Timer
    <3>2. Holds(Waiting', taken, Pushed')
      BY <3>1, <2>1, <2>2, <2>3, HoldsAppend
    <3> QED
      BY <3>2, <2>1, <2>2 DEF IInv, NothingLost
  <2> QED
    BY <2>4, <2>5
<1> QED
  BY <1>1, <1>2, <1>3, <1>4 DEF IInv

(* The worker looks for the server. *)
LEMMA CheckServerIInv ==
  ASSUME IInv, CheckServer
  PROVE  IInv'
<1>1. TypeOK'
  BY DEF IInv, TypeOK, CheckServer, Timer, mainVars, workerVars, shared
<1>2. LockOwner' /\ ListStable' /\ SeenStaysTrue' /\ Published' /\ BatchEmpty'
  BY DEF IInv, TypeOK, LockOwner, ListStable, SeenStaysTrue, Published,
         BatchEmpty, HasMessage,
         CheckServer, Timer, mainVars, workerVars, shared
<1>3. InHand' /\ AnnouncedFirst'
  BY DEF IInv, TypeOK, InHand, AnnouncedFirst, CheckServer, Timer, mainVars, workerVars, shared
<1>4. NothingLost'
  BY SameLists DEF IInv, Pushed, Waiting, CheckServer, Timer, mainVars, workerVars, shared
<1> QED
  BY <1>1, <1>2, <1>3, <1>4 DEF IInv

(* The worker looks at the queue. *)
LEMMA LookIInv ==
  ASSUME IInv, Look
  PROVE  IInv'
<1>1. TypeOK'
  BY DEF IInv, TypeOK, Look, Timer, mainVars, workerVars, shared
<1>2. LockOwner' /\ ListStable' /\ SeenStaysTrue' /\ Published' /\ BatchEmpty'
  BY DEF IInv, TypeOK, LockOwner, ListStable, SeenStaysTrue, Published,
         BatchEmpty, HasMessage,
         Look, Timer, mainVars, workerVars, shared
<1>3. InHand' /\ AnnouncedFirst'
  BY DEF IInv, TypeOK, InHand, AnnouncedFirst, Look, Timer, mainVars, workerVars, shared
<1>4. NothingLost'
  BY SameLists DEF IInv, Pushed, Waiting, Look, Timer, mainVars, workerVars, shared
<1> QED
  BY <1>1, <1>2, <1>3, <1>4 DEF IInv

(* The worker takes the lock. *)
LEMMA LockToSwapIInv ==
  ASSUME IInv, LockToSwap
  PROVE  IInv'
<1>1. TypeOK'
  BY DEF IInv, TypeOK, LockToSwap, Timer, mainVars, workerVars, shared
<1>2. LockOwner' /\ ListStable' /\ SeenStaysTrue' /\ Published' /\ BatchEmpty'
  BY DEF IInv, TypeOK, LockOwner, ListStable, SeenStaysTrue, Published,
         BatchEmpty, HasMessage,
         LockToSwap, Timer, mainVars, workerVars, shared
<1>3. InHand' /\ AnnouncedFirst'
  BY DEF IInv, TypeOK, InHand, AnnouncedFirst, LockToSwap, Timer, mainVars, workerVars, shared
<1>4. NothingLost'
  BY SameLists DEF IInv, Pushed, Waiting, LockToSwap, Timer, mainVars, workerVars, shared
<1> QED
  BY <1>1, <1>2, <1>3, <1>4 DEF IInv

(* What was in the queue is now in the worker's list. *)
LEMMA BeginSwapIInv ==
  ASSUME IInv, BeginSwap
  PROVE  IInv'
<1>1. TypeOK'
  BY EmptySeq DEF IInv, TypeOK, BeginSwap, Timer, mainVars, workerVars, shared
<1>2. LockOwner' /\ ListStable' /\ SeenStaysTrue' /\ Published' /\ BatchEmpty'
  BY DEF IInv, TypeOK, LockOwner, ListStable, SeenStaysTrue, Published,
         BatchEmpty, HasMessage,
         BeginSwap, Timer, mainVars, workerVars, shared
<1>3. InHand' /\ AnnouncedFirst'
  BY DEF IInv, TypeOK, InHand, AnnouncedFirst, BeginSwap, Timer, mainVars, workerVars, shared
<1>4. NothingLost'
  <2>1. PICK taken \in 0 .. Len(from) :
           Holds(batch, Len(handled), taken) /\ Holds(Waiting, taken, Pushed)
    BY DEF IInv, NothingLost
  <2>2. /\ Len(from) \in Nat /\ Len(handled) \in Nat /\ taken \in Nat
        /\ batch = <<>> /\ batch' = Waiting /\ Waiting' = <<>>
        /\ UNCHANGED <<from, handled>> /\ Pushed' = Pushed
    BY LenProperties DEF IInv, TypeOK, BatchEmpty, BeginSwap, mainVars, Pushed, Waiting
  <2>3. taken = Len(handled)
    BY <2>1, <2>2, HoldsOfEmpty
  <2>4. Pushed \in 0 .. Len(from)
    BY <2>2 DEF IInv, InHand, Pushed, Timer
  <2>5. Holds(batch', Len(handled'), Pushed) /\ Holds(Waiting', Pushed, Pushed')
    BY <2>1, <2>2, <2>3, <2>4, HoldsNone
  <2> QED
    BY <2>2, <2>4, <2>5 DEF IInv, NothingLost
<1> QED
  BY <1>1, <1>2, <1>3, <1>4 DEF IInv

(* The queue is left empty. *)
LEMMA EndSwapIInv ==
  ASSUME IInv, EndSwap
  PROVE  IInv'
<1>1. TypeOK'
  BY EmptySeq DEF IInv, TypeOK, EndSwap, Timer, mainVars, workerVars, shared
<1>2. LockOwner' /\ ListStable' /\ SeenStaysTrue' /\ Published' /\ BatchEmpty'
  BY DEF IInv, TypeOK, LockOwner, ListStable, SeenStaysTrue, Published,
         BatchEmpty, HasMessage,
         EndSwap, Timer, mainVars, workerVars, shared
<1>3. InHand' /\ AnnouncedFirst'
  BY DEF IInv, TypeOK, InHand, AnnouncedFirst, EndSwap, Timer, mainVars, workerVars, shared
<1>4. NothingLost'
  BY SameLists DEF IInv, Pushed, Waiting, EndSwap, Timer, mainVars, workerVars, shared
<1> QED
  BY <1>1, <1>2, <1>3, <1>4 DEF IInv

(* The script gets a timer message or the next message. *)
LEMMA HandleIInv ==
  ASSUME IInv, Handle
  PROVE  IInv'
<1>1. TypeOK'
  BY HeadTailProperties, AppendProperties DEF IInv, TypeOK, Handle, Timer, mainVars, workerVars, shared
<1>2. LockOwner' /\ ListStable' /\ SeenStaysTrue' /\ Published' /\ BatchEmpty'
  BY DEF IInv, TypeOK, LockOwner, ListStable, SeenStaysTrue, Published,
         BatchEmpty, HasMessage,
         Handle, Timer, mainVars, workerVars, shared
<1>3. InHand' /\ AnnouncedFirst'
  BY DEF IInv, TypeOK, InHand, AnnouncedFirst, Handle, Timer, mainVars, workerVars, shared
<1>4. NothingLost'
  <2>1. PICK taken \in 0 .. Len(from) :
           Holds(batch, Len(handled), taken) /\ Holds(Waiting, taken, Pushed)
    BY DEF IInv, NothingLost
  <2>2. /\ Len(from) \in Nat /\ Len(handled) \in Nat /\ taken \in Nat
        /\ handled \in Seq(Nat) /\ batch \in Seq(Nat)
        /\ batch # <<>> /\ batch' = Tail(batch)
        /\ UNCHANGED from /\ Waiting' = Waiting /\ Pushed' = Pushed
    BY LenProperties DEF IInv, TypeOK, Handle, mainVars, shared, Pushed, Waiting
  <2>3. \A i \in 1 .. Len(handled) : handled[i] = i
    BY DEF IInv, NothingLost
  <2>4. CASE Head(batch) = Timer
    <3>1. handled' = handled
      BY <2>4 DEF Handle
    <3>2. Holds(batch', Len(handled'), taken)
      BY <2>1, <2>2, <2>4, <3>1, HoldsHead DEF Timer
    <3> QED
      BY <3>1, <3>2, <2>1, <2>2, <2>3 DEF NothingLost
  <2>5. CASE Head(batch) # Timer
    <3>1. Head(batch) = Len(handled) + 1 /\ Holds(batch', Len(handled) + 1, taken)
      BY <2>1, <2>2, <2>5, HoldsHead
    <3>2. handled' = Append(handled, Len(handled) + 1)
      BY <2>5, <3>1 DEF Handle
    <3>3. /\ Len(handled') = Len(handled) + 1
          /\ \A i \in 1 .. Len(handled') : handled'[i] = i
      BY <3>2, <2>2, <2>3, AppendProperties
    <3> QED
      BY <3>1, <3>3, <2>1, <2>2 DEF NothingLost
  <2> QED
    BY <2>4, <2>5
<1> QED
  BY <1>1, <1>2, <1>3, <1>4 DEF IInv

(* The script's callback is done. *)
LEMMA HandledIInv ==
  ASSUME IInv, Handled
  PROVE  IInv'
<1>1. TypeOK'
  BY DEF IInv, TypeOK, Handled, Timer, mainVars, workerVars, shared
<1>2. LockOwner' /\ ListStable' /\ SeenStaysTrue' /\ Published' /\ BatchEmpty'
  BY DEF IInv, TypeOK, LockOwner, ListStable, SeenStaysTrue, Published,
         BatchEmpty, HasMessage,
         Handled, Timer, mainVars, workerVars, shared
<1>3. InHand' /\ AnnouncedFirst'
  BY DEF IInv, TypeOK, InHand, AnnouncedFirst, Handled, Timer, mainVars, workerVars, shared
<1>4. NothingLost'
  BY SameLists DEF IInv, Pushed, Waiting, Handled, Timer, mainVars, workerVars, shared
<1> QED
  BY <1>1, <1>2, <1>3, <1>4 DEF IInv

(* The worker's list is used up. *)
LEMMA BatchDoneIInv ==
  ASSUME IInv, BatchDone
  PROVE  IInv'
<1>1. TypeOK'
  BY DEF IInv, TypeOK, BatchDone, Timer, mainVars, workerVars, shared
<1>2. LockOwner' /\ ListStable' /\ SeenStaysTrue' /\ Published' /\ BatchEmpty'
  BY DEF IInv, TypeOK, LockOwner, ListStable, SeenStaysTrue, Published,
         BatchEmpty, HasMessage,
         BatchDone, Timer, mainVars, workerVars, shared
<1>3. InHand' /\ AnnouncedFirst'
  BY DEF IInv, TypeOK, InHand, AnnouncedFirst, BatchDone, Timer, mainVars, workerVars, shared
<1>4. NothingLost'
  BY SameLists DEF IInv, Pushed, Waiting, BatchDone, Timer, mainVars, workerVars, shared
<1> QED
  BY <1>1, <1>2, <1>3, <1>4 DEF IInv

LEMMA StutterIInv ==
  ASSUME IInv, UNCHANGED vars
  PROVE  IInv'
<1>1. UNCHANGED <<main, worker, mutex, server, connections_, messageQueue_, current, todo,
                  hand, view, batch, announced, from, handled, timers>>
  BY DEF vars, mainVars, workerVars, shared
<1>2. /\ TypeOK' /\ LockOwner' /\ ListStable' /\ SeenStaysTrue'
      /\ Published' /\ BatchEmpty' /\ InHand'
  BY <1>1 DEF IInv, TypeOK, LockOwner, ListStable, SeenStaysTrue, Published, BatchEmpty, InHand
<1>3. AnnouncedFirst' /\ NothingLost'
  BY <1>1 DEF IInv, AnnouncedFirst, NothingLost, Pushed, Waiting
<1> QED
  BY <1>2, <1>3 DEF IInv

(* The invariant is inductive. *)
THEOREM LuaServerInvariant == Spec => []IInv
<1>1. Init => IInv
  BY InitIInv
<1>2. IInv /\ [Next]_vars => IInv'
  <2> SUFFICES ASSUME IInv, [Next]_vars PROVE IInv'
    OBVIOUS
  <2>1. CASE Boot
    BY <2>1, StartThreadIInv, ConstructServerIInv, PublishServerIInv DEF Boot
  <2>2. CASE Event
    BY <2>2, AcceptIInv, DisconnectIInv, ReadIInv, TimerMessageIInv DEF Event
  <2>3. CASE MainStep
    BY <2>3, AnnouncedIInv, ExtractIInv, ParsedIInv, LockToPushIInv,
       BeginPushIInv, EndPushIInv DEF MainStep
  <2>4. CASE WorkerStep
    BY <2>4, CheckServerIInv, LookIInv, LockToSwapIInv, BeginSwapIInv, EndSwapIInv,
       HandleIInv, HandledIInv, BatchDoneIInv DEF WorkerStep
  <2>5. CASE UNCHANGED vars
    BY <2>5, StutterIInv
  <2> QED
    BY <2>1, <2>2, <2>3, <2>4, <2>5 DEF Next
<1> QED
  BY <1>1, <1>2, PTL DEF Spec

(* No message is lost, duplicated or overtaken between the codec and the   *)
(* script, whatever the interleaving of the two threads.                   *)
THEOREM NothingLostAlways == Spec => []NothingLost
<1>1. IInv => NothingLost
  BY DEF IInv
<1> QED
  BY <1>1, LuaServerInvariant, PTL

(* The worker never swaps an empty queue, though it looks without the lock. *)
THEOREM SwapFindsMessagesAlways == Spec => []SwapFindsMessages
<1>1. IInv => SwapFindsMessages
  BY DEF IInv, LockOwner, SeenStaysTrue, SwapFindsMessages
<1> QED
  BY <1>1, LuaServerInvariant, PTL

(* The worker touches the server only after startServer published it. *)
THEOREM NoEarlyUseAlways == Spec => []NoEarlyUse
<1>1. IInv => NoEarlyUse
  BY DEF IInv, Published, NoEarlyUse
<1> QED
  BY <1>1, LuaServerInvariant, PTL

-----------------------------------------------------------------------------
(* The two threads implement the pipe: every step maps to a step of it or  *)
(* changes nothing of it.                                                  *)

LEMMA StepRefines ==
  ASSUME IInv, [Next]_vars
  PROVE  [MP!Next]_(MP!vars)
<1> USE DEF MP!vars
<1>1. CASE \/ Boot \/ TimerMessage \/ Parsed \/ LockToPush \/ BeginPush \/ EndPush
          \/ UNCHANGED vars
  BY <1>1 DEF Boot, StartThread, ConstructServer, PublishServer, TimerMessage, Parsed,
              LockToPush, BeginPush, EndPush, vars, mainVars, workerVars, shared
<1>2. CASE \E c \in Conns : Accept(c) \/ Disconnect(c) \/ (\E n \in 1 .. MaxBurst : Read(c, n))
  BY <1>2 DEF Accept, Disconnect, Read, workerVars, shared
<1>3. CASE Announced
  <2>1. MP!Announce(current) /\ current \in Conns
    BY <1>3 DEF IInv, AnnouncedFirst, Announced, MP!Announce, workerVars
  <2> QED
    BY <2>1 DEF MP!Next
<1>4. CASE Extract
  <2>1. MP!Arrive(current) /\ current \in Conns
    BY <1>4 DEF IInv, TypeOK, AnnouncedFirst, Extract, MP!Arrive, workerVars
  <2> QED
    BY <2>1 DEF MP!Next
<1>5. CASE \/ CheckServer \/ Look \/ LockToSwap \/ BeginSwap \/ EndSwap
          \/ Handled \/ BatchDone
  BY <1>5 DEF CheckServer, Look, LockToSwap, BeginSwap, EndSwap, Handled, BatchDone,
              mainVars, shared
<1>6. CASE Handle
  <2>1. PICK taken \in 0 .. Len(from) :
           Holds(batch, Len(handled), taken)
    BY DEF IInv, NothingLost
  <2>2. /\ Len(from) \in Nat /\ Len(handled) \in Nat /\ taken \in Nat
        /\ batch \in Seq(Nat) /\ batch # <<>>
        /\ UNCHANGED <<from, announced>>
    BY <1>6, LenProperties DEF IInv, TypeOK, Handle, mainVars
  <2>3. CASE Head(batch) = Timer
    BY <1>6, <2>2, <2>3 DEF Handle
  <2>4. CASE Head(batch) # Timer
    <3>1. Head(batch) = Len(handled) + 1 /\ Holds(Tail(batch), Len(handled) + 1, taken)
      BY <2>1, <2>2, <2>4, HoldsHead
    <3>2. Len(handled) < Len(from)
      BY <3>1, <2>2 DEF Holds
    <3>3. MP!Handle
      BY <1>6, <2>2, <2>4, <3>1, <3>2 DEF Handle, MP!Handle
    <3> QED
      BY <3>3 DEF MP!Next
  <2> QED
    BY <2>3, <2>4
<1> QED
  BY <1>1, <1>2, <1>3, <1>4, <1>5, <1>6 DEF Next, Event, MainStep, WorkerStep

(* The safety half of ImplementsMessagePipe. *)
THEOREM PipeRefinement == Spec => MP!Init /\ [][MP!Next]_(MP!vars)
<1>1. Init => MP!Init
  BY DEF Init, MP!Init
<1>2. IInv /\ [Next]_vars => [MP!Next]_(MP!vars)
  BY StepRefines
<1> QED
  BY <1>1, <1>2, LuaServerInvariant, PTL DEF Spec

=============================================================================
