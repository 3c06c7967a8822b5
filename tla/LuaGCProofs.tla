---------------------------- MODULE LuaGCProofs ----------------------------
(***************************************************************************)
(* The collector frees nothing a program can reach, whatever it does       *)
(* between the collector's steps: for any number of objects, of slots in a *)
(* stack, of programs.                                                     *)
(***************************************************************************)
EXTENDS LuaGC, FiniteSetTheorems, TLAPS

States == {"pause", "propagate", "sweepstring", "sweep", "finalize"}
Colours == Whites \cup {"gray", "black"}
Collectors ==
  [state : States, white : Whites, c : [Objs -> Colours], gray : Seq(Objs), grayagain : Seq(Objs),
   weak : Seq(Objs), rootgc : SUBSET Objs, sweepgc : SUBSET Objs, tmudata : SUBSET Objs]

other(w) == IF w = "w0" THEN "w1" ELSE "w0"

(* In a heap h with the collector s: the objects, those that are not dead, *)
(* those that are marked, the open upvalues.                               *)
Live(h) == {o \in Objs : h[o].tt # "free"}
Alive(h, s) == {o \in Live(h) : s.c[o] # other(s.white)}
Marked(s) == {o \in Objs : s.c[o] \notin Whites}
Open(h, o) == h[o].tt = "upval" /\ h[o].thread # Nil

(* "udata are never gray", "open upvalues are never black" and a closed one *)
(* is never gray, a thread never black.                                     *)
ColoursOK(h, s) ==
  \A o \in Objs : /\ h[o].tt = "udata"  => s.c[o] # "gray"
                  /\ h[o].tt = "thread" => s.c[o] # "black"
                  /\ h[o].tt = "upval" /\ h[o].thread # Nil => s.c[o] # "black"
                  /\ h[o].tt = "upval" /\ h[o].thread = Nil => s.c[o] # "gray"

(* What is not dead refers to nothing dead. *)
RefersToAlive(h, s) == \A o \in Alive(h, s) : Leads(h, o) /\ Refers(h, o) \ {Nil} \subseteq Alive(h, s)

(* Each object is on one of the lists, or an open upvalue of a thread. *)
Listed(h, s) ==
  /\ s.rootgc \subseteq Live(h) /\ s.sweepgc \subseteq s.rootgc
  /\ s.tmudata \subseteq {o \in Alive(h, s) : h[o].tt = "udata"}
  /\ s.tmudata \cap s.rootgc = {}
  /\ \A o \in Live(h) : o \in s.rootgc \cup s.tmudata <=> ~Open(h, o)
  /\ s.state \notin {"sweepstring", "sweep"} => s.sweepgc = {}
  /\ s.state = "pause" => s.tmudata = {}

(* What the sweep has passed is white. *)
Swept(h, s) ==
  \A o \in Live(h) : \/ s.c[o] = s.white \/ o \in s.sweepgc \cup s.tmudata
                     \/ Open(h, o) /\ h[o].thread \in s.sweepgc

(* No object is on two of the lists through gclist, or twice on one. *)
Distinct(s) ==
  /\ IsInjective(s.gray) /\ IsInjective(s.grayagain) /\ IsInjective(s.weak)
  /\ Range(s.gray) \cap Range(s.grayagain) = {}
  /\ Range(s.gray) \cap Range(s.weak) = {}
  /\ Range(s.grayagain) \cap Range(s.weak) = {}
Lists(s) == Range(s.gray) \cup Range(s.grayagain) \cup Range(s.weak)

(* While marking: what is gray is listed, nothing is dead.                 *)
Shape(h, s) ==
  /\ s \in Collectors /\ ColoursOK(h, s) /\ Alive(h, s) = Live(h) /\ Distinct(s)
  /\ \A o \in Range(s.gray) : h[o].tt \in {"table", "function", "thread"}
  /\ \A o \in Range(s.grayagain) : h[o].tt \in {"table", "thread"}
  /\ \A o \in Range(s.weak) : h[o].tt = "table"
  /\ \A o \in Lists(s) : s.c[o] = "gray"
  /\ \A o \in Live(h) : s.c[o] = "gray" => o \in Lists(s) \/ h[o].tt = "upval"

(* The invariant of three colours: an object that is marked and will not be *)
(* looked at again refers to marked ones only.                              *)
Tricolour(h, s) ==
  /\ Shape(h, s) /\ Main \in Marked(s)
  /\ \A o \in Live(h) \cap Marked(s) :
       \/ o \in Lists(s) \cup s.tmudata \/ Open(h, o)
       \/ Refers(h, o) \ {Nil} \subseteq Marked(s)

HeapInv(h, s) ==
  /\ h \in Heaps /\ s \in Collectors /\ SlotsExist(h)
  /\ ColoursOK(h, s) /\ RefersToAlive(h, s) /\ Listed(h, s)
  /\ IF s.state = "propagate" THEN Tricolour(h, s) ELSE Swept(h, s)

Roots(h, s, t) == {Main, t} \subseteq Alive(h, s) /\ h[Main].tt = "thread" /\ h[t].tt = "thread"

(* Userdata are marked as finalized when they wait for their __gc or it has *)
(* run, and none is dead before.                                           *)
Finished(h, s, cs) ==
  /\ \A o \in cs : o \in Objs /\ h[o].tt = "udata" /\ o \notin s.tmudata
  /\ \A o \in Objs : h[o].tt = "udata" => /\ h[o].fin <=> o \in s.tmudata \cup cs
                                          /\ o \notin Alive(h, s) => h[o].fin

IInv ==
  /\ program \in Programs
  /\ HeapInv(heap, g) /\ Roots(heap, g, running) /\ Finished(heap, g, called)

-----------------------------------------------------------------------------
(* Sequences and numbers.                                                  *)

(* A set that has zero and the successor of each of its elements has every *)
(* natural number.                                                         *)
LEMMA Successors ==
  ASSUME NEW T, T \subseteq Nat, 0 \in T, \A n \in T : n + 1 \in T
  PROVE  T = Nat
<1> SUFFICES ASSUME Nat \ T # {}  PROVE FALSE
  OBVIOUS
<1>1. PICK m \in Nat \ T : \A k \in Nat \ T : ~(<<k, m>> \in OpToRel(<, Nat))
  BY NatLessThanWellFounded, WFMin
<1>2. m # 0 /\ m - 1 \in Nat  OBVIOUS
<1>3. m - 1 \notin T  BY <1>2
<1>4. <<m - 1, m>> \in OpToRel(<, Nat)  BY <1>2 DEF OpToRel
<1> QED  BY <1>1, <1>2, <1>3, <1>4

(* A step can be repeated any number of times. *)
Runs(X, x, F, n) == {f \in [0 .. n -> X] : f[0] = x /\ \A k \in 1 .. n : f[k] = F[f[k - 1]]}

Iterates(x, F, f) == f = [n \in Nat |-> IF n = 0 THEN x ELSE F[f[n - 1]]]

LEMMA Repeats ==
  ASSUME NEW X, NEW x \in X, NEW F \in [X -> X]
  PROVE  \E f \in [Nat -> X] : Iterates(x, F, f)
<1>1. \A n \in Nat : Runs(X, x, F, n) # {}
  <2> DEFINE T == {n \in Nat : Runs(X, x, F, n) # {}}
  <2>1. 0 \in T
    <3>1. [k \in 0 .. 0 |-> x] \in Runs(X, x, F, 0)  BY DEF Runs
    <3> QED  BY <3>1
  <2>2. ASSUME NEW n \in T  PROVE n + 1 \in T
    <3>1. PICK f \in [0 .. n -> X] : f[0] = x /\ \A k \in 1 .. n : f[k] = F[f[k - 1]]
      BY <2>2 DEF Runs
    <3> DEFINE e == [k \in 0 .. n + 1 |-> IF k = n + 1 THEN F[f[n]] ELSE f[k]]
    <3>2. n \in Nat /\ f[n] \in X /\ F[f[n]] \in X  BY <3>1
    <3>3. e \in [0 .. n + 1 -> X]  BY <3>1, <3>2
    <3>4. e[0] = x  BY <3>1, <3>2
    <3>5. ASSUME NEW k \in 1 .. n + 1  PROVE e[k] = F[e[k - 1]]
      <4>1. CASE k = n + 1
        <5>1. k - 1 = n /\ n \in 0 .. n + 1 /\ n # n + 1  BY <3>2, <4>1
        <5> QED  BY <4>1, <5>1
      <4>2. CASE k # n + 1
        <5>1. k \in 1 .. n /\ k - 1 \in 0 .. n + 1 /\ k - 1 # n + 1  BY <3>2, <4>2
        <5> QED  BY <3>1, <4>2, <5>1
      <4> QED  BY <4>1, <4>2
    <3>6. e \in Runs(X, x, F, n + 1)  BY <3>3, <3>4, <3>5 DEF Runs
    <3> QED  BY <3>2, <3>6
  <2> HIDE DEF T
  <2>3. T = Nat  BY <2>1, <2>2, Successors DEF T
  <2> QED  BY <2>3 DEF T
<1>2. ASSUME NEW n \in Nat, NEW m \in Nat, n <= m, NEW e \in Runs(X, x, F, n), NEW f \in Runs(X, x, F, m)
      PROVE  e[n] = f[n]
  <2> DEFINE T == {k \in Nat : k <= n => e[k] = f[k]}
  <2>1. 0 \in T  BY DEF Runs
  <2>2. ASSUME NEW k \in T  PROVE k + 1 \in T
    <3>1. CASE k + 1 <= n
      <4>1. k + 1 \in 1 .. n /\ k + 1 \in 1 .. m /\ (k + 1) - 1 = k /\ k <= n  BY <1>2, <3>1
      <4>2. e[k + 1] = F[e[k]] /\ f[k + 1] = F[f[k]]  BY <4>1 DEF Runs
      <4> QED  BY <4>1, <4>2
    <3> QED  BY <3>1
  <2> HIDE DEF T
  <2>3. T = Nat  BY <2>1, <2>2, Successors DEF T
  <2> QED  BY <2>3 DEF T
<1> DEFINE r(n) == CHOOSE e \in Runs(X, x, F, n) : TRUE
           f == [n \in Nat |-> r(n)[n]]
<1>3. \A n \in Nat : r(n) \in Runs(X, x, F, n)  BY <1>1
<1> HIDE DEF r
<1>4. f \in [Nat -> X]
  <2>1. ASSUME NEW n \in Nat  PROVE r(n)[n] \in X
    <3>1. r(n) \in [0 .. n -> X]  BY <1>3 DEF Runs
    <3> QED  BY <3>1
  <2> QED  BY <2>1
<1>5. ASSUME NEW n \in Nat  PROVE f[n] = IF n = 0 THEN x ELSE F[f[n - 1]]
  <2>1. CASE n = 0
    <3>1. r(0)[0] = x  BY <1>3 DEF Runs
    <3> QED  BY <2>1, <3>1
  <2>2. CASE n # 0
    <3>1. n - 1 \in Nat /\ n \in 1 .. n /\ n - 1 <= n  BY <2>2
    <3>2. r(n)[n] = F[r(n)[n - 1]]  BY <1>3, <3>1 DEF Runs
    <3>3. r(n - 1)[n - 1] = r(n)[n - 1]  BY <1>2, <1>3, <3>1
    <3> QED  BY <2>2, <3>1, <3>2, <3>3
  <2> QED  BY <2>1, <2>2
<1>6. Iterates(x, F, f)
  <2> HIDE DEF f
  <2>1. DOMAIN f = Nat  BY <1>4
  <2> QED  BY <1>4, <1>5, <2>1 DEF Iterates
<1> QED  BY <1>4, <1>6

(* A set as a sequence. *)
LEMMA SetAsSeq ==
  ASSUME NEW S, IsFiniteSet(S)
  PROVE  SetToSeq(S) \in Seq(S) /\ Range(SetToSeq(S)) = S /\ IsInjective(SetToSeq(S))
<1> DEFINE n == Cardinality(S)
<1>1. n \in Nat /\ ExistsBijection(1 .. n, S)  BY FS_CardinalityType
<1>2. PICK b \in [1 .. n -> S] : IsInjective(b)
  BY <1>1 DEF ExistsBijection, Bijection, Injection
<1> DEFINE f == SetToSeq(S)
<1>3. f \in [1 .. n -> S] /\ IsInjective(f)  BY <1>2 DEF SetToSeq
<1> HIDE DEF f
<1>4. f \in Injection(1 .. n, S)  BY <1>3 DEF Injection, IsInjective
<1>5. IsFiniteSet(1 .. n) /\ Cardinality(1 .. n) = n
  BY <1>1, FS_Interval
<1>6. f \in Surjection(1 .. n, S)  BY <1>1, <1>4, <1>5, FS_Injection
<1>7. Range(f) = S  BY <1>3, <1>6 DEF Surjection, Range
<1>8. f \in Seq(S)  BY <1>1, <1>3
<1> QED  BY <1>3, <1>7, <1>8 DEF f

LEMMA Joined ==
  ASSUME NEW X, NEW p \in Seq(X), NEW q \in Seq(X)
  PROVE  /\ p \o q \in Seq(X) /\ Range(p \o q) = Range(p) \cup Range(q)
         /\ IsInjective(p) /\ IsInjective(q) /\ Range(p) \cap Range(q) = {} => IsInjective(p \o q)
<1> DEFINE r == p \o q
<1>1. /\ r \in Seq(X) /\ Len(p) \in Nat /\ Len(q) \in Nat /\ Len(r) = Len(p) + Len(q)
      /\ \A i \in 1 .. Len(p) : r[i] = p[i]
      /\ \A i \in 1 .. Len(q) : r[Len(p) + i] = q[i]
      /\ DOMAIN p = 1 .. Len(p) /\ DOMAIN q = 1 .. Len(q) /\ DOMAIN r = 1 .. Len(r)
  OBVIOUS
<1> HIDE DEF r
<1>2. \A k \in 1 .. Len(r) : k \in 1 .. Len(p) \/ \E i \in 1 .. Len(q) : k = Len(p) + i
  <2> TAKE k \in 1 .. Len(r)
  <2>1. CASE k > Len(p)
    <3>1. k - Len(p) \in 1 .. Len(q) /\ k = Len(p) + (k - Len(p))  BY <1>1, <2>1
    <3> QED  BY <3>1
  <2>2. CASE k <= Len(p)
    BY <1>1, <2>2
  <2> QED  BY <1>1, <2>1, <2>2
<1>3. \A i \in 1 .. Len(p) : i \in 1 .. Len(r)  BY <1>1
<1>4. \A i \in 1 .. Len(q) : Len(p) + i \in 1 .. Len(r)  BY <1>1
<1>5. Range(r) = Range(p) \cup Range(q)
  <2>1. Range(r) \subseteq Range(p) \cup Range(q)
    <3> SUFFICES ASSUME NEW k \in 1 .. Len(r)  PROVE r[k] \in Range(p) \cup Range(q)
      BY <1>1 DEF Range
    <3>1. CASE k \in 1 .. Len(p)  BY <1>1, <3>1 DEF Range
    <3>2. CASE \E i \in 1 .. Len(q) : k = Len(p) + i
      <4>1. PICK i \in 1 .. Len(q) : k = Len(p) + i  BY <3>2
      <4>2. r[k] = q[i]  BY <1>1, <4>1
      <4> QED  BY <1>1, <4>2 DEF Range
    <3> QED  BY <1>2, <3>1, <3>2
  <2>2. Range(p) \subseteq Range(r)  BY <1>1, <1>3 DEF Range
  <2>3. Range(q) \subseteq Range(r)  BY <1>1, <1>4 DEF Range
  <2> QED  BY <2>1, <2>2, <2>3
<1>6. ASSUME IsInjective(p), IsInjective(q), Range(p) \cap Range(q) = {}
      PROVE  IsInjective(r)
  <2> SUFFICES ASSUME NEW i \in 1 .. Len(r), NEW j \in 1 .. Len(r), r[i] = r[j]
               PROVE  i = j
    BY <1>1 DEF IsInjective
  <2>1. \A k \in 1 .. Len(p) : p[k] \in Range(p)  BY <1>1 DEF Range
  <2>2. \A k \in 1 .. Len(q) : q[k] \in Range(q)  BY <1>1 DEF Range
  <2>3. CASE i \in 1 .. Len(p) /\ j \in 1 .. Len(p)
    <3>1. p[i] = p[j]  BY <1>1, <2>3
    <3> QED  BY <1>1, <1>6, <2>3, <3>1 DEF IsInjective
  <2>4. CASE \E k, m \in 1 .. Len(q) : i = Len(p) + k /\ j = Len(p) + m
    <3>1. PICK k \in 1 .. Len(q) : \E m \in 1 .. Len(q) : i = Len(p) + k /\ j = Len(p) + m  BY <2>4
    <3>2. PICK m \in 1 .. Len(q) : i = Len(p) + k /\ j = Len(p) + m  BY <3>1
    <3>3. q[k] = r[i] /\ q[m] = r[j]  BY <1>1, <3>2
    <3>4. k = m  BY <1>1, <1>6, <3>3 DEF IsInjective
    <3> QED  BY <3>2, <3>4
  <2>5. CASE i \in 1 .. Len(p) /\ \E m \in 1 .. Len(q) : j = Len(p) + m
    BY <1>1, <1>6, <2>1, <2>2, <2>5
  <2>6. CASE j \in 1 .. Len(p) /\ \E m \in 1 .. Len(q) : i = Len(p) + m
    BY <1>1, <1>6, <2>1, <2>2, <2>6
  <2> QED  BY <1>2, <2>3, <2>4, <2>5, <2>6
<1> QED  BY <1>1, <1>5, <1>6 DEF r

LEMMA Prepended ==
  ASSUME NEW X, NEW o \in X, NEW q \in Seq(X)
  PROVE  /\ <<o>> \o q \in Seq(X) /\ Range(<<o>> \o q) = {o} \cup Range(q)
         /\ IsInjective(q) /\ o \notin Range(q) => IsInjective(<<o>> \o q)
<1> DEFINE p == <<o>>
<1>1. p \in Seq(X)  OBVIOUS
<1>2. Range(p) = {o} /\ IsInjective(p)  BY DEF Range, IsInjective
<1> HIDE DEF p
<1>3. /\ p \o q \in Seq(X) /\ Range(p \o q) = Range(p) \cup Range(q)
      /\ IsInjective(p) /\ IsInjective(q) /\ Range(p) \cap Range(q) = {} => IsInjective(p \o q)
  BY <1>1, Joined
<1>4. o \notin Range(q) => Range(p) \cap Range(q) = {}  BY <1>2
<1>5. /\ p \o q \in Seq(X) /\ Range(p \o q) = {o} \cup Range(q)
      /\ IsInjective(q) /\ o \notin Range(q) => IsInjective(p \o q)
  BY <1>2, <1>3, <1>4
<1> QED  BY <1>5 DEF p

LEMMA WithoutHead ==
  ASSUME NEW X, NEW q \in Seq(X), q # <<>>
  PROVE  /\ Head(q) \in X /\ Tail(q) \in Seq(X) /\ Range(q) = {Head(q)} \cup Range(Tail(q))
         /\ IsInjective(q) => IsInjective(Tail(q)) /\ Head(q) \notin Range(Tail(q))
<1> DEFINE n == Len(q)
           r == Tail(q)
<1>1. /\ n \in Nat /\ n >= 1 /\ Head(q) = q[1] /\ r \in Seq(X) /\ Len(r) = n - 1
      /\ \A i \in 1 .. n - 1 : r[i] = q[i + 1]
      /\ DOMAIN q = 1 .. n /\ DOMAIN r = 1 .. n - 1 /\ q[1] \in X
  OBVIOUS
<1> HIDE DEF n, r
<1>2. \A i \in 1 .. n : i = 1 \/ (i - 1 \in 1 .. n - 1 /\ (i - 1) + 1 = i)  BY <1>1
<1>3. \A i \in 1 .. n - 1 : i + 1 \in 1 .. n /\ i + 1 # 1  BY <1>1
<1>4. Range(q) = {Head(q)} \cup Range(r)
  <2>1. Range(q) \subseteq {Head(q)} \cup Range(r)
    <3> SUFFICES ASSUME NEW i \in 1 .. n  PROVE q[i] \in {q[1]} \cup Range(r)
      BY <1>1 DEF Range
    <3>1. CASE i # 1
      <4>1. r[i - 1] = q[i] /\ i - 1 \in DOMAIN r  BY <1>1, <1>2, <3>1
      <4> QED  BY <4>1 DEF Range
    <3> QED  BY <3>1
  <2>2. Head(q) \in Range(q)  BY <1>1 DEF Range
  <2>3. Range(r) \subseteq Range(q)  BY <1>1, <1>3 DEF Range
  <2> QED  BY <2>1, <2>2, <2>3
<1>5. ASSUME IsInjective(q)  PROVE IsInjective(r) /\ Head(q) \notin Range(r)
  <2>1. ASSUME NEW i \in 1 .. n - 1, NEW j \in 1 .. n - 1, r[i] = r[j]  PROVE i = j
    <3>1. q[i + 1] = q[j + 1]  BY <1>1, <2>1
    <3>2. i + 1 \in DOMAIN q /\ j + 1 \in DOMAIN q  BY <1>1, <1>3
    <3>3. i + 1 = j + 1
      <4> DEFINE a == i + 1
                 b == j + 1
      <4>1. q[a] = q[b] /\ a \in DOMAIN q /\ b \in DOMAIN q  BY <3>1, <3>2
      <4> HIDE DEF a, b
      <4>2. a = b  BY <4>1, <1>5 DEF IsInjective
      <4> QED  BY <4>2 DEF a, b
    <3> QED  BY <3>3
  <2>2. \A i \in 1 .. n - 1 : r[i] # q[1]  BY <1>1, <1>3, <1>5 DEF IsInjective
  <2> QED  BY <1>1, <2>1, <2>2 DEF IsInjective, Range
<1> QED  BY <1>1, <1>4, <1>5 DEF r

-----------------------------------------------------------------------------
(* Heaps.                                                                  *)

LEMMA FiniteObjs == IsFiniteSet(Objs) /\ Cardinality(Objs) \in Nat
<1>1. IsFiniteSet(Objs)  BY GCParameters, FS_AddElement DEF Objs
<1> QED  BY <1>1, FS_CardinalityType

(* An object of each kind.                                                 *)
LEMMA Kinds ==
  ASSUME NEW h \in Heaps, NEW o \in Objs
  PROVE  /\ h[o].tt = "table" => h[o] \in Table
         /\ h[o].tt = "udata" => h[o] \in Udata
         /\ h[o].tt = "function" => h[o] \in Function
         /\ h[o].tt = "upval" => h[o] \in Upval
         /\ h[o].tt = "thread" => h[o] \in Thread
         /\ h[o].tt = "free" => h[o] = Free
         /\ h[o].tt \in {"table", "udata", "function", "upval", "thread", "free"}
<1>1. \/ h[o] \in Table \/ h[o] \in Udata \/ h[o] \in Function \/ h[o] \in Upval \/ h[o] \in Thread
      \/ h[o] = Free
  BY DEF Heaps
<1>2. /\ h[o] \in Table => h[o].tt = "table"
      /\ h[o] \in Udata => h[o].tt = "udata"
      /\ h[o] \in Function => h[o].tt = "function"
      /\ h[o] \in Upval => h[o].tt = "upval"
      /\ h[o] \in Thread => h[o].tt = "thread"
      /\ h[o] = Free => h[o].tt = "free"
  BY DEF Table, Udata, Function, Upval, Thread, Free
<1> QED  BY <1>1, <1>2

(* What a stack holds. *)
LEMMA StackValues ==
  ASSUME NEW h \in Heaps, NEW t \in Objs, h[t].tt = "thread"
  PROVE  /\ \A i \in DOMAIN h[t].stack : h[t].stack[i] \in Values /\ h[t].stack[i] \in Range(h[t].stack)
         /\ Range(h[t].stack) \subseteq Values
<1>1. h[t].stack \in Seq(Values)  BY Kinds DEF Thread
<1>2. \A i \in DOMAIN h[t].stack : h[t].stack[i] \in Values  BY <1>1
<1> QED  BY <1>2 DEF Range

LEMMA UpvalValueType ==
  ASSUME NEW h \in Heaps, SlotsExist(h), NEW u \in Objs, h[u].tt = "upval"
  PROVE  /\ UpvalValue(h, u) \in Values
         /\ h[u].thread # Nil => /\ h[u].thread \in Objs /\ h[h[u].thread].tt = "thread"
                                 /\ UpvalValue(h, u) \in Range(h[h[u].thread].stack)
<1>1. h[u].thread \in Objs \cup {Nil} /\ h[u].val \in Values  BY Kinds DEF Upval
<1>2. ASSUME h[u].thread # Nil
      PROVE  /\ h[u].thread \in Objs /\ h[h[u].thread].tt = "thread"
             /\ h[u].slot \in DOMAIN h[h[u].thread].stack
  BY <1>1, <1>2 DEF SlotsExist
<1>3. CASE h[u].thread # Nil  BY <1>2, <1>3, StackValues DEF UpvalValue
<1>4. CASE h[u].thread = Nil  BY <1>1, <1>4 DEF UpvalValue
<1> QED  BY <1>3, <1>4

(* An object refers to addresses and to nil. *)
LEMMA RefersType ==
  ASSUME NEW h \in Heaps, SlotsExist(h), NEW o \in Objs
  PROVE  Refers(h, o) \subseteq Values /\ Strong(h, o) \subseteq Refers(h, o)
<1>1. CASE h[o].tt = "table"
  <2>1. h[o].key \in Values /\ h[o].val \in Values  BY <1>1, Kinds DEF Table
  <2> QED  BY <1>1, <2>1 DEF Refers, Strong
<1>2. CASE h[o].tt = "udata"
  <2>1. h[o].env \in Values  BY <1>2, Kinds DEF Udata
  <2> QED  BY <1>2, <2>1 DEF Refers, Strong
<1>3. CASE h[o].tt = "function"
  <2>1. h[o].up \in Values  BY <1>3, Kinds DEF Function, Values
  <2> QED  BY <1>3, <2>1 DEF Refers, Strong
<1>4. CASE h[o].tt = "upval"  BY <1>4, UpvalValueType DEF Refers, Strong
<1>5. CASE h[o].tt = "thread"  BY <1>5, StackValues DEF Refers, Strong
<1>6. CASE h[o].tt = "free"  BY <1>6 DEF Refers, Strong
<1> QED  BY <1>1, <1>2, <1>3, <1>4, <1>5, <1>6, Kinds

(* Refers by kinds. *)
LEMMA RefersCases ==
  ASSUME NEW h, NEW o
  PROVE  /\ h[o].tt = "table" => Refers(h, o) = {h[o].key, h[o].val}
         /\ h[o].tt = "udata" => Refers(h, o) = {h[o].env}
         /\ h[o].tt = "function" => Refers(h, o) = {h[o].up}
         /\ h[o].tt = "upval" => Refers(h, o) = {UpvalValue(h, o)}
         /\ h[o].tt = "thread" => Refers(h, o) = Range(h[o].stack)
         /\ h[o].tt = "free" => Refers(h, o) = {}
<1>1. h[o].tt = "table" => Strong(h, o) \subseteq {h[o].key, h[o].val}  BY DEF Strong
<1>2. h[o].tt = "table" => Refers(h, o) = {h[o].key, h[o].val}  BY <1>1 DEF Refers
<1>3. h[o].tt # "table" => Refers(h, o) = Strong(h, o)  BY DEF Refers
<1>4. /\ h[o].tt = "udata" => Strong(h, o) = {h[o].env}
      /\ h[o].tt = "function" => Strong(h, o) = {h[o].up}
      /\ h[o].tt = "upval" => Strong(h, o) = {UpvalValue(h, o)}
      /\ h[o].tt = "thread" => Strong(h, o) = Range(h[o].stack)
      /\ h[o].tt = "free" => Strong(h, o) = {}
  BY DEF Strong
<1> QED  BY <1>2, <1>3, <1>4

LEMMA SameRefers ==
  ASSUME NEW h \in Heaps, NEW k, NEW o \in Objs, k[o] = h[o],
         Open(h, o) => k[h[o].thread] = h[h[o].thread]
  PROVE  Refers(k, o) = Refers(h, o)
<1>1. CASE h[o].tt = "upval"
  <2>1. UpvalValue(k, o) = UpvalValue(h, o)  BY <1>1 DEF UpvalValue, Open
  <2>2. Refers(k, o) = {UpvalValue(k, o)}  BY <1>1, RefersCases
  <2>3. Refers(h, o) = {UpvalValue(h, o)}  BY <1>1, RefersCases
  <2> QED  BY <2>1, <2>2, <2>3
<1>2. CASE h[o].tt \in {"table", "udata", "function", "thread", "free"}
  BY <1>2 DEF Refers, Strong
<1> QED  BY <1>1, <1>2, Kinds

-----------------------------------------------------------------------------
(* Marking.  The heap h is the one the collector sees, or the one that is   *)
(* about to be: they agree on what mark reads.                             *)
Sound(h) == h \in Heaps /\ SlotsExist(h) /\ \A o \in Objs : Leads(h, o)
Agrees(h) ==
  \A o \in Objs : /\ h[o].tt = "udata" <=> heap[o].tt = "udata"
                  /\ h[o].tt = "udata" => h[o].env = heap[o].env
Markable(h, V) == \A v \in V \ {Nil} : v \in Objs /\ h[v].tt \notin {"free", "upval"}

White(s)    == {o \in Objs : s.c[o] \in Whites}
ToBlack(s, V) == {o \in V \cap White(s) : Is(o, "udata")}
ToGray(s, V)  == ((V \ ToBlack(s, V)) \cup {heap[u].env : u \in ToBlack(s, V)}) \cap White(s)

SameLists(s, t) ==
  t.state = s.state /\ t.white = s.white /\ t.rootgc = s.rootgc /\ t.sweepgc = s.sweepgc /\ t.tmudata = s.tmudata

LEMMA MarkFields ==
  ASSUME NEW s \in Collectors, NEW V
  PROVE  /\ mark(s, V) \in Collectors /\ SameLists(s, mark(s, V))
         /\ mark(s, V).grayagain = s.grayagain /\ mark(s, V).weak = s.weak
         /\ Range(mark(s, V).gray) = ToGray(s, V) \cup Range(s.gray)
         /\ IsInjective(s.gray) /\ ToGray(s, V) \cap Range(s.gray) = {} => IsInjective(mark(s, V).gray)
         /\ \A o \in Objs : mark(s, V).c[o] = IF o \in ToGray(s, V) THEN "gray"
                                             ELSE IF o \in ToBlack(s, V) THEN "black" ELSE s.c[o]
<1> DEFINE os == ToGray(s, V)
           us == ToBlack(s, V)
           q == SetToSeq(os)
           c == [o \in Objs |-> IF o \in os THEN "gray" ELSE IF o \in us THEN "black" ELSE s.c[o]]
           t == [s EXCEPT !.c = c, !.gray = q \o s.gray]
<1>1. mark(s, V) = t
  BY DEF mark, ToGray, ToBlack, White
<1>2. os \subseteq Objs /\ IsFiniteSet(os)
  BY FiniteObjs, FS_Subset DEF ToGray, White
<1>3. q \in Seq(Objs) /\ Range(q) = os /\ IsInjective(q)
  <2> HIDE DEF os
  <2>1. SetToSeq(os) \in Seq(os) /\ Range(SetToSeq(os)) = os /\ IsInjective(SetToSeq(os))
    BY <1>2, SetAsSeq
  <2>2. Seq(os) \subseteq Seq(Objs)  BY <1>2
  <2> QED  BY <2>1, <2>2
<1>4. s.gray \in Seq(Objs) /\ s.c \in [Objs -> Colours]  BY DEF Collectors
<1> HIDE DEF os, us, q
<1>5. /\ q \o s.gray \in Seq(Objs) /\ Range(q \o s.gray) = Range(q) \cup Range(s.gray)
      /\ IsInjective(q) /\ IsInjective(s.gray) /\ Range(q) \cap Range(s.gray) = {} => IsInjective(q \o s.gray)
  BY <1>3, <1>4, Joined
<1>6. c \in [Objs -> Colours]  BY <1>4 DEF Colours
<1> HIDE DEF c
<1>7. t \in Collectors  BY <1>5, <1>6 DEF Collectors
<1>8. SameLists(s, t) /\ t.grayagain = s.grayagain /\ t.weak = s.weak /\ t.gray = q \o s.gray /\ t.c = c
  BY DEF SameLists, Collectors
<1> QED  BY <1>1, <1>3, <1>5, <1>7, <1>8 DEF os, us, c

(* What an object refers to is marked. *)
Done(h, s, o) == Refers(h, o) \ {Nil} \subseteq Marked(s)

(* What is still to be marked or to be looked at. *)
Pending(s) == White(s) \cup Range(s.gray)

(* From s to t more is marked, and what is not looked at will be. *)
Marks(h, s, t) ==
  /\ Shape(h, t) /\ SameLists(s, t)
  /\ Marked(s) \subseteq Marked(t) /\ Pending(t) \subseteq Pending(s)
  /\ \A o \in Marked(t) \ Marked(s) : o \in Range(t.gray) \cup Range(t.weak) \/ Done(h, t, o)

LEMMA Colouring == \A s \in Collectors, o \in Objs :
  /\ s.c[o] \in Colours /\ (o \in White(s) <=> o \notin Marked(s))
  /\ s.c[o] = "gray" => o \in Marked(s) /\ o \notin White(s)
  /\ s.c[o] = "black" => o \in Marked(s) /\ o \notin White(s)
  /\ "gray" \notin Whites /\ "black" \notin Whites
BY DEF Collectors, Colours, White, Marked, Whites

LEMMA ListsType == \A s \in Collectors :
  /\ Range(s.gray) \subseteq Objs /\ Range(s.grayagain) \subseteq Objs /\ Range(s.weak) \subseteq Objs
<1>1. \A q \in Seq(Objs) : Range(q) \subseteq Objs  BY DEF Range
<1> QED  BY <1>1 DEF Collectors

LEMMA MarkKeeps ==
  ASSUME NEW h, Sound(h), Agrees(h), NEW s, Shape(h, s), NEW V, Markable(h, V)
  PROVE  /\ Marks(h, s, mark(s, V)) /\ V \ {Nil} \subseteq Marked(mark(s, V))
         /\ mark(s, V).grayagain = s.grayagain /\ mark(s, V).weak = s.weak
         /\ Range(s.gray) \subseteq Range(mark(s, V).gray)
         /\ Range(mark(s, V).gray) \subseteq White(s) \cup Range(s.gray)
         /\ \A o \in Marked(s) : mark(s, V).c[o] = s.c[o]
         /\ \A o \in Objs : h[o].tt = "upval" => mark(s, V).c[o] = s.c[o]
<1> DEFINE t == mark(s, V)
           os == ToGray(s, V)
           us == ToBlack(s, V)
<1>1. s \in Collectors /\ h \in Heaps  BY DEF Shape, Sound
<1>2. /\ t \in Collectors /\ SameLists(s, t) /\ t.grayagain = s.grayagain /\ t.weak = s.weak
      /\ Range(t.gray) = os \cup Range(s.gray)
      /\ IsInjective(s.gray) /\ os \cap Range(s.gray) = {} => IsInjective(t.gray)
      /\ \A o \in Objs : t.c[o] = IF o \in os THEN "gray" ELSE IF o \in us THEN "black" ELSE s.c[o]
  BY <1>1, MarkFields
<1> HIDE DEF t
<1>3. os \subseteq White(s) /\ us \subseteq White(s) /\ us \subseteq V /\ White(s) \subseteq Objs
  BY DEF ToGray, ToBlack, White
<1>4. \A o \in us : h[o].tt = "udata" /\ h[o].env = heap[o].env
  BY <1>3 DEF ToBlack, Is, Agrees
<1>5. \A o \in us : h[o].env = Nil \/ (h[o].env \in Objs /\ h[h[o].env].tt = "table")
  <2> TAKE o \in us
  <2>1. Leads(h, o) /\ Refers(h, o) = {h[o].env} /\ Refers(h, o) \subseteq Values
    BY <1>1, <1>3, <1>4, RefersCases, RefersType DEF Sound
  <2> QED  BY <1>4, <2>1 DEF Leads, Values, Objs
<1>6. \A o \in os : h[o].tt \in {"table", "function", "thread"}
  <2> TAKE o \in os
  <2>1. o \in White(s) /\ (o \in V \ us \/ \E u \in us : o = heap[u].env)  BY DEF ToGray
  <2>2. o \in Objs /\ o # Nil  BY <1>3, GCParameters
  <2>3. CASE o \in V \ us
    <3>1. heap[o].tt # "udata"  BY <2>1, <2>2, <2>3 DEF ToBlack, Is
    <3> QED  BY <1>1, <2>2, <2>3, <3>1, Kinds DEF Markable, Agrees
  <2>4. CASE \E u \in us : o = heap[u].env
    BY <1>4, <1>5, <2>2, <2>4
  <2> QED  BY <2>1, <2>3, <2>4
<1>7. ColoursOK(h, t)
  <2>1. ColoursOK(h, s)  BY DEF Shape
  <2> QED  BY <1>2, <1>4, <1>6, <2>1 DEF ColoursOK
<1>8. \A o \in Objs : t.c[o] = s.c[o] \/ t.c[o] \in {"gray", "black"}
  BY <1>2
<1>9. Alive(h, t) = Live(h)
  <2>1. \A o \in Live(h) : s.c[o] # other(s.white)  BY DEF Shape, Alive
  <2>2. t.white = s.white  BY <1>2 DEF SameLists
  <2> QED  BY <1>8, <2>1, <2>2 DEF Alive, Live, other
<1>10. \A o \in Lists(s) : s.c[o] = "gray" /\ o \in Objs /\ o \notin White(s)
  BY <1>1, ListsType, Colouring DEF Shape, Lists
<1>11. \A o \in Marked(s) : t.c[o] = s.c[o]
  BY <1>1, <1>2, <1>3, Colouring DEF Marked
<1>12. Distinct(t)
  BY <1>2, <1>3, <1>10 DEF Shape, Distinct, Lists
<1>13. \A o \in Lists(t) : t.c[o] = "gray"
  BY <1>2, <1>3, <1>10, <1>11, Colouring, <1>1 DEF Lists
<1>14. \A o \in Live(h) : t.c[o] = "gray" => o \in Lists(t) \/ h[o].tt = "upval"
  <2> SUFFICES ASSUME NEW o \in Live(h), t.c[o] = "gray"  PROVE o \in Lists(t) \/ h[o].tt = "upval"
    OBVIOUS
  <2>1. o \in Objs  BY DEF Live
  <2>2. o \in os \/ s.c[o] = "gray"  BY <1>2, <2>1
  <2>3. s.c[o] = "gray" => o \in Lists(s) \/ h[o].tt = "upval"  BY DEF Shape
  <2> QED  BY <1>2, <2>2, <2>3 DEF Lists
<1>15. Shape(h, t)
  <2>1. \A o \in Range(t.gray) : h[o].tt \in {"table", "function", "thread"}  BY <1>2, <1>6 DEF Shape
  <2> QED  BY <1>2, <1>7, <1>9, <1>12, <1>13, <1>14, <2>1 DEF Shape
<1>16. Marked(s) \subseteq Marked(t)
  BY <1>11 DEF Marked
<1>17. V \ {Nil} \subseteq Marked(t)
  <2> SUFFICES ASSUME NEW v \in V \ {Nil}  PROVE v \in Marked(t)
    OBVIOUS
  <2>1. v \in Objs  BY DEF Markable
  <2>2. CASE v \in White(s)
    <3>1. v \in us \/ v \in os  BY <2>2 DEF ToGray
    <3> QED  BY <1>1, <1>2, <2>1, <3>1, Colouring
  <2>3. CASE v \notin White(s)  BY <1>1, <1>16, <2>1, <2>3, Colouring
  <2> QED  BY <2>2, <2>3
<1>18. \A o \in Objs : o \in Marked(t) /\ o \notin Marked(s) => o \in os \cup us
  BY <1>2 DEF Marked
<1>19. \A o \in us : Done(h, t, o)
  <2> TAKE o \in us
  <2>1. Refers(h, o) = {h[o].env}  BY <1>4, RefersCases
  <2>2. SUFFICES ASSUME h[o].env # Nil  PROVE h[o].env \in Marked(t)
    BY <2>1 DEF Done
  <2>3. h[o].env \in Objs  BY <1>5, <2>2
  <2>4. CASE h[o].env \in White(s)
    <3>1. h[o].env \in os  BY <1>4, <2>4 DEF ToGray
    <3> QED  BY <1>2, <2>3, <3>1, Colouring
  <2>5. CASE h[o].env \notin White(s)  BY <1>1, <1>16, <2>3, <2>5, Colouring
  <2> QED  BY <2>4, <2>5
<1>20. \A o \in Marked(t) \ Marked(s) : o \in Range(t.gray) \/ Done(h, t, o)
  BY <1>2, <1>18, <1>19 DEF Marked
<1>21. White(t) \subseteq White(s)
  BY <1>1, <1>2, <1>16, Colouring DEF White
<1>22. Pending(t) \subseteq Pending(s)
  BY <1>2, <1>3, <1>21 DEF Pending
<1>23. Marks(h, s, t)
  BY <1>2, <1>15, <1>16, <1>20, <1>22 DEF Marks
<1>24. \A o \in Objs : h[o].tt = "upval" => t.c[o] = s.c[o]
  BY <1>2, <1>4, <1>6
<1> QED  BY <1>2, <1>3, <1>11, <1>17, <1>23, <1>24 DEF t

(* Marked, not to be looked at again, and yet referring to what is not marked. *)
Loose(h, s) == {o \in Marked(s) : o \notin Range(s.gray) \cup Range(s.weak) /\ ~Done(h, s, o)}

Grows(h, s, t) ==
  /\ Shape(h, t) /\ SameLists(s, t) /\ Marked(s) \subseteq Marked(t) /\ Loose(h, t) \subseteq Loose(h, s)
  /\ Range(s.weak) \subseteq Range(t.weak) /\ Range(s.grayagain) \subseteq Range(t.grayagain)
  /\ Pending(t) \subseteq Pending(s)

LEMMA GrowsTwice ==
  ASSUME NEW h, NEW s, NEW t, NEW u, Grows(h, s, t), Grows(h, t, u)
  PROVE  Grows(h, s, u)
BY DEF Grows, SameLists

LEMMA DoneStays ==
  ASSUME NEW h, NEW s, NEW t, Marked(s) \subseteq Marked(t), NEW o, Done(h, s, o)
  PROVE  Done(h, t, o)
BY DEF Done

LEMMA MarkGrows ==
  ASSUME NEW h, Sound(h), Agrees(h), NEW s, Shape(h, s), NEW V, Markable(h, V)
  PROVE  Grows(h, s, mark(s, V)) /\ V \ {Nil} \subseteq Marked(mark(s, V))
<1> DEFINE t == mark(s, V)
<1>1. /\ Marks(h, s, t) /\ V \ {Nil} \subseteq Marked(t) /\ t.grayagain = s.grayagain /\ t.weak = s.weak
      /\ Range(s.gray) \subseteq Range(t.gray)
  BY MarkKeeps
<1> HIDE DEF t
<1>2. ASSUME NEW o \in Loose(h, t)  PROVE o \in Loose(h, s)
  <2>1. o \in Marked(t) /\ o \notin Range(t.gray) \cup Range(t.weak) /\ ~Done(h, t, o)  BY DEF Loose
  <2>2. o \in Marked(s)  BY <1>1, <2>1 DEF Marks
  <2>3. ~Done(h, s, o)  BY <1>1, <2>1, DoneStays DEF Marks
  <2> QED  BY <1>1, <2>1, <2>2, <2>3 DEF Loose
<1>3. Grows(h, s, t)  BY <1>1, <1>2 DEF Grows, Marks
<1> QED  BY <1>1, <1>3 DEF t

(* The head of the gray list is taken off. *)
Taken(h, s, t, o) ==
  /\ t \in Collectors /\ SameLists(s, t) /\ t.gray = Tail(s.gray)
  /\ \A p \in Objs \ {o} : t.c[p] = s.c[p]
  /\ \/ t.c[o] = "black" /\ h[o].tt \in {"table", "function"} /\ t.weak = s.weak /\ t.grayagain = s.grayagain
     \/ t.c[o] = "gray" /\ h[o].tt = "table" /\ t.weak = <<o>> \o s.weak /\ t.grayagain = s.grayagain
     \/ t.c[o] = "gray" /\ h[o].tt = "thread" /\ t.weak = s.weak /\ t.grayagain = <<o>> \o s.grayagain

LEMMA TakenKeeps ==
  ASSUME NEW h, NEW s, Shape(h, s), s.gray # <<>>, NEW t, Taken(h, s, t, Head(s.gray))
  PROVE  /\ Shape(h, t) /\ Marked(t) = Marked(s) /\ Loose(h, t) \ {Head(s.gray)} \subseteq Loose(h, s)
         /\ Range(s.weak) \subseteq Range(t.weak) /\ Range(s.grayagain) \subseteq Range(t.grayagain)
         /\ Pending(t) \subseteq Pending(s) \ {Head(s.gray)}
         /\ Head(s.gray) \in Marked(s) /\ Head(s.gray) \in Objs
<1> DEFINE o == Head(s.gray)
<1>1. s \in Collectors /\ t \in Collectors  BY DEF Shape, Taken
<1>2. s.gray \in Seq(Objs) /\ s.grayagain \in Seq(Objs) /\ s.weak \in Seq(Objs)  BY <1>1 DEF Collectors
<1>3. /\ o \in Objs /\ Range(s.gray) = {o} \cup Range(Tail(s.gray))
      /\ IsInjective(s.gray) => IsInjective(Tail(s.gray)) /\ o \notin Range(Tail(s.gray))
  BY <1>2, WithoutHead
<1>4. Range(<<o>> \o s.weak) = {o} \cup Range(s.weak)
      /\ (IsInjective(s.weak) /\ o \notin Range(s.weak) => IsInjective(<<o>> \o s.weak))
  BY <1>2, <1>3, Prepended
<1>5. Range(<<o>> \o s.grayagain) = {o} \cup Range(s.grayagain)
      /\ (IsInjective(s.grayagain) /\ o \notin Range(s.grayagain) => IsInjective(<<o>> \o s.grayagain))
  BY <1>2, <1>3, Prepended
<1>6. o \notin Range(s.weak) /\ o \notin Range(s.grayagain) /\ s.c[o] = "gray" /\ o \in Lists(s)
  BY <1>3 DEF Shape, Distinct, Lists
<1>7. Taken(h, s, t, o)  OBVIOUS
<1> HIDE DEF o
<1>8. /\ Range(t.gray) = Range(s.gray) \ {o}
      /\ \/ t.c[o] = "black" /\ Range(t.weak) = Range(s.weak) /\ Range(t.grayagain) = Range(s.grayagain)
            /\ h[o].tt \in {"table", "function"}
         \/ t.c[o] = "gray" /\ Range(t.weak) = {o} \cup Range(s.weak) /\ Range(t.grayagain) = Range(s.grayagain)
            /\ h[o].tt = "table"
         \/ t.c[o] = "gray" /\ Range(t.weak) = Range(s.weak) /\ Range(t.grayagain) = {o} \cup Range(s.grayagain)
            /\ h[o].tt = "thread"
  <2>1. IsInjective(s.gray)  BY DEF Shape, Distinct
  <2>2. t.gray = Tail(s.gray)  BY <1>7 DEF Taken
  <2>3. Range(t.gray) = Range(s.gray) \ {o}  BY <1>3, <2>1, <2>2
  <2>4. CASE t.c[o] = "black" /\ h[o].tt \in {"table", "function"} /\ t.weak = s.weak /\ t.grayagain = s.grayagain
    BY <2>3, <2>4
  <2>5. CASE t.c[o] = "gray" /\ h[o].tt = "table" /\ t.weak = <<o>> \o s.weak /\ t.grayagain = s.grayagain
    BY <1>4, <2>3, <2>5
  <2>6. CASE t.c[o] = "gray" /\ h[o].tt = "thread" /\ t.weak = s.weak /\ t.grayagain = <<o>> \o s.grayagain
    BY <1>5, <2>3, <2>6
  <2> QED  BY <1>7, <2>4, <2>5, <2>6 DEF Taken
<1>9. IsInjective(t.gray) /\ IsInjective(t.weak) /\ IsInjective(t.grayagain)
  BY <1>3, <1>4, <1>5, <1>6, <1>7 DEF Taken, Shape, Distinct
<1>10. Distinct(t)
  BY <1>6, <1>8, <1>9 DEF Shape, Distinct
<1>11. \A p \in Objs : t.c[p] = s.c[p] \/ (p = o /\ t.c[p] \in {"gray", "black"})
  BY <1>8, <1>7 DEF Taken
<1>12. Marked(t) = Marked(s) /\ White(t) = White(s) /\ o \in Marked(s) /\ o \notin White(s)
  BY <1>1, <1>3, <1>6, <1>11, Colouring DEF Marked, White
<1>13. ColoursOK(h, t)
  <2>1. ColoursOK(h, s)  BY DEF Shape
  <2> QED  BY <1>8, <1>11, <2>1 DEF ColoursOK
<1>14. Alive(h, t) = Live(h)
  <2>1. \A p \in Live(h) : s.c[p] # other(s.white)  BY DEF Shape, Alive
  <2>2. t.white = s.white  BY <1>7 DEF SameLists, Taken
  <2> QED  BY <1>11, <2>1, <2>2 DEF Alive, Live, other
<1>15. \A p \in Lists(t) : t.c[p] = "gray"
  <2> TAKE p \in Lists(t)
  <2>1. p \in Objs  BY <1>1, ListsType DEF Lists
  <2>2. p = o => t.c[o] = "gray"  BY <1>6, <1>8 DEF Lists
  <2>3. p # o => p \in Lists(s)  BY <1>8 DEF Lists
  <2>4. p # o => t.c[p] = s.c[p]  BY <1>7, <2>1 DEF Taken
  <2> QED  BY <2>2, <2>3, <2>4 DEF Shape
<1>16. \A p \in Live(h) : t.c[p] = "gray" => p \in Lists(t) \/ h[p].tt = "upval"
  <2> SUFFICES ASSUME NEW p \in Live(h), t.c[p] = "gray"  PROVE p \in Lists(t) \/ h[p].tt = "upval"
    OBVIOUS
  <2>1. CASE p = o  BY <1>8, <2>1 DEF Lists
  <2>2. CASE p # o
    <3>1. s.c[p] = "gray"  BY <1>11, <2>2 DEF Live
    <3>2. p \in Lists(s) \/ h[p].tt = "upval"  BY <3>1 DEF Shape
    <3> QED  BY <1>8, <2>2, <3>2 DEF Lists
  <2> QED  BY <2>1, <2>2
<1>17. Shape(h, t)
  <2>1. /\ \A p \in Range(t.gray) : h[p].tt \in {"table", "function", "thread"}
        /\ \A p \in Range(t.grayagain) : h[p].tt \in {"table", "thread"}
        /\ \A p \in Range(t.weak) : h[p].tt = "table"
    BY <1>8 DEF Shape
  <2> QED  BY <1>1, <1>10, <1>13, <1>14, <1>15, <1>16, <2>1 DEF Shape
<1>18. Loose(h, t) \ {o} \subseteq Loose(h, s)
  BY <1>8, <1>12 DEF Loose, Done
<1>19. Pending(t) \subseteq Pending(s) \ {o}
  BY <1>8, <1>12 DEF Pending
<1>20. Range(s.weak) \subseteq Range(t.weak) /\ Range(s.grayagain) \subseteq Range(t.grayagain)
  BY <1>8
<1> QED  BY <1>3, <1>12, <1>17, <1>18, <1>19, <1>20 DEF o

(* What an object refers to can be marked. *)
LEMMA ReferredMarkable ==
  ASSUME NEW h, Sound(h), NEW o \in Objs, h[o].tt # "function"
  PROVE  Markable(h, Refers(h, o)) /\ Markable(h, Strong(h, o))
<1>1. Leads(h, o) /\ Refers(h, o) \subseteq Values /\ Strong(h, o) \subseteq Refers(h, o)
  BY RefersType DEF Sound
<1>2. Values \ {Nil} \subseteq Objs  BY DEF Values, Objs
<1> QED  BY <1>1, <1>2 DEF Leads, Markable

LEMMA MarkUpvalGrows ==
  ASSUME Sound(heap), NEW s, Shape(heap, s), NEW u \in Objs, heap[u].tt = "upval"
  PROVE  Grows(heap, s, MarkUpval(s, u)) /\ u \in Marked(MarkUpval(s, u))
<1> DEFINE V == {UpvalValue(heap, u)}
           r == mark(s, V)
           k == IF IsOpen(u) THEN "gray" ELSE "black"
           t == [r EXCEPT !.c = [r.c EXCEPT ![u] = k]]
<1>1. s \in Collectors  BY DEF Shape
<1>2. CASE s.c[u] \notin Whites
  <2>1. MarkUpval(s, u) = s  BY <1>2 DEF MarkUpval
  <2>2. Grows(heap, s, s)  BY DEF Grows, SameLists
  <2> QED  BY <1>2, <2>1, <2>2 DEF Marked
<1>3. CASE s.c[u] \in Whites
  <2>1. MarkUpval(s, u) = t  BY <1>3 DEF MarkUpval
  <2>2. Refers(heap, u) = V /\ Markable(heap, V)
    <3>1. Refers(heap, u) = V  BY RefersCases
    <3>2. Markable(heap, Refers(heap, u))  BY ReferredMarkable
    <3> QED  BY <3>1, <3>2
  <2>3. Agrees(heap)  BY DEF Agrees
  <2>4. Grows(heap, s, r) /\ V \ {Nil} \subseteq Marked(r)
    <3> HIDE DEF V
    <3> QED  BY <2>2, <2>3, MarkGrows
  <2> HIDE DEF r, V, k
  <2>5. r \in Collectors /\ Shape(heap, r)  BY <2>4 DEF Grows, Shape
  <2>6. k \in {"gray", "black"} /\ k \in Colours /\ k \notin Whites /\ (k = "gray" <=> IsOpen(u))
    BY DEF k, Colours, Whites
  <2>7. /\ t \in Collectors /\ SameLists(r, t) /\ t.gray = r.gray /\ t.weak = r.weak /\ t.grayagain = r.grayagain
        /\ t.c[u] = k /\ \A p \in Objs \ {u} : t.c[p] = r.c[p]
    BY <2>5, <2>6 DEF Collectors, SameLists
  <2> HIDE DEF t
  <2>8. Marked(t) = Marked(r) \cup {u}  BY <2>6, <2>7 DEF Marked
  <2>9. u \notin Lists(r)  BY <2>5 DEF Shape, Lists
  <2>10. ColoursOK(heap, t)
    <3>1. ColoursOK(heap, r)  BY <2>5 DEF Shape
    <3> QED  BY <2>6, <2>7, <3>1 DEF ColoursOK, IsOpen
  <2>11. Alive(heap, t) = Live(heap)
    <3>1. \A p \in Live(heap) : r.c[p] # other(r.white)  BY <2>5 DEF Shape, Alive
    <3> QED  BY <2>6, <2>7, <3>1 DEF Alive, Live, other, SameLists
  <2>12. Lists(t) = Lists(r)  BY <2>7 DEF Lists
  <2>13. Shape(heap, t)
    <3>1. Distinct(t)  BY <2>5, <2>7 DEF Shape, Distinct
    <3>2. Lists(r) \subseteq Objs  BY <2>5, ListsType DEF Lists
    <3>3. \A o \in Lists(t) : t.c[o] = "gray"  BY <2>5, <2>7, <2>9, <2>12, <3>2 DEF Shape
    <3>4. \A o \in Live(heap) : t.c[o] = "gray" => o \in Lists(t) \/ heap[o].tt = "upval"
      BY <2>5, <2>7, <2>12 DEF Shape, Live
    <3> QED  BY <2>5, <2>7, <2>10, <2>11, <3>1, <3>3, <3>4 DEF Shape
  <2>14. Loose(heap, t) \subseteq Loose(heap, r)
    <3> SUFFICES ASSUME NEW o \in Loose(heap, t)  PROVE o \in Loose(heap, r)
      OBVIOUS
    <3>1. o \in Marked(t) /\ ~Done(heap, t, o)  BY DEF Loose
    <3>2. o # u  BY <2>2, <2>4, <2>8, <3>1 DEF Done
    <3>3. ~Done(heap, r, o)  BY <2>8, <3>1, DoneStays
    <3> QED  BY <2>7, <2>8, <3>1, <3>2, <3>3 DEF Loose
  <2>15. Pending(t) \subseteq Pending(r)
    <3>1. White(t) \subseteq White(r)  BY <2>6, <2>7 DEF White
    <3> QED  BY <2>7, <3>1 DEF Pending
  <2>16. Grows(heap, r, t)  BY <2>7, <2>8, <2>13, <2>14, <2>15 DEF Grows
  <2> QED  BY <2>1, <2>4, <2>8, <2>16, GrowsTwice
<1> QED  BY <1>2, <1>3

(* What one turn of propagateall does. *)
LEMMA PropagateGrows ==
  ASSUME Sound(heap), NEW s, Shape(heap, s), s.gray # <<>>
  PROVE  /\ Grows(heap, s, propagatemark(s))
         /\ Pending(propagatemark(s)) \subseteq Pending(s) \ {Head(s.gray)}
<1> DEFINE o == Head(s.gray)
           r == [s EXCEPT !.gray = Tail(s.gray), !.c = [s.c EXCEPT ![o] = "black"]]
           w == [r EXCEPT !.weak = <<o>> \o r.weak, !.c = [r.c EXCEPT ![o] = "gray"]]
           x == [r EXCEPT !.c = [r.c EXCEPT ![o] = "gray"], !.grayagain = <<o>> \o r.grayagain]
           t == propagatemark(s)
<1>1. s \in Collectors /\ Agrees(heap)  BY DEF Shape, Agrees
<1>2. s.gray \in Seq(Objs) /\ s.weak \in Seq(Objs) /\ s.grayagain \in Seq(Objs) /\ s.c \in [Objs -> Colours]
  BY <1>1 DEF Collectors
<1>3. o \in Objs /\ Tail(s.gray) \in Seq(Objs) /\ o \in Range(s.gray)  BY <1>2, WithoutHead
<1>4. heap[o].tt \in {"table", "function", "thread"}  BY <1>3 DEF Shape
<1>5. <<o>> \o s.weak \in Seq(Objs) /\ <<o>> \o s.grayagain \in Seq(Objs)  BY <1>2, <1>3, Prepended
<1> HIDE DEF o
<1>6. \A f \in [Objs -> Colours], k \in Colours : [f EXCEPT ![o] = k] \in [Objs -> Colours]
  OBVIOUS
<1>7. "gray" \in Colours /\ "black" \in Colours  BY DEF Colours
<1>8. r.c \in [Objs -> Colours] /\ w.c \in [Objs -> Colours] /\ x.c \in [Objs -> Colours]
  BY <1>1, <1>2, <1>6, <1>7 DEF Collectors
<1>9. r \in Collectors /\ w \in Collectors /\ x \in Collectors
  BY <1>1, <1>2, <1>3, <1>5, <1>8 DEF Collectors
<1>10. heap[o].tt \in {"table", "function"} => Taken(heap, s, r, o)
  BY <1>1, <1>2, <1>3, <1>9 DEF Taken, SameLists, Collectors
<1>11. heap[o].tt = "table" => Taken(heap, s, w, o)
  BY <1>1, <1>2, <1>3, <1>9 DEF Taken, SameLists, Collectors
<1>12. heap[o].tt = "thread" => Taken(heap, s, x, o)
  BY <1>1, <1>2, <1>3, <1>9 DEF Taken, SameLists, Collectors
<1>13. ASSUME NEW y, Taken(heap, s, y, o), NEW z, Grows(heap, y, z), o \in Range(z.weak) \/ Done(heap, z, o)
       PROVE  Grows(heap, s, z) /\ Pending(z) \subseteq Pending(s) \ {o}
  <2>1. /\ Shape(heap, y) /\ Marked(y) = Marked(s) /\ Loose(heap, y) \ {o} \subseteq Loose(heap, s)
        /\ Range(s.weak) \subseteq Range(y.weak) /\ Range(s.grayagain) \subseteq Range(y.grayagain)
        /\ Pending(y) \subseteq Pending(s) \ {o}
    BY <1>13, TakenKeeps DEF o
  <2>2. o \notin Loose(heap, z)  BY <1>13 DEF Loose
  <2>3. SameLists(s, y)  BY <1>13 DEF Taken
  <2> QED  BY <1>13, <2>1, <2>2, <2>3 DEF Grows, SameLists
<1>14. ASSUME NEW y, Taken(heap, s, y, o)  PROVE Shape(heap, y)
  BY <1>14, TakenKeeps DEF o
<1>15. ASSUME NEW y, Shape(heap, y), heap[o].tt # "function"
       PROVE  Grows(heap, y, mark(y, Strong(heap, o))) /\ Strong(heap, o) \ {Nil} \subseteq Marked(mark(y, Strong(heap, o)))
  <2>1. Markable(heap, Strong(heap, o))  BY <1>3, <1>15, ReferredMarkable
  <2> HIDE DEF r, w, x, t
  <2> QED  BY <1>1, <1>15, <2>1, MarkGrows
<1>16. CASE heap[o].tt = "table" /\ heap[o].mode = ""
  <2>1. t = mark(r, Strong(heap, o))  BY <1>16 DEF propagatemark, traversetable, o
  <2>2. Strong(heap, o) = Refers(heap, o)  BY <1>16 DEF Strong, Refers
  <2> HIDE DEF r, t
  <2>3. Done(heap, t, o) /\ Grows(heap, r, t)  BY <1>10, <1>14, <1>15, <1>16, <2>1, <2>2 DEF Done
  <2> QED  BY <1>10, <1>13, <1>16, <2>3 DEF t, o
<1>17. CASE heap[o].tt = "table" /\ heap[o].mode # ""
  <2>1. t = mark(w, Strong(heap, o))  BY <1>17 DEF propagatemark, traversetable, o
  <2>2. o \in Range(w.weak)
    <3>1. w.weak = <<o>> \o s.weak  BY <1>1, <1>9 DEF Collectors
    <3> QED  BY <1>2, <1>3, <3>1, Prepended
  <2> HIDE DEF w, t, r
  <2>3. Grows(heap, w, t)  BY <1>11, <1>14, <1>15, <1>17, <2>1
  <2>4. o \in Range(t.weak)  BY <2>2, <2>3 DEF Grows
  <2> QED  BY <1>11, <1>13, <1>17, <2>3, <2>4 DEF t, o
<1>18. CASE heap[o].tt = "function"
  <2>1. t = MarkUpval(r, heap[o].up)  BY <1>18 DEF propagatemark, o
  <2>2. Refers(heap, o) = {heap[o].up} /\ heap[o].up \in Objs /\ heap[o].up # Nil
    <3>1. heap[o].up \in Addrs  BY <1>3, <1>18, Kinds DEF Function, Sound
    <3> QED  BY <1>18, <3>1, RefersCases, GCParameters DEF Objs
  <2>3. heap[heap[o].up].tt = "upval"  BY <1>3, <1>18, <2>2 DEF Sound, Leads
  <2> HIDE DEF r, t
  <2>4. Grows(heap, r, t) /\ heap[o].up \in Marked(t)
    BY <1>10, <1>14, <1>18, <2>1, <2>2, <2>3, MarkUpvalGrows
  <2>5. Done(heap, t, o)  BY <2>2, <2>4 DEF Done
  <2> QED  BY <1>10, <1>13, <1>18, <2>4, <2>5 DEF t, o
<1>19. CASE heap[o].tt = "thread"
  <2>1. t = mark(x, Range(heap[o].stack))  BY <1>19 DEF propagatemark, traversestack, o
  <2>2. Strong(heap, o) = Range(heap[o].stack) /\ Refers(heap, o) = Strong(heap, o)
    BY <1>19 DEF Strong, Refers
  <2> HIDE DEF x, t, r, w
  <2>3. Grows(heap, x, t) /\ Done(heap, t, o)  BY <1>12, <1>14, <1>15, <1>19, <2>1, <2>2 DEF Done
  <2> QED  BY <1>12, <1>13, <1>19, <2>3 DEF t, o
<1> QED  BY <1>4, <1>16, <1>17, <1>18, <1>19

(* One turn of propagateall, and all of them. *)
Turned(t) == IF t.gray = <<>> THEN t ELSE propagatemark(t)
Turns(s, f) == f[0] = s /\ \A n \in Nat : f[n + 1] = Turned(f[n])

LEMMA PropagateTurns ==
  ASSUME NEW X, NEW s \in X, \A t \in X : Turned(t) \in X
  PROVE  \E f \in [Nat -> X] : Turns(s, f) /\ propagateall(s) = f[Cardinality(Objs)]
<1> DEFINE F == [t \in X |-> Turned(t)]
           Rounds(f) == [n \in Nat |-> IF n = 0 THEN s
                                       ELSE LET t == f[n - 1] IN IF t.gray = <<>> THEN t ELSE propagatemark(t)]
           after == CHOOSE f : f = Rounds(f)
<1>1. propagateall(s) = after[Cardinality(Objs)]
  BY DEF propagateall
<1>2. F \in [X -> X]  OBVIOUS
<1>3. \E f : f = Rounds(f)
  <2> HIDE DEF F
  <2>1. PICK f \in [Nat -> X] : Iterates(s, F, f)
    BY <1>2, Repeats
  <2>2. \A n \in Nat : n # 0 => f[n - 1] \in X  BY <2>1
  <2>3. \A n \in Nat : n # 0 => F[f[n - 1]] = Turned(f[n - 1])  BY <2>2 DEF F
  <2>4. \A n \in Nat : (IF n = 0 THEN s ELSE F[f[n - 1]])
                       = (IF n = 0 THEN s ELSE LET t == f[n - 1] IN IF t.gray = <<>> THEN t ELSE propagatemark(t))
    BY <2>3 DEF Turned
  <2>5. f = Rounds(f)  BY <2>1, <2>4 DEF Iterates
  <2> QED  BY <2>5
<1>4. after = Rounds(after)  BY <1>3
<1> HIDE DEF after
<1>5. after[0] = s  BY <1>4
<1>6. ASSUME NEW n \in Nat  PROVE after[n + 1] = Turned(after[n])
  <2>1. n + 1 \in Nat /\ n + 1 # 0 /\ (n + 1) - 1 = n  OBVIOUS
  <2>2. after[n + 1] = LET t == after[n] IN IF t.gray = <<>> THEN t ELSE propagatemark(t)
    BY <1>4, <2>1
  <2> QED  BY <2>2 DEF Turned
<1>7. Turns(s, after)  BY <1>5, <1>6 DEF Turns
<1> DEFINE T == {n \in Nat : after[n] \in X}
<1>8. T = Nat
  <2>1. 0 \in T  BY <1>5
  <2>2. ASSUME NEW n \in T  PROVE n + 1 \in T  BY <1>6, <2>2
  <2>3. T \subseteq Nat  OBVIOUS
  <2> HIDE DEF T
  <2> QED  BY <2>1, <2>2, <2>3, Successors
<1>9. after \in [Nat -> X]
  <2>1. \A n \in Nat : after[n] \in X  BY <1>8
  <2>2. DOMAIN after = Nat /\ after = [n \in Nat |-> after[n]]  BY <1>4
  <2> QED  BY <2>1, <2>2
<1> QED  BY <1>1, <1>7, <1>9

(* What every turn keeps, propagateall keeps. *)
LEMMA PropagateAllStays ==
  ASSUME NEW X, NEW s \in X, \A t \in X : t.gray # <<>> => propagatemark(t) \in X
  PROVE  propagateall(s) \in X
<1>1. \A t \in X : Turned(t) \in X  BY DEF Turned
<1>2. PICK f \in [Nat -> X] : propagateall(s) = f[Cardinality(Objs)]  BY <1>1, PropagateTurns
<1> QED  BY <1>2, FiniteObjs

(* propagateall: after n turns the list is empty or n objects less are      *)
(* pending, so that as many turns as there are objects empty it.           *)
LEMMA PropagateAllGrows ==
  ASSUME Sound(heap), NEW s, Shape(heap, s)
  PROVE  Grows(heap, s, propagateall(s)) /\ propagateall(s).gray = <<>>
<1> DEFINE X == {t \in Collectors : Grows(heap, s, t)}
<1>1. \A t \in X : Turned(t) \in X
  <2> TAKE t \in X
  <2>1. CASE t.gray = <<>>  BY <2>1 DEF Turned
  <2>2. CASE t.gray # <<>>
    <3>1. Shape(heap, t)  BY DEF Grows
    <3>2. Grows(heap, t, propagatemark(t))  BY <2>2, <3>1, PropagateGrows
    <3>3. Grows(heap, s, propagatemark(t))  BY <3>2, GrowsTwice
    <3> QED  BY <2>2, <3>3 DEF Grows, Shape, Turned
  <2> QED  BY <2>1, <2>2
<1>2. s \in X  BY DEF Grows, SameLists, Shape
<1> HIDE DEF X
<1>3. PICK after \in [Nat -> X] : Turns(s, after) /\ propagateall(s) = after[Cardinality(Objs)]
  BY <1>1, <1>2, PropagateTurns
<1>4. propagateall(s) = after[Cardinality(Objs)]  BY <1>3
<1>5. after[0] = s /\ \A n \in Nat : after[n + 1] = Turned(after[n])  BY <1>3 DEF Turns
<1> DEFINE Left(n) == \/ after[n].gray = <<>>
                      \/ IsFiniteSet(Pending(after[n])) /\ Cardinality(Pending(after[n])) + n <= Cardinality(Objs)
           T == {n \in Nat : after[n] \in X /\ Left(n)}
<1>6. \A t \in X : Pending(t) \subseteq Objs /\ IsFiniteSet(Pending(t)) /\ Cardinality(Pending(t)) \in Nat
  <2> TAKE t \in X
  <2>1. t \in Collectors  BY DEF X
  <2>2. Pending(t) \subseteq Objs  BY <2>1, ListsType DEF Pending, White
  <2> QED  BY <2>2, FiniteObjs, FS_Subset, FS_CardinalityType
<1>7. 0 \in T
  <2>1. Cardinality(Pending(s)) <= Cardinality(Objs)  BY <1>2, <1>6, FiniteObjs, FS_Subset
  <2>2. Cardinality(Pending(s)) + 0 <= Cardinality(Objs)  BY <1>2, <1>6, <2>1, FiniteObjs
  <2> QED  BY <1>2, <1>5, <1>6, <2>2
<1>8. ASSUME NEW n \in T  PROVE n + 1 \in T
  <2>1. n \in Nat /\ n + 1 \in Nat /\ after[n] \in X /\ Left(n)  OBVIOUS
  <2>2. after[n + 1] = Turned(after[n]) /\ after[n + 1] \in X  BY <1>1, <1>5, <2>1
  <2>3. CASE after[n].gray = <<>>
    <3>1. after[n + 1] = after[n]  BY <2>2, <2>3 DEF Turned
    <3> QED  BY <2>1, <2>2, <2>3, <3>1
  <2>4. CASE after[n].gray # <<>>
    <3> DEFINE t == after[n]
               o == Head(t.gray)
    <3>1. Shape(heap, t) /\ t \in Collectors  BY <2>1 DEF X, Grows
    <3>2. after[n + 1] = propagatemark(t)  BY <2>2, <2>4 DEF Turned
    <3>3. Pending(after[n + 1]) \subseteq Pending(t) \ {o}  BY <2>4, <3>1, <3>2, PropagateGrows
    <3>4. o \in Pending(t)
      <4>1. t.gray \in Seq(Objs)  BY <3>1 DEF Collectors
      <4>2. o \in Range(t.gray)  BY <2>4, <4>1, WithoutHead
      <4> QED  BY <4>2 DEF Pending
    <3>5. Cardinality(Pending(t) \ {o}) = Cardinality(Pending(t)) - 1
      <4>1. IsFiniteSet(Pending(t))  BY <1>6, <2>1
      <4> HIDE DEF t, o
      <4> QED  BY <3>4, <4>1, FS_RemoveElement
    <3>6. IsFiniteSet(Pending(t) \ {o}) /\ Cardinality(Pending(t) \ {o}) \in Nat
      BY <1>6, <2>1, FS_Subset, FS_CardinalityType
    <3>7. Cardinality(Pending(after[n + 1])) <= Cardinality(Pending(t) \ {o})
      BY <3>3, <3>6, FS_Subset
    <3> DEFINE a == Cardinality(Pending(after[n + 1]))
               b == Cardinality(Pending(t))
               m == Cardinality(Objs)
    <3>8. a \in Nat /\ b \in Nat /\ m \in Nat /\ a <= b - 1 /\ b + n <= m
      BY <1>6, <2>1, <2>2, <2>4, <3>5, <3>7, FiniteObjs
    <3> HIDE DEF a, b, m
    <3>9. a + (n + 1) <= m  BY <2>1, <3>8
    <3> QED  BY <1>6, <2>1, <2>2, <3>9 DEF a, m
  <2> QED  BY <2>3, <2>4
<1>9. T = Nat
  <2> HIDE DEF T
  <2>1. T \subseteq Nat  BY DEF T
  <2> QED  BY <1>7, <1>8, <2>1, Successors
<1> DEFINE m == Cardinality(Objs)
<1>10. m \in Nat  BY FiniteObjs
<1>11. after[m] \in X /\ Left(m)  BY <1>9, <1>10
<1>12. ASSUME after[m].gray # <<>>  PROVE FALSE
  <2> DEFINE b == Cardinality(Pending(after[m]))
  <2>1. b \in Nat /\ b + m <= m  BY <1>6, <1>11, <1>12
  <2> HIDE DEF b, m
  <2>2. b = 0  BY <1>10, <2>1
  <2>3. Pending(after[m]) = {}  BY <1>6, <1>11, <2>2, FS_EmptySet DEF b
  <2>4. after[m].gray \in Seq(Objs)  BY <1>11 DEF X, Collectors
  <2>5. Head(after[m].gray) \in Range(after[m].gray)  BY <1>12, <2>4, WithoutHead
  <2> QED  BY <2>3, <2>5 DEF Pending
<1>13. after[m].gray = <<>>  BY <1>12
<1> QED  BY <1>4, <1>11, <1>13 DEF X

-----------------------------------------------------------------------------
(* The atomic end of the mark phase.                                       *)

(* A list is looked at again. *)
LEMMA Relisted ==
  ASSUME NEW h, NEW s, Shape(h, s), s.gray = <<>>, NEW t,
         \/ t = [s EXCEPT !.gray = s.weak, !.weak = <<>>]
         \/ t = [s EXCEPT !.gray = s.grayagain, !.grayagain = <<>>]
  PROVE  /\ Shape(h, t) /\ SameLists(s, t) /\ Marked(t) = Marked(s)
         /\ Loose(h, t) \subseteq Loose(h, s) \ Range(t.gray)
<1>1. s \in Collectors /\ <<>> \in Seq(Objs)  BY DEF Shape
<1>2. /\ t \in Collectors /\ t.c = s.c /\ SameLists(s, t)
      /\ \/ t.gray = s.weak /\ t.weak = <<>> /\ t.grayagain = s.grayagain
         \/ t.gray = s.grayagain /\ t.grayagain = <<>> /\ t.weak = s.weak
  BY <1>1 DEF Collectors, SameLists
<1>3. Range(<<>>) = {} /\ IsInjective(<<>>)  BY DEF Range, IsInjective
<1>4. Lists(t) = Lists(s) /\ Range(s.gray) = {}  BY <1>2, <1>3 DEF Lists
<1>5. Distinct(t)  BY <1>2, <1>3 DEF Shape, Distinct
<1>6. Alive(h, t) = Alive(h, s) /\ Marked(t) = Marked(s)  BY <1>2 DEF Alive, SameLists, Marked
<1>7. ColoursOK(h, t)  BY <1>2 DEF Shape, ColoursOK
<1>8. /\ \A o \in Range(t.gray) : h[o].tt \in {"table", "function", "thread"}
      /\ \A o \in Range(t.grayagain) : h[o].tt \in {"table", "thread"}
      /\ \A o \in Range(t.weak) : h[o].tt = "table"
  BY <1>2, <1>3 DEF Shape
<1>9. Shape(h, t)  BY <1>2, <1>4, <1>5, <1>6, <1>7, <1>8 DEF Shape
<1>10. Loose(h, t) \subseteq Loose(h, s) \ Range(t.gray)
  BY <1>2, <1>3, <1>4, <1>6 DEF Loose, Done
<1> QED  BY <1>2, <1>6, <1>9, <1>10

(* The end of the mark phase, up to cleartable: nothing is loose.          *)
LEMMA EndingMarks ==
  ASSUME Sound(heap), HeapInv(heap, g), Roots(heap, g, running), g.state = "propagate", g.gray = <<>>
  PROVE  /\ Shape(heap, Ending(g)) /\ SameLists(g, Ending(g)) /\ Ending(g).gray = <<>>
         /\ {Main, running} \subseteq Marked(Ending(g)) /\ Marked(g) \subseteq Marked(Ending(g))
         /\ Loose(heap, Ending(g)) \subseteq g.tmudata
<1> DEFINE us == {v \in Objs : Is(v, "upval") /\ IsOpen(v) /\ g.c[v] = "gray"}
           V == {UpvalValue(heap, u) : u \in us}
           r1 == remarkupvals(g)
           s2 == propagateall(r1)
           a3 == [s2 EXCEPT !.gray = s2.weak, !.weak = <<>>]
           m3 == mark(a3, {running})
           s3 == propagateall(m3)
           a4 == [s3 EXCEPT !.gray = s3.grayagain, !.grayagain = <<>>]
           s4 == propagateall(a4)
<1>1. Ending(g) = s4  BY DEF Ending, WeakAgain, GrayAgain
<1>2. Agrees(heap)  BY DEF Agrees
<1>3. Tricolour(heap, g) /\ Shape(heap, g) /\ g \in Collectors /\ Main \in Marked(g)
  BY DEF HeapInv, Tricolour
<1>4. Markable(heap, V)
  <2> SUFFICES ASSUME NEW u \in us, UpvalValue(heap, u) # Nil
               PROVE  UpvalValue(heap, u) \in Objs /\ heap[UpvalValue(heap, u)].tt \notin {"free", "upval"}
    BY DEF Markable
  <2>1. u \in Objs /\ heap[u].tt = "upval"  BY DEF Is
  <2>2. Markable(heap, Refers(heap, u))  BY <2>1, ReferredMarkable
  <2>3. Refers(heap, u) = {UpvalValue(heap, u)}  BY <2>1, RefersCases
  <2> QED  BY <2>2, <2>3 DEF Markable
<1>5. r1 = mark(g, V)  BY DEF remarkupvals
<1> HIDE DEF V
<1>6. Grows(heap, g, r1) /\ V \ {Nil} \subseteq Marked(r1)
  BY <1>2, <1>3, <1>4, <1>5, MarkGrows
<1>7. Loose(heap, r1) \subseteq Range(g.grayagain) \cup g.tmudata
  <2> SUFFICES ASSUME NEW o \in Loose(heap, r1), o \notin Range(g.grayagain) \cup g.tmudata  PROVE FALSE
    OBVIOUS
  <2>1. o \in Loose(heap, g)  BY <1>6 DEF Grows
  <2>2. o \in Marked(g) /\ o \in Objs /\ o \notin Range(g.gray) \cup Range(g.weak) /\ ~Done(heap, g, o)
    BY <2>1 DEF Loose, Marked
  <2>3. heap[o].tt # "free"  BY <2>2, RefersCases DEF Done
  <2>4. o \notin Lists(g)  BY <2>2 DEF Lists
  <2>5. Open(heap, o)  BY <1>3, <2>2, <2>3, <2>4 DEF Tricolour, Live, Done
  <2>6. g.c[o] = "gray"  BY <1>3, <2>2, <2>5 DEF Shape, ColoursOK, Open, Marked, Collectors, Colours
  <2>7. o \in us  BY <2>2, <2>5, <2>6 DEF Is, IsOpen, Open
  <2>8. Refers(heap, o) \subseteq V  BY <2>5, <2>7, RefersCases DEF V, Open
  <2>9. Done(heap, r1, o)  BY <1>6, <2>8 DEF Done
  <2> QED  BY <2>9 DEF Loose
<1> HIDE DEF us, r1
<1>8. Grows(heap, r1, s2) /\ s2.gray = <<>>
  BY <1>6, PropagateAllGrows DEF Grows
<1>9. Loose(heap, s2) \subseteq Range(s2.grayagain) \cup g.tmudata
  BY <1>6, <1>7, <1>8 DEF Grows
<1> HIDE DEF s2
<1>10. /\ Shape(heap, a3) /\ SameLists(s2, a3) /\ Marked(a3) = Marked(s2) /\ Loose(heap, a3) \subseteq Loose(heap, s2)
       /\ a3.grayagain = s2.grayagain
  <2>1. Shape(heap, s2) /\ s2 \in Collectors  BY <1>8 DEF Grows, Shape
  <2>2. a3.grayagain = s2.grayagain  BY <2>1 DEF Collectors
  <2> QED  BY <1>8, <2>1, <2>2, Relisted
<1> HIDE DEF a3
<1>11. Markable(heap, {running})
  BY DEF Roots, Markable, Alive, Live
<1>12. Grows(heap, a3, m3) /\ running \in Marked(m3)
  <2>1. running # Nil  BY GCParameters DEF Roots, Alive, Live
  <2> QED  BY <1>2, <1>10, <1>11, <2>1, MarkGrows
<1> HIDE DEF m3
<1>13. Grows(heap, m3, s3) /\ s3.gray = <<>>
  BY <1>12, PropagateAllGrows DEF Grows
<1>14. Loose(heap, s3) \subseteq Range(s3.grayagain) \cup g.tmudata
  BY <1>9, <1>10, <1>12, <1>13 DEF Grows
<1> HIDE DEF s3
<1>15. /\ Shape(heap, a4) /\ SameLists(s3, a4) /\ Marked(a4) = Marked(s3)
       /\ Loose(heap, a4) \subseteq Loose(heap, s3) \ Range(s3.grayagain)
  <2>1. Shape(heap, s3) /\ s3 \in Collectors  BY <1>13 DEF Grows, Shape
  <2>2. a4.gray = s3.grayagain  BY <2>1 DEF Collectors
  <2> QED  BY <1>13, <2>1, <2>2, Relisted
<1> HIDE DEF a4
<1>16. Grows(heap, a4, s4) /\ s4.gray = <<>>
  BY <1>15, PropagateAllGrows
<1> HIDE DEF s4
<1>17. Loose(heap, s4) \subseteq g.tmudata
  BY <1>14, <1>15, <1>16 DEF Grows
<1>18. Marked(g) \subseteq Marked(s4) /\ Marked(m3) \subseteq Marked(s4)
  BY <1>6, <1>8, <1>10, <1>12, <1>13, <1>15, <1>16 DEF Grows
<1>19. SameLists(g, s4)
  BY <1>6, <1>8, <1>10, <1>12, <1>13, <1>15, <1>16 DEF Grows, SameLists
<1> QED  BY <1>1, <1>3, <1>12, <1>16, <1>17, <1>18, <1>19 DEF Grows

(* Userdata that wait for their __gc are white before they are marked. *)
Unmarked(s) == [s EXCEPT !.c = [o \in Objs |-> IF o \in s.tmudata THEN s.white ELSE s.c[o]]]

LEMMA UnmarkedFields ==
  ASSUME NEW s, Shape(heap, s), \A o \in s.tmudata : o \in Objs /\ heap[o].tt = "udata"
  PROVE  LET a == Keeping(s) b == Unmarked(a) IN
         /\ marktmu(a) = mark(b, a.tmudata) /\ Shape(heap, b) /\ Marked(b) = Marked(s) \ a.tmudata
         /\ a.tmudata = s.tmudata \cup Separated(s) /\ Markable(heap, a.tmudata) /\ Nil \notin a.tmudata
         /\ SameLists(a, b) /\ b.gray = s.gray /\ b.weak = s.weak /\ b.grayagain = s.grayagain
         /\ \A o \in Objs : b.c[o] = IF o \in a.tmudata THEN s.white ELSE s.c[o]
<1> DEFINE us == Separated(s)
           a == Keeping(s)
           c == [o \in Objs |-> IF o \in a.tmudata THEN a.white ELSE a.c[o]]
           b == [a EXCEPT !.c = c]
<1>1. s \in Collectors  BY DEF Shape
<1>2. us \subseteq Objs /\ \A o \in us : heap[o].tt = "udata"
  BY DEF Separated, Is
<1>3. /\ a \in Collectors /\ a.c = s.c /\ a.white = s.white /\ a.gray = s.gray /\ a.weak = s.weak
      /\ a.grayagain = s.grayagain /\ a.tmudata = s.tmudata \cup us
  <2> HIDE DEF us
  <2> QED  BY <1>1, <1>2 DEF Keeping, Collectors, us
<1>4. marktmu(a) = mark(b, a.tmudata) /\ b = Unmarked(a)  BY DEF marktmu, Unmarked
<1> HIDE DEF a
<1>5. \A o \in a.tmudata : o \in Objs /\ heap[o].tt = "udata"  BY <1>2, <1>3
<1> HIDE DEF us
<1>6. s.white \in Whites /\ s.white # "gray" /\ s.white # "black" /\ s.white \in Colours /\ s.white # other(s.white)
  BY <1>1 DEF Collectors, Whites, Colours, other
<1>7. c \in [Objs -> Colours]  BY <1>3, <1>6 DEF Collectors
<1>8. /\ b \in Collectors /\ SameLists(a, b) /\ b.gray = s.gray /\ b.weak = s.weak /\ b.grayagain = s.grayagain
      /\ \A o \in Objs : b.c[o] = IF o \in a.tmudata THEN s.white ELSE s.c[o]
  <2>1. b.c = c  BY <1>3 DEF Collectors
  <2> HIDE DEF c
  <2>2. b \in Collectors  BY <1>3, <1>7 DEF Collectors
  <2>3. b.gray = s.gray /\ b.weak = s.weak /\ b.grayagain = s.grayagain /\ SameLists(a, b)
    BY <1>3 DEF Collectors, SameLists
  <2> QED  BY <1>3, <2>1, <2>2, <2>3 DEF c
<1> HIDE DEF b, c
<1>9. Lists(b) = Lists(s) /\ Distinct(b)  BY <1>8 DEF Lists, Shape, Distinct
<1>10. ColoursOK(heap, b)
  <2>1. ColoursOK(heap, s)  BY DEF Shape
  <2> QED  BY <1>5, <1>6, <1>8, <2>1 DEF ColoursOK
<1>11. Alive(heap, b) = Live(heap)
  <2>1. \A p \in Live(heap) : s.c[p] # other(s.white)  BY DEF Shape, Alive
  <2>2. b.white = s.white  BY <1>3, <1>8 DEF SameLists
  <2> QED  BY <1>6, <1>8, <2>1, <2>2 DEF Alive, Live
<1>12. Lists(s) \cap a.tmudata = {} /\ Lists(s) \subseteq Objs
  BY <1>1, <1>5, ListsType DEF Shape, Lists
<1>13. Shape(heap, b)
  <2>1. \A o \in Lists(b) : b.c[o] = "gray"  BY <1>8, <1>9, <1>12 DEF Shape
  <2>2. \A o \in Live(heap) : b.c[o] = "gray" => o \in Lists(b) \/ heap[o].tt = "upval"
    BY <1>6, <1>8, <1>9 DEF Shape, Live
  <2> QED  BY <1>8, <1>9, <1>10, <1>11, <2>1, <2>2 DEF Shape
<1>14. Markable(heap, a.tmudata) /\ Nil \notin a.tmudata
  BY <1>5, GCParameters DEF Markable
<1>15. Marked(b) = Marked(s) \ a.tmudata
  BY <1>6, <1>8 DEF Marked
<1> QED  BY <1>3, <1>4, <1>8, <1>13, <1>14, <1>15 DEF us, a

(* They are marked anew, and nothing is loose. *)
LEMMA KeepingMarks ==
  ASSUME Sound(heap), NEW s, Shape(heap, s), s.gray = <<>>, Loose(heap, s) \subseteq s.tmudata,
         \A o \in s.tmudata : o \in Objs /\ heap[o].tt = "udata"
  PROVE  LET t == propagateall(marktmu(Keeping(s))) IN
         /\ Shape(heap, t) /\ SameLists(Keeping(s), t) /\ t.gray = <<>> /\ Loose(heap, t) = {}
         /\ Marked(s) \cup s.tmudata \cup Separated(s) \subseteq Marked(t)
<1> DEFINE a == Keeping(s)
           b == Unmarked(a)
           m == marktmu(a)
           t == propagateall(m)
<1>1. /\ m = mark(b, a.tmudata) /\ Shape(heap, b) /\ Marked(b) = Marked(s) \ a.tmudata
      /\ a.tmudata = s.tmudata \cup Separated(s) /\ Markable(heap, a.tmudata) /\ Nil \notin a.tmudata
      /\ SameLists(a, b) /\ b.gray = s.gray /\ b.weak = s.weak
  BY UnmarkedFields
<1> HIDE DEF a, b, m, t
<1>2. Marks(heap, b, m) /\ a.tmudata \subseteq Marked(m) /\ Grows(heap, b, m)
  BY <1>1, MarkKeeps, MarkGrows DEF Agrees
<1>3. Marked(s) \subseteq Marked(m)
  BY <1>1, <1>2 DEF Marks
<1>4. Loose(heap, m) = {}
  <2> SUFFICES ASSUME NEW o \in Loose(heap, m)  PROVE FALSE
    OBVIOUS
  <2>1. o \in Loose(heap, b)  BY <1>2 DEF Grows
  <2>2. o \in Marked(s) /\ o \notin a.tmudata /\ o \notin Range(s.gray) \cup Range(s.weak)
    BY <1>1, <2>1 DEF Loose
  <2>3. ~Done(heap, s, o)  BY <1>3, DoneStays DEF Loose
  <2> QED  BY <1>1, <2>2, <2>3 DEF Loose
<1>5. Grows(heap, m, t) /\ t.gray = <<>>
  BY <1>2, PropagateAllGrows DEF Marks, t
<1>6. SameLists(a, t)
  BY <1>1, <1>2, <1>5 DEF Grows, SameLists
<1>7. /\ Shape(heap, t) /\ SameLists(a, t) /\ t.gray = <<>> /\ Loose(heap, t) = {}
      /\ Marked(s) \cup s.tmudata \cup Separated(s) \subseteq Marked(t)
  BY <1>1, <1>2, <1>3, <1>4, <1>5, <1>6 DEF Grows
<1> QED  BY <1>7 DEF t, m, a

LEMMA SoundHeap ==
  ASSUME NEW h, NEW s, HeapInv(h, s), s.state = "propagate"
  PROVE  Sound(h) /\ Shape(h, s) /\ Tricolour(h, s)
<1>1. Tricolour(h, s) /\ Shape(h, s) /\ Alive(h, s) = Live(h)  BY DEF HeapInv, Tricolour, Shape
<1>2. ASSUME NEW o \in Objs  PROVE Leads(h, o)
  <2>1. CASE h[o].tt = "free"  BY <2>1, RefersCases DEF Leads
  <2>2. CASE h[o].tt # "free"  BY <1>1, <2>2 DEF HeapInv, RefersToAlive, Live
  <2> QED  BY <2>1, <2>2
<1> QED  BY <1>1, <1>2 DEF Sound, HeapInv

(* What stays the same when objects of the same kinds refer to less.       *)
SameKinds(h, k) ==
  /\ k \in Heaps
  /\ \A o \in Objs : /\ k[o].tt = h[o].tt
                     /\ h[o].tt = "thread" => DOMAIN k[o].stack = DOMAIN h[o].stack
                     /\ h[o].tt = "upval" => k[o].thread = h[o].thread /\ k[o].slot = h[o].slot

LEMMA SameKindsKeep ==
  ASSUME NEW h \in Heaps, SlotsExist(h), NEW k, SameKinds(h, k)
  PROVE  /\ SlotsExist(k) /\ Live(k) = Live(h) /\ \A o \in Objs : Open(k, o) = Open(h, o)
         /\ \A s : Alive(k, s) = Alive(h, s)
         /\ \A s : ColoursOK(h, s) => ColoursOK(k, s)
         /\ \A s : Listed(h, s) => Listed(k, s)
         /\ \A s : Swept(h, s) => Swept(k, s)
         /\ \A s : Shape(h, s) => Shape(k, s)
<1>1. SlotsExist(k)
  <2> SUFFICES ASSUME NEW u \in Objs, k[u].tt = "upval", k[u].thread # Nil
               PROVE  k[k[u].thread].tt = "thread" /\ k[u].slot \in DOMAIN k[k[u].thread].stack
    BY DEF SlotsExist
  <2>1. h[u].tt = "upval" /\ h[u].thread # Nil /\ h[u].thread = k[u].thread /\ h[u].slot = k[u].slot
    BY DEF SameKinds
  <2>2. h[u].thread \in Objs /\ h[h[u].thread].tt = "thread" /\ h[u].slot \in DOMAIN h[h[u].thread].stack
    BY <2>1, UpvalValueType DEF SlotsExist
  <2> QED  BY <2>1, <2>2 DEF SameKinds
<1>2. Live(k) = Live(h) /\ \A o \in Objs : k[o].tt = h[o].tt  BY DEF SameKinds, Live
<1>3. ASSUME NEW o \in Objs  PROVE Open(k, o) = Open(h, o) /\ (h[o].tt = "upval" => k[o].thread = h[o].thread)
  BY DEF SameKinds, Open
<1>4. \A s : Alive(k, s) = Alive(h, s)  BY <1>2 DEF Alive
<1>5. \A s : ColoursOK(h, s) => ColoursOK(k, s)  BY <1>2, <1>3 DEF ColoursOK
<1>6. \A o \in Live(h) : o \in Objs  BY DEF Live
<1>7. ASSUME NEW s, Listed(h, s)  PROVE Listed(k, s)
  <2>1. \A o \in Alive(h, s) : o \in Objs  BY DEF Alive, Live
  <2> QED  BY <1>2, <1>3, <1>4, <1>6, <1>7, <2>1 DEF Listed
<1>8. ASSUME NEW s, Swept(h, s)  PROVE Swept(k, s)
  BY <1>2, <1>3, <1>6, <1>8 DEF Swept, Open
<1>9. ASSUME NEW s, Shape(h, s)  PROVE Shape(k, s)
  <2>1. s \in Collectors  BY <1>9 DEF Shape
  <2>2. Range(s.gray) \subseteq Objs /\ Range(s.grayagain) \subseteq Objs /\ Range(s.weak) \subseteq Objs
    BY <2>1, ListsType
  <2>3. /\ \A o \in Range(s.gray) : k[o].tt \in {"table", "function", "thread"}
        /\ \A o \in Range(s.grayagain) : k[o].tt \in {"table", "thread"}
        /\ \A o \in Range(s.weak) : k[o].tt = "table"
    BY <1>2, <1>9, <2>2 DEF Shape
  <2>4. Alive(k, s) = Live(k)  BY <1>2, <1>4, <1>9 DEF Shape
  <2>5. \A o \in Live(k) : s.c[o] = "gray" => o \in Lists(s) \/ k[o].tt = "upval"
    BY <1>2, <1>6, <1>9 DEF Shape
  <2>6. ColoursOK(k, s)  BY <1>5, <1>9 DEF Shape
  <2> QED  BY <1>9, <2>1, <2>3, <2>4, <2>5, <2>6 DEF Shape
<1> QED  BY <1>1, <1>2, <1>3, <1>4, <1>5, <1>7, <1>8, <1>9

(* cleartable: what is left refers to what is marked.                      *)
AllUdata(us) == \A o \in us : o \in Objs /\ heap[o].tt = "udata"

Clears(s, us, k) ==
  /\ SameKinds(heap, k)
  /\ \A o \in Objs : Refers(k, o) \subseteq Refers(heap, o) \cup {Nil}
  /\ \A o \in Marked(s) : Refers(k, o) \ {Nil} \subseteq Marked(s)
  /\ \A o \in Objs : heap[o].tt = "udata" => k[o].fin = IF o \in us THEN TRUE ELSE heap[o].fin

LEMMA ClearedKeeps ==
  ASSUME Sound(heap), NEW s, Shape(heap, s), s.gray = <<>>, Loose(heap, s) = {},
         NEW us, AllUdata(us),
         NEW k, k = Cleared(s, Waiting(us))
  PROVE  Clears(s, us, k)
<1> DEFINE h == Waiting(us)
<1>1. heap \in Heaps /\ s \in Collectors  BY DEF Sound, Shape
<1>2. \A o \in Range(s.weak) : o \in Objs /\ heap[o].tt = "table"
  BY <1>1, ListsType DEF Shape
<1>10. \A o \in us : o \in Objs /\ heap[o].tt = "udata"  BY DEF AllUdata
<1>3. ASSUME NEW o \in Objs
      PROVE  /\ heap[o].tt \notin {"table", "udata"} => k[o] = heap[o]
             /\ heap[o].tt = "udata" => /\ k[o] \in Udata /\ k[o].env = heap[o].env
                                        /\ k[o].fin = IF o \in us THEN TRUE ELSE heap[o].fin
             /\ heap[o].tt = "table" => /\ k[o] \in Table
                                        /\ \/ k[o].key = Nil /\ k[o].val = Nil
                                           \/ /\ k[o].key = heap[o].key /\ k[o].val = heap[o].val
                                              /\ o \in Range(s.weak) => k[o].key \in Marked(s) \cup {Nil}
                                                                        /\ k[o].val \in Marked(s) \cup {Nil}
  <2>1. k[o] = IF o \in Range(s.weak) /\ (iscleared(s, h, h[o].key, TRUE) \/ iscleared(s, h, h[o].val, FALSE))
               THEN [h[o] EXCEPT !.key = Nil, !.val = Nil] ELSE h[o]
    BY DEF Cleared
  <2>2. h[o] = IF o \in us THEN [heap[o] EXCEPT !.fin = TRUE] ELSE heap[o]
    BY DEF Waiting
  <2> HIDE DEF h
  <2>3. CASE heap[o].tt \notin {"table", "udata"}
    BY <1>10, <1>2, <2>1, <2>2, <2>3
  <2>4. CASE heap[o].tt = "udata"
    <3>1. heap[o] \in Udata /\ k[o] = h[o]  BY <1>1, <1>2, <2>1, <2>4, Kinds
    <3>2. CASE o \in us
      <4>1. k[o] = [heap[o] EXCEPT !.fin = TRUE]  BY <2>2, <3>1, <3>2
      <4>2. k[o] \in Udata /\ k[o].env = heap[o].env /\ k[o].fin = TRUE  BY <3>1, <4>1 DEF Udata
      <4> QED  BY <2>4, <3>2, <4>2
    <3>3. CASE o \notin us
      <4>1. k[o] = heap[o]  BY <2>2, <3>1, <3>3
      <4>2. k[o] \in Udata /\ k[o].env = heap[o].env /\ k[o].fin = heap[o].fin  BY <3>1, <4>1
      <4> QED  BY <2>4, <3>3, <4>2
    <3> QED  BY <3>2, <3>3
  <2>5. CASE heap[o].tt = "table"
    <3>1. heap[o] \in Table /\ h[o] = heap[o]  BY <1>10, <1>1, <2>2, <2>5, Kinds
    <3>2. heap[o].key \in Values /\ heap[o].val \in Values /\ Nil \in Values  BY <3>1 DEF Table, Values
    <3>3. CASE k[o] = [heap[o] EXCEPT !.key = Nil, !.val = Nil]
      <4>1. k[o] \in Table /\ k[o].key = Nil /\ k[o].val = Nil  BY <3>1, <3>2, <3>3 DEF Table
      <4> QED  BY <2>5, <4>1
    <3>4. CASE k[o] = heap[o] /\ o \notin Range(s.weak)
      BY <2>5, <3>1, <3>4
    <3>5. CASE k[o] = heap[o] /\ o \in Range(s.weak) /\ ~iscleared(s, h, heap[o].key, TRUE)
               /\ ~iscleared(s, h, heap[o].val, FALSE)
      <4>1. \A v \in Values \ {Nil} : v \in Objs  BY DEF Values, Objs
      <4>2. heap[o].key \in Marked(s) \cup {Nil} /\ heap[o].val \in Marked(s) \cup {Nil}
        BY <3>2, <3>5, <4>1 DEF iscleared, Marked
      <4> QED  BY <2>5, <3>1, <3>5, <4>2
    <3> QED  BY <2>1, <3>1, <3>3, <3>4, <3>5
  <2> QED  BY <1>1, <2>3, <2>4, <2>5, Kinds
<1>4. k \in Heaps
  <2>1. \A o \in Objs : k[o] \in Table \cup Udata \cup Function \cup Upval \cup Thread \cup {Free}
    <3> TAKE o \in Objs
    <3>1. heap[o] \in Table \cup Udata \cup Function \cup Upval \cup Thread \cup {Free}  BY <1>1 DEF Heaps
    <3> QED  BY <1>3, <3>1
  <2> HIDE DEF h
  <2>2. k = [o \in Objs |-> k[o]]  BY DEF Cleared
  <2> QED  BY <2>1, <2>2 DEF Heaps
<1>5. \A o \in Objs : k[o].tt = heap[o].tt
  <2>1. \A x : /\ x \in Udata => x.tt = "udata"
               /\ x \in Table => x.tt = "table"
    BY DEF Udata, Table
  <2> QED  BY <1>3, <2>1
<1>6. SameKinds(heap, k)
  BY <1>3, <1>4, <1>5 DEF SameKinds
<1>7. ASSUME NEW o \in Objs  PROVE Refers(k, o) \subseteq Refers(heap, o) \cup {Nil}
  <2>1. CASE heap[o].tt = "table"
    <3>1. Refers(k, o) = {k[o].key, k[o].val}  BY <1>5, <2>1, RefersCases
    <3>2. Refers(heap, o) = {heap[o].key, heap[o].val}  BY <2>1, RefersCases
    <3> QED  BY <1>3, <2>1, <3>1, <3>2
  <2>2. CASE heap[o].tt = "udata"
    <3>1. Refers(k, o) = {k[o].env}  BY <1>5, <2>2, RefersCases
    <3>2. Refers(heap, o) = {heap[o].env}  BY <2>2, RefersCases
    <3> QED  BY <1>3, <2>2, <3>1, <3>2
  <2>3. CASE heap[o].tt = "upval"
    <3>1. k[o] = heap[o]  BY <1>3, <2>3
    <3>2. heap[o].thread # Nil => k[heap[o].thread] = heap[heap[o].thread]
      BY <1>1, <1>3, <2>3, UpvalValueType DEF Sound
    <3>3. UpvalValue(k, o) = UpvalValue(heap, o)  BY <3>1, <3>2 DEF UpvalValue
    <3> QED  BY <1>5, <2>3, <3>3, RefersCases
  <2>4. CASE heap[o].tt \in {"function", "thread", "free"}
    <3>1. k[o] = heap[o]  BY <1>3, <2>4
    <3> QED  BY <2>4, <3>1, RefersCases
  <2> QED  BY <1>1, <2>1, <2>2, <2>3, <2>4, Kinds
<1>8. ASSUME NEW o \in Marked(s)  PROVE Refers(k, o) \ {Nil} \subseteq Marked(s)
  <2>1. o \in Objs  BY DEF Marked
  <2>2. CASE o \in Range(s.weak)
    <3>1. Refers(k, o) = {k[o].key, k[o].val}  BY <1>2, <1>5, <2>1, <2>2, RefersCases
    <3>2. heap[o].tt = "table"  BY <1>2, <2>2
    <3>3. k[o].key \in Marked(s) \cup {Nil} /\ k[o].val \in Marked(s) \cup {Nil}
      BY <1>3, <2>1, <2>2, <3>2
    <3> QED  BY <3>1, <3>3
  <2>3. CASE o \notin Range(s.weak)
    <3>1. Range(s.gray) = {}  BY DEF Range
    <3>2. Done(heap, s, o)  BY <2>3, <3>1 DEF Loose
    <3> QED  BY <1>7, <2>1, <3>2 DEF Done
  <2> QED  BY <2>2, <2>3
<1>9. \A o \in Objs : heap[o].tt = "udata" => k[o].fin = IF o \in us THEN TRUE ELSE heap[o].fin
  BY <1>3
<1> QED  BY <1>6, <1>7, <1>8, <1>9 DEF Clears

(* Userdata: what waits for its __gc, or whose __gc has run, is known to be *)
(* finalized, and what is dead was; a change takes the userdata us.        *)
Separates(h, s, k, t, us) ==
  /\ us \subseteq s.rootgc /\ t.tmudata = s.tmudata \cup us
  /\ \A o \in Objs : k[o].tt = h[o].tt
  /\ \A o \in us : h[o].tt = "udata" /\ ~h[o].fin
  /\ \A o \in Objs : h[o].tt = "udata" => k[o].fin = IF o \in us THEN TRUE ELSE h[o].fin
  /\ \A o \in Objs : k[o].tt = "udata" /\ o \notin Alive(k, t) => k[o].fin

LEMMA AtomicKeeps ==
  ASSUME HeapInv(heap, g), Roots(heap, g, running), g.state = "propagate", g.gray = <<>>, atomic
  PROVE  /\ HeapInv(heap', g') /\ Roots(heap', g', running) /\ g'.state = "sweepstring"
         /\ \E us : Separates(heap, g, heap', g', us)
<1> DEFINE s4 == Ending(g)
           us == Separated(s4)
           s5 == propagateall(marktmu(Keeping(s4)))
           h == Waiting(us)
<1>1. /\ heap' = Cleared(s5, h)
      /\ g' = [s5 EXCEPT !.white = otherwhite, !.sweepgc = s5.rootgc, !.state = "sweepstring",
                         !.grayagain = <<>>, !.weak = <<>>]
  BY DEF atomic
<1>2. Sound(heap) /\ Shape(heap, g) /\ g \in Collectors
  BY SoundHeap DEF Shape
<1>3. /\ Shape(heap, s4) /\ SameLists(g, s4) /\ s4.gray = <<>>
      /\ {Main, running} \subseteq Marked(s4) /\ Marked(g) \subseteq Marked(s4)
      /\ Loose(heap, s4) \subseteq g.tmudata
  BY <1>2, EndingMarks
<1> HIDE DEF s4
<1>4. \A o \in g.tmudata : o \in Objs /\ heap[o].tt = "udata" /\ o \notin g.rootgc
  BY DEF HeapInv, Listed, Alive, Live
<1>5. \A o \in us : o \in Objs /\ heap[o].tt = "udata" /\ o \in g.rootgc /\ ~heap[o].fin
  BY <1>3 DEF Separated, Is, SameLists
<1>6. s4.tmudata = g.tmudata /\ s4.rootgc = g.rootgc /\ s4.white = g.white  BY <1>3 DEF SameLists
<1>7. /\ Shape(heap, s5) /\ SameLists(Keeping(s4), s5) /\ s5.gray = <<>> /\ Loose(heap, s5) = {}
      /\ Marked(s4) \cup g.tmudata \cup us \subseteq Marked(s5)
  BY <1>2, <1>3, <1>4, <1>6, KeepingMarks
<1>8. s4 \in Collectors /\ s5 \in Collectors  BY <1>3, <1>7 DEF Shape
<1>9. s5.rootgc = g.rootgc \ us /\ s5.tmudata = g.tmudata \cup us /\ s5.white = g.white
  BY <1>6, <1>7, <1>8 DEF SameLists, Keeping, Collectors
<1>10. \A o \in Objs \ Marked(s5) : heap[o].tt = "udata" /\ o \in g.rootgc => heap[o].fin
  <2> SUFFICES ASSUME NEW o \in Objs \ Marked(s5), heap[o].tt = "udata", o \in g.rootgc, ~heap[o].fin
               PROVE  FALSE
    OBVIOUS
  <2>1. s4.c[o] \in Whites  BY <1>7 DEF Marked
  <2>2. o \in us  BY <1>6, <2>1 DEF Separated, Is
  <2> QED  BY <1>7, <2>2
<1> HIDE DEF us, s5
<1>11. /\ SameKinds(heap, heap')
       /\ \A o \in Objs : Refers(heap', o) \subseteq Refers(heap, o) \cup {Nil}
       /\ \A o \in Marked(s5) : Refers(heap', o) \ {Nil} \subseteq Marked(s5)
       /\ \A o \in Objs : heap[o].tt = "udata" => heap'[o].fin = IF o \in us THEN TRUE ELSE heap[o].fin
  <2> DEFINE k == heap'
  <2>1. k = Cleared(s5, Waiting(us))  BY <1>1
  <2> HIDE DEF k
  <2>2. Sound(heap) /\ Shape(heap, s5) /\ s5.gray = <<>> /\ Loose(heap, s5) = {}  BY <1>2, <1>7
  <2>3. AllUdata(us)  BY <1>5 DEF AllUdata
  <2>4. Clears(s5, us, k)  BY <2>1, <2>2, <2>3, ClearedKeeps
  <2> QED  BY <2>4 DEF k, Clears
<1> HIDE DEF h
<1>12. other(g.white) = otherwhite /\ other(g.white) \in Whites /\ other(other(g.white)) = g.white /\ g.white \in Whites
  BY <1>2 DEF other, otherwhite, Whites, Collectors
<1>13. /\ g' \in Collectors /\ g'.c = s5.c /\ g'.white = other(g.white) /\ g'.rootgc = s5.rootgc
       /\ g'.sweepgc = s5.rootgc /\ g'.tmudata = s5.tmudata /\ g'.state = "sweepstring"
  <2>1. g' = [s5 EXCEPT !.white = other(g.white), !.sweepgc = s5.rootgc, !.state = "sweepstring",
                        !.grayagain = <<>>, !.weak = <<>>]
    BY <1>1, <1>12
  <2>2. <<>> \in Seq(Objs) /\ "sweepstring" \in States  BY DEF States
  <2> QED  BY <1>8, <1>12, <2>1, <2>2 DEF Collectors
<1>14. heap \in Heaps /\ SlotsExist(heap) /\ \A o \in Objs : Leads(heap, o)  BY <1>2 DEF Sound
<1>15. /\ SlotsExist(heap') /\ Live(heap') = Live(heap) /\ \A o \in Objs : Open(heap', o) = Open(heap, o)
       /\ heap' \in Heaps /\ \A o \in Objs : heap'[o].tt = heap[o].tt
  BY <1>11, <1>14, SameKindsKeep DEF SameKinds
<1>16. Alive(heap', g') = Live(heap) \cap Marked(s5)
  <2>1. \A o \in Live(heap) : o \in Objs /\ s5.c[o] # other(g.white)  BY <1>7, <1>9 DEF Shape, Alive, Live
  <2>2. \A o \in Live(heap) : s5.c[o] # g.white <=> o \in Marked(s5)
    BY <1>12, <2>1 DEF Marked, Whites, other
  <2> QED  BY <1>12, <1>13, <1>15, <2>2 DEF Alive
<1>17. RefersToAlive(heap', g')
  <2> SUFFICES ASSUME NEW o \in Alive(heap', g')
               PROVE  Leads(heap', o) /\ Refers(heap', o) \ {Nil} \subseteq Alive(heap', g')
    BY DEF RefersToAlive
  <2>1. o \in Objs /\ o \in Marked(s5) /\ Leads(heap, o)  BY <1>14, <1>16 DEF Live
  <2>2. Refers(heap', o) \ {Nil} \subseteq Refers(heap, o) \ {Nil}  BY <1>11, <2>1
  <2>3. Refers(heap, o) \subseteq Values  BY <1>14, <2>1, RefersType
  <2>4. \A v \in Refers(heap', o) \ {Nil} : v \in Objs  BY <2>2, <2>3 DEF Values, Objs
  <2>5. Leads(heap', o)  BY <1>15, <2>1, <2>2, <2>4 DEF Leads
  <2>6. Refers(heap', o) \ {Nil} \subseteq Live(heap)
    BY <1>15, <2>4, <2>5 DEF Live, Leads
  <2> QED  BY <1>11, <1>16, <2>1, <2>5, <2>6
<1>18. ColoursOK(heap', g')
  <2>1. ColoursOK(heap, s5)  BY <1>7 DEF Shape
  <2>2. ColoursOK(heap, g')  BY <1>13, <2>1 DEF ColoursOK
  <2> QED  BY <1>11, <1>14, <2>2, SameKindsKeep
<1>19. Listed(heap', g')
  <2>1. Listed(heap, g)  BY DEF HeapInv
  <2>2. /\ g'.rootgc \subseteq Live(heap) /\ g'.sweepgc = g'.rootgc /\ g'.tmudata \cap g'.rootgc = {}
        /\ \A o \in Live(heap) : o \in g'.rootgc \cup g'.tmudata <=> ~Open(heap, o)
    BY <1>4, <1>5, <1>9, <1>13, <2>1 DEF Listed
  <2>3. g'.tmudata \subseteq {o \in Alive(heap', g') : heap'[o].tt = "udata"}
    <3> SUFFICES ASSUME NEW o \in g'.tmudata  PROVE o \in Alive(heap', g') /\ heap'[o].tt = "udata"
      OBVIOUS
    <3>1. o \in Objs /\ heap[o].tt = "udata" /\ o \in Marked(s5)  BY <1>4, <1>5, <1>7, <1>9, <1>13
    <3> QED  BY <1>15, <1>16, <3>1 DEF Live
  <2> QED  BY <1>13, <1>15, <2>2, <2>3 DEF Listed, Live
<1>20. Swept(heap', g')
  <2> SUFFICES ASSUME NEW o \in Live(heap'), o \notin g'.sweepgc \cup g'.tmudata
               PROVE  Open(heap', o) /\ heap'[o].thread \in g'.sweepgc
    BY DEF Swept
  <2>1. o \in Objs /\ Open(heap', o)  BY <1>13, <1>19 DEF Listed, Live
  <2>2. heap'[o].thread \in Objs /\ heap'[heap'[o].thread].tt = "thread"
    BY <1>15, <2>1, UpvalValueType DEF Open
  <2>3. heap'[o].thread \in g'.rootgc \cup g'.tmudata
    BY <1>19, <2>2 DEF Listed, Live, Open
  <2>4. heap'[o].thread \notin g'.tmudata  BY <1>4, <1>5, <1>9, <1>13, <1>15, <2>2
  <2> QED  BY <1>13, <2>1, <2>3, <2>4
<1>21. HeapInv(heap', g')
  BY <1>13, <1>15, <1>17, <1>18, <1>19, <1>20 DEF HeapInv
<1>22. Roots(heap', g', running)
  <2>1. {Main, running} \subseteq Live(heap) /\ heap[Main].tt = "thread" /\ heap[running].tt = "thread"
    BY DEF Roots, Alive
  <2>2. Main \in Objs /\ running \in Objs  BY <2>1 DEF Live
  <2> QED  BY <1>3, <1>7, <1>15, <1>16, <2>1, <2>2 DEF Roots
<1>23. Separates(heap, g, heap', g', us)
  <2>1. \A o \in Objs : heap'[o].tt = "udata" /\ o \notin Alive(heap', g') => heap'[o].fin
    <3> SUFFICES ASSUME NEW o \in Objs, heap'[o].tt = "udata", o \notin Alive(heap', g')
                 PROVE  heap'[o].fin
      OBVIOUS
    <3>1. heap[o].tt = "udata" /\ o \in Live(heap) /\ o \notin Marked(s5)  BY <1>15, <1>16 DEF Live
    <3>2. o \in g.rootgc \cup g.tmudata  BY <3>1 DEF HeapInv, Listed, Open
    <3>3. o \in g.rootgc  BY <1>7, <3>1, <3>2
    <3>4. heap[o].fin /\ o \notin us  BY <1>7, <1>10, <3>1, <3>3
    <3> QED  BY <1>11, <3>1, <3>4
  <2> QED  BY <1>5, <1>9, <1>11, <1>13, <1>15, <2>1 DEF Separates
<1> QED  BY <1>13, <1>21, <1>22, <1>23

-----------------------------------------------------------------------------
(* The collector's other steps.                                            *)

LEMMA ListedSame ==
  ASSUME NEW h, NEW s, NEW t, Listed(h, s), SameLists(s, t), s.tmudata \subseteq Alive(h, t)
  PROVE  Listed(h, t)
BY DEF Listed, SameLists, Alive

(* What is marked, and not on a list: an open upvalue, or a userdata that  *)
(* waits.                                                                  *)
Excused(h, s) == Range(s.grayagain) \cup s.tmudata \cup {o \in Objs : Open(h, o)}

LEMMA TricolourLoose ==
  ASSUME NEW h, NEW s, Tricolour(h, s)
  PROVE  Loose(h, s) \subseteq Excused(h, s)
<1> SUFFICES ASSUME NEW o \in Loose(h, s), o \notin Excused(h, s)  PROVE FALSE
  OBVIOUS
<1>1. o \in Marked(s) /\ o \in Objs /\ o \notin Range(s.gray) \cup Range(s.weak) /\ ~Done(h, s, o)
  BY DEF Loose, Marked
<1>2. h[o].tt # "free"  BY <1>1, RefersCases DEF Done
<1> QED  BY <1>1, <1>2 DEF Tricolour, Excused, Lists, Live, Done

LEMMA InPropagate ==
  ASSUME NEW h, NEW s, Sound(h), Shape(h, s), s.state = "propagate", Listed(h, s),
         Main \in Marked(s), Loose(h, s) \subseteq Excused(h, s)
  PROVE  HeapInv(h, s)
<1>1. RefersToAlive(h, s)
  <2> SUFFICES ASSUME NEW o \in Alive(h, s)
               PROVE  Leads(h, o) /\ Refers(h, o) \ {Nil} \subseteq Alive(h, s)
    BY DEF RefersToAlive
  <2>1. o \in Objs /\ Alive(h, s) = Live(h)  BY DEF Alive, Live, Shape
  <2>2. Leads(h, o) /\ Refers(h, o) \subseteq Values  BY <2>1, RefersType DEF Sound
  <2>3. \A v \in Refers(h, o) \ {Nil} : v \in Objs  BY <2>2 DEF Values, Objs
  <2> QED  BY <2>1, <2>2, <2>3 DEF Leads, Live
<1>2. Tricolour(h, s)
  <2> SUFFICES ASSUME NEW o \in Live(h) \cap Marked(s)
               PROVE  \/ o \in Lists(s) \cup s.tmudata \/ Open(h, o)
                      \/ Refers(h, o) \ {Nil} \subseteq Marked(s)
    BY DEF Tricolour
  <2> QED  BY DEF Loose, Excused, Lists, Done, Live
<1> QED  BY <1>1, <1>2 DEF HeapInv, Sound, Shape

(* Marking goes on. *)
LEMMA GrowsKeeps ==
  ASSUME NEW h, NEW s, HeapInv(h, s), s.state = "propagate", NEW t, Grows(h, s, t)
  PROVE  HeapInv(h, t) /\ Alive(h, t) = Alive(h, s) /\ t.state = "propagate"
<1>1. Sound(h) /\ Shape(h, s) /\ Tricolour(h, s)  BY SoundHeap
<1>2. Alive(h, t) = Live(h) /\ Alive(h, s) = Live(h)  BY <1>1 DEF Grows, Shape
<1>3. Listed(h, t)
  <2>1. s.tmudata \subseteq Alive(h, t)  BY <1>2 DEF HeapInv, Listed
  <2> QED  BY <2>1, ListedSame DEF HeapInv, Grows
<1>4. Loose(h, t) \subseteq Excused(h, t)
  BY <1>1, TricolourLoose DEF Grows, Excused, SameLists
<1>5. Main \in Marked(t) /\ t.state = "propagate" /\ Shape(h, t)
  BY <1>1 DEF Tricolour, Grows, SameLists
<1> QED  BY <1>1, <1>2, <1>3, <1>4, <1>5, InPropagate

LEMMA MarkrootKeeps ==
  ASSUME HeapInv(heap, g), Roots(heap, g, running), g.state \in {"pause", "finalize"}
  PROVE  /\ HeapInv(heap, markroot(g)) /\ Alive(heap, markroot(g)) = Alive(heap, g)
         /\ Alive(heap, g) = Live(heap)
         /\ markroot(g).state = "propagate" /\ markroot(g).tmudata = g.tmudata
<1> DEFINE s == [g EXCEPT !.gray = <<>>, !.grayagain = <<>>, !.weak = <<>>, !.state = "propagate"]
           t == mark(s, {Main})
<1>1. g \in Collectors /\ <<>> \in Seq(Objs) /\ "propagate" \in States  BY DEF HeapInv, States
<1>2. /\ s \in Collectors /\ s.c = g.c /\ s.white = g.white /\ s.state = "propagate" /\ s.gray = <<>>
      /\ s.grayagain = <<>> /\ s.weak = <<>> /\ s.rootgc = g.rootgc /\ s.sweepgc = g.sweepgc
      /\ s.tmudata = g.tmudata
  BY <1>1 DEF Collectors
<1>3. markroot(g) = t  BY DEF markroot
<1> HIDE DEF s
<1>4. \A o \in Live(heap) : g.c[o] = g.white \/ o \in g.tmudata
  BY DEF HeapInv, Listed, Swept
<1>5. \A o \in g.tmudata : o \in Alive(heap, g) /\ heap[o].tt = "udata"
  BY DEF HeapInv, Listed
<1>6. Alive(heap, g) = Live(heap) /\ Alive(heap, s) = Alive(heap, g)
  <2>1. g.white # other(g.white)  BY <1>1 DEF Collectors, other, Whites
  <2> QED  BY <1>2, <1>4, <1>5, <2>1 DEF Alive
<1>7. ColoursOK(heap, s)  BY <1>2 DEF HeapInv, ColoursOK
<1>8. Range(<<>>) = {} /\ IsInjective(<<>>)  BY DEF Range, IsInjective
<1>9. \A o \in Live(heap) : s.c[o] # "gray"
  <2>1. g.white # "gray"  BY <1>1 DEF Collectors, Whites
  <2> QED  BY <1>2, <1>4, <1>5, <1>7, <2>1 DEF ColoursOK, Live
<1>10. Shape(heap, s)
  BY <1>2, <1>6, <1>7, <1>8, <1>9 DEF Shape, Distinct, Lists
<1>11. Sound(heap)
  <2>1. ASSUME NEW o \in Objs  PROVE Leads(heap, o)
    <3>1. CASE heap[o].tt = "free"  BY <3>1, RefersCases DEF Leads
    <3>2. CASE heap[o].tt # "free"  BY <1>6, <3>2 DEF HeapInv, RefersToAlive, Live
    <3> QED  BY <3>1, <3>2
  <2> QED  BY <2>1 DEF Sound, HeapInv
<1>12. Agrees(heap) /\ Markable(heap, {Main})
  BY DEF Agrees, Markable, Roots, Objs
<1>13. Grows(heap, s, t) /\ {Main} \ {Nil} \subseteq Marked(t)
  BY <1>10, <1>11, <1>12, MarkGrows
<1> HIDE DEF t
<1>14. Main \in Marked(t)  BY <1>13, GCParameters DEF Objs
<1>15. Shape(heap, t) /\ SameLists(s, t)  BY <1>13 DEF Grows
<1>16. Loose(heap, t) \subseteq Excused(heap, t)
  <2> SUFFICES ASSUME NEW o \in Loose(heap, s)  PROVE o \in s.tmudata
    BY <1>13 DEF Grows, Excused, SameLists
  <2>1. o \in Objs /\ g.c[o] \notin Whites /\ ~Done(heap, s, o)  BY <1>2 DEF Loose, Marked
  <2>2. o \in Live(heap)  BY <2>1, RefersCases DEF Done, Live
  <2>3. g.white \in Whites  BY <1>1 DEF Collectors
  <2> QED  BY <1>2, <1>4, <2>1, <2>2, <2>3
<1>17. Alive(heap, t) = Live(heap)  BY <1>15 DEF Shape
<1>18. Listed(heap, t)
  <2>1. Listed(heap, s)  BY <1>2, <1>6 DEF HeapInv, Listed
  <2>2. s.tmudata \subseteq Alive(heap, t)  BY <1>2, <1>5, <1>6, <1>17
  <2> QED  BY <1>15, <2>1, <2>2, ListedSame
<1>19. t.state = "propagate" /\ t.tmudata = g.tmudata  BY <1>2, <1>15 DEF SameLists
<1> QED  BY <1>3, <1>6, <1>11, <1>14, <1>15, <1>16, <1>17, <1>18, <1>19, InPropagate

LEMMA AllToSweep ==
  ASSUME NEW h \in Heaps, SlotsExist(h), NEW s, Listed(h, s), s.sweepgc = s.rootgc
  PROVE  Swept(h, s)
<1> SUFFICES ASSUME NEW o \in Live(h), o \notin s.sweepgc \cup s.tmudata
             PROVE  Open(h, o) /\ h[o].thread \in s.sweepgc
  BY DEF Swept
<1>1. o \in Objs /\ Open(h, o)  BY DEF Listed, Live
<1>2. h[o].thread \in Objs /\ h[h[o].thread].tt = "thread"  BY <1>1, UpvalValueType DEF Open
<1>3. h[o].thread \in s.rootgc \cup s.tmudata  BY <1>2 DEF Listed, Live, Open
<1>4. h[o].thread \notin s.tmudata  BY <1>2 DEF Listed
<1> QED  BY <1>1, <1>3, <1>4

LEMMA SweepStringKeeps ==
  ASSUME HeapInv(heap, g), SweepString
  PROVE  HeapInv(heap, g') /\ Alive(heap, g') = Alive(heap, g) /\ heap' = heap /\ g'.tmudata = g.tmudata
<1>1. heap' = heap /\ g.state = "sweepstring" /\ g' = [g EXCEPT !.state = "sweep"]  BY DEF SweepString
<1>2. g \in Collectors /\ "sweep" \in States  BY DEF HeapInv, States
<1>3. /\ g' \in Collectors /\ g'.state = "sweep" /\ g'.c = g.c /\ g'.white = g.white
      /\ g'.rootgc = g.rootgc /\ g'.sweepgc = g.sweepgc /\ g'.tmudata = g.tmudata
  BY <1>1, <1>2 DEF Collectors
<1>4. Alive(heap, g') = Alive(heap, g)  BY <1>3 DEF Alive
<1>5. ColoursOK(heap, g') /\ RefersToAlive(heap, g')
  BY <1>3, <1>4 DEF HeapInv, ColoursOK, RefersToAlive
<1>6. Listed(heap, g')  BY <1>1, <1>3, <1>4 DEF HeapInv, Listed
<1>7. Swept(heap, g')  BY <1>1, <1>3 DEF HeapInv, Swept
<1> QED  BY <1>1, <1>3, <1>4, <1>5, <1>6, <1>7 DEF HeapInv

LEMMA FinalizedKeeps ==
  ASSUME HeapInv(heap, g), Finalized
  PROVE  HeapInv(heap, g') /\ Alive(heap, g') = Alive(heap, g) /\ heap' = heap /\ g'.tmudata = g.tmudata
<1>1. heap' = heap /\ g.state = "finalize" /\ g.tmudata = {} /\ g' = [g EXCEPT !.state = "pause"]
  BY DEF Finalized
<1>2. g \in Collectors /\ "pause" \in States  BY DEF HeapInv, States
<1>3. /\ g' \in Collectors /\ g'.state = "pause" /\ g'.c = g.c /\ g'.white = g.white
      /\ g'.rootgc = g.rootgc /\ g'.sweepgc = g.sweepgc /\ g'.tmudata = g.tmudata
  BY <1>1, <1>2 DEF Collectors
<1>4. Alive(heap, g') = Alive(heap, g)  BY <1>3 DEF Alive
<1>5. ColoursOK(heap, g') /\ RefersToAlive(heap, g')
  BY <1>3, <1>4 DEF HeapInv, ColoursOK, RefersToAlive
<1>6. Listed(heap, g')  BY <1>1, <1>3, <1>4 DEF HeapInv, Listed
<1>7. Swept(heap, g')  BY <1>1, <1>3 DEF HeapInv, Swept
<1> QED  BY <1>1, <1>3, <1>4, <1>5, <1>6, <1>7 DEF HeapInv

LEMMA FullStartKeeps ==
  ASSUME HeapInv(heap, g), FullStart
  PROVE  HeapInv(heap, g') /\ Alive(heap, g') = Alive(heap, g) /\ heap' = heap /\ g'.tmudata = g.tmudata
<1>1. /\ heap' = heap
      /\ g' = IF g.state \in {"pause", "propagate"}
              THEN [g EXCEPT !.sweepgc = g.rootgc, !.gray = <<>>, !.grayagain = <<>>, !.weak = <<>>,
                             !.state = "sweepstring"]
              ELSE g
  BY DEF FullStart
<1>2. CASE g.state \notin {"pause", "propagate"}
  BY <1>1, <1>2
<1>3. CASE g.state \in {"pause", "propagate"}
  <2>1. g \in Collectors /\ "sweepstring" \in States /\ <<>> \in Seq(Objs)  BY DEF HeapInv, States
  <2>2. /\ g' \in Collectors /\ g'.state = "sweepstring" /\ g'.c = g.c /\ g'.white = g.white
        /\ g'.rootgc = g.rootgc /\ g'.sweepgc = g.rootgc /\ g'.tmudata = g.tmudata
    BY <1>1, <1>3, <2>1 DEF Collectors
  <2>3. Alive(heap, g') = Alive(heap, g)  BY <2>2 DEF Alive
  <2>4. ColoursOK(heap, g') /\ RefersToAlive(heap, g')
    BY <2>2, <2>3 DEF HeapInv, ColoursOK, RefersToAlive
  <2>5. Listed(heap, g')  BY <2>2, <2>3 DEF HeapInv, Listed
  <2>6. Swept(heap, g')  BY <2>2, <2>5, AllToSweep DEF HeapInv
  <2> QED  BY <1>1, <2>2, <2>3, <2>4, <2>5, <2>6 DEF HeapInv
<1> QED  BY <1>2, <1>3

-----------------------------------------------------------------------------
(* Writing into objects.                                                   *)

(* Objects of the same kinds that refer to what is alive. *)
LEMMA Rewrites ==
  ASSUME NEW h, NEW s, HeapInv(h, s), NEW k, SameKinds(h, k),
         \A o \in Alive(h, s) : Leads(k, o) /\ Refers(k, o) \ {Nil} \subseteq Alive(h, s),
         s.state = "propagate" => Loose(k, s) \subseteq Excused(h, s)
  PROVE  HeapInv(k, s) /\ Alive(k, s) = Alive(h, s)
<1>1. h \in Heaps /\ SlotsExist(h)  BY DEF HeapInv
<1>2. /\ SlotsExist(k) /\ Live(k) = Live(h) /\ \A o \in Objs : Open(k, o) = Open(h, o)
      /\ Alive(k, s) = Alive(h, s)
      /\ ColoursOK(h, s) => ColoursOK(k, s)
      /\ Listed(h, s) => Listed(k, s)
      /\ Swept(h, s) => Swept(k, s)
      /\ Shape(h, s) => Shape(k, s)
  BY <1>1, SameKindsKeep
<1>3. k \in Heaps  BY DEF SameKinds
<1>4. RefersToAlive(k, s)  BY <1>2 DEF RefersToAlive
<1>5. CASE s.state # "propagate"
  BY <1>2, <1>3, <1>4, <1>5 DEF HeapInv
<1>6. CASE s.state = "propagate"
  <2>1. Shape(h, s) /\ Tricolour(h, s)  BY <1>6, SoundHeap
  <2>2. ASSUME NEW o \in Objs  PROVE Leads(k, o)
    <3>1. CASE k[o].tt = "free"  BY <3>1, RefersCases DEF Leads
    <3>2. CASE k[o].tt # "free"  BY <1>2, <2>1, <3>2 DEF Shape, Live
    <3> QED  BY <3>1, <3>2
  <2>3. Sound(k)  BY <1>2, <1>3, <2>2 DEF Sound
  <2>4. Main \in Marked(s) /\ Listed(k, s) /\ Shape(k, s)  BY <1>2, <2>1 DEF Tricolour, HeapInv
  <2>5. Loose(k, s) \subseteq Excused(k, s)  BY <1>2, <1>6 DEF Excused
  <2> QED  BY <1>2, <1>6, <2>3, <2>4, <2>5, InPropagate
<1> QED  BY <1>5, <1>6

(* A value: nil or what is alive, and no upvalue. *)
Value(h, s, v) == v \in Values /\ (v # Nil => v \in Alive(h, s) /\ h[v].tt # "upval")

(* A stack takes a value. *)
Stacked(h, t, i, v) == [h EXCEPT ![t].stack[i] = v]

LEMMA StackWrite ==
  ASSUME NEW h, NEW s, HeapInv(h, s), NEW t \in Live(h), h[t].tt = "thread",
         NEW i \in DOMAIN h[t].stack, NEW v, Value(h, s, v),
         NEW k, k = Stacked(h, t, i, v)
  PROVE  HeapInv(k, s) /\ Alive(k, s) = Alive(h, s) /\ SameKinds(h, k) /\ \A o \in Objs \ {t} : k[o] = h[o]
<1>1. h \in Heaps /\ SlotsExist(h) /\ t \in Objs  BY DEF HeapInv, Live
<1>2. h[t] \in Thread /\ h[t].stack \in Seq(Values) /\ v \in Values
  BY <1>1, Kinds DEF Thread, Value
<1> DEFINE q == [h[t].stack EXCEPT ![i] = v]
<1>3. q \in Seq(Values) /\ DOMAIN q = DOMAIN h[t].stack /\ q[i] = v
      /\ \A j \in DOMAIN q : q[j] = h[t].stack[j] \/ (j = i /\ q[j] = v)
  BY <1>2
<1>4. k[t] = [h[t] EXCEPT !.stack = q] /\ \A o \in Objs \ {t} : k[o] = h[o]
  BY <1>1 DEF Heaps, Stacked
<1> HIDE DEF q
<1>5. k[t] \in Thread /\ k[t].stack = q /\ k[t].tt = "thread"
  BY <1>2, <1>3, <1>4 DEF Thread
<1>6. k \in Heaps
  <2>1. k \in [Objs -> Table \cup Udata \cup Function \cup Upval \cup Thread \cup {Free}]
    <3>1. k = [o \in Objs |-> k[o]]  BY <1>1 DEF Heaps, Stacked
    <3>2. ASSUME NEW o \in Objs  PROVE k[o] \in Table \cup Udata \cup Function \cup Upval \cup Thread \cup {Free}
      BY <1>1, <1>4, <1>5 DEF Heaps
    <3> QED  BY <3>1, <3>2
  <2> QED  BY <2>1 DEF Heaps
<1>7. SameKinds(h, k)
  BY <1>3, <1>4, <1>5, <1>6 DEF SameKinds
<1>8. \A o \in Objs : k[o].tt = h[o].tt  BY <1>7 DEF SameKinds
<1>9. ASSUME NEW o \in Objs, o # t, ~Open(h, o)  PROVE Refers(k, o) = Refers(h, o)
  <2>1. k[o] = h[o]  BY <1>4, <1>9
  <2> QED  BY <1>1, <1>9, <2>1, SameRefers
<1>10. ASSUME NEW o \in Objs, Open(h, o)  PROVE Refers(k, o) \subseteq Refers(h, o) \cup {v}
  <2>1. o # t /\ k[o] = h[o] /\ h[o].tt = "upval" /\ h[o].thread # Nil  BY <1>4, <1>10 DEF Open
  <2>2. /\ h[o].thread \in Objs /\ h[o].slot \in DOMAIN h[h[o].thread].stack
    BY <1>1, <2>1, UpvalValueType DEF SlotsExist
  <2>3. Refers(k, o) = {UpvalValue(k, o)} /\ Refers(h, o) = {UpvalValue(h, o)}  BY <2>1, RefersCases
  <2>4. UpvalValue(k, o) = k[h[o].thread].stack[h[o].slot] /\ UpvalValue(h, o) = h[h[o].thread].stack[h[o].slot]
    BY <2>1 DEF UpvalValue
  <2>5. CASE h[o].thread = t
    BY <1>3, <1>5, <2>2, <2>3, <2>4, <2>5
  <2>6. CASE h[o].thread # t
    BY <1>4, <2>2, <2>3, <2>4, <2>6
  <2> QED  BY <2>5, <2>6
<1>11. Refers(k, t) \subseteq Refers(h, t) \cup {v}
  <2>1. Refers(k, t) = Range(q) /\ Refers(h, t) = Range(h[t].stack)  BY <1>5, RefersCases
  <2>2. Range(q) \subseteq Range(h[t].stack) \cup {v}  BY <1>3 DEF Range
  <2> QED  BY <2>1, <2>2
<1>12. ASSUME NEW o \in Alive(h, s)  PROVE Leads(k, o) /\ Refers(k, o) \ {Nil} \subseteq Alive(h, s)
  <2>1. o \in Objs /\ Leads(h, o) /\ Refers(h, o) \ {Nil} \subseteq Alive(h, s)
    BY DEF Alive, Live, HeapInv, RefersToAlive
  <2>2. v # Nil => v \in Alive(h, s) /\ h[v].tt # "upval" /\ h[v].tt # "free" /\ v \in Objs
    BY DEF Value, Alive, Live
  <2>3. \A w \in Alive(h, s) : w \in Objs /\ k[w].tt = h[w].tt  BY <1>8 DEF Alive, Live
  <2>4. CASE o # t /\ ~Open(h, o)
    <3>1. Refers(k, o) = Refers(h, o)  BY <1>9, <2>1, <2>4
    <3> QED  BY <1>8, <2>1, <2>3, <3>1 DEF Leads
  <2>5. CASE o = t \/ Open(h, o)
    <3>1. Refers(k, o) \subseteq Refers(h, o) \cup {v} /\ h[o].tt \in {"thread", "upval"}
      BY <1>10, <1>11, <2>1, <2>5 DEF Open
    <3> QED  BY <1>8, <2>1, <2>2, <2>3, <3>1 DEF Leads
  <2> QED  BY <2>4, <2>5
<1>13. ASSUME s.state = "propagate"  PROVE Loose(k, s) \subseteq Excused(h, s)
  <2> SUFFICES ASSUME NEW o \in Loose(k, s), o \notin Excused(h, s)  PROVE FALSE
    OBVIOUS
  <2>1. Tricolour(h, s) /\ Shape(h, s)  BY <1>13, SoundHeap
  <2>2. o \in Objs /\ o \in Marked(s) /\ o \notin Range(s.gray) \cup Range(s.weak) /\ ~Done(k, s, o)
    BY DEF Loose, Marked
  <2>3. ~Open(h, o) /\ o \notin Range(s.grayagain)  BY <2>2 DEF Excused
  <2>4. CASE o = t
    <3>1. s.c[t] = "gray"  BY <2>1, <2>2, <2>4 DEF Shape, ColoursOK, Marked, Collectors, Colours
    <3> QED  BY <2>1, <2>2, <2>3, <2>4, <3>1 DEF Shape, Lists
  <2>5. CASE o # t
    <3>1. ~Done(h, s, o)  BY <1>9, <2>2, <2>3, <2>5 DEF Done
    <3>2. o \in Loose(h, s)  BY <2>2, <3>1 DEF Loose
    <3> QED  BY <2>1, <3>2, TricolourLoose
  <2> QED  BY <2>4, <2>5
<1> QED  BY <1>4, <1>7, <1>12, <1>13, Rewrites

(* One object is rewritten. *)
With(h, o, x) == [h EXCEPT ![o] = x]

(* Another object, not a stack nor an open upvalue, is written to.         *)
LEMMA FieldWrite ==
  ASSUME NEW h, NEW s, HeapInv(h, s), NEW x \in Alive(h, s), h[x].tt # "thread", ~Open(h, x),
         NEW k, k \in Heaps, \A o \in Objs \ {x} : k[o] = h[o], k[x].tt = h[x].tt,
         h[x].tt = "upval" => k[x].thread = h[x].thread /\ k[x].slot = h[x].slot,
         \A v \in Refers(k, x) : Value(h, s, v) \/ (v \in Refers(h, x)),
         h[x].tt = "function" => Refers(k, x) = Refers(h, x),
         h[x].tt = "udata" => \A v \in Refers(k, x) \ {Nil} : h[v].tt = "table",
         s.state = "propagate" /\ x \in Marked(s) => x \in Lists(s) \cup s.tmudata \/ Done(k, s, x)
  PROVE  HeapInv(k, s) /\ Alive(k, s) = Alive(h, s) /\ SameKinds(h, k)
<1>1. h \in Heaps /\ SlotsExist(h) /\ x \in Objs  BY DEF HeapInv, Alive, Live
<1>2. SameKinds(h, k)
  BY DEF SameKinds
<1>3. \A o \in Objs : k[o].tt = h[o].tt  BY <1>2 DEF SameKinds
<1>4. ASSUME NEW o \in Objs, o # x  PROVE Refers(k, o) = Refers(h, o)
  <2>1. k[o] = h[o]  BY <1>4
  <2>2. Open(h, o) => h[o].thread \in Objs /\ h[o].thread # x
    BY <1>1, UpvalValueType DEF Open
  <2>3. Open(h, o) => k[h[o].thread] = h[h[o].thread]  BY <2>2
  <2> QED  BY <1>1, <2>1, <2>3, SameRefers
<1>5. ASSUME NEW o \in Alive(h, s)  PROVE Leads(k, o) /\ Refers(k, o) \ {Nil} \subseteq Alive(h, s)
  <2>1. o \in Objs /\ Leads(h, o) /\ Refers(h, o) \ {Nil} \subseteq Alive(h, s)
    BY DEF Alive, Live, HeapInv, RefersToAlive
  <2>2. \A w \in Alive(h, s) : w \in Objs /\ k[w].tt = h[w].tt /\ h[w].tt # "free"  BY <1>3 DEF Alive, Live
  <2>3. CASE o # x
    <3>1. Refers(k, o) = Refers(h, o)  BY <1>4, <2>1, <2>3
    <3> QED  BY <1>3, <2>1, <2>2, <3>1 DEF Leads
  <2>4. CASE o = x
    <3>1. \A v \in Refers(k, x) \ {Nil} : v \in Alive(h, s)  BY <2>1, <2>4 DEF Value
    <3>2. \A v \in Refers(k, x) \ {Nil} : h[v].tt = "upval" <=> h[x].tt = "function"
      <4> TAKE v \in Refers(k, x) \ {Nil}
      <4>1. CASE v \in Refers(h, x)  BY <2>1, <2>4, <4>1 DEF Leads
      <4>2. CASE v \notin Refers(h, x)
        <5>1. h[v].tt # "upval" /\ h[x].tt # "function"  BY <4>2 DEF Value
        <5> QED  BY <5>1
      <4> QED  BY <4>1, <4>2
    <3> QED  BY <1>3, <2>2, <2>4, <3>1, <3>2 DEF Leads
  <2> QED  BY <2>3, <2>4
<1>6. ASSUME s.state = "propagate"  PROVE Loose(k, s) \subseteq Excused(h, s)
  <2> SUFFICES ASSUME NEW o \in Loose(k, s), o \notin Excused(h, s)  PROVE FALSE
    OBVIOUS
  <2>1. Tricolour(h, s) /\ Shape(h, s)  BY <1>6, SoundHeap
  <2>2. o \in Objs /\ o \in Marked(s) /\ o \notin Range(s.gray) \cup Range(s.weak) /\ ~Done(k, s, o)
    BY DEF Loose, Marked
  <2>3. o \notin s.tmudata /\ o \notin Range(s.grayagain)  BY <2>2 DEF Excused
  <2>4. CASE o = x  BY <1>6, <2>2, <2>3, <2>4 DEF Lists
  <2>5. CASE o # x
    <3>1. ~Done(h, s, o)  BY <1>4, <2>2, <2>5 DEF Done
    <3>2. o \in Loose(h, s)  BY <2>2, <3>1 DEF Loose
    <3> QED  BY <2>1, <3>2, TricolourLoose
  <2> QED  BY <2>4, <2>5
<1> QED  BY <1>2, <1>5, <1>6, Rewrites

-----------------------------------------------------------------------------
(* Barriers, new objects.                                                  *)

Whitened(s, o) == [s EXCEPT !.c = [s.c EXCEPT ![o] = s.white]]

LEMMA WhitenedFields ==
  ASSUME NEW s \in Collectors, NEW o \in Objs
  PROVE  /\ Whitened(s, o) \in Collectors /\ SameLists(s, Whitened(s, o))
         /\ Whitened(s, o).gray = s.gray /\ Whitened(s, o).grayagain = s.grayagain /\ Whitened(s, o).weak = s.weak
         /\ Whitened(s, o).c[o] = s.white /\ \A p \in Objs \ {o} : Whitened(s, o).c[p] = s.c[p]
         /\ s.white \in Whites /\ s.white \notin {"gray", "black"} /\ s.white # other(s.white)
<1>1. s.c \in [Objs -> Colours] /\ s.white \in Colours /\ s.white \in Whites  BY DEF Collectors, Colours
<1> DEFINE c == [s.c EXCEPT ![o] = s.white]
<1>2. c \in [Objs -> Colours] /\ c[o] = s.white /\ \A p \in Objs \ {o} : c[p] = s.c[p]  BY <1>1
<1> HIDE DEF c
<1>3. Whitened(s, o) = [s EXCEPT !.c = c]  BY DEF Whitened, c
<1>4. Whitened(s, o) \in Collectors /\ Whitened(s, o).c = c
  BY <1>2, <1>3 DEF Collectors
<1>5. /\ SameLists(s, Whitened(s, o))
      /\ Whitened(s, o).gray = s.gray /\ Whitened(s, o).grayagain = s.grayagain /\ Whitened(s, o).weak = s.weak
  BY <1>3 DEF Collectors, SameLists
<1>6. s.white \notin {"gray", "black"} /\ s.white # other(s.white)  BY <1>1 DEF Whites, other
<1> QED  BY <1>1, <1>2, <1>4, <1>5, <1>6

(* While nothing is marked, an object may be made white. *)
LEMMA WhitenedKeeps ==
  ASSUME NEW h, NEW s, HeapInv(h, s), s.state # "propagate", NEW o \in Live(h),
         Leads(h, o) /\ Refers(h, o) \ {Nil} \subseteq Alive(h, s)
  PROVE  HeapInv(h, Whitened(s, o)) /\ Alive(h, Whitened(s, o)) = Alive(h, s) \cup {o}
<1> DEFINE t == Whitened(s, o)
<1>1. s \in Collectors /\ o \in Objs  BY DEF HeapInv, Live
<1>2. /\ t \in Collectors /\ SameLists(s, t)
      /\ t.c[o] = s.white /\ \A p \in Objs \ {o} : t.c[p] = s.c[p]
      /\ s.white \in Whites /\ s.white \notin {"gray", "black"} /\ s.white # other(s.white)
  BY <1>1, WhitenedFields
<1> HIDE DEF t
<1>3. t.white = s.white /\ t.state = s.state /\ t.sweepgc = s.sweepgc /\ t.tmudata = s.tmudata
  BY <1>2 DEF SameLists
<1>4. \A p \in Live(h) : p \in Objs  BY DEF Live
<1>5. Alive(h, t) = Alive(h, s) \cup {o}  BY <1>2, <1>3, <1>4 DEF Alive
<1>6. ColoursOK(h, t)  BY <1>2 DEF HeapInv, ColoursOK
<1>7. RefersToAlive(h, t)  BY <1>5 DEF HeapInv, RefersToAlive
<1>8. Listed(h, t)
  <2>1. s.tmudata \subseteq Alive(h, t)  BY <1>5 DEF HeapInv, Listed
  <2> QED  BY <1>2, <2>1, ListedSame DEF HeapInv
<1>9. Swept(h, t)  BY <1>2, <1>3, <1>4 DEF HeapInv, Swept
<1> QED  BY <1>2, <1>3, <1>5, <1>6, <1>7, <1>8, <1>9 DEF t, HeapInv

(* A black table is gray again.                                            *)
Grayed(s, x) == [s EXCEPT !.c = [s.c EXCEPT ![x] = "gray"], !.grayagain = <<x>> \o s.grayagain]

LEMMA BarriertKeeps ==
  ASSUME NEW h, NEW s, HeapInv(h, s), NEW x \in Objs, h[x].tt = "table", s.c[x] = "black",
         NEW t, t = Grayed(s, x)
  PROVE  HeapInv(h, t) /\ Alive(h, t) = Alive(h, s) /\ SameLists(s, t) /\ x \in Lists(t)
<1>1. s \in Collectors  BY DEF HeapInv
<1>2. s.grayagain \in Seq(Objs) /\ s.c \in [Objs -> Colours] /\ "gray" \in Colours
  BY <1>1 DEF Collectors, Colours
<1>3. /\ <<x>> \o s.grayagain \in Seq(Objs) /\ Range(<<x>> \o s.grayagain) = {x} \cup Range(s.grayagain)
      /\ IsInjective(s.grayagain) /\ x \notin Range(s.grayagain) => IsInjective(<<x>> \o s.grayagain)
  BY <1>2, Prepended
<1> DEFINE c == [s.c EXCEPT ![x] = "gray"]
           q == <<x>> \o s.grayagain
<1>4. c \in [Objs -> Colours] /\ c[x] = "gray" /\ \A p \in Objs \ {x} : c[p] = s.c[p]  BY <1>2
<1>5. t = [s EXCEPT !.c = c, !.grayagain = q] /\ q \in Seq(Objs)  BY <1>3 DEF Grayed
<1> HIDE DEF c, q
<1>6. t \in Collectors /\ t.c = c /\ t.grayagain = q /\ t.gray = s.gray /\ t.weak = s.weak /\ SameLists(s, t)
  BY <1>1, <1>4, <1>5 DEF Collectors, SameLists
<1>7. t.white = s.white /\ t.state = s.state /\ t.sweepgc = s.sweepgc /\ t.tmudata = s.tmudata
  BY <1>6 DEF SameLists
<1>8. \A p \in Live(h) : p \in Objs  BY DEF Live
<1>9. s.white \in Whites /\ other(s.white) \in Whites /\ "gray" \notin Whites /\ "black" \notin Whites
  BY <1>1 DEF Collectors, Whites, other
<1>10. Alive(h, t) = Alive(h, s)  BY <1>4, <1>6, <1>7, <1>8, <1>9 DEF Alive
<1>11. ColoursOK(h, t)  BY <1>4, <1>6 DEF HeapInv, ColoursOK
<1>12. Listed(h, t)
  <2>1. s.tmudata \subseteq Alive(h, t)  BY <1>10 DEF HeapInv, Listed
  <2> QED  BY <1>6, <2>1, ListedSame DEF HeapInv
<1>13. x \in Lists(t)  BY <1>3, <1>6 DEF Lists, q
<1>14. CASE s.state # "propagate"
  <2>1. RefersToAlive(h, t)  BY <1>10 DEF HeapInv, RefersToAlive
  <2>2. Swept(h, t)  BY <1>4, <1>6, <1>7, <1>8, <1>9, <1>14 DEF HeapInv, Swept
  <2> QED  BY <1>6, <1>7, <1>10, <1>11, <1>12, <1>13, <1>14, <2>1, <2>2 DEF HeapInv
<1>15. CASE s.state = "propagate"
  <2>1. Sound(h) /\ Shape(h, s) /\ Tricolour(h, s)  BY <1>15, SoundHeap
  <2>2. x \notin Lists(s)  BY <2>1 DEF Shape
  <2>3. Range(t.grayagain) = {x} \cup Range(s.grayagain) /\ IsInjective(t.grayagain)
    BY <1>3, <1>6, <2>1, <2>2 DEF q, Shape, Distinct, Lists
  <2>4. Lists(t) = Lists(s) \cup {x} /\ Lists(s) \subseteq Objs
    BY <1>1, <1>6, <2>3, ListsType DEF Lists
  <2>5. Distinct(t)
    BY <1>6, <2>1, <2>2, <2>3 DEF Shape, Distinct, Lists
  <2>6. Marked(t) = Marked(s)
    BY <1>4, <1>6, <1>9 DEF Marked
  <2>7. \A o \in Lists(t) : t.c[o] = "gray"
    BY <1>4, <1>6, <2>1, <2>4 DEF Shape
  <2>8. \A o \in Live(h) : t.c[o] = "gray" => o \in Lists(t) \/ h[o].tt = "upval"
    BY <1>4, <1>6, <1>8, <2>1, <2>4 DEF Shape
  <2>9. Alive(h, t) = Live(h)  BY <1>10, <2>1 DEF Shape
  <2>10. Shape(h, t)
    BY <1>6, <1>11, <2>1, <2>3, <2>5, <2>7, <2>8, <2>9 DEF Shape
  <2>11. Loose(h, t) \subseteq Excused(h, t)
    <3>1. Loose(h, t) = Loose(h, s)  BY <1>6, <2>6 DEF Loose, Done
    <3>2. Excused(h, s) \subseteq Excused(h, t)  BY <1>7, <2>3 DEF Excused
    <3> QED  BY <2>1, <3>1, <3>2, TricolourLoose
  <2>12. Main \in Marked(t)  BY <2>1, <2>6 DEF Tricolour
  <2> QED  BY <1>6, <1>7, <1>10, <1>12, <1>13, <1>15, <2>1, <2>10, <2>11, <2>12, InPropagate
<1> QED  BY <1>14, <1>15

(* A new object is white, and, but for an open upvalue, on the list.       *)
Linked(s, o, os) == [s EXCEPT !.c = [s.c EXCEPT ![o] = s.white], !.rootgc = s.rootgc \cup os]

Joins(k, o) == IF Open(k, o) THEN {} ELSE {o}

(* What a new object must be. *)
NewObject(h, s, o, k) ==
  /\ o \in Addrs /\ h[o].tt = "free" /\ k \in Heaps /\ k[o].tt # "free" /\ \A p \in Objs \ {o} : k[p] = h[p]
  /\ Open(k, o) => /\ k[o].thread \in Objs \ {o} /\ h[k[o].thread].tt = "thread"
                   /\ k[o].slot \in DOMAIN h[k[o].thread].stack
  /\ Leads(k, o) /\ Refers(k, o) \ {Nil} \subseteq Alive(h, s)

LEMMA AllocKeeps ==
  ASSUME NEW h, NEW s, HeapInv(h, s), NEW o, NEW k, NewObject(h, s, o, k),
         NEW t, t = Linked(s, o, Joins(k, o))
  PROVE  HeapInv(k, t) /\ Alive(k, t) = Alive(h, s) \cup {o} /\ t.tmudata = s.tmudata /\ t.state = s.state
<1> DEFINE os == Joins(k, o)
           c == [s.c EXCEPT ![o] = s.white]
<1>1. /\ s \in Collectors /\ h \in Heaps /\ SlotsExist(h) /\ k \in Heaps /\ o \in Objs /\ os \subseteq Objs
      /\ h[o].tt = "free" /\ k[o].tt # "free" /\ \A p \in Objs \ {o} : k[p] = h[p]
  BY DEF HeapInv, NewObject, Objs, os, Joins
<1>2. s.c \in [Objs -> Colours] /\ s.white \in Colours /\ s.white \in Whites /\ s.white # other(s.white)
      /\ s.white \notin {"gray", "black"}
  BY <1>1 DEF Collectors, Colours, Whites, other
<1>3. c \in [Objs -> Colours] /\ c[o] = s.white /\ \A p \in Objs \ {o} : c[p] = s.c[p]  BY <1>1, <1>2
<1>4. t = [s EXCEPT !.c = c, !.rootgc = s.rootgc \cup os]  BY DEF Linked
<1> HIDE DEF c, os, Joins
<1>5. /\ t \in Collectors /\ t.c = c /\ t.rootgc = s.rootgc \cup os /\ t.white = s.white /\ t.state = s.state
      /\ t.sweepgc = s.sweepgc /\ t.tmudata = s.tmudata
      /\ t.gray = s.gray /\ t.grayagain = s.grayagain /\ t.weak = s.weak
  BY <1>1, <1>3, <1>4 DEF Collectors
<1>6. Live(k) = Live(h) \cup {o} /\ o \notin Live(h) /\ \A p \in Live(h) : p \in Objs /\ p # o
  BY <1>1 DEF Live
<1>7. Alive(k, t) = Alive(h, s) \cup {o}
  BY <1>2, <1>3, <1>5, <1>6 DEF Alive
<1>8. \A p \in Objs \ {o} : k[p] = h[p] /\ Open(k, p) = Open(h, p)
  BY <1>1 DEF Open
<1>9. \A p \in Objs : Open(h, p) => h[p].thread \in Objs /\ h[p].thread # o /\ h[h[p].thread].tt = "thread"
  BY <1>1, UpvalValueType DEF Open
<1>10. \A p \in Objs \ {o} : Refers(k, p) = Refers(h, p)
  BY <1>1, <1>8, <1>9, SameRefers
<1>11. SlotsExist(k)
  <2> SUFFICES ASSUME NEW u \in Objs, k[u].tt = "upval", k[u].thread # Nil
               PROVE  k[k[u].thread].tt = "thread" /\ k[u].slot \in DOMAIN k[k[u].thread].stack
    BY DEF SlotsExist
  <2>1. CASE u = o
    BY <1>1, <2>1 DEF NewObject, Open
  <2>2. CASE u # o
    <3>1. h[u].tt = "upval" /\ h[u].thread # Nil /\ k[u] = h[u]  BY <1>1, <2>2
    <3>2. h[u].thread \in Objs /\ h[u].thread # o  BY <1>9, <3>1 DEF Open
    <3> QED  BY <1>1, <3>1, <3>2 DEF SlotsExist
  <2> QED  BY <2>1, <2>2
<1>12. ColoursOK(k, t)
  BY <1>1, <1>2, <1>3, <1>5 DEF HeapInv, ColoursOK
<1>13. ASSUME NEW p \in Objs, p # o, Leads(h, p)
       PROVE  Leads(k, p) /\ o \notin Refers(h, p)
  <2>1. Refers(h, p) \subseteq Values  BY <1>1, RefersType
  <2>2. \A v \in Refers(h, p) \ {Nil} : v \in Objs /\ h[v].tt # "free"
    BY <1>13, <2>1 DEF Leads, Values, Objs
  <2>3. \A v \in Refers(h, p) \ {Nil} : k[v] = h[v]  BY <1>1, <2>2
  <2>4. o # Nil  BY <1>1, GCParameters
  <2> QED  BY <1>1, <1>10, <1>13, <2>2, <2>3, <2>4 DEF Leads
<1>14. ASSUME NEW p \in Alive(k, t)
       PROVE  Leads(k, p) /\ Refers(k, p) \ {Nil} \subseteq Alive(k, t)
  <2>1. CASE p = o  BY <1>7, <2>1 DEF NewObject
  <2>2. CASE p # o
    <3>1. p \in Alive(h, s) /\ p \in Objs  BY <1>7, <2>2 DEF Alive, Live
    <3>2. Leads(h, p) /\ Refers(h, p) \ {Nil} \subseteq Alive(h, s)  BY <3>1 DEF HeapInv, RefersToAlive
    <3> QED  BY <1>7, <1>10, <1>13, <2>2, <3>1, <3>2
  <2> QED  BY <2>1, <2>2
<1>15. Listed(k, t)
  <2>1. Listed(h, s)  BY DEF HeapInv
  <2>2. s.tmudata \subseteq Live(h)  BY <2>1 DEF Listed, Alive
  <2>3. t.rootgc \subseteq Live(k) /\ t.sweepgc \subseteq t.rootgc
    BY <1>5, <1>6, <2>1 DEF Listed, os, Joins
  <2>4. t.tmudata \subseteq {p \in Alive(k, t) : k[p].tt = "udata"}
    BY <1>5, <1>6, <1>7, <1>8, <2>1, <2>2 DEF Listed
  <2>5. t.tmudata \cap t.rootgc = {}
    BY <1>5, <1>6, <2>1, <2>2 DEF Listed, os, Joins
  <2>6. ASSUME NEW p \in Live(k)  PROVE p \in t.rootgc \cup t.tmudata <=> ~Open(k, p)
    <3>1. CASE p = o
      <4>1. o \notin s.rootgc /\ o \notin s.tmudata  BY <1>6, <2>1, <2>2 DEF Listed
      <4> QED  BY <1>5, <3>1, <4>1 DEF os, Joins
    <3>2. CASE p # o
      <4>1. p \in Live(h) /\ p \in Objs  BY <1>6, <3>2
      <4>2. p \in s.rootgc \cup s.tmudata <=> ~Open(h, p)  BY <2>1, <4>1 DEF Listed
      <4>3. p \notin os  BY <3>2 DEF os, Joins
      <4> QED  BY <1>5, <1>8, <3>2, <4>1, <4>2, <4>3
    <3> QED  BY <3>1, <3>2
  <2> QED  BY <1>5, <2>1, <2>3, <2>4, <2>5, <2>6 DEF Listed
<1>16. RefersToAlive(k, t)  BY <1>14 DEF RefersToAlive
<1>17. CASE s.state # "propagate"
  <2>1. Swept(k, t)
    <3> SUFFICES ASSUME NEW p \in Live(k), p # o
                 PROVE  \/ t.c[p] = t.white \/ p \in t.sweepgc \cup t.tmudata
                        \/ Open(k, p) /\ k[p].thread \in t.sweepgc
      BY <1>3, <1>5 DEF Swept
    <3> QED  BY <1>3, <1>5, <1>6, <1>8, <1>17 DEF HeapInv, Swept
  <2> QED  BY <1>1, <1>5, <1>7, <1>11, <1>12, <1>15, <1>16, <1>17, <2>1 DEF HeapInv
<1>18. CASE s.state = "propagate"
  <2>1. Sound(h) /\ Shape(h, s) /\ Tricolour(h, s)  BY <1>18, SoundHeap
  <2>2. Sound(k)
    <3>1. ASSUME NEW p \in Objs  PROVE Leads(k, p)
      <4>1. CASE p = o  BY <4>1 DEF NewObject
      <4>2. CASE p # o  BY <1>13, <2>1, <4>2 DEF Sound
      <4> QED  BY <4>1, <4>2
    <3> QED  BY <1>1, <1>11, <3>1 DEF Sound
  <2>3. Alive(k, t) = Live(k)  BY <1>6, <1>7, <2>1 DEF Shape
  <2>4. Lists(t) = Lists(s) /\ Lists(s) \subseteq Objs /\ o \notin Lists(s)
    BY <1>1, <1>5, <2>1, ListsType DEF Lists, Shape
  <2>5. Shape(k, t)
    <3>1. Distinct(t)  BY <1>5, <2>1 DEF Shape, Distinct
    <3>2. /\ \A p \in Range(t.gray) : k[p].tt \in {"table", "function", "thread"}
          /\ \A p \in Range(t.grayagain) : k[p].tt \in {"table", "thread"}
          /\ \A p \in Range(t.weak) : k[p].tt = "table"
      BY <1>5, <1>8, <2>1, <2>4 DEF Shape, Lists
    <3>3. \A p \in Lists(t) : t.c[p] = "gray"
      BY <1>3, <1>5, <2>1, <2>4 DEF Shape
    <3>4. \A p \in Live(k) : t.c[p] = "gray" => p \in Lists(t) \/ k[p].tt = "upval"
      BY <1>2, <1>3, <1>5, <1>6, <1>8, <2>1, <2>4 DEF Shape
    <3> QED  BY <1>5, <1>12, <2>3, <3>1, <3>2, <3>3, <3>4 DEF Shape
  <2>6. Marked(t) = Marked(s) \ {o}
    BY <1>2, <1>3, <1>5 DEF Marked
  <2>7. Loose(k, t) \subseteq Loose(h, s)
    <3> SUFFICES ASSUME NEW p \in Loose(k, t)  PROVE p \in Loose(h, s)
      OBVIOUS
    <3>1. p \in Marked(s) /\ p # o /\ p \in Objs /\ p \notin Range(s.gray) \cup Range(s.weak) /\ ~Done(k, t, p)
      BY <1>5, <2>6 DEF Loose, Marked
    <3>2. Refers(k, p) = Refers(h, p) /\ o \notin Refers(h, p)
      BY <1>10, <1>13, <2>1, <3>1 DEF Sound
    <3>3. ~Done(h, s, p)  BY <2>6, <3>1, <3>2 DEF Done
    <3> QED  BY <3>1, <3>3 DEF Loose
  <2>8. Loose(k, t) \subseteq Excused(k, t)
    <3>1. Loose(h, s) \subseteq Excused(h, s)  BY <2>1, TricolourLoose
    <3>2. \A p \in Objs : Open(h, p) => Open(k, p)  BY <1>1, <1>8 DEF Open
    <3> QED  BY <1>5, <2>7, <3>1, <3>2 DEF Excused
  <2>9. Main \in Marked(t)
    <3>1. Main \in Marked(s) /\ Main \in Objs  BY <2>1 DEF Tricolour, Objs
    <3>2. Main # o  BY GCParameters DEF NewObject
    <3> QED  BY <2>6, <3>1, <3>2
  <2> QED  BY <1>5, <1>7, <1>15, <1>18, <2>2, <2>5, <2>8, <2>9, InPropagate
<1> QED  BY <1>17, <1>18

-----------------------------------------------------------------------------
(* Upvalues that close, objects that are freed.                            *)
Closing(gone, left) ==
  /\ gone \subseteq Objs /\ left \subseteq Objs \ gone /\ \A u \in left : Open(heap, u)
  /\ \A u \in Objs : Open(heap, u) /\ heap[u].thread \in gone => u \in gone \cup left

LEMMA ClosedHeap ==
  ASSUME heap \in Heaps, SlotsExist(heap), NEW gone, NEW left, Closing(gone, left),
         NEW k, k = CloseIn(gone, left)
  PROVE  /\ k \in Heaps /\ SlotsExist(k) /\ Live(k) = Live(heap) \ gone
         /\ \A o \in Objs : Open(k, o) <=> Open(heap, o) /\ o \notin gone \cup left
         /\ \A o \in Objs \ gone : Refers(k, o) = Refers(heap, o) /\ k[o].tt = heap[o].tt
         /\ \A o \in Objs \ (gone \cup left) : k[o] = heap[o]
<1>1. /\ gone \subseteq Objs /\ left \subseteq Objs \ gone /\ \A u \in left : Open(heap, u)
      /\ \A u \in Objs : Open(heap, u) /\ heap[u].thread \in gone => u \in gone \cup left
  BY DEF Closing
<1>2. \A o \in gone : k[o] = Free  BY <1>1 DEF CloseIn
<1>3. \A o \in left : k[o] = [heap[o] EXCEPT !.thread = Nil, !.val = UpvalValue(heap, o)]
  BY <1>1 DEF CloseIn
<1>4. \A o \in Objs \ (gone \cup left) : k[o] = heap[o]  BY DEF CloseIn
<1>5. k = [o \in Objs |-> k[o]]  BY DEF CloseIn
<1>6. ASSUME NEW o \in left
      PROVE  k[o] \in Upval /\ k[o].tt = "upval" /\ k[o].thread = Nil /\ k[o].val = UpvalValue(heap, o)
  <2>1. o \in Objs /\ heap[o] \in Upval /\ heap[o].tt = "upval"  BY <1>1, Kinds DEF Open
  <2>2. UpvalValue(heap, o) \in Values  BY <2>1, UpvalValueType
  <2>3. k[o] = [heap[o] EXCEPT !.thread = Nil, !.val = UpvalValue(heap, o)]  BY <1>3
  <2> HIDE DEF Open
  <2> QED  BY <2>1, <2>2, <2>3 DEF Upval
<1>7. k \in Heaps
  <2>1. ASSUME NEW o \in Objs  PROVE k[o] \in Table \cup Udata \cup Function \cup Upval \cup Thread \cup {Free}
    <3>1. heap[o] \in Table \cup Udata \cup Function \cup Upval \cup Thread \cup {Free}  BY DEF Heaps
    <3> QED  BY <1>2, <1>4, <1>6, <3>1
  <2> QED  BY <1>5, <2>1 DEF Heaps
<1>8. \A o \in Objs : /\ o \in gone => k[o].tt = "free"
                      /\ o \notin gone => k[o].tt = heap[o].tt
  BY <1>1, <1>2, <1>4, <1>6 DEF Free, Open
<1>9. Live(k) = Live(heap) \ gone  BY <1>8 DEF Live
<1>10. ASSUME NEW o \in Objs  PROVE Open(k, o) <=> Open(heap, o) /\ o \notin gone \cup left
  <2>1. CASE o \in gone  BY <1>8, <2>1 DEF Open
  <2>2. CASE o \in left  BY <1>6, <2>2 DEF Open
  <2>3. CASE o \notin gone \cup left  BY <1>4, <2>3 DEF Open
  <2> QED  BY <2>1, <2>2, <2>3
<1>11. ASSUME NEW u \in Objs, Open(k, u)
       PROVE  /\ k[u] = heap[u] /\ heap[u].thread \in Objs /\ k[heap[u].thread] = heap[heap[u].thread]
              /\ heap[heap[u].thread].tt = "thread"
              /\ heap[u].slot \in DOMAIN heap[heap[u].thread].stack
  <2>1. Open(heap, u) /\ u \notin gone \cup left  BY <1>10, <1>11
  <2>2. /\ heap[u].thread \in Objs /\ heap[heap[u].thread].tt = "thread"
        /\ heap[u].slot \in DOMAIN heap[heap[u].thread].stack
    BY <2>1, UpvalValueType DEF Open, SlotsExist
  <2>3. heap[u].thread \notin gone  BY <1>1, <2>1
  <2>4. heap[u].thread \notin left  BY <1>1, <2>2 DEF Open
  <2> QED  BY <1>4, <2>1, <2>2, <2>3, <2>4
<1>12. SlotsExist(k)
  <2> SUFFICES ASSUME NEW u \in Objs, k[u].tt = "upval", k[u].thread # Nil
               PROVE  k[k[u].thread].tt = "thread" /\ k[u].slot \in DOMAIN k[k[u].thread].stack
    BY DEF SlotsExist
  <2> QED  BY <1>11 DEF Open
<1>13. ASSUME NEW o \in Objs \ gone  PROVE Refers(k, o) = Refers(heap, o)
  <2>1. CASE o \in left
    <3>1. Refers(k, o) = {UpvalValue(k, o)} /\ Refers(heap, o) = {UpvalValue(heap, o)}
      BY <1>1, <1>6, <2>1, RefersCases DEF Open
    <3>2. UpvalValue(k, o) = UpvalValue(heap, o)
      <4>1. k[o].thread = Nil /\ k[o].val = UpvalValue(heap, o)  BY <1>6, <2>1
      <4> QED  BY <4>1 DEF UpvalValue
    <3> QED  BY <3>1, <3>2
  <2>2. CASE o \notin left
    <3>1. k[o] = heap[o]  BY <1>4, <2>2
    <3>2. Open(heap, o) => k[heap[o].thread] = heap[heap[o].thread]  BY <1>10, <1>11, <2>2
    <3> QED  BY <3>1, <3>2, SameRefers
  <2> QED  BY <2>1, <2>2
<1> QED  BY <1>4, <1>7, <1>8, <1>9, <1>10, <1>12, <1>13

(* While nothing is marked: what is dead is freed.                         *)
LEMMA FreesKeep ==
  ASSUME HeapInv(heap, g), g.state # "propagate", NEW gone, NEW left, Closing(gone, left),
         gone \cap Alive(heap, g) = {}, left \subseteq Alive(heap, g),
         NEW k, k = CloseIn(gone, left),
         NEW t, t \in Collectors, t.state # "propagate", t.white = g.white, t.tmudata = g.tmudata,
         t.rootgc = (g.rootgc \ gone) \cup left, t.sweepgc \subseteq t.rootgc,
         t.state \notin {"sweepstring", "sweep"} => t.sweepgc = {},
         t.state = "pause" => t.tmudata = {},
         \A o \in Objs \ gone : \/ t.c[o] = g.c[o] /\ o \notin left
                                \/ t.c[o] = g.white /\ (o \in Alive(heap, g) \/ o \notin Live(heap)),
         Swept(k, t)
  PROVE  HeapInv(k, t) /\ Alive(k, t) = Alive(heap, g)
<1>1. heap \in Heaps /\ SlotsExist(heap) /\ g \in Collectors  BY DEF HeapInv
<1>2. /\ k \in Heaps /\ SlotsExist(k) /\ Live(k) = Live(heap) \ gone
      /\ \A o \in Objs : Open(k, o) <=> Open(heap, o) /\ o \notin gone \cup left
      /\ \A o \in Objs \ gone : Refers(k, o) = Refers(heap, o) /\ k[o].tt = heap[o].tt
  BY <1>1, ClosedHeap
<1>3. g.white \in Whites /\ g.white # other(g.white) /\ g.white \notin {"gray", "black"}
  BY <1>1 DEF Collectors, Whites, other
<1>4. \A p \in Live(heap) : p \in Objs  BY DEF Live
<1>5. \A p \in Alive(heap, g) : p \in Live(heap)  BY DEF Alive
<1>6. Alive(k, t) = Alive(heap, g)
  <2>1. ASSUME NEW o \in Alive(k, t)  PROVE o \in Alive(heap, g)
    <3>1. o \in Live(heap) /\ o \in Objs \ gone /\ t.c[o] # other(g.white)
      BY <1>2, <1>4 DEF Alive
    <3> QED  BY <3>1 DEF Alive
  <2>2. ASSUME NEW o \in Alive(heap, g)  PROVE o \in Alive(k, t)
    <3>1. o \in Live(k) /\ o \in Objs \ gone /\ g.c[o] # other(g.white)
      BY <1>2, <1>4, <1>5 DEF Alive
    <3> QED  BY <1>3, <3>1 DEF Alive
  <2> QED  BY <2>1, <2>2
<1>7. ColoursOK(k, t)
  <2>1. ColoursOK(heap, g)  BY DEF HeapInv
  <2>2. \A o \in Objs : k[o].tt \in {"udata", "thread", "upval"} => o \in Live(k)
    BY DEF Live
  <2>3. \A o \in Objs : k[o].tt \in {"udata", "thread", "upval"} => o \notin gone /\ k[o].tt = heap[o].tt
    BY <1>2, <2>2
  <2>4. \A o \in Objs : k[o].tt = "upval" /\ o \notin left => (Open(k, o) <=> Open(heap, o))
    BY <1>2, <2>3
  <2>5. \A o \in Objs : k[o].tt = "upval" /\ o \notin left => (k[o].thread = Nil <=> heap[o].thread = Nil)
    BY <2>3, <2>4 DEF Open
  <2>6. \A o \in Objs : k[o].tt \in {"udata", "thread", "upval"} =>
           t.c[o] = g.white \/ (t.c[o] = g.c[o] /\ o \notin left)
    BY <2>3
  <2> QED  BY <1>3, <2>1, <2>3, <2>5, <2>6 DEF ColoursOK
<1>8. RefersToAlive(k, t)
  <2> SUFFICES ASSUME NEW o \in Alive(heap, g)
               PROVE  Leads(k, o) /\ Refers(k, o) \ {Nil} \subseteq Alive(heap, g)
    BY <1>6 DEF RefersToAlive
  <2>1. o \in Objs \ gone /\ Leads(heap, o) /\ Refers(heap, o) \ {Nil} \subseteq Alive(heap, g)
    BY <1>4, <1>5 DEF HeapInv, RefersToAlive
  <2>2. Refers(k, o) = Refers(heap, o) /\ k[o].tt = heap[o].tt  BY <1>2, <2>1
  <2>3. \A v \in Refers(heap, o) \ {Nil} : k[v].tt = heap[v].tt
    <3> TAKE v \in Refers(heap, o) \ {Nil}
    <3>1. v \in Alive(heap, g)  BY <2>1
    <3>2. v \in Objs \ gone  BY <1>4, <1>5, <3>1
    <3> QED  BY <1>2, <3>2
  <2> QED  BY <2>1, <2>2, <2>3 DEF Leads
<1>9. Listed(k, t)
  <2>1. Listed(heap, g)  BY DEF HeapInv
  <2>2. t.rootgc \subseteq Live(k)  BY <1>2, <1>5, <2>1 DEF Listed, Closing
  <2>3. t.tmudata \subseteq {o \in Alive(k, t) : k[o].tt = "udata"}
    <3> SUFFICES ASSUME NEW o \in g.tmudata  PROVE o \in Alive(heap, g) /\ k[o].tt = "udata"
      BY <1>6
    <3>1. o \in Alive(heap, g) /\ heap[o].tt = "udata"  BY <2>1 DEF Listed
    <3>2. o \in Objs \ gone  BY <1>4, <1>5, <3>1
    <3> QED  BY <1>2, <3>1, <3>2
  <2>4. t.tmudata \cap t.rootgc = {}
    <3>1. \A o \in left : heap[o].tt = "upval"  BY DEF Closing, Open
    <3>2. \A o \in g.tmudata : heap[o].tt = "udata" /\ o \notin g.rootgc  BY <2>1 DEF Listed
    <3> QED  BY <3>1, <3>2
  <2>5. ASSUME NEW o \in Live(k)  PROVE o \in t.rootgc \cup t.tmudata <=> ~Open(k, o)
    <3>1. o \in Live(heap) /\ o \notin gone /\ o \in Objs  BY <1>2, <1>4
    <3>2. o \in g.rootgc \cup g.tmudata <=> ~Open(heap, o)  BY <2>1, <3>1 DEF Listed
    <3> QED  BY <1>2, <3>1, <3>2
  <2> QED  BY <2>2, <2>3, <2>4, <2>5 DEF Listed
<1> QED  BY <1>2, <1>6, <1>7, <1>8, <1>9 DEF HeapInv

LEMMA SweepKeeps ==
  ASSUME HeapInv(heap, g), g.state = "sweep", NEW o \in g.sweepgc, Sweep(o)
  PROVE  /\ HeapInv(heap', g') /\ Alive(heap', g') = Alive(heap, g) /\ g'.tmudata = g.tmudata
         /\ \A p \in Objs : heap'[p].tt \in {"free", heap[p].tt}
         /\ \A p \in Objs : heap[p].tt # "upval" => heap'[p] \in {Free, heap[p]}
<1> DEFINE swept == {o} \cup openupval(o)
           gone == {p \in swept : isdead(p)}
           left == IF isdead(o) THEN swept \ gone ELSE {}
           c == [p \in Objs |-> IF p \in swept \ gone THEN g.white ELSE g.c[p]]
           white == [g EXCEPT !.c = c, !.rootgc = g.rootgc \ gone, !.sweepgc = g.sweepgc \ {o},
                              !.state = IF g.sweepgc = {o} THEN "finalize" ELSE "sweep",
                              !.grayagain = IF g.sweepgc = {o} THEN <<>> ELSE g.grayagain]
<1>1. heap' = CloseIn(gone, left) /\ g' = linkupval(white, left)
  BY DEF Sweep
<1>2. g \in Collectors /\ heap \in Heaps /\ SlotsExist(heap) /\ Listed(heap, g) /\ Swept(heap, g)
  BY DEF HeapInv
<1>3. o \in g.rootgc /\ o \in Objs /\ o \in Live(heap) /\ o # Nil
  <2>1. o \in g.rootgc /\ o \in Live(heap)  BY <1>2 DEF Listed
  <2> QED  BY <2>1, GCParameters DEF Live
<1>4. \A p \in swept : p \in Objs /\ p \in Live(heap) /\ (p = o \/ (Open(heap, p) /\ heap[p].thread = o))
  BY <1>3 DEF openupval, Is, Open, Live
<1>5. \A p \in Objs : Open(heap, p) /\ heap[p].thread = o => p \in swept
  BY DEF openupval, Is, Open
<1>6. \A p \in swept : p \in gone <=> p \notin Alive(heap, g)
  BY <1>4 DEF isdead, otherwhite, Alive, other
<1> HIDE DEF swept, gone
<1>7. gone \subseteq swept /\ (isdead(o) <=> o \in gone)
  BY DEF gone, swept
<1>8. left \subseteq swept \ gone /\ (o \in gone => left = swept \ gone) /\ (o \notin gone => left = {})
  BY <1>7
<1> HIDE DEF left
<1>9. Closing(gone, left)
  <2>1. gone \subseteq Objs /\ left \subseteq Objs \ gone  BY <1>4, <1>7, <1>8
  <2>2. \A u \in left : Open(heap, u)
    <3> TAKE u \in left
    <3>1. u \in swept \ gone /\ o \in gone  BY <1>8
    <3> QED  BY <1>4, <3>1
  <2>3. ASSUME NEW u \in Objs, Open(heap, u), heap[u].thread \in gone  PROVE u \in gone \cup left
    <3>1. heap[heap[u].thread].tt = "thread"  BY <1>2, <2>3, UpvalValueType DEF Open
    <3>2. heap[u].thread = o  BY <1>4, <1>7, <2>3, <3>1 DEF Open
    <3> QED  BY <1>5, <1>8, <2>3, <3>2
  <2> QED  BY <2>1, <2>2, <2>3 DEF Closing
<1>10. gone \cap Alive(heap, g) = {} /\ left \subseteq Alive(heap, g)
  BY <1>6, <1>7, <1>8
<1>11. g.c \in [Objs -> Colours] /\ g.white \in Colours /\ g.white # "gray"
  BY <1>2 DEF Collectors, Colours, Whites
<1>12. c \in [Objs -> Colours]  BY <1>11
<1>13. /\ g'.c = c /\ g'.rootgc = (g.rootgc \ gone) \cup left /\ g'.sweepgc = g.sweepgc \ {o}
       /\ g'.white = g.white /\ g'.tmudata = g.tmudata /\ g' \in Collectors
       /\ g'.state = IF g.sweepgc = {o} THEN "finalize" ELSE "sweep"
  <2>1. \A p \in left : c[p] = g.white  BY <1>4, <1>8
  <2>2. left \subseteq Objs  BY <1>4, <1>8
  <2> HIDE DEF c
  <2>3. "finalize" \in States /\ "sweep" \in States /\ <<>> \in Seq(Objs)  BY DEF States
  <2>4. /\ white \in Collectors /\ white.c = c /\ white.rootgc = g.rootgc \ gone /\ white.sweepgc = g.sweepgc \ {o}
        /\ white.white = g.white /\ white.tmudata = g.tmudata
        /\ white.state = IF g.sweepgc = {o} THEN "finalize" ELSE "sweep"
    BY <1>2, <1>12, <2>3 DEF Collectors
  <2> HIDE DEF white
  <2>5. \A p \in left : white.c[p] # "gray"  BY <1>11, <2>1, <2>4
  <2>6. white.c \in [Objs -> Colours]  BY <2>4 DEF Collectors
  <2> DEFINE grays == {u \in left : white.c[u] = "gray"}
             closed == IF white.state = "propagate" THEN "black" ELSE white.white
             d == [p \in Objs |-> IF p \in grays THEN closed ELSE white.c[p]]
  <2>7. grays = {}  BY <2>5
  <2>8. d = white.c  BY <2>6, <2>7
  <2>9. white.state # "propagate"  BY <2>4
  <2>10. g' = [white EXCEPT !.rootgc = white.rootgc \cup left, !.c = d]
    BY <1>1, <2>9 DEF linkupval
  <2> HIDE DEF d
  <2> QED  BY <2>2, <2>4, <2>8, <2>10 DEF Collectors
<1> HIDE DEF white
<1>14. \A p \in Objs \ gone : /\ p \in swept => g'.c[p] = g.white /\ p \in Alive(heap, g)
                              /\ p \notin swept => g'.c[p] = g.c[p] /\ p \notin left
  BY <1>6, <1>8, <1>13
<1>15. g'.sweepgc \subseteq g'.rootgc
  <2> SUFFICES ASSUME NEW p \in g.sweepgc, p # o  PROVE p \in g.rootgc \ gone
    BY <1>13
  <2>1. p \in g.rootgc /\ p \in Live(heap)  BY <1>2 DEF Listed
  <2>2. ~Open(heap, p)  BY <1>2, <2>1 DEF Listed
  <2> QED  BY <1>4, <1>7, <2>1, <2>2
<1>16. /\ Live(heap') = Live(heap) \ gone
       /\ \A p \in Objs : Open(heap', p) <=> Open(heap, p) /\ p \notin gone \cup left
       /\ \A p \in Objs \ gone : heap'[p].tt = heap[p].tt
       /\ \A p \in Objs \ (gone \cup left) : heap'[p] = heap[p]
  <2> DEFINE k == heap'
  <2>1. k = CloseIn(gone, left)  BY <1>1
  <2> HIDE DEF k
  <2> QED  BY <1>2, <1>9, <2>1, ClosedHeap DEF k
<1>17. Swept(heap', g')
  <2> SUFFICES ASSUME NEW p \in Live(heap')
               PROVE  \/ g'.c[p] = g'.white \/ p \in g'.sweepgc \cup g'.tmudata
                      \/ Open(heap', p) /\ heap'[p].thread \in g'.sweepgc
    BY DEF Swept
  <2>1. p \in Live(heap) /\ p \notin gone /\ p \in Objs  BY <1>16 DEF Live
  <2>2. CASE p \in swept  BY <1>13, <1>14, <2>1, <2>2
  <2>3. CASE p \notin swept
    <3>1. g'.c[p] = g.c[p] /\ p \notin left  BY <1>14, <2>1, <2>3
    <3>2. heap'[p] = heap[p] /\ (Open(heap', p) <=> Open(heap, p))  BY <1>16, <2>1, <3>1
    <3>3. p # o /\ (Open(heap, p) => heap[p].thread # o)  BY <1>5, <2>1, <2>3 DEF swept
    <3>4. \/ g.c[p] = g.white \/ p \in g.sweepgc \cup g.tmudata
          \/ Open(heap, p) /\ heap[p].thread \in g.sweepgc
      BY <1>2, <2>1 DEF Swept
    <3> QED  BY <1>13, <3>1, <3>2, <3>3, <3>4
  <2> QED  BY <2>2, <2>3
<1>18. HeapInv(heap', g') /\ Alive(heap', g') = Alive(heap, g)
  <2> DEFINE k == heap'
             t == g'
  <2>1. k = CloseIn(gone, left)  BY <1>1
  <2>2. /\ t \in Collectors /\ t.state # "propagate" /\ t.white = g.white /\ t.tmudata = g.tmudata
        /\ t.rootgc = (g.rootgc \ gone) \cup left /\ t.sweepgc \subseteq t.rootgc
        /\ (t.state \notin {"sweepstring", "sweep"} => t.sweepgc = {})
        /\ (t.state = "pause" => t.tmudata = {})
    BY <1>13, <1>15
  <2>3. \A p \in Objs \ gone : \/ t.c[p] = g.c[p] /\ p \notin left
                               \/ t.c[p] = g.white /\ (p \in Alive(heap, g) \/ p \notin Live(heap))
    BY <1>14
  <2>4. Swept(k, t)  BY <1>17
  <2>5. g.state # "propagate"  OBVIOUS
  <2> HIDE DEF k, t
  <2>6. HeapInv(k, t) /\ Alive(k, t) = Alive(heap, g)
    BY <1>9, <1>10, <2>1, <2>2, <2>3, <2>4, <2>5, FreesKeep
  <2> QED  BY <2>6 DEF k, t
<1>19. \A p \in gone : heap'[p] = Free
  BY <1>1, <1>4, <1>7 DEF CloseIn
<1>20. \A p \in Objs : heap'[p].tt \in {"free", heap[p].tt}
  BY <1>16, <1>19 DEF Free
<1>21. \A p \in Objs : heap[p].tt # "upval" => heap'[p] \in {Free, heap[p]}
  <2>1. \A p \in left : heap[p].tt = "upval"  BY <1>9 DEF Closing, Open
  <2> QED  BY <1>16, <1>19, <2>1
<1> QED  BY <1>13, <1>18, <1>20, <1>21

LEMMA CloseKeeps ==
  ASSUME HeapInv(heap, g), NEW t \in Objs, NEW level, luaF_close(t, level)
  PROVE  /\ HeapInv(heap', g') /\ Alive(heap, g) \subseteq Alive(heap', g') /\ g'.tmudata = g.tmudata
         /\ g'.state = g.state /\ Alive(heap', g') \subseteq Alive(heap, g)
         /\ \A p \in Objs : heap'[p].tt \in {"free", heap[p].tt}
         /\ \A p \in Objs : heap[p].tt # "upval" => heap'[p] = heap[p]
<1> DEFINE us == {u \in openupval(t) : heap[u].slot >= level}
           gone == {u \in us : isdead(u)}
           left == us \ gone
           grays == {u \in left : g.c[u] = "gray"}
           closed == IF g.state = "propagate" THEN "black" ELSE g.white
           c == [o \in Objs |-> IF o \in grays THEN closed ELSE g.c[o]]
           s == [g EXCEPT !.rootgc = g.rootgc \cup left, !.c = c]
           V == {UpvalValue(heap, u) : u \in grays}
<1>1. heap' = CloseIn(gone, left) /\ g' = linkupval(g, left)
  BY DEF luaF_close
<1>2. g' = IF g.state = "propagate" THEN mark(s, V) ELSE s
  BY <1>1 DEF linkupval
<1>3. g \in Collectors /\ heap \in Heaps /\ SlotsExist(heap) /\ Listed(heap, g) /\ ColoursOK(heap, g)
  BY DEF HeapInv
<1>4. \A u \in us : u \in Objs /\ Open(heap, u) /\ u \in Live(heap) /\ heap[u].tt = "upval"
  BY GCParameters DEF openupval, Is, Open, Live
<1>5. \A u \in us : u \in gone <=> u \notin Alive(heap, g)
  BY <1>4 DEF isdead, otherwhite, Alive, other
<1>6. gone \subseteq us /\ left \subseteq us /\ left \cap gone = {} /\ gone \cap Alive(heap, g) = {} /\ left \subseteq Alive(heap, g)
  BY <1>5
<1> HIDE DEF us, gone, left
<1>7. Closing(gone, left)
  <2>1. ASSUME NEW u \in Objs, Open(heap, u), heap[u].thread \in gone  PROVE FALSE
    <3>1. heap[heap[u].thread].tt = "thread"  BY <1>3, <2>1, UpvalValueType DEF Open
    <3> QED  BY <1>4, <1>6, <2>1, <3>1
  <2> QED  BY <1>4, <1>6, <2>1 DEF Closing
<1>8. /\ heap' \in Heaps /\ SlotsExist(heap') /\ Live(heap') = Live(heap) \ gone
      /\ \A p \in Objs : Open(heap', p) <=> Open(heap, p) /\ p \notin gone \cup left
      /\ \A p \in Objs \ gone : Refers(heap', p) = Refers(heap, p) /\ heap'[p].tt = heap[p].tt
      /\ \A p \in Objs \ (gone \cup left) : heap'[p] = heap[p]
  <2> DEFINE k == heap'
  <2>1. k = CloseIn(gone, left)  BY <1>1
  <2> HIDE DEF k
  <2> QED  BY <1>3, <1>7, <2>1, ClosedHeap DEF k
<1>9. \A p \in gone : heap'[p] = Free
  BY <1>1, <1>4, <1>6 DEF CloseIn
<1>10. /\ \A p \in Objs : heap'[p].tt \in {"free", heap[p].tt}
       /\ \A p \in Objs : heap[p].tt # "upval" => heap'[p] = heap[p]
  <2>1. \A p \in gone \cup left : heap[p].tt = "upval"  BY <1>4, <1>6
  <2> QED  BY <1>8, <1>9, <2>1 DEF Free
<1>11. g.c \in [Objs -> Colours] /\ g.white \in Colours /\ closed \in Colours /\ g.white # "gray" /\ closed # "gray"
      /\ g.white \in Whites
  BY <1>3 DEF Collectors, Colours, Whites
<1> HIDE DEF closed, grays
<1>12. c \in [Objs -> Colours] /\ \A o \in Objs : c[o] = IF o \in grays THEN closed ELSE g.c[o]
  BY <1>11
<1> HIDE DEF c
<1>13. left \subseteq Objs /\ grays \subseteq left /\ \A u \in left : u \in grays <=> g.c[u] = "gray"
  BY <1>4, <1>6 DEF grays
<1>14. /\ s \in Collectors /\ s.c = c /\ s.rootgc = g.rootgc \cup left /\ s.sweepgc = g.sweepgc
       /\ s.white = g.white /\ s.state = g.state /\ s.tmudata = g.tmudata
       /\ s.gray = g.gray /\ s.grayagain = g.grayagain /\ s.weak = g.weak
  BY <1>3, <1>12, <1>13 DEF Collectors
<1> HIDE DEF s
<1>15. \A u \in left : g.c[u] # "black"
  BY <1>3, <1>4, <1>6 DEF ColoursOK, Open
<1>16. CASE g.state # "propagate"
  <2>1. g' = s /\ closed = g.white  BY <1>2, <1>16 DEF closed
  <2>2. ASSUME NEW u \in left  PROVE c[u] = g.white
    <3>1. u \in Objs /\ g.c[u] \in Colours /\ g.c[u] # other(g.white)
      BY <1>6, <1>11, <1>13 DEF Alive
    <3>2. g.c[u] = "gray" \/ g.c[u] = g.white
      BY <1>11, <1>15, <3>1 DEF Colours, Whites, other
    <3> QED  BY <1>12, <1>13, <2>1, <3>1, <3>2
  <2>3. \A p \in Objs \ left : c[p] = g.c[p]  BY <1>12, <1>13
  <2>4. gone \cap g.rootgc = {}
    <3>1. \A u \in gone : Open(heap, u) /\ u \in Live(heap)  BY <1>4, <1>6
    <3> QED  BY <1>3, <3>1 DEF Listed
  <2>5. g'.rootgc = (g.rootgc \ gone) \cup left /\ g'.sweepgc \subseteq g'.rootgc
    BY <1>3, <1>14, <2>1, <2>4 DEF Listed
  <2>6. Swept(heap', g')
    <3> SUFFICES ASSUME NEW p \in Live(heap')
                 PROVE  \/ g'.c[p] = g'.white \/ p \in g'.sweepgc \cup g'.tmudata
                        \/ Open(heap', p) /\ heap'[p].thread \in g'.sweepgc
      BY DEF Swept
    <3>1. p \in Live(heap) /\ p \notin gone /\ p \in Objs  BY <1>8 DEF Live
    <3>2. CASE p \in left  BY <1>14, <2>1, <2>2, <3>2
    <3>3. CASE p \notin left
      <4>1. heap'[p] = heap[p] /\ (Open(heap', p) <=> Open(heap, p)) /\ c[p] = g.c[p]
        BY <1>8, <2>3, <3>1, <3>3
      <4>2. \/ g.c[p] = g.white \/ p \in g.sweepgc \cup g.tmudata
            \/ Open(heap, p) /\ heap[p].thread \in g.sweepgc
        BY <1>16, <3>1 DEF HeapInv, Swept
      <4> QED  BY <1>14, <2>1, <4>1, <4>2
    <3> QED  BY <3>2, <3>3
  <2>7. HeapInv(heap', g') /\ Alive(heap', g') = Alive(heap, g)
    <3> DEFINE k == heap'
               r == g'
    <3>1. k = CloseIn(gone, left)  BY <1>1
    <3>2. /\ r \in Collectors /\ r.state # "propagate" /\ r.white = g.white /\ r.tmudata = g.tmudata
          /\ r.rootgc = (g.rootgc \ gone) \cup left /\ r.sweepgc \subseteq r.rootgc
          /\ (r.state \notin {"sweepstring", "sweep"} => r.sweepgc = {})
          /\ (r.state = "pause" => r.tmudata = {})
      BY <1>3, <1>14, <1>16, <2>1, <2>5 DEF Listed
    <3>3. \A p \in Objs \ gone : \/ r.c[p] = g.c[p] /\ p \notin left
                                 \/ r.c[p] = g.white /\ (p \in Alive(heap, g) \/ p \notin Live(heap))
      BY <1>6, <1>14, <2>1, <2>2, <2>3
    <3>4. Swept(k, r)  BY <2>6
    <3> HIDE DEF k, r
    <3>5. HeapInv(k, r) /\ Alive(k, r) = Alive(heap, g)
      BY <1>6, <1>7, <1>16, <3>1, <3>2, <3>3, <3>4, FreesKeep
    <3> QED  BY <3>5 DEF k, r
  <2> QED  BY <1>10, <1>14, <2>1, <2>7
<1>17. CASE g.state = "propagate"
  <2>1. g' = mark(s, V) /\ closed = "black"  BY <1>2, <1>17 DEF closed
  <2>2. Sound(heap) /\ Shape(heap, g) /\ Tricolour(heap, g)  BY <1>17, SoundHeap
  <2>3. gone = {}
    <3>1. \A u \in gone : u \in Live(heap) /\ u \notin Alive(heap, g)  BY <1>4, <1>6
    <3> QED  BY <2>2, <3>1 DEF Shape
  <2> DEFINE k == heap'
  <2>4. /\ k \in Heaps /\ SlotsExist(k) /\ Live(k) = Live(heap)
        /\ \A p \in Objs : Open(k, p) <=> Open(heap, p) /\ p \notin left
        /\ \A p \in Objs : Refers(k, p) = Refers(heap, p) /\ k[p].tt = heap[p].tt
        /\ \A p \in Objs \ left : k[p] = heap[p]
    BY <1>8, <2>3
  <2>5. \A u \in left : heap[u].tt = "upval" /\ Open(heap, u) /\ u \in Objs  BY <1>4, <1>6
  <2> HIDE DEF k
  <2>6. Sound(k)
    <3>1. ASSUME NEW p \in Objs  PROVE Leads(k, p)
      <4>1. Leads(heap, p) /\ Refers(heap, p) \subseteq Values  BY <2>2, RefersType DEF Sound
      <4>2. \A v \in Refers(heap, p) \ {Nil} : v \in Objs  BY <4>1 DEF Values, Objs
      <4> QED  BY <2>4, <4>1, <4>2 DEF Leads
    <3> QED  BY <2>4, <3>1 DEF Sound
  <2>7. Agrees(k)  BY <2>4, <2>5 DEF Agrees
  <2>8. \A p \in Objs : g.c[p] # other(g.white) \/ p \notin Live(heap)  BY <2>2 DEF Shape, Alive
  <2>9. Alive(k, s) = Live(k)
    <3>1. \A p \in Live(heap) : p \in Objs /\ s.c[p] # other(s.white)
      BY <1>12, <1>14, <2>1, <2>8 DEF Live, other
    <3> QED  BY <2>4, <3>1 DEF Alive
  <2>10. Lists(s) = Lists(g) /\ Lists(g) \subseteq Objs /\ Lists(g) \cap left = {}
    BY <1>3, <1>14, <2>2, <2>5, ListsType DEF Lists, Shape
  <2>11. ColoursOK(k, s)
    <3> SUFFICES ASSUME NEW o \in Objs
                 PROVE  /\ k[o].tt = "udata"  => s.c[o] # "gray"
                        /\ k[o].tt = "thread" => s.c[o] # "black"
                        /\ k[o].tt = "upval" /\ k[o].thread # Nil => s.c[o] # "black"
                        /\ k[o].tt = "upval" /\ k[o].thread = Nil => s.c[o] # "gray"
      BY DEF ColoursOK
    <3>1. CASE o \in left
      <4>1. k[o].tt = "upval" /\ k[o].thread = Nil  BY <2>4, <2>5, <3>1 DEF Open
      <4> QED  BY <1>11, <1>12, <1>13, <1>14, <3>1, <4>1
    <3>2. CASE o \notin left
      <4>1. k[o] = heap[o] /\ s.c[o] = g.c[o]  BY <1>12, <1>13, <1>14, <2>4, <3>2
      <4> QED  BY <1>3, <4>1 DEF ColoursOK
    <3> QED  BY <3>1, <3>2
  <2>12. Shape(k, s)
    <3>1. Distinct(s)  BY <1>14, <2>2 DEF Shape, Distinct
    <3>2. /\ \A p \in Range(s.gray) : k[p].tt \in {"table", "function", "thread"}
          /\ \A p \in Range(s.grayagain) : k[p].tt \in {"table", "thread"}
          /\ \A p \in Range(s.weak) : k[p].tt = "table"
      BY <1>14, <2>2, <2>4, <2>10 DEF Shape, Lists
    <3>3. \A p \in Lists(s) : s.c[p] = "gray"
      BY <1>12, <1>13, <1>14, <2>2, <2>10 DEF Shape
    <3>4. \A p \in Live(k) : s.c[p] = "gray" => p \in Lists(s) \/ k[p].tt = "upval"
      <4> SUFFICES ASSUME NEW p \in Live(k), s.c[p] = "gray"  PROVE p \in Lists(s) \/ k[p].tt = "upval"
        OBVIOUS
      <4>1. p \in Live(heap) /\ p \in Objs  BY <2>4 DEF Live
      <4>2. g.c[p] = "gray"  BY <1>11, <1>12, <1>14, <4>1
      <4> QED  BY <2>2, <2>4, <2>10, <4>1, <4>2 DEF Shape
    <3> QED  BY <1>14, <2>9, <2>11, <3>1, <3>2, <3>3, <3>4 DEF Shape
  <2>13. Markable(k, V)
    <3> SUFFICES ASSUME NEW u \in grays, UpvalValue(heap, u) # Nil
                 PROVE  UpvalValue(heap, u) \in Objs /\ k[UpvalValue(heap, u)].tt \notin {"free", "upval"}
      BY DEF Markable
    <3>1. u \in Objs /\ heap[u].tt = "upval"  BY <1>13, <2>5
    <3>2. Markable(heap, Refers(heap, u))  BY <2>2, <3>1, ReferredMarkable
    <3>3. Refers(heap, u) = {UpvalValue(heap, u)}  BY <3>1, RefersCases
    <3> QED  BY <2>4, <3>2, <3>3 DEF Markable
  <2> DEFINE r == mark(s, V)
  <2> HIDE DEF V
  <2>14. Grows(k, s, r) /\ V \ {Nil} \subseteq Marked(r)
    BY <2>6, <2>7, <2>12, <2>13, MarkGrows
  <2> HIDE DEF r
  <2>15. Marked(s) = Marked(g)
    <3>1. \A o \in Objs : s.c[o] \notin Whites <=> g.c[o] \notin Whites
      BY <1>12, <1>13, <1>14, <2>1 DEF Whites
    <3> QED  BY <3>1 DEF Marked
  <2>16. Shape(k, r) /\ SameLists(s, r) /\ Marked(g) \subseteq Marked(r) /\ Range(g.grayagain) \subseteq Range(r.grayagain)
    BY <1>14, <2>14, <2>15 DEF Grows
  <2>17. r.rootgc = g.rootgc \cup left /\ r.sweepgc = g.sweepgc /\ r.tmudata = g.tmudata /\ r.state = "propagate"
    BY <1>14, <1>17, <2>16 DEF SameLists
  <2>18. Alive(k, r) = Live(heap) /\ Alive(heap, g) = Live(heap)  BY <2>2, <2>4, <2>16 DEF Shape
  <2>19. Listed(k, r)
    <3>1. /\ g.rootgc \subseteq Live(heap) /\ g.sweepgc \subseteq g.rootgc /\ g.sweepgc = {}
          /\ g.tmudata \subseteq {o \in Live(heap) : heap[o].tt = "udata"}
          /\ g.tmudata \cap g.rootgc = {}
          /\ \A o \in Live(heap) : o \in g.rootgc \cup g.tmudata <=> ~Open(heap, o)
      BY <1>3, <1>17, <2>18 DEF Listed
    <3>2. left \subseteq Live(heap) /\ \A o \in Live(heap) : o \in Objs  BY <1>4, <1>6 DEF Live
    <3>3. \A o \in Live(heap) : o \in r.rootgc \cup r.tmudata <=> ~Open(k, o)
      BY <2>4, <2>5, <2>17, <3>1, <3>2
    <3>4. r.tmudata \cap r.rootgc = {}
      BY <2>5, <2>17, <3>1
    <3> QED  BY <2>4, <2>17, <2>18, <3>1, <3>2, <3>3, <3>4 DEF Listed
  <2>20. Loose(k, r) \subseteq Excused(k, r)
    <3> SUFFICES ASSUME NEW o \in Loose(k, r), o \notin Excused(k, r)  PROVE FALSE
      OBVIOUS
    <3>1. o \in Loose(k, s) /\ ~Done(k, r, o)  BY <2>14 DEF Grows, Loose
    <3>2. o \in Marked(g) /\ o \in Objs /\ o \notin Range(g.gray) \cup Range(g.weak) /\ ~Done(k, s, o)
      BY <1>14, <2>15, <3>1 DEF Loose, Marked
    <3>3. ~Done(heap, g, o)  BY <2>4, <2>15, <3>2 DEF Done
    <3>4. o \in Excused(heap, g)
      BY <2>2, <3>2, <3>3, TricolourLoose DEF Loose
    <3>5. Open(heap, o) /\ ~Open(k, o)
      BY <2>16, <2>17, <3>2, <3>4 DEF Excused
    <3>6. o \in left  BY <2>4, <3>2, <3>5
    <3>7. g.c[o] = "gray"
      BY <1>11, <1>15, <3>2, <3>6 DEF Marked, Colours
    <3>8. o \in grays  BY <1>13, <3>6, <3>7
    <3>9. Refers(k, o) = {UpvalValue(heap, o)}
      BY <2>4, <2>5, <3>2, <3>6, RefersCases
    <3>10. UpvalValue(heap, o) \in V  BY <3>8 DEF V
    <3> QED  BY <2>14, <3>1, <3>9, <3>10 DEF Done
  <2>21. Main \in Marked(r)  BY <2>2, <2>16 DEF Tricolour
  <2>22. HeapInv(k, r)
    BY <2>6, <2>16, <2>17, <2>19, <2>20, <2>21, InPropagate
  <2>23. g' = r /\ heap' = k  BY <2>1 DEF r, k
  <2> QED  BY <1>10, <1>17, <2>4, <2>17, <2>18, <2>22, <2>23
<1> QED  BY <1>16, <1>17

-----------------------------------------------------------------------------
(* Steps that make nothing dead.                                           *)
Quiet(h, s, k, t) ==
  /\ Alive(h, s) \subseteq Alive(k, t) /\ t.tmudata = s.tmudata
  /\ \A o \in Objs : k[o].tt = h[o].tt \/ k[o].tt = "free" \/ h[o].tt = "free"
  /\ \A o \in Objs : k[o].tt = "udata" => \/ h[o].tt = "udata" /\ k[o].fin = h[o].fin
                                          \/ h[o].tt = "free" /\ k[o].fin = FALSE /\ o \in Alive(k, t)

LEMMA QuietKeeps ==
  ASSUME NEW h, NEW s, NEW k, NEW t, NEW cs, Finished(h, s, cs), Quiet(h, s, k, t), Listed(h, s)
  PROVE  Finished(k, t, {o \in cs : k[o].tt # "free"})
<1>1. \A o \in s.tmudata : o \in Objs /\ h[o].tt = "udata"
  BY DEF Listed, Alive, Live
<1>2. ASSUME NEW o \in cs, k[o].tt # "free"
      PROVE  o \in Objs /\ k[o].tt = "udata" /\ o \notin t.tmudata
  BY <1>2 DEF Finished, Quiet
<1>3. ASSUME NEW o \in Objs, k[o].tt = "udata"
      PROVE  /\ k[o].fin <=> o \in t.tmudata \cup {p \in cs : k[p].tt # "free"}
             /\ o \notin Alive(k, t) => k[o].fin
  <2>1. CASE h[o].tt = "udata" /\ k[o].fin = h[o].fin
    <3>1. o \in Alive(h, s) => o \in Alive(k, t)  BY DEF Quiet
    <3>2. h[o].fin <=> o \in s.tmudata \cup cs  BY <2>1 DEF Finished
    <3>3. o \notin Alive(h, s) => h[o].fin  BY <2>1 DEF Finished
    <3>4. t.tmudata = s.tmudata  BY DEF Quiet
    <3> QED  BY <1>3, <2>1, <3>1, <3>2, <3>3, <3>4
  <2>2. CASE h[o].tt = "free" /\ k[o].fin = FALSE /\ o \in Alive(k, t)
    <3>1. o \notin s.tmudata  BY <1>1, <2>2
    <3>2. o \notin cs  BY <2>2 DEF Finished
    <3> QED  BY <2>2, <3>1, <3>2 DEF Quiet
  <2> QED  BY <1>3, <2>1, <2>2 DEF Quiet
<1> QED  BY <1>2, <1>3 DEF Finished

LEMMA SeparatesKeeps ==
  ASSUME NEW h, NEW s, NEW k, NEW t, NEW cs, Finished(h, s, cs), NEW us, Separates(h, s, k, t, us),
         s.rootgc \subseteq Objs
  PROVE  Finished(k, t, {o \in cs : k[o].tt # "free"})
<1>1. ASSUME NEW o \in cs, k[o].tt # "free"
      PROVE  o \in Objs /\ k[o].tt = "udata" /\ o \notin t.tmudata
  <2>1. o \in Objs /\ h[o].tt = "udata" /\ o \notin s.tmudata  BY DEF Finished
  <2>2. h[o].fin  BY <2>1 DEF Finished
  <2> QED  BY <2>1, <2>2 DEF Separates
<1>2. ASSUME NEW o \in Objs, k[o].tt = "udata"
      PROVE  /\ k[o].fin <=> o \in t.tmudata \cup {p \in cs : k[p].tt # "free"}
             /\ o \notin Alive(k, t) => k[o].fin
  <2>1. h[o].tt = "udata"  BY <1>2 DEF Separates
  <2>2. h[o].fin <=> o \in s.tmudata \cup cs  BY <2>1 DEF Finished
  <2>3. k[o].fin = IF o \in us THEN TRUE ELSE h[o].fin  BY <2>1 DEF Separates
  <2>4. t.tmudata = s.tmudata \cup us  BY DEF Separates
  <2>5. o \notin Alive(k, t) => k[o].fin  BY <1>2 DEF Separates
  <2>6. o \in cs => k[o].tt # "free"  BY <1>2
  <2> QED  BY <2>2, <2>3, <2>4, <2>5, <2>6
<1> QED  BY <1>1, <1>2 DEF Finished

(* What the program works with.                                            *)
LEMMA HeldValues ==
  ASSUME HeapInv(heap, g), Roots(heap, g, running)
  PROVE  /\ \A i \in Slots : Value(heap, g, Stack[i])
         /\ \A o \in Held : Value(heap, g, o) /\ o \in Alive(heap, g) /\ o \in Objs /\ o # Nil
         /\ Value(heap, g, Nil) /\ running \in Alive(heap, g) /\ running \in Objs /\ heap[running].tt = "thread"
<1>1. running \in Alive(heap, g) /\ running \in Objs /\ heap[running].tt = "thread" /\ heap \in Heaps
  BY DEF Roots, HeapInv, Alive, Live
<1>2. /\ \A i \in Slots : Stack[i] \in Values /\ Stack[i] \in Range(Stack)
      /\ Range(Stack) \subseteq Values
  BY <1>1, StackValues DEF Slots, Stack
<1>3. Refers(heap, running) = Range(Stack)  BY <1>1, RefersCases DEF Stack
<1>4. Leads(heap, running) /\ Refers(heap, running) \ {Nil} \subseteq Alive(heap, g)
  BY <1>1 DEF HeapInv, RefersToAlive
<1>5. \A v \in Range(Stack) : Value(heap, g, v)
  <2> TAKE v \in Range(Stack)
  <2>1. v # Nil => heap[v].tt # "upval"  BY <1>1, <1>3, <1>4 DEF Leads
  <2> QED  BY <1>2, <1>3, <1>4, <2>1 DEF Value
<1>6. Value(heap, g, Nil)  BY DEF Value, Values
<1>7. \A o \in Held : o \in Alive(heap, g) /\ o \in Objs /\ o # Nil
  BY <1>3, <1>4 DEF Held, Alive, Live
<1> QED  BY <1>1, <1>2, <1>5, <1>6, <1>7 DEF Held

LEMMA GotValues ==
  ASSUME HeapInv(heap, g), NEW o \in Alive(heap, g), heap[o].tt # "upval", NEW v \in Fields(o)
  PROVE  Value(heap, g, v)
<1>1. o \in Objs /\ heap \in Heaps /\ SlotsExist(heap) /\ heap[o].tt # "free"  BY DEF Alive, Live, HeapInv
<1>2. ASSUME NEW p \in Alive(heap, g), heap[p].tt # "function", NEW w \in Refers(heap, p)  PROVE Value(heap, g, w)
  <2>1. p \in Objs /\ Leads(heap, p) /\ Refers(heap, p) \ {Nil} \subseteq Alive(heap, g)
    BY DEF Alive, Live, HeapInv, RefersToAlive
  <2>2. Refers(heap, p) \subseteq Values  BY <1>1, <2>1, RefersType
  <2> QED  BY <1>2, <2>1, <2>2 DEF Leads, Value
<1>3. CASE heap[o].tt = "table"
  <2>1. Fields(o) = Refers(heap, o)  BY <1>3, RefersCases DEF Fields
  <2> QED  BY <1>2, <1>3, <2>1
<1>4. CASE heap[o].tt = "udata"
  <2>1. Fields(o) = Refers(heap, o)  BY <1>4, RefersCases DEF Fields
  <2> QED  BY <1>2, <1>4, <2>1
<1>5. CASE heap[o].tt = "function"
  <2>1. Refers(heap, o) = {heap[o].up} /\ heap[o].up \in Addrs  BY <1>1, <1>5, RefersCases, Kinds DEF Function
  <2>2. heap[o].up # Nil  BY <2>1, GCParameters DEF Objs
  <2>3. heap[o].up \in Alive(heap, g) /\ Leads(heap, o)  BY <2>1, <2>2 DEF HeapInv, RefersToAlive
  <2>4. heap[heap[o].up].tt = "upval"  BY <1>5, <2>1, <2>2, <2>3 DEF Leads
  <2>5. Fields(o) = {UpvalValue(heap, heap[o].up)}  BY <1>5 DEF Fields
  <2>6. Refers(heap, heap[o].up) = {UpvalValue(heap, heap[o].up)}  BY <2>4, RefersCases
  <2> QED  BY <1>2, <2>3, <2>4, <2>5, <2>6
<1>6. CASE heap[o].tt = "thread"
  BY <1>6 DEF Fields
<1> QED  BY <1>1, <1>3, <1>4, <1>5, <1>6, Kinds

(* Steps that free nothing and finalize nothing. *)
Plain(h, s, k, t) ==
  /\ Alive(h, s) \subseteq Alive(k, t) /\ t.tmudata = s.tmudata
  /\ \A o \in Objs : k[o].tt = h[o].tt \/ h[o].tt = "free"
  /\ \A o \in Objs : k[o].tt = "udata" => \/ h[o].tt = "udata" /\ k[o].fin = h[o].fin
                                          \/ h[o].tt = "free" /\ k[o].fin = FALSE /\ o \in Alive(k, t)

LEMMA PlainTwice ==
  ASSUME NEW h, NEW s, NEW k, NEW t, NEW m, NEW u, Plain(h, s, k, t), Plain(k, t, m, u)
  PROVE  Plain(h, s, m, u)
<1>1. Alive(h, s) \subseteq Alive(m, u) /\ u.tmudata = s.tmudata  BY DEF Plain
<1>2. \A o \in Objs : m[o].tt = h[o].tt \/ h[o].tt = "free"  BY DEF Plain
<1>3. ASSUME NEW o \in Objs, m[o].tt = "udata"
      PROVE  \/ h[o].tt = "udata" /\ m[o].fin = h[o].fin
             \/ h[o].tt = "free" /\ m[o].fin = FALSE /\ o \in Alive(m, u)
  <2>1. CASE k[o].tt = "udata" /\ m[o].fin = k[o].fin
    <3>1. CASE h[o].tt = "udata" /\ k[o].fin = h[o].fin  BY <2>1, <3>1
    <3>2. CASE h[o].tt = "free" /\ k[o].fin = FALSE /\ o \in Alive(k, t)  BY <2>1, <3>2 DEF Plain
    <3> QED  BY <2>1, <3>1, <3>2 DEF Plain
  <2>2. CASE k[o].tt = "free" /\ m[o].fin = FALSE /\ o \in Alive(m, u)
    <3>1. h[o].tt = "free"  BY <2>2 DEF Plain
    <3> QED  BY <2>2, <3>1
  <2> QED  BY <1>3, <2>1, <2>2 DEF Plain
<1> QED  BY <1>1, <1>2, <1>3 DEF Plain

LEMMA PlainSame ==
  ASSUME NEW h, NEW s, NEW k, NEW t, Alive(h, s) \subseteq Alive(k, t), t.tmudata = s.tmudata,
         \A o \in Objs : k[o].tt = h[o].tt,
         \A o \in Objs : h[o].tt = "udata" => k[o].fin = h[o].fin
  PROVE  Plain(h, s, k, t)
BY DEF Plain

LEMMA PlainQuiet ==
  ASSUME NEW h, NEW s, NEW k, NEW t, Plain(h, s, k, t)
  PROVE  Quiet(h, s, k, t)
BY DEF Plain, Quiet

(* What is not dead is not freed. *)
Spares == \A o \in Alive(heap, g) : heap'[o].tt # "free"

(* A step of the collector, or of the program, that keeps the heap. *)
LEMMA QuietStep ==
  ASSUME IInv, HeapInv(heap', g'), Quiet(heap, g, heap', g'), program' = program,
         called' = {o \in called : heap'[o].tt # "free"},
         running' \in Alive(heap', g'), heap'[running'].tt = "thread"
  PROVE  IInv' /\ Spares
<1> DEFINE k == heap'
           t == g'
<1>1. Main \in Alive(heap, g) /\ heap[Main].tt = "thread"  BY DEF IInv, Roots
<1>2. Main \in Alive(k, t)  BY <1>1 DEF Quiet
<1>3. k[Main].tt = "thread"
  <2> HIDE DEF k, t
  <2>1. Main \in Objs /\ k[Main].tt # "free"  BY <1>2 DEF Alive, Live
  <2> QED  BY <1>1, <2>1 DEF Quiet, k, t
<1>4. Finished(k, t, called')
  <2>1. Finished(heap, g, called) /\ Listed(heap, g)  BY DEF IInv, HeapInv
  <2> QED  BY <2>1, QuietKeeps
<1>5. Roots(k, t, running')  BY <1>2, <1>3 DEF Roots
<1>6. Spares
  <2>1. \A o \in Alive(k, t) : k[o].tt # "free"  BY DEF Alive, Live
  <2>2. Alive(heap, g) \subseteq Alive(k, t)  BY DEF Quiet
  <2> HIDE DEF t
  <2> QED  BY <2>1, <2>2 DEF Spares
<1>7. IInv'  BY <1>4, <1>5 DEF IInv, HeapInv, Roots, Finished
<1> QED  BY <1>6, <1>7

LEMMA PlainStep ==
  ASSUME IInv, HeapInv(heap', g'), Plain(heap, g, heap', g'), program' = program, called' = called,
         running' \in Alive(heap', g'), heap'[running'].tt = "thread"
  PROVE  IInv' /\ Spares
<1>1. \A o \in called : o \in Objs /\ heap[o].tt = "udata"  BY DEF IInv, Finished
<1>2. \A o \in called : heap'[o].tt # "free"  BY <1>1 DEF Plain
<1>3. called' = {o \in called : heap'[o].tt # "free"}  BY <1>2
<1>4. Quiet(heap, g, heap', g')  BY PlainQuiet
<1> QED  BY <1>3, <1>4, QuietStep

-----------------------------------------------------------------------------
(* The collector's steps keep the invariant.                               *)

LEMMA RootStays ==
  ASSUME Roots(heap, g, running), NEW t, Alive(heap, g) \subseteq Alive(heap, t)
  PROVE  Roots(heap, t, running)
BY DEF Roots

LEMMA MarkStep ==
  ASSUME IInv, HeapInv(heap, g'), Alive(heap, g) \subseteq Alive(heap, g'), g'.tmudata = g.tmudata,
         heap' = heap, UNCHANGED <<running, program>>,
         called' = called \/ called' = {o \in called : heap'[o].tt # "free"}
  PROVE  IInv' /\ Spares
<1>1. Plain(heap, g, heap', g')  BY PlainSame
<1>2. running \in Alive(heap, g) /\ heap[running].tt = "thread"  BY DEF IInv, Roots
<1>3. \A o \in called : heap[o].tt = "udata"  BY DEF IInv, Finished
<1>4. called' = called  BY <1>3
<1> QED  BY <1>1, <1>2, <1>4, PlainStep

(* A userdata that waits is on the list of objects again. *)
Rejoined(s, o) == [s EXCEPT !.tmudata = s.tmudata \ {o}, !.c = [s.c EXCEPT ![o] = s.white],
                            !.rootgc = s.rootgc \cup {o}]

LEMMA GCTMKeeps ==
  ASSUME NEW h, NEW s, HeapInv(h, s), s.state = "finalize", NEW o \in s.tmudata, NEW cs, Finished(h, s, cs),
         NEW t, t = Rejoined(s, o)
  PROVE  HeapInv(h, t) /\ Alive(h, t) = Alive(h, s) /\ Finished(h, t, cs \cup {o}) /\ o \in Objs /\ h[o].tt = "udata"
<1> DEFINE c == [s.c EXCEPT ![o] = s.white]
           tm == s.tmudata \ {o}
           root == s.rootgc \cup {o}
<1>1. s \in Collectors /\ h \in Heaps /\ SlotsExist(h)  BY DEF HeapInv
<1>2. o \in Alive(h, s) /\ o \in Objs /\ o \in Live(h) /\ h[o].tt = "udata"
  <2>1. o \in Alive(h, s) /\ h[o].tt = "udata"  BY DEF HeapInv, Listed
  <2> QED  BY <2>1 DEF Alive, Live
<1>3. /\ s.c \in [Objs -> Colours] /\ s.white \in Colours /\ s.white \in Whites /\ s.white # other(s.white)
      /\ s.white \notin {"gray", "black"}
  BY <1>1 DEF Collectors, Colours, Whites, other
<1>4. c \in [Objs -> Colours] /\ c[o] = s.white /\ \A p \in Objs \ {o} : c[p] = s.c[p]  BY <1>2, <1>3
<1>5. tm \in SUBSET Objs /\ root \in SUBSET Objs  BY <1>1, <1>2 DEF Collectors
<1>6. t = [s EXCEPT !.tmudata = tm, !.c = c, !.rootgc = root]  BY DEF Rejoined
<1> HIDE DEF c, tm, root
<1>7. /\ t \in Collectors /\ t.c = c /\ t.white = s.white /\ t.state = s.state /\ t.sweepgc = s.sweepgc
      /\ t.tmudata = tm /\ t.rootgc = root
  BY <1>1, <1>4, <1>5, <1>6 DEF Collectors
<1>8. \A p \in Live(h) : p \in Objs  BY DEF Live
<1>9. Alive(h, t) = Alive(h, s)  BY <1>2, <1>3, <1>4, <1>7, <1>8 DEF Alive
<1>10. ColoursOK(h, t)  BY <1>3, <1>4, <1>7 DEF HeapInv, ColoursOK
<1>11. RefersToAlive(h, t)  BY <1>9 DEF HeapInv, RefersToAlive
<1>12. ~Open(h, o)  BY <1>2 DEF Open
<1>13. Listed(h, t)  BY <1>2, <1>7, <1>9, <1>12 DEF HeapInv, Listed, tm, root
<1>14. Swept(h, t)
  <2>1. Swept(h, s)  BY DEF HeapInv
  <2> SUFFICES ASSUME NEW p \in Live(h)
               PROVE  \/ t.c[p] = t.white \/ p \in t.sweepgc \cup t.tmudata
                      \/ Open(h, p) /\ h[p].thread \in t.sweepgc
    BY DEF Swept
  <2>2. CASE p = o  BY <1>4, <1>7, <2>2
  <2>3. CASE p # o
    <3>1. t.c[p] = s.c[p]  BY <1>4, <1>7, <1>8, <2>3
    <3> QED  BY <1>7, <2>1, <2>3, <3>1 DEF Swept, tm
  <2> QED  BY <2>2, <2>3
<1>15. HeapInv(h, t)  BY <1>1, <1>7, <1>10, <1>11, <1>13, <1>14 DEF HeapInv
<1>16. Finished(h, t, cs \cup {o})
  <2>1. \A p \in cs \cup {o} : p \in Objs /\ h[p].tt = "udata" /\ p \notin t.tmudata
    BY <1>2, <1>7 DEF Finished, tm
  <2>2. t.tmudata \cup (cs \cup {o}) = s.tmudata \cup cs  BY <1>7 DEF tm
  <2> QED  BY <1>9, <2>1, <2>2 DEF Finished
<1> QED  BY <1>2, <1>9, <1>15, <1>16

LEMMA StackPlain ==
  ASSUME NEW h, NEW s, HeapInv(h, s), NEW t \in Live(h), h[t].tt = "thread",
         NEW i \in DOMAIN h[t].stack, NEW v, Value(h, s, v),
         NEW k, k = Stacked(h, t, i, v)
  PROVE  HeapInv(k, s) /\ Alive(k, s) = Alive(h, s) /\ Plain(h, s, k, s) /\ \A o \in Objs : k[o].tt = h[o].tt
<1>1. /\ HeapInv(k, s) /\ Alive(k, s) = Alive(h, s) /\ SameKinds(h, k)
      /\ \A o \in Objs \ {t} : k[o] = h[o]
  BY StackWrite
<1>2. \A o \in Objs : k[o].tt = h[o].tt  BY <1>1 DEF SameKinds
<1>3. \A o \in Objs : h[o].tt = "udata" => k[o].fin = h[o].fin
  <2> TAKE o \in Objs
  <2>1. o # t => k[o] = h[o]  BY <1>1
  <2> QED  BY <2>1
<1> QED  BY <1>1, <1>2, <1>3, PlainSame

LEMMA GCTMStep ==
  ASSUME IInv, GCTM, UNCHANGED <<running, program>>
  PROVE  IInv' /\ Spares
<1>1. PICK o \in g.tmudata :
        /\ called' = called \cup {o}
        /\ g' = Rejoined(g, o)
        /\ \/ heap' = heap
           \/ \E i \in DOMAIN heap[running].stack :
                heap[running].stack[i] = Nil /\ heap' = Stacked(heap, running, i, o)
  BY DEF GCTM, Stacked, Rejoined
<1>2. HeapInv(heap, g) /\ Finished(heap, g, called) /\ Roots(heap, g, running) /\ program \in Programs /\ g.state = "finalize"
  BY DEF IInv, GCTM
<1> DEFINE t == g'
           k == heap'
           cs == called \cup {o}
<1>3. HeapInv(heap, t) /\ Alive(heap, t) = Alive(heap, g) /\ Finished(heap, t, cs) /\ o \in Objs /\ heap[o].tt = "udata"
  BY <1>1, <1>2, GCTMKeeps
<1>4. Roots(heap, t, running)  BY <1>2, <1>3, RootStays
<1>5. running \in Live(heap) /\ heap[running].tt = "thread"  BY <1>2 DEF Roots, Alive
<1>6. Value(heap, t, o)
  <2>1. o \in Alive(heap, g)  BY <1>2 DEF HeapInv, Listed
  <2>2. o \in Values
    <3>1. o # Main  BY <1>2, <1>3 DEF Roots
    <3> QED  BY <1>3, <3>1 DEF Objs, Values
  <2> QED  BY <1>3, <2>1, <2>2 DEF Value
<1> HIDE DEF t, k, cs
<1>7. CASE heap' = heap
  <2>1. IInv'  BY <1>1, <1>2, <1>3, <1>4, <1>7 DEF IInv, t, cs, HeapInv, Finished, Roots
  <2>2. Spares  BY <1>7 DEF Spares, Alive, Live
  <2> QED  BY <2>1, <2>2
<1>8. CASE heap' # heap
  <2>1. PICK i \in DOMAIN heap[running].stack : k = Stacked(heap, running, i, o)
    BY <1>1, <1>8 DEF k
  <2>2. HeapInv(k, t) /\ Alive(k, t) = Alive(heap, t) /\ Plain(heap, t, k, t) /\ \A p \in Objs : k[p].tt = heap[p].tt
    BY <1>3, <1>5, <1>6, <2>1, StackPlain
  <2>3. Finished(k, t, {p \in cs : k[p].tt # "free"})
    <3>1. Listed(heap, t) /\ Quiet(heap, t, k, t)  BY <1>3, <2>2, PlainQuiet DEF HeapInv
    <3> QED  BY <1>3, <3>1, QuietKeeps
  <2>4. {p \in cs : k[p].tt # "free"} = cs
    <3>1. \A p \in cs : p \in Objs /\ heap[p].tt = "udata"  BY <1>3 DEF Finished
    <3> QED  BY <2>2, <3>1
  <2>5. Finished(k, t, cs)  BY <2>3, <2>4
  <2>6. Roots(k, t, running)  BY <1>4, <2>2 DEF Roots, Alive, Live
  <2>7. IInv'  BY <1>1, <1>2, <2>2, <2>5, <2>6 DEF IInv, t, k, cs, HeapInv, Finished, Roots
  <2>8. Spares  BY <2>2 DEF Spares, k, Alive, Live
  <2> QED  BY <2>7, <2>8
<1> QED  BY <1>7, <1>8

LEMMA PropagateStep ==
  ASSUME IInv, Propagate, UNCHANGED <<running, program>>, called' = {o \in called : heap'[o].tt # "free"}
  PROVE  IInv' /\ Spares
<1>1. /\ HeapInv(heap, g) /\ Finished(heap, g, called) /\ Roots(heap, g, running) /\ program \in Programs
      /\ g.state = "propagate"
  BY DEF IInv, Propagate
<1>2. CASE g.gray # <<>>
  <2>1. g' = propagatemark(g) /\ heap' = heap  BY <1>2 DEF Propagate
  <2>2. Sound(heap) /\ Shape(heap, g)  BY <1>1, SoundHeap
  <2>3. Grows(heap, g, g')  BY <1>2, <2>1, <2>2, PropagateGrows
  <2>4. HeapInv(heap, g') /\ Alive(heap, g') = Alive(heap, g)  BY <1>1, <2>3, GrowsKeeps
  <2>5. g'.tmudata = g.tmudata  BY <2>3 DEF Grows, SameLists
  <2> QED  BY <2>1, <2>4, <2>5, MarkStep
<1>3. CASE g.gray = <<>>
  <2>1. atomic  BY <1>3 DEF Propagate
  <2>2. /\ HeapInv(heap', g') /\ Roots(heap', g', running)
        /\ \E us : Separates(heap, g, heap', g', us)
    BY <1>1, <1>3, <2>1, AtomicKeeps
  <2>3. PICK us : Separates(heap, g, heap', g', us)  BY <2>2
  <2>4. g.rootgc \subseteq Objs  BY <1>1 DEF HeapInv, Collectors
  <2>5. Finished(heap', g', called')  BY <1>1, <2>3, <2>4, SeparatesKeeps
  <2>6. IInv'  BY <1>1, <2>2, <2>5 DEF IInv, HeapInv, Finished, Roots
  <2>7. Spares  BY <2>3 DEF Spares, Separates, Alive, Live
  <2> QED  BY <2>6, <2>7
<1> QED  BY <1>2, <1>3

LEMMA SweepStep ==
  ASSUME IInv, SweepObject, UNCHANGED <<running, program>>, called' = {o \in called : heap'[o].tt # "free"}
  PROVE  IInv' /\ Spares
<1>1. HeapInv(heap, g) /\ Roots(heap, g, running) /\ g.state = "sweep"
  BY DEF IInv, SweepObject
<1>2. PICK o \in g.sweepgc : Sweep(o)  BY DEF SweepObject
<1>3. /\ HeapInv(heap', g') /\ Alive(heap', g') = Alive(heap, g) /\ g'.tmudata = g.tmudata
      /\ \A p \in Objs : heap'[p].tt \in {"free", heap[p].tt}
      /\ \A p \in Objs : heap[p].tt # "upval" => heap'[p] \in {Free, heap[p]}
  BY <1>1, <1>2, SweepKeeps
<1>4. Quiet(heap, g, heap', g')
  <2>1. ASSUME NEW p \in Objs, heap'[p].tt = "udata"  PROVE heap[p].tt = "udata" /\ heap'[p].fin = heap[p].fin
    <3>1. heap[p].tt = "udata"  BY <1>3, <2>1
    <3>2. heap'[p] = heap[p]  BY <1>3, <2>1, <3>1 DEF Free
    <3> QED  BY <3>1, <3>2
  <2> QED  BY <1>3, <2>1 DEF Quiet
<1>5. running \in Alive(heap', g') /\ heap'[running].tt = "thread"
  <2>1. running \in Alive(heap, g) /\ heap[running].tt = "thread"  BY <1>1 DEF Roots
  <2>2. running \in Objs /\ heap'[running].tt # "free"  BY <1>3, <2>1 DEF Alive, Live
  <2> QED  BY <1>3, <2>1, <2>2
<1> QED  BY <1>3, <1>4, <1>5, QuietStep

LEMMA CollectorStep ==
  ASSUME IInv, singlestep
  PROVE  IInv' /\ Spares
<1>1. UNCHANGED <<running, program>>  BY DEF singlestep
<1>2. HeapInv(heap, g) /\ Roots(heap, g, running)  BY DEF IInv
<1>3. CASE GCTM  BY <1>1, <1>3, GCTMStep
<1>4. ASSUME called' = {o \in called : heap'[o].tt # "free"}, Pause  PROVE IInv' /\ Spares
  <2>1. heap' = heap /\ g.state = "pause" /\ g' = markroot(g)  BY <1>4 DEF Pause
  <2>2. HeapInv(heap, g') /\ Alive(heap, g') = Alive(heap, g) /\ g'.tmudata = g.tmudata
    BY <1>2, <2>1, MarkrootKeeps
  <2> QED  BY <1>1, <1>4, <2>1, <2>2, MarkStep
<1>5. ASSUME called' = {o \in called : heap'[o].tt # "free"}, Propagate  PROVE IInv' /\ Spares
  BY <1>1, <1>5, PropagateStep
<1>6. ASSUME called' = {o \in called : heap'[o].tt # "free"}, SweepString  PROVE IInv' /\ Spares
  <2>1. HeapInv(heap, g') /\ Alive(heap, g') = Alive(heap, g) /\ heap' = heap /\ g'.tmudata = g.tmudata
    BY <1>2, <1>6, SweepStringKeeps
  <2> QED  BY <1>1, <1>6, <2>1, MarkStep
<1>7. ASSUME called' = {o \in called : heap'[o].tt # "free"}, SweepObject  PROVE IInv' /\ Spares
  BY <1>1, <1>7, SweepStep
<1>8. ASSUME called' = {o \in called : heap'[o].tt # "free"}, Finalized  PROVE IInv' /\ Spares
  <2>1. HeapInv(heap, g') /\ Alive(heap, g') = Alive(heap, g) /\ heap' = heap /\ g'.tmudata = g.tmudata
    BY <1>2, <1>8, FinalizedKeeps
  <2> QED  BY <1>1, <1>8, <2>1, MarkStep
<1> QED  BY <1>3, <1>4, <1>5, <1>6, <1>7, <1>8 DEF singlestep

LEMMA FullSteps ==
  ASSUME IInv, FullStart \/ FullStep
  PROVE  IInv' /\ Spares
<1>1. HeapInv(heap, g) /\ Roots(heap, g, running)  BY DEF IInv
<1>2. CASE FullStart
  <2>1. HeapInv(heap, g') /\ Alive(heap, g') = Alive(heap, g) /\ heap' = heap /\ g'.tmudata = g.tmudata
    BY <1>1, <1>2, FullStartKeeps
  <2>2. UNCHANGED <<running, program>> /\ called' = called  BY <1>2 DEF FullStart
  <2> QED  BY <2>1, <2>2, MarkStep
<1>3. CASE singlestep
  BY <1>3, CollectorStep
<1>4. CASE g.state = "finalize" /\ g' = markroot(g) /\ UNCHANGED <<heap, running, called, program>>
  <2>1. HeapInv(heap, g') /\ Alive(heap, g') = Alive(heap, g) /\ g'.tmudata = g.tmudata
    BY <1>1, <1>4, MarkrootKeeps
  <2> QED  BY <1>4, <2>1, MarkStep
<1> QED  BY <1>2, <1>3, <1>4 DEF FullStep

-----------------------------------------------------------------------------
(* The program's steps keep it.                                            *)

LEMMA AllocPlain ==
  ASSUME NEW h, NEW s, NEW o, NEW k, NewObject(h, s, o, k), k[o].tt = "udata" => k[o].fin = FALSE,
         NEW t, Alive(k, t) = Alive(h, s) \cup {o}, t.tmudata = s.tmudata
  PROVE  Plain(h, s, k, t)
<1>1. h[o].tt = "free" /\ \A p \in Objs \ {o} : k[p] = h[p]  BY DEF NewObject
<1>2. \A p \in Objs : k[p].tt = h[p].tt \/ h[p].tt = "free"  BY <1>1
<1>3. ASSUME NEW p \in Objs, k[p].tt = "udata"
      PROVE  \/ h[p].tt = "udata" /\ k[p].fin = h[p].fin
             \/ h[p].tt = "free" /\ k[p].fin = FALSE /\ p \in Alive(k, t)
  <2>1. CASE p = o  BY <1>1, <1>3, <2>1
  <2>2. CASE p # o
    <3>1. k[p] = h[p]  BY <1>1, <2>2
    <3> QED  BY <1>3, <3>1
  <2> QED  BY <2>1, <2>2
<1> QED  BY <1>2, <1>3 DEF Plain

(* A new object, in a slot of a stack. *)
LEMMA AllocHeld ==
  ASSUME NEW h, NEW s, HeapInv(h, s), NEW r \in Alive(h, s), h[r].tt = "thread", NEW i \in DOMAIN h[r].stack,
         NEW o, NEW k, NewObject(h, s, o, k), k[o].tt # "upval", k[o].tt = "udata" => k[o].fin = FALSE,
         NEW m, m = Stacked(k, r, i, o)
  PROVE  HeapInv(m, Link(s, o)) /\ Plain(h, s, m, Link(s, o)) /\ r \in Alive(m, Link(s, o)) /\ m[r].tt = "thread"
<1> DEFINE t == Link(s, o)
<1>1. ~Open(k, o)  BY DEF Open
<1>2. t = Linked(s, o, Joins(k, o))  BY <1>1 DEF Link, Linked, Joins
<1> HIDE DEF t
<1>3. HeapInv(k, t) /\ Alive(k, t) = Alive(h, s) \cup {o} /\ t.tmudata = s.tmudata
  BY <1>2, AllocKeeps
<1>4. Plain(h, s, k, t)  BY <1>3, AllocPlain
<1>5. r \in Objs /\ o # r /\ k[r] = h[r]
  <2>1. r \in Objs /\ h[r].tt # "free"  BY DEF Alive, Live
  <2> QED  BY <2>1 DEF NewObject
<1>6. r \in Live(k) /\ k[r].tt = "thread" /\ i \in DOMAIN k[r].stack  BY <1>5 DEF Live
<1>7. Value(k, t, o)  BY <1>3 DEF Value, NewObject, Values
<1>8. HeapInv(m, t) /\ Alive(m, t) = Alive(k, t) /\ Plain(k, t, m, t) /\ m[r].tt = k[r].tt
  BY <1>3, <1>5, <1>6, <1>7, StackPlain
<1>9. Plain(h, s, m, t)  BY <1>4, <1>8, PlainTwice
<1> QED  BY <1>3, <1>6, <1>8, <1>9 DEF t

LEMMA NewStep ==
  ASSUME IInv, NEW o, NEW i \in Slots, New(o, i)
  PROVE  IInv' /\ Spares
<1>1. /\ program \in Programs /\ HeapInv(heap, g) /\ Roots(heap, g, running) /\ heap \in Heaps
      /\ program' = program /\ called' = called /\ running' = running
  BY DEF IInv, HeapInv, New, ProgramStep
<1>2. o \in Addrs /\ heap[o].tt = "free"
  BY <1>1, GCParameters DEF New, Fresh
<1>3. PICK x \in [tt : {"table"}, mode : program.modes, key : {Nil}, val : {Nil}]
                 \cup [tt : {"udata"}, env : {Nil}, fin : {FALSE}]
                 \cup {NewThread(program.co)} :
        heap' = [heap EXCEPT ![o] = x, ![running].stack[i] = o]
  BY DEF New
<1>4. g' = Link(g, o)  BY DEF New
<1>5. program.modes \subseteq Modes /\ program.co \in Nat  BY <1>1, GCParameters
<1>6. x \in Table \cup Udata \cup Thread
  <2>1. CASE x = NewThread(program.co)
    BY <1>5, <2>1 DEF NewThread, Thread, Values
  <2>2. CASE x # NewThread(program.co)
    BY <1>5, <2>2 DEF Table, Udata, Values
  <2> QED  BY <2>1, <2>2
<1>7. x.tt \in {"table", "udata", "thread"} /\ (x.tt = "udata" => x.fin = FALSE)
  <2>1. CASE x = NewThread(program.co)  BY <2>1 DEF NewThread
  <2>2. CASE x # NewThread(program.co)  BY <2>2
  <2> QED  BY <2>1, <2>2
<1> DEFINE k == [heap EXCEPT ![o] = x]
<1>8. o \in Objs /\ k[o] = x /\ \A p \in Objs \ {o} : k[p] = heap[p]
  BY <1>1, <1>2 DEF Heaps, Objs
<1>9. k \in Heaps  BY <1>1, <1>6, <1>8 DEF Heaps
<1>10. heap' = Stacked(k, running, i, o)  BY <1>3 DEF Stacked
<1>11. Refers(k, o) \subseteq {Nil}
  <2>1. CASE x = NewThread(program.co)
    <3>1. x.tt = "thread" /\ Range(x.stack) \subseteq {Nil}  BY <2>1 DEF NewThread, Range
    <3> HIDE DEF k
    <3> QED  BY <1>8, <3>1, RefersCases
  <2>2. CASE x # NewThread(program.co)
    <3>1. \/ x.tt = "table" /\ x.key = Nil /\ x.val = Nil
          \/ x.tt = "udata" /\ x.env = Nil
      BY <2>2
    <3> HIDE DEF k
    <3> QED  BY <1>8, <3>1, RefersCases
  <2> QED  BY <2>1, <2>2
<1> HIDE DEF k
<1>12. NewObject(heap, g, o, k)
  BY <1>2, <1>7, <1>8, <1>9, <1>11 DEF NewObject, Open, Leads
<1>13. running \in Alive(heap, g) /\ heap[running].tt = "thread" /\ i \in DOMAIN heap[running].stack
  BY <1>1 DEF Roots, Slots, Stack
<1>14. HeapInv(heap', g') /\ Plain(heap, g, heap', g') /\ running \in Alive(heap', g') /\ heap'[running].tt = "thread"
  <2>1. k[o].tt # "upval" /\ (k[o].tt = "udata" => k[o].fin = FALSE)  BY <1>7, <1>8
  <2> DEFINE m == heap'
  <2>2. m = Stacked(k, running, i, o)  BY <1>10
  <2> HIDE DEF m
  <2>3. HeapInv(m, Link(g, o)) /\ Plain(heap, g, m, Link(g, o)) /\ running \in Alive(m, Link(g, o)) /\ m[running].tt = "thread"
    BY <1>1, <1>12, <1>13, <2>1, <2>2, AllocHeld
  <2> QED  BY <1>4, <2>3 DEF m
<1> QED  BY <1>1, <1>14, PlainStep

LEMMA NestedStep ==
  ASSUME IInv, NEW f, NEW e \in Held, NEW i \in Slots, Nested(f, e, i)
  PROVE  IInv' /\ Spares
<1>1. /\ program \in Programs /\ HeapInv(heap, g) /\ Roots(heap, g, running) /\ heap \in Heaps
      /\ program' = program /\ called' = called /\ running' = running
  BY DEF IInv, HeapInv, Nested, ProgramStep
<1>2. f \in Addrs /\ heap[f].tt = "free" /\ f \in Objs
  BY <1>1, GCParameters DEF Nested, Fresh, Objs
<1>3. e \in Objs /\ e \in Alive(heap, g) /\ heap[e].tt = "function"
  BY <1>1, HeldValues DEF Nested, Is
<1> DEFINE k == [heap EXCEPT ![f] = heap[e]]
<1>4. heap' = Stacked(k, running, i, f) /\ g' = Link(g, f)  BY DEF Nested, Stacked
<1>5. k[f] = heap[e] /\ \A p \in Objs \ {f} : k[p] = heap[p]
  BY <1>1, <1>2 DEF Heaps
<1>6. k \in Heaps  BY <1>1, <1>2, <1>3 DEF Heaps
<1> HIDE DEF k
<1>7. Refers(k, f) = Refers(heap, e)
  <2>1. Refers(k, f) = {heap[e].up}  BY <1>3, <1>5, RefersCases
  <2>2. Refers(heap, e) = {heap[e].up}  BY <1>3, RefersCases
  <2> QED  BY <2>1, <2>2
<1>8. Leads(heap, e) /\ Refers(heap, e) \ {Nil} \subseteq Alive(heap, g)  BY <1>1, <1>3 DEF HeapInv, RefersToAlive
<1>9. Leads(k, f)
  <2>1. \A v \in Refers(heap, e) \ {Nil} : v \in Objs /\ heap[v].tt # "free"  BY <1>8 DEF Alive, Live
  <2>2. \A v \in Refers(heap, e) \ {Nil} : k[v] = heap[v]  BY <1>2, <1>5, <2>1
  <2> QED  BY <1>3, <1>5, <1>7, <1>8, <2>2 DEF Leads
<1>10. NewObject(heap, g, f, k)
  BY <1>2, <1>3, <1>5, <1>6, <1>7, <1>8, <1>9 DEF NewObject, Open
<1>11. running \in Alive(heap, g) /\ heap[running].tt = "thread" /\ i \in DOMAIN heap[running].stack
  BY <1>1 DEF Roots, Slots, Stack
<1>12. HeapInv(heap', g') /\ Plain(heap, g, heap', g') /\ running \in Alive(heap', g') /\ heap'[running].tt = "thread"
  <2>1. k[f].tt # "upval" /\ k[f].tt # "udata"  BY <1>3, <1>5
  <2> DEFINE m == heap'
  <2>2. m = Stacked(k, running, i, f)  BY <1>4
  <2> HIDE DEF m
  <2>3. HeapInv(m, Link(g, f)) /\ Plain(heap, g, m, Link(g, f)) /\ running \in Alive(m, Link(g, f)) /\ m[running].tt = "thread"
    BY <1>1, <1>10, <1>11, <2>1, <2>2, AllocHeld
  <2> QED  BY <1>4, <2>3 DEF m
<1> QED  BY <1>1, <1>12, PlainStep

LEMMA MoveStep ==
  ASSUME IInv, NEW i \in Slots, NEW v, Value(heap, g, v), Move(i, v)
  PROVE  IInv' /\ Spares
<1>1. /\ HeapInv(heap, g) /\ Roots(heap, g, running) /\ g' = g
      /\ program' = program /\ called' = called /\ running' = running
      /\ heap' = Stacked(heap, running, i, v)
  BY DEF IInv, Move, ProgramStep, Stacked
<1>2. running \in Alive(heap, g) /\ running \in Live(heap) /\ heap[running].tt = "thread" /\ i \in DOMAIN heap[running].stack
  BY <1>1 DEF Roots, Slots, Stack, Alive
<1>3. HeapInv(heap', g) /\ Alive(heap', g) = Alive(heap, g) /\ Plain(heap, g, heap', g) /\ \A o \in Objs : heap'[o].tt = heap[o].tt
  BY <1>1, <1>2, StackPlain
<1>4. running \in Objs  BY <1>2 DEF Live
<1> QED  BY <1>1, <1>2, <1>3, <1>4, PlainStep

LEMMA SwitchStep ==
  ASSUME IInv, NEW t \in Held \cup {Main}, Is(t, "thread"), NEW i \in Slots, NEW j \in DOMAIN heap[t].stack, Switch(t, i, j)
  PROVE  IInv' /\ Spares
<1>1. /\ HeapInv(heap, g) /\ Roots(heap, g, running) /\ g' = g
      /\ program' = program /\ called' = called /\ running' = t
      /\ heap' = Stacked(heap, t, j, Stack[i])
  BY DEF IInv, Switch, ProgramStep, Stacked
<1>2. t \in Alive(heap, g) /\ t \in Live(heap) /\ t \in Objs /\ heap[t].tt = "thread"
  BY <1>1, HeldValues DEF Roots, Alive, Is
<1>3. Value(heap, g, Stack[i])  BY <1>1, HeldValues
<1>4. HeapInv(heap', g) /\ Alive(heap', g) = Alive(heap, g) /\ Plain(heap, g, heap', g) /\ \A o \in Objs : heap'[o].tt = heap[o].tt
  BY <1>1, <1>2, <1>3, StackPlain
<1> QED  BY <1>1, <1>2, <1>4, PlainStep

LEMMA CloseStep ==
  ASSUME IInv, NEW level, Close(level)
  PROVE  IInv' /\ Spares
<1>1. /\ HeapInv(heap, g) /\ Roots(heap, g, running)
      /\ program' = program /\ called' = called /\ running' = running /\ luaF_close(running, level)
  BY DEF IInv, Close, ProgramStep
<1>2. running \in Alive(heap, g) /\ running \in Objs /\ heap[running].tt = "thread"  BY <1>1 DEF Roots, Alive, Live
<1>3. /\ HeapInv(heap', g') /\ Alive(heap, g) \subseteq Alive(heap', g') /\ g'.tmudata = g.tmudata
      /\ \A p \in Objs : heap'[p].tt \in {"free", heap[p].tt}
      /\ \A p \in Objs : heap[p].tt # "upval" => heap'[p] = heap[p]
  BY <1>1, <1>2, CloseKeeps
<1>4. Quiet(heap, g, heap', g')
  <2>1. ASSUME NEW p \in Objs, heap'[p].tt = "udata"  PROVE heap[p].tt = "udata" /\ heap'[p].fin = heap[p].fin
    <3>1. heap[p].tt = "udata"  BY <1>3, <2>1
    <3>2. heap'[p] = heap[p]  BY <1>3, <3>1
    <3> QED  BY <3>1, <3>2
  <2> QED  BY <1>3, <2>1 DEF Quiet
<1>5. called' = {o \in called : heap'[o].tt # "free"}
  <2>1. \A o \in called : o \in Objs /\ heap[o].tt = "udata"  BY DEF IInv, Finished
  <2>2. \A o \in called : heap'[o].tt # "free"
    <3> TAKE o \in called
    <3>1. heap'[o] = heap[o]  BY <1>3, <2>1
    <3> QED  BY <2>1, <3>1
  <2> QED  BY <1>1, <2>2
<1>6. running' \in Alive(heap', g') /\ heap'[running'].tt = "thread"
  <2>1. heap'[running] = heap[running]  BY <1>2, <1>3
  <2> QED  BY <1>1, <1>2, <1>3, <2>1
<1> QED  BY <1>1, <1>3, <1>4, <1>5, <1>6, QuietStep

(* A heap of the same kinds in which every object refers to the same.      *)
LEMMA SameRefersKeep ==
  ASSUME NEW h, NEW s, HeapInv(h, s), NEW k, SameKinds(h, k), \A o \in Objs : Refers(k, o) = Refers(h, o)
  PROVE  HeapInv(k, s) /\ Alive(k, s) = Alive(h, s)
<1>1. ASSUME NEW o \in Alive(h, s)  PROVE Leads(k, o) /\ Refers(k, o) \ {Nil} \subseteq Alive(h, s)
  <2>1. o \in Objs /\ Leads(h, o) /\ Refers(h, o) \ {Nil} \subseteq Alive(h, s)
    BY DEF Alive, Live, HeapInv, RefersToAlive
  <2>2. \A w \in Alive(h, s) : k[w].tt = h[w].tt  BY DEF Alive, Live, SameKinds
  <2> QED  BY <2>1, <2>2 DEF Leads, SameKinds
<1>2. ASSUME s.state = "propagate"  PROVE Loose(k, s) \subseteq Excused(h, s)
  <2>1. Tricolour(h, s)  BY <1>2, SoundHeap
  <2>2. Loose(k, s) = Loose(h, s)  BY DEF Loose, Done, Marked
  <2> QED  BY <2>1, <2>2, TricolourLoose
<1> QED  BY <1>1, <1>2, Rewrites

LEMMA Rewritten ==
  ASSUME NEW h \in Heaps, NEW o \in Objs, NEW x, x \in Table \cup Udata \cup Function \cup Upval \cup Thread,
         NEW k, k = With(h, o, x)
  PROVE  k \in Heaps /\ k[o] = x /\ \A p \in Objs \ {o} : k[p] = h[p]
BY DEF Heaps, With

LEMMA SetModeStep ==
  ASSUME IInv, NEW t \in Held, NEW mode \in program.modes, SetMode(t, mode)
  PROVE  IInv' /\ Spares
<1>1. /\ HeapInv(heap, g) /\ Roots(heap, g, running) /\ g' = g /\ heap \in Heaps /\ program \in Programs
      /\ program' = program /\ called' = called /\ running' = running
      /\ heap' = [heap EXCEPT ![t].mode = mode] /\ heap[t].tt = "table" /\ t \in Objs
  BY DEF IInv, SetMode, ProgramStep, Is, HeapInv
<1>2. heap[t] \in Table /\ mode \in Modes  BY <1>1, Kinds, GCParameters
<1> DEFINE x == [heap[t] EXCEPT !.mode = mode]
           k == With(heap, t, x)
<1>3. x \in Table /\ x.tt = "table" /\ x.key = heap[t].key /\ x.val = heap[t].val  BY <1>2 DEF Table
<1>4. heap' = k  BY <1>1 DEF With
<1> HIDE DEF x
<1>5. k \in Heaps /\ k[t] = x /\ \A p \in Objs \ {t} : k[p] = heap[p]  BY <1>1, <1>3, Rewritten
<1> HIDE DEF k
<1>6. SameKinds(heap, k)  BY <1>1, <1>3, <1>5 DEF SameKinds
<1>7. ASSUME NEW o \in Objs  PROVE Refers(k, o) = Refers(heap, o)
  <2>1. CASE o = t
    <3>1. Refers(k, t) = {x.key, x.val}  BY <1>3, <1>5, RefersCases
    <3>2. Refers(heap, t) = {heap[t].key, heap[t].val}  BY <1>1, RefersCases
    <3> QED  BY <1>3, <2>1, <3>1, <3>2
  <2>2. CASE o # t
    <3>1. SlotsExist(heap)  BY <1>1 DEF HeapInv
    <3>2. Open(heap, o) => heap[o].thread \in Objs /\ heap[o].thread # t
      BY <1>1, <3>1, UpvalValueType DEF Open
    <3> QED  BY <1>1, <1>5, <2>2, <3>2, SameRefers
  <2> QED  BY <2>1, <2>2
<1>8. HeapInv(k, g) /\ Alive(k, g) = Alive(heap, g)  BY <1>1, <1>6, <1>7, SameRefersKeep
<1>9. \A o \in Objs : k[o].tt = heap[o].tt  BY <1>6 DEF SameKinds
<1>10. \A o \in Objs : heap[o].tt = "udata" => k[o].fin = heap[o].fin
  <2> TAKE o \in Objs
  <2>1. o # t => k[o] = heap[o]  BY <1>5
  <2> QED  BY <1>1, <2>1
<1>11. Plain(heap, g, k, g)  BY <1>8, <1>9, <1>10, PlainSame
<1>12. running \in Alive(k, g) /\ k[running].tt = "thread"
  BY <1>1, <1>8, <1>9 DEF Roots, Alive, Live
<1> QED  BY <1>1, <1>4, <1>8, <1>11, <1>12, PlainStep

(* A field that is written, behind its barrier. *)
LEMMA FieldStep ==
  ASSUME IInv, program' = program, called' = called, running' = running,
         HeapInv(heap, g'), Alive(heap, g') = Alive(heap, g), g'.tmudata = g.tmudata,
         NEW x \in Alive(heap, g), heap[x].tt # "thread", ~Open(heap, x),
         heap' \in Heaps, \A o \in Objs \ {x} : heap'[o] = heap[o], heap'[x].tt = heap[x].tt,
         heap[x].tt = "udata" => heap'[x].fin = heap[x].fin,
         heap[x].tt = "upval" => heap'[x].thread = heap[x].thread /\ heap'[x].slot = heap[x].slot,
         heap[x].tt # "function",
         \A v \in Refers(heap', x) : Value(heap, g, v) \/ v \in Refers(heap, x),
         heap[x].tt = "udata" => \A v \in Refers(heap', x) \ {Nil} : heap[v].tt = "table",
         g'.state = "propagate" /\ x \in Marked(g') => x \in Lists(g') \cup g'.tmudata \/ Done(heap', g', x)
  PROVE  IInv' /\ Spares
<1> DEFINE k == heap'
           t == g'
<1>1. Roots(heap, g, running) /\ x \in Alive(heap, t) /\ x \in Objs  BY DEF IInv, Alive, Live
<1>2. \A v \in Refers(k, x) : Value(heap, t, v) \/ v \in Refers(heap, x)  BY DEF Value
<1>3. \A o \in Objs : k[o].tt = heap[o].tt  BY <1>1
<1>4. \A o \in Objs : heap[o].tt = "udata" => k[o].fin = heap[o].fin
  <2> TAKE o \in Objs
  <2>1. o # x => k[o] = heap[o]  OBVIOUS
  <2> QED  BY <2>1
<1> DEFINE ok == t.state = "propagate" /\ x \in Marked(t) => x \in Lists(t) \cup t.tmudata \/ Done(k, t, x)
<1>5. ok  OBVIOUS
<1> HIDE DEF k, t
<1>6. HeapInv(k, t) /\ Alive(k, t) = Alive(heap, t)
  BY <1>1, <1>2, <1>3, <1>5, FieldWrite DEF k, t
<1>7. Plain(heap, g, k, t)  BY <1>3, <1>4, <1>6, PlainSame DEF k, t
<1>8. running \in Alive(k, t) /\ k[running].tt = "thread"
  BY <1>1, <1>3, <1>6 DEF Roots, Alive, Live, k, t
<1> QED  BY <1>6, <1>7, <1>8, PlainStep DEF k, t

LEMMA SetTableStep ==
  ASSUME IInv, NEW t \in Held, NEW k \in Held \cup {Nil}, NEW v \in Held \cup {Nil}, SetTable(t, k, v)
  PROVE  IInv' /\ Spares
<1>1. /\ HeapInv(heap, g) /\ Roots(heap, g, running) /\ heap \in Heaps /\ g \in Collectors /\ ColoursOK(heap, g)
      /\ program' = program /\ called' = called /\ running' = running
      /\ heap' = [heap EXCEPT ![t].key = k, ![t].val = v] /\ heap[t].tt = "table" /\ t \in Objs
      /\ g' = luaC_barriert(t, {k, v})
  BY DEF IInv, SetTable, ProgramStep, Is, HeapInv
<1>2. t \in Alive(heap, g) /\ t \in Live(heap) /\ Value(heap, g, k) /\ Value(heap, g, v) /\ k \in Values /\ v \in Values
  BY <1>1, HeldValues DEF Value, Alive
<1> DEFINE x == [heap[t] EXCEPT !.key = k, !.val = v]
           m == With(heap, t, x)
<1>3. heap[t] \in Table  BY <1>1, Kinds
<1>4. x \in Table /\ x.tt = "table" /\ x.key = k /\ x.val = v  BY <1>2, <1>3 DEF Table
<1>5. heap' = m  BY <1>1 DEF Heaps, With
<1> HIDE DEF x
<1>6. m \in Heaps /\ m[t] = x /\ \A p \in Objs \ {t} : m[p] = heap[p]  BY <1>1, <1>4, Rewritten
<1> HIDE DEF m
<1>7. Refers(m, t) = {k, v}  BY <1>4, <1>6, RefersCases
<1>8. /\ HeapInv(heap, g') /\ Alive(heap, g') = Alive(heap, g) /\ g'.tmudata = g.tmudata
      /\ g'.state = "propagate" /\ t \in Marked(g') => t \in Lists(g') \cup g'.tmudata \/ Done(m, g', t)
  <2>1. CASE g.c[t] = "black" /\ \E w \in {k, v} \ {Nil} : IsWhite(w)
    <3>1. g' = Grayed(g, t)  BY <1>1, <2>1 DEF luaC_barriert, Grayed
    <3>2. HeapInv(heap, g') /\ Alive(heap, g') = Alive(heap, g) /\ SameLists(g, g') /\ t \in Lists(g')
      BY <1>1, <2>1, <3>1, BarriertKeeps
    <3> QED  BY <3>2 DEF SameLists
  <2>2. CASE ~(g.c[t] = "black" /\ \E w \in {k, v} \ {Nil} : IsWhite(w))
    <3>1. g' = g  BY <1>1, <2>2 DEF luaC_barriert
    <3>2. ASSUME g.state = "propagate", t \in Marked(g), t \notin Lists(g)  PROVE Done(m, g, t)
      <4>1. Shape(heap, g)  BY <1>1, <3>2, SoundHeap
      <4>2. g.c[t] # "gray"  BY <1>1, <1>2, <3>2, <4>1 DEF Shape
      <4>3. g.c[t] \in Colours  BY <1>1 DEF Collectors
      <4>4. g.c[t] = "black"  BY <3>2, <4>2, <4>3 DEF Marked, Colours
      <4>5. \A w \in {k, v} \ {Nil} : w \in Marked(g)
        BY <1>2, <2>2, <4>4 DEF IsWhite, Marked, Value, Alive, Live
      <4> QED  BY <1>7, <4>5 DEF Done
    <3> QED  BY <1>1, <3>1, <3>2
  <2> QED  BY <2>1, <2>2
<1>9. \A w \in Refers(m, t) : Value(heap, g, w)  BY <1>2, <1>7
<1>10. ~Open(heap, t)  BY <1>1 DEF Open
<1>11. /\ \A p \in Objs \ {t} : heap'[p] = heap[p]
       /\ heap'[t].tt = "table" /\ heap' \in Heaps
  BY <1>4, <1>5, <1>6
<1>12. \A w \in Refers(heap', t) : Value(heap, g, w)  BY <1>5, <1>9
<1>13. g'.state = "propagate" /\ t \in Marked(g') => t \in Lists(g') \cup g'.tmudata \/ Done(heap', g', t)
  BY <1>5, <1>8
<1> QED  BY <1>1, <1>2, <1>8, <1>10, <1>11, <1>12, <1>13, FieldStep

(* luaC_barrier: what a black object is about to refer to is marked, while *)
(* marking.                                                                *)
LEMMA BarrierKeeps ==
  ASSUME HeapInv(heap, g), NEW o \in Alive(heap, g), NEW v, Value(heap, g, v), NEW t, t = luaC_barrier(o, v)
  PROVE  /\ HeapInv(heap, t) /\ Alive(heap, t) = Alive(heap, g) /\ t.tmudata = g.tmudata /\ t.state = g.state
         /\ g.c[o] # "black" => t = g
         /\ g.state = "propagate" /\ g.c[o] = "black" /\ v # Nil => v \in Marked(t)
         /\ g.state = "propagate" /\ g.c[o] = "black" => t.c[o] = "black"
<1>1. o \in Objs /\ o \in Live(heap) /\ g \in Collectors  BY DEF Alive, Live, HeapInv
<1>2. v # Nil => v \in Objs /\ heap[v].tt \notin {"free", "upval"}  BY DEF Value, Alive, Live
<1>3. CASE v # Nil /\ g.c[o] = "black" /\ IsWhite(v) /\ g.state = "propagate"
  <2>1. t = mark(g, {v})  BY <1>3 DEF luaC_barrier
  <2>2. Sound(heap) /\ Shape(heap, g) /\ Agrees(heap) /\ Markable(heap, {v})
    BY <1>2, <1>3, SoundHeap DEF Agrees, Markable
  <2>3. Grows(heap, g, t) /\ {v} \ {Nil} \subseteq Marked(t)  BY <2>1, <2>2, MarkGrows
  <2>4. HeapInv(heap, t) /\ Alive(heap, t) = Alive(heap, g) /\ t.state = "propagate"  BY <1>3, <2>3, GrowsKeeps
  <2>5. t.tmudata = g.tmudata  BY <2>3 DEF Grows, SameLists
  <2>6. t.c[o] = "black"
    <3>1. "black" \notin Whites  BY DEF Whites
    <3>2. o \notin ToGray(g, {v})  BY <1>3, <3>1 DEF ToGray, White
    <3> QED  BY <1>1, <1>3, <2>1, <3>2, MarkFields
  <2> QED  BY <1>3, <2>3, <2>4, <2>5, <2>6
<1>4. CASE v # Nil /\ g.c[o] = "black" /\ IsWhite(v) /\ g.state # "propagate"
  <2>1. t = Whitened(g, o)  BY <1>4 DEF luaC_barrier, Whitened
  <2>2. Leads(heap, o) /\ Refers(heap, o) \ {Nil} \subseteq Alive(heap, g)  BY DEF HeapInv, RefersToAlive
  <2>3. HeapInv(heap, t) /\ Alive(heap, t) = Alive(heap, g) \cup {o}  BY <1>1, <1>4, <2>1, <2>2, WhitenedKeeps
  <2>4. SameLists(g, t)  BY <1>1, <2>1, WhitenedFields
  <2> QED  BY <1>4, <2>3, <2>4 DEF SameLists
<1>5. CASE ~(v # Nil /\ g.c[o] = "black" /\ IsWhite(v))
  <2>1. t = g  BY <1>5 DEF luaC_barrier
  <2> QED  BY <1>2, <1>5, <2>1 DEF IsWhite, Marked
<1> QED  BY <1>3, <1>4, <1>5

LEMMA SetEnvStep ==
  ASSUME IInv, NEW u \in Held, NEW e \in Held \cup {Nil}, SetEnv(u, e)
  PROVE  IInv' /\ Spares
<1>1. /\ HeapInv(heap, g) /\ Roots(heap, g, running) /\ heap \in Heaps /\ g \in Collectors /\ ColoursOK(heap, g)
      /\ program' = program /\ called' = called /\ running' = running
      /\ heap' = [heap EXCEPT ![u].env = e] /\ heap[u].tt = "udata" /\ u \in Objs
      /\ e \in Objs /\ heap[e].tt = "table" /\ g' = luaC_barrier(u, e)
  BY DEF IInv, SetEnv, ProgramStep, Is, HeapInv
<1>2. u \in Alive(heap, g) /\ Value(heap, g, e) /\ e \in Values  BY <1>1, HeldValues DEF Value
<1> DEFINE x == [heap[u] EXCEPT !.env = e]
           m == With(heap, u, x)
<1>3. heap[u] \in Udata  BY <1>1, Kinds
<1>4. x \in Udata /\ x.tt = "udata" /\ x.env = e /\ x.fin = heap[u].fin  BY <1>2, <1>3 DEF Udata
<1>5. heap' = m  BY <1>1 DEF With
<1> HIDE DEF x
<1>6. m \in Heaps /\ m[u] = x /\ \A p \in Objs \ {u} : m[p] = heap[p]  BY <1>1, <1>4, Rewritten
<1> HIDE DEF m
<1>7. Refers(m, u) = {e}  BY <1>4, <1>6, RefersCases
<1>8. /\ HeapInv(heap, g') /\ Alive(heap, g') = Alive(heap, g) /\ g'.tmudata = g.tmudata /\ g'.state = g.state
      /\ g.c[u] # "black" => g' = g
      /\ g.state = "propagate" /\ g.c[u] = "black" /\ e # Nil => e \in Marked(g')
  BY <1>1, <1>2, BarrierKeeps
<1>9. g'.state = "propagate" /\ u \in Marked(g') => Done(m, g', u)
  <2> SUFFICES ASSUME g'.state = "propagate", u \in Marked(g')  PROVE Done(m, g', u)
    OBVIOUS
  <2>1. g.c[u] \in Colours /\ g.c[u] # "gray"  BY <1>1 DEF Collectors, ColoursOK
  <2>2. g.c[u] = "black"  BY <1>1, <1>8, <2>1 DEF Marked, Colours
  <2> QED  BY <1>7, <1>8, <2>2 DEF Done
<1>10. ~Open(heap, u)  BY <1>1 DEF Open
<1>11. /\ \A p \in Objs \ {u} : heap'[p] = heap[p]
       /\ heap'[u].tt = "udata" /\ heap'[u].fin = heap[u].fin /\ heap' \in Heaps
  BY <1>4, <1>5, <1>6
<1>12. (\A w \in Refers(heap', u) : Value(heap, g, w)) /\ \A w \in Refers(heap', u) \ {Nil} : heap[w].tt = "table"
  BY <1>1, <1>2, <1>5, <1>7
<1>13. g'.state = "propagate" /\ u \in Marked(g') => Done(heap', g', u)  BY <1>5, <1>9
<1> QED  BY <1>1, <1>2, <1>8, <1>10, <1>11, <1>12, <1>13, FieldStep

LEMMA SetUpvalStep ==
  ASSUME IInv, NEW f \in Held, NEW v \in Held \cup {Nil}, SetUpval(f, v)
  PROVE  IInv' /\ Spares
<1> DEFINE u == heap[f].up
<1>1. /\ HeapInv(heap, g) /\ Roots(heap, g, running) /\ heap \in Heaps /\ g \in Collectors /\ ColoursOK(heap, g)
      /\ SlotsExist(heap) /\ program' = program /\ called' = called /\ running' = running
      /\ heap' = (IF IsOpen(u) THEN [heap EXCEPT ![heap[u].thread].stack[heap[u].slot] = v]
                               ELSE [heap EXCEPT ![u].val = v])
      /\ heap[f].tt = "function" /\ f \in Objs /\ g' = luaC_barrier(u, v)
  BY DEF IInv, SetUpval, ProgramStep, Is, HeapInv
<1>2. f \in Alive(heap, g) /\ Value(heap, g, v) /\ v \in Values  BY <1>1, HeldValues DEF Value
<1>3. u \in Alive(heap, g) /\ u \in Objs /\ heap[u].tt = "upval"
  <2>1. Refers(heap, f) = {u} /\ u \in Addrs  BY <1>1, RefersCases, Kinds DEF Function
  <2>2. u # Nil /\ u \in Objs  BY <2>1, GCParameters DEF Objs
  <2>3. Leads(heap, f) /\ Refers(heap, f) \ {Nil} \subseteq Alive(heap, g)  BY <1>1, <1>2 DEF HeapInv, RefersToAlive
  <2> QED  BY <1>1, <2>1, <2>2, <2>3 DEF Leads
<1> HIDE DEF u
<1>4. /\ HeapInv(heap, g') /\ Alive(heap, g') = Alive(heap, g) /\ g'.tmudata = g.tmudata /\ g'.state = g.state
      /\ g.c[u] # "black" => g' = g
      /\ g.state = "propagate" /\ g.c[u] = "black" /\ v # Nil => v \in Marked(g')
  BY <1>1, <1>2, <1>3, BarrierKeeps
<1>5. CASE IsOpen(u)
  <2>1. g.c[u] # "black" /\ g' = g  BY <1>1, <1>3, <1>4, <1>5 DEF ColoursOK, IsOpen
  <2>2. /\ heap[u].thread \in Objs /\ heap[heap[u].thread].tt = "thread"
        /\ heap[u].slot \in DOMAIN heap[heap[u].thread].stack
    BY <1>1, <1>3, <1>5, UpvalValueType DEF SlotsExist, IsOpen
  <2>3. heap[u].thread \in Live(heap)  BY <2>2 DEF Live
  <2>4. heap' = Stacked(heap, heap[u].thread, heap[u].slot, v)  BY <1>1, <1>5 DEF Stacked
  <2>5. HeapInv(heap', g) /\ Alive(heap', g) = Alive(heap, g) /\ Plain(heap, g, heap', g) /\ \A o \in Objs : heap'[o].tt = heap[o].tt
    <3> DEFINE m == heap'
    <3>1. m = Stacked(heap, heap[u].thread, heap[u].slot, v)  BY <2>4
    <3> HIDE DEF m
    <3>2. HeapInv(m, g) /\ Alive(m, g) = Alive(heap, g) /\ Plain(heap, g, m, g) /\ \A o \in Objs : m[o].tt = heap[o].tt
      BY <1>1, <1>2, <2>2, <2>3, <3>1, StackPlain
    <3> QED  BY <3>2 DEF m
  <2>6. running \in Alive(heap, g) /\ running \in Objs /\ heap[running].tt = "thread"  BY <1>1 DEF Roots, Alive, Live
  <2> QED  BY <1>1, <2>1, <2>5, <2>6, PlainStep
<1>6. CASE ~IsOpen(u)
  <2> DEFINE x == [heap[u] EXCEPT !.val = v]
             m == With(heap, u, x)
  <2>1. heap[u] \in Upval  BY <1>1, <1>3, Kinds
  <2>2. x \in Upval /\ x.tt = "upval" /\ x.val = v /\ x.thread = heap[u].thread /\ x.slot = heap[u].slot
    BY <1>2, <2>1 DEF Upval
  <2>3. heap' = m  BY <1>1, <1>6 DEF With
  <2> HIDE DEF x
  <2>4. m \in Heaps /\ m[u] = x /\ \A p \in Objs \ {u} : m[p] = heap[p]  BY <1>1, <1>3, <2>2, Rewritten
  <2> HIDE DEF m
  <2>5. heap[u].thread = Nil /\ ~Open(heap, u)  BY <1>6 DEF IsOpen, Open
  <2>6. Refers(m, u) = {v}
    <3>1. UpvalValue(m, u) = v  BY <2>2, <2>4, <2>5 DEF UpvalValue
    <3> QED  BY <2>2, <2>4, <3>1, RefersCases
  <2>7. g'.state = "propagate" /\ u \in Marked(g') => Done(m, g', u)
    <3> SUFFICES ASSUME g'.state = "propagate", u \in Marked(g')  PROVE Done(m, g', u)
      OBVIOUS
    <3>1. g.c[u] \in Colours /\ g.c[u] # "gray"  BY <1>1, <1>3, <2>5 DEF Collectors, ColoursOK
    <3>2. g.c[u] = "black"  BY <1>3, <1>4, <3>1 DEF Marked, Colours
    <3> QED  BY <1>4, <2>6, <3>2 DEF Done
  <2>8. /\ \A p \in Objs \ {u} : heap'[p] = heap[p]
        /\ heap'[u].tt = "upval" /\ heap'[u].thread = heap[u].thread /\ heap'[u].slot = heap[u].slot /\ heap' \in Heaps
    BY <2>2, <2>3, <2>4
  <2>9. \A w \in Refers(heap', u) : Value(heap, g, w)  BY <1>2, <2>3, <2>6
  <2>10. g'.state = "propagate" /\ u \in Marked(g') => Done(heap', g', u)  BY <2>3, <2>7
  <2> QED  BY <1>1, <1>3, <1>4, <2>5, <2>8, <2>9, <2>10, FieldStep
<1> QED  BY <1>5, <1>6

LEMMA LinkedOpen ==
  ASSUME NEW s \in Collectors, NEW o \in Objs
  PROVE  Linked(s, o, {}) = Whitened(s, o)
<1>1. s.rootgc \cup {} = s.rootgc  OBVIOUS
<1>2. [s EXCEPT !.c = [s.c EXCEPT ![o] = s.white], !.rootgc = s.rootgc] = [s EXCEPT !.c = [s.c EXCEPT ![o] = s.white]]
  BY DEF Collectors
<1> QED  BY <1>1, <1>2 DEF Linked, Whitened

(* The function of OP_CLOSURE, over an upvalue that is there. *)
LEMMA ClosureKeeps ==
  ASSUME NEW h, NEW s, HeapInv(h, s), NEW u \in Alive(h, s), h[u].tt = "upval", NEW f \in Addrs, h[f].tt = "free",
         NEW k, k = With(h, f, [tt |-> "function", up |-> u]),
         u \in Addrs
  PROVE  NewObject(h, s, f, k) /\ k[f].tt = "function"
<1> DEFINE x == [tt |-> "function", up |-> u]
<1>1. h \in Heaps /\ f \in Objs /\ x \in Function /\ x.tt = "function" /\ x.up = u /\ u \in Objs
  BY DEF HeapInv, Objs, Function, Alive, Live
<1>2. k = With(h, f, x)  OBVIOUS
<1> HIDE DEF x
<1>3. k \in Heaps /\ k[f] = x /\ \A p \in Objs \ {f} : k[p] = h[p]
  <2>1. \A q : q = With(h, f, x) => q \in Heaps /\ q[f] = x /\ \A p \in Objs \ {f} : q[p] = h[p]
    BY <1>1, Rewritten
  <2> QED  BY <1>2, <2>1
<1>4. Refers(k, f) = {u}  BY <1>1, <1>3, RefersCases
<1>5. k[u].tt = "upval"  BY <1>1, <1>3
<1>6. Leads(k, f)  BY <1>1, <1>3, <1>4, <1>5 DEF Leads
<1> QED  BY <1>1, <1>3, <1>4, <1>6 DEF NewObject, Open

LEMMA ClosureStep ==
  ASSUME IInv, NEW f, NEW u \in Addrs, NEW i \in Slots, NEW j \in Slots, Closure(f, u, i, j)
  PROVE  IInv' /\ Spares
<1> DEFINE found == u \in openupval(running) /\ heap[u].slot = j
           x == [tt |-> "upval", thread |-> running, slot |-> j, val |-> Nil]
           h == With(heap, u, x)
           s == IF found /\ ~isdead(u) THEN g ELSE Whitened(g, u)
           k == With(h, f, [tt |-> "function", up |-> u])
<1>1. /\ HeapInv(heap, g) /\ Roots(heap, g, running) /\ heap \in Heaps /\ g \in Collectors /\ ColoursOK(heap, g)
      /\ SlotsExist(heap) /\ program' = program /\ called' = called /\ running' = running /\ program \in Programs
      /\ f \in Fresh({}) /\ (found \/ u \in Fresh({f}))
      /\ heap' = Stacked(k, running, i, f)
  BY DEF IInv, Closure, ProgramStep, HeapInv, Stacked, With
<1>2. g' = Link(s, f)  BY DEF Closure, Whitened
<1>3. f \in Addrs /\ f \in Objs /\ heap[f].tt = "free" /\ u \in Objs
  BY <1>1, GCParameters DEF Fresh, Objs
<1>4. /\ running \in Alive(heap, g) /\ running \in Live(heap) /\ running \in Objs /\ running # Nil
      /\ heap[running].tt = "thread"
      /\ i \in DOMAIN heap[running].stack /\ j \in DOMAIN heap[running].stack
      /\ Value(heap, g, heap[running].stack[j])
  <2>1. running \in Alive(heap, g) /\ running \in Live(heap) /\ running \in Objs /\ heap[running].tt = "thread"
    BY <1>1 DEF Roots, Alive, Live
  <2>2. i \in DOMAIN heap[running].stack /\ j \in DOMAIN heap[running].stack  BY DEF Slots, Stack
  <2>3. Value(heap, g, heap[running].stack[j])  BY <1>1, HeldValues DEF Slots, Stack
  <2> QED  BY <2>1, <2>2, <2>3, GCParameters
<1>5. j \in Nat
  <2>1. heap[running].stack \in Seq(Values)  BY <1>1, <1>4, Kinds DEF Thread
  <2> QED  BY <1>4, <2>1
<1>6. x \in Upval /\ x.tt = "upval" /\ x.thread = running /\ x.slot = j
  BY <1>4, <1>5 DEF Upval, Values
<1> HIDE DEF x
<1>7. h \in Heaps /\ h[u] = x /\ \A p \in Objs \ {u} : h[p] = heap[p]  BY <1>1, <1>3, <1>6, Rewritten
<1>8. found => heap[u].tt = "upval" /\ heap[u].thread = running /\ heap[u].slot = j
  BY DEF openupval, Is
<1>9. ~found => heap[u].tt = "free" /\ u # f  BY <1>1 DEF Fresh
<1>10. u # f /\ u # running  BY <1>3, <1>4, <1>8, <1>9
<1> HIDE DEF h, k
<1>11. UpvalValue(h, u) = heap[running].stack[j]
  BY <1>4, <1>6, <1>7, <1>10 DEF UpvalValue
<1>12. Refers(h, u) = {heap[running].stack[j]}  BY <1>6, <1>7, <1>11, RefersCases
<1>13. HeapInv(h, s) /\ Alive(h, s) = Alive(heap, g) \cup {u} /\ Plain(heap, g, h, s)
  <2>1. CASE found
    <3>1. UpvalValue(heap, u) = heap[running].stack[j]  BY <1>4, <1>8, <2>1 DEF UpvalValue
    <3>2. Refers(heap, u) = {heap[running].stack[j]}  BY <1>8, <2>1, <3>1, RefersCases
    <3>3. SameKinds(heap, h)  BY <1>6, <1>7, <1>8, <2>1 DEF SameKinds
    <3>4. ASSUME NEW o \in Objs  PROVE Refers(h, o) = Refers(heap, o)
      <4>1. CASE o = u  BY <1>12, <3>2, <4>1
      <4>2. CASE o # u
        <5>1. Open(heap, o) => heap[o].thread \in Objs /\ heap[heap[o].thread].tt = "thread"
          BY <1>1, UpvalValueType DEF Open
        <5>2. Open(heap, o) => h[heap[o].thread] = heap[heap[o].thread]  BY <1>7, <1>8, <2>1, <5>1
        <5> QED  BY <1>1, <1>7, <4>2, <5>2, SameRefers
      <4> QED  BY <4>1, <4>2
    <3>5. HeapInv(heap, s) /\ Alive(heap, s) = Alive(heap, g) \cup {u} /\ s.tmudata = g.tmudata
      <4>1. CASE ~isdead(u)
        <5>1. s = g  BY <2>1, <4>1
        <5>2. u \in Alive(heap, g)  BY <1>3, <1>8, <2>1, <4>1 DEF isdead, otherwhite, other, Alive, Live
        <5> QED  BY <1>1, <5>1, <5>2
      <4>2. CASE isdead(u)
        <5>1. s = Whitened(g, u)  BY <4>2
        <5>2. u \in Live(heap) /\ u \notin Alive(heap, g)
          BY <1>3, <1>8, <2>1, <4>2 DEF isdead, otherwhite, other, Alive, Live
        <5>3. g.state # "propagate"
          <6>1. g.state = "propagate" => Shape(heap, g)  BY <1>1, SoundHeap
          <6> QED  BY <5>2, <6>1 DEF Shape
        <5>4. Leads(heap, u) /\ Refers(heap, u) \ {Nil} \subseteq Alive(heap, g)
          BY <1>4, <1>8, <2>1, <3>2 DEF Leads, Value, Alive, Live
        <5>5. HeapInv(heap, s) /\ Alive(heap, s) = Alive(heap, g) \cup {u}
          BY <1>1, <5>1, <5>2, <5>3, <5>4, WhitenedKeeps
        <5>6. SameLists(g, s)  BY <1>1, <1>3, <5>1, WhitenedFields
        <5> QED  BY <5>5, <5>6 DEF SameLists
      <4> QED  BY <4>1, <4>2
    <3> HIDE DEF s
    <3>6. HeapInv(h, s) /\ Alive(h, s) = Alive(heap, s)  BY <3>3, <3>4, <3>5, SameRefersKeep
    <3>7. \A o \in Objs : h[o].tt = heap[o].tt  BY <3>3 DEF SameKinds
    <3>8. \A o \in Objs : heap[o].tt = "udata" => h[o].fin = heap[o].fin
      <4> TAKE o \in Objs
      <4>1. o # u => h[o] = heap[o]  BY <1>7
      <4> QED  BY <1>8, <2>1, <4>1
    <3>9. Plain(heap, g, h, s)  BY <3>5, <3>6, <3>7, <3>8, PlainSame
    <3> QED  BY <3>5, <3>6, <3>9
  <2>2. CASE ~found
    <3>1. Open(h, u)  BY <1>4, <1>6, <1>7 DEF Open
    <3>2. s = Linked(g, u, Joins(h, u))
      <4>1. s = Whitened(g, u)  BY <2>2
      <4> QED  BY <1>1, <1>3, <3>1, <4>1, LinkedOpen DEF Joins
    <3>3. Leads(h, u) /\ Refers(h, u) \ {Nil} \subseteq Alive(heap, g)
      <4>1. \A v \in Refers(h, u) \ {Nil} : v \in Alive(heap, g) /\ heap[v].tt # "upval"
        BY <1>4, <1>12 DEF Value
      <4>2. \A v \in Refers(h, u) \ {Nil} : v \in Objs /\ heap[v].tt # "free" /\ v # u /\ h[v] = heap[v]
        BY <1>7, <1>9, <2>2, <4>1 DEF Alive, Live
      <4> QED  BY <1>6, <1>7, <4>1, <4>2 DEF Leads
    <3>4. NewObject(heap, g, u, h)
      BY <1>3, <1>4, <1>6, <1>7, <1>9, <1>10, <2>2, <3>3 DEF NewObject
    <3> HIDE DEF s
    <3>5. HeapInv(h, s) /\ Alive(h, s) = Alive(heap, g) \cup {u} /\ s.tmudata = g.tmudata
      BY <1>1, <3>2, <3>4, AllocKeeps
    <3>6. Plain(heap, g, h, s)  BY <1>6, <1>7, <3>4, <3>5, AllocPlain
    <3> QED  BY <3>5, <3>6
  <2> QED  BY <2>1, <2>2
<1> HIDE DEF s
<1>14. /\ u \in Alive(h, s) /\ h[u].tt = "upval" /\ h[f].tt = "free"
       /\ running \in Alive(h, s) /\ h[running] = heap[running]
  BY <1>3, <1>4, <1>6, <1>7, <1>10, <1>13
<1>15. NewObject(h, s, f, k) /\ k[f].tt = "function"  BY <1>3, <1>13, <1>14, ClosureKeeps DEF k
<1>16. HeapInv(heap', g') /\ Plain(h, s, heap', g') /\ running \in Alive(heap', g') /\ heap'[running].tt = "thread"
  BY <1>1, <1>2, <1>4, <1>13, <1>14, <1>15, AllocHeld
<1>17. Plain(heap, g, heap', g')  BY <1>13, <1>16, PlainTwice
<1> QED  BY <1>1, <1>16, <1>17, PlainStep

-----------------------------------------------------------------------------
(* The invariant.                                                          *)

LEMMA InitEstablishes == Init => IInv
<1> SUFFICES ASSUME Init  PROVE IInv
  OBVIOUS
<1> DEFINE c == [o \in Objs |-> "w0"]
           root == {o \in Allocated : ~(Is(o, "upval") /\ IsOpen(o))}
<1>1. /\ program \in Programs /\ heap = StartHeap(program) /\ running = Main /\ called = {}
      /\ g = [state |-> "pause", white |-> "w0", c |-> c, gray |-> <<>>, grayagain |-> <<>>, weak |-> <<>>,
              rootgc |-> root, sweepgc |-> {}, tmudata |-> {}]
  BY DEF Init
<1>2. /\ heap \in Heaps /\ heap[Main].tt = "thread" /\ SlotsExist(heap)
      /\ \A o \in Objs : Leads(heap, o) /\ (heap[o].tt = "udata" => heap[o].fin = FALSE)
  <2> DEFINE k == StartHeap(program)
  <2>1. /\ k \in Heaps /\ k[Main].tt = "thread" /\ SlotsExist(k)
        /\ \A o \in Objs : Leads(k, o)
        /\ \A o \in Objs : k[o].tt = "udata" => k[o].fin = FALSE
    BY <1>1, GCParameters
  <2>2. heap = k  BY <1>1
  <2> HIDE DEF k
  <2> QED  BY <2>1, <2>2
<1>3. c \in [Objs -> Colours] /\ \A o \in Objs : c[o] = "w0"  BY DEF Colours, Whites
<1>4. root \subseteq Objs /\ root \subseteq Live(heap) /\ \A o \in Live(heap) : o \in root <=> ~Open(heap, o)
  BY DEF Allocated, Live, Is, IsOpen, Open
<1>5. <<>> \in Seq(Objs)  OBVIOUS
<1> HIDE DEF c, root
<1>6. /\ g.state = "pause" /\ g.white = "w0" /\ g.c = c /\ g.rootgc = root /\ g.sweepgc = {} /\ g.tmudata = {}
  BY <1>1
<1>7. g \in Collectors
  BY <1>1, <1>3, <1>4, <1>5 DEF Collectors, States, Whites
<1>8. Alive(heap, g) = Live(heap)
  <2>1. other(g.white) = "w1"  BY <1>6 DEF other
  <2> QED  BY <1>3, <1>6, <2>1 DEF Alive, Live
<1>9. ColoursOK(heap, g)  BY <1>3, <1>6 DEF ColoursOK
<1>10. RefersToAlive(heap, g)
  <2> SUFFICES ASSUME NEW o \in Alive(heap, g)
               PROVE  Leads(heap, o) /\ Refers(heap, o) \ {Nil} \subseteq Alive(heap, g)
    BY DEF RefersToAlive
  <2>1. o \in Objs /\ Leads(heap, o)  BY <1>2 DEF Alive, Live
  <2>2. Refers(heap, o) \subseteq Values  BY <1>2, <2>1, RefersType
  <2>3. \A v \in Refers(heap, o) \ {Nil} : v \in Objs /\ heap[v].tt # "free"
    BY <2>1, <2>2 DEF Leads, Values, Objs
  <2> QED  BY <1>8, <2>1, <2>3 DEF Live
<1>11. Listed(heap, g)  BY <1>4, <1>6 DEF Listed
<1>12. Swept(heap, g)  BY <1>3, <1>6 DEF Swept, Live
<1>13. HeapInv(heap, g)  BY <1>2, <1>6, <1>7, <1>9, <1>10, <1>11, <1>12 DEF HeapInv
<1>14. Roots(heap, g, running)  BY <1>1, <1>2, <1>8 DEF Roots, Live, Objs
<1>15. Finished(heap, g, called)
  <2>1. ASSUME NEW o \in Objs, heap[o].tt = "udata"
        PROVE  (heap[o].fin <=> o \in g.tmudata \cup called) /\ (o \notin Alive(heap, g) => heap[o].fin)
    BY <1>1, <1>2, <1>6, <1>8, <2>1 DEF Live
  <2> QED  BY <1>1, <2>1 DEF Finished
<1> QED  BY <1>1, <1>13, <1>14, <1>15 DEF IInv

LEMMA StackSteps ==
  ASSUME IInv, NEW i \in Slots,
         \/ \E o \in Addrs : New(o, i)
         \/ \E v \in Held \cup {Nil} : Move(i, v)
         \/ Get(i) \/ Close(i)
         \/ \E j \in Slots, f, u \in Addrs : Closure(f, u, i, j)
         \/ \E f \in Addrs, e \in Held : Nested(f, e, i)
         \/ \E t \in Held \cup {Main} : Is(t, "thread") /\ \E j \in DOMAIN heap[t].stack : Switch(t, i, j)
  PROVE  IInv' /\ Spares
<1>1. HeapInv(heap, g) /\ Roots(heap, g, running)  BY DEF IInv
<1>2. ASSUME NEW o \in Addrs, New(o, i)  PROVE IInv' /\ Spares  BY <1>2, NewStep
<1>3. ASSUME NEW v \in Held \cup {Nil}, Move(i, v)  PROVE IInv' /\ Spares
  <2>1. Value(heap, g, v)  BY <1>1, HeldValues
  <2> QED  BY <1>3, <2>1, MoveStep
<1>4. ASSUME Get(i)  PROVE IInv' /\ Spares
  <2>1. PICK o \in Held : \E v \in Fields(o) \ {Nil} : Move(i, v)  BY <1>4 DEF Get
  <2>2. PICK v \in Fields(o) \ {Nil} : Move(i, v)  BY <2>1
  <2>3. o \in Alive(heap, g) /\ heap[o].tt # "upval"  BY <1>1, HeldValues DEF Value
  <2>4. Value(heap, g, v)  BY <1>1, <2>3, GotValues
  <2> QED  BY <2>2, <2>4, MoveStep
<1>5. ASSUME Close(i)  PROVE IInv' /\ Spares  BY <1>5, CloseStep
<1>6. ASSUME NEW j \in Slots, NEW f \in Addrs, NEW u \in Addrs, Closure(f, u, i, j)  PROVE IInv' /\ Spares
  BY <1>6, ClosureStep
<1>7. ASSUME NEW f \in Addrs, NEW e \in Held, Nested(f, e, i)  PROVE IInv' /\ Spares
  BY <1>7, NestedStep
<1>8. ASSUME NEW t \in Held \cup {Main}, Is(t, "thread"), NEW j \in DOMAIN heap[t].stack, Switch(t, i, j)
      PROVE  IInv' /\ Spares
  BY <1>8, SwitchStep
<1> QED  BY <1>2, <1>3, <1>4, <1>5, <1>6, <1>7, <1>8

LEMMA ObjectSteps ==
  ASSUME IInv, NEW o \in Held,
         \/ \E k, v \in Held \cup {Nil} : SetTable(o, k, v)
         \/ \E v \in Held \cup {Nil} : SetEnv(o, v) \/ SetUpval(o, v)
         \/ \E mode \in program.modes : SetMode(o, mode)
  PROVE  IInv' /\ Spares
<1>1. ASSUME NEW k \in Held \cup {Nil}, NEW v \in Held \cup {Nil}, SetTable(o, k, v)  PROVE IInv' /\ Spares
  BY <1>1, SetTableStep
<1>2. ASSUME NEW v \in Held \cup {Nil}, SetEnv(o, v)  PROVE IInv' /\ Spares  BY <1>2, SetEnvStep
<1>3. ASSUME NEW v \in Held \cup {Nil}, SetUpval(o, v)  PROVE IInv' /\ Spares  BY <1>3, SetUpvalStep
<1>4. ASSUME NEW mode \in program.modes, SetMode(o, mode)  PROVE IInv' /\ Spares  BY <1>4, SetModeStep
<1> QED  BY <1>1, <1>2, <1>3, <1>4

LEMMA NextKeeps ==
  ASSUME IInv, [Next]_vars
  PROVE  IInv' /\ Spares
<1>1. CASE UNCHANGED vars
  <2>1. IInv'  BY <1>1 DEF vars, IInv, HeapInv, Roots, Finished
  <2>2. Spares  BY <1>1 DEF vars, Spares, Alive, Live
  <2> QED  BY <2>1, <2>2
<1>2. CASE Step  BY <1>2, CollectorStep DEF Step
<1>3. CASE FullStart \/ FullStep  BY <1>3, FullSteps
<1>4. ASSUME NEW i \in Slots,
         \/ \E o \in Addrs : New(o, i)
         \/ \E v \in Held \cup {Nil} : Move(i, v)
         \/ Get(i) \/ Close(i)
         \/ \E j \in Slots, f, u \in Addrs : Closure(f, u, i, j)
         \/ \E f \in Addrs, e \in Held : Nested(f, e, i)
         \/ \E t \in Held \cup {Main} : Is(t, "thread") /\ \E j \in DOMAIN heap[t].stack : Switch(t, i, j)
      PROVE IInv' /\ Spares
  BY <1>4, StackSteps
<1>5. ASSUME NEW o \in Held,
         \/ \E k, v \in Held \cup {Nil} : SetTable(o, k, v)
         \/ \E v \in Held \cup {Nil} : SetEnv(o, v) \/ SetUpval(o, v)
         \/ \E mode \in program.modes : SetMode(o, mode)
      PROVE IInv' /\ Spares
  BY <1>5, ObjectSteps
<1> QED  BY <1>1, <1>2, <1>3, <1>4, <1>5 DEF Next

(* Whatever the program does between the collector's steps: what is not    *)
(* dead refers to nothing dead, what is marked and not listed to nothing   *)
(* unmarked, and every object is on the list that the sweep expects.       *)
THEOREM CollectorInvariant == Spec => []IInv
<1>1. Init => IInv  BY InitEstablishes
<1>2. IInv /\ [Next]_vars => IInv'  BY NextKeeps
<1> QED  BY <1>1, <1>2, PTL DEF Spec

(* A set that has what its objects keep alive. *)
Closed(h, C) == \A o \in C : Strong(h, o) \ {Nil} \subseteq C

(* One step further from R, and the steps from S. *)
Further(R) == R \cup UNION {Strong(heap, o) \ {Nil} : o \in R}
Reaches(S, f) == f[0] = S /\ \A n \in Nat : f[n + 1] = Further(f[n])

LEMMA ReachSteps ==
  ASSUME NEW X, NEW S \in X, \A R \in X : Further(R) \in X
  PROVE  \E f \in [Nat -> X] : Reaches(S, f) /\ ReachFrom(S) = f[Cardinality(Objs)]
<1> DEFINE F == [R \in X |-> Further(R)]
           Round(f) == [n \in Nat |-> IF n = 0 THEN S
                                      ELSE LET R == f[n - 1] IN R \cup UNION {Strong(heap, o) \ {Nil} : o \in R}]
           reached == CHOOSE f : f = Round(f)
<1>1. ReachFrom(S) = reached[Cardinality(Objs)]  BY DEF ReachFrom
<1>2. F \in [X -> X]  OBVIOUS
<1>3. PICK f \in [Nat -> X] : Iterates(S, F, f)
  <2> HIDE DEF F
  <2> QED  BY <1>2, Repeats
<1>4. f = Round(f)
  <2>1. \A n \in Nat : n # 0 => f[n - 1] \in X  BY <1>3
  <2>2. \A n \in Nat : n # 0 => F[f[n - 1]] = Further(f[n - 1])  BY <2>1 DEF F
  <2>3. \A n \in Nat : (IF n = 0 THEN S ELSE F[f[n - 1]])
                       = (IF n = 0 THEN S ELSE LET R == f[n - 1] IN R \cup UNION {Strong(heap, o) \ {Nil} : o \in R})
    BY <2>2 DEF Further
  <2> HIDE DEF F
  <2> QED  BY <1>3, <2>3 DEF Iterates
<1>5. reached = Round(reached)  BY <1>4
<1> HIDE DEF reached, F
<1>6. reached[0] = S  BY <1>5
<1>7. ASSUME NEW n \in Nat  PROVE reached[n + 1] = Further(reached[n])
  <2>1. n + 1 \in Nat /\ n + 1 # 0 /\ (n + 1) - 1 = n  OBVIOUS
  <2> QED  BY <1>5, <2>1 DEF Further
<1>8. Reaches(S, reached)  BY <1>6, <1>7 DEF Reaches
<1> DEFINE T == {n \in Nat : reached[n] \in X}
<1>9. T = Nat
  <2>1. 0 \in T  BY <1>6
  <2>2. ASSUME NEW n \in T  PROVE n + 1 \in T  BY <1>7, <2>2
  <2>3. T \subseteq Nat  OBVIOUS
  <2> HIDE DEF T
  <2> QED  BY <2>1, <2>2, <2>3, Successors
<1>10. reached \in [Nat -> X]
  <2>1. \A n \in Nat : reached[n] \in X  BY <1>9
  <2>2. DOMAIN reached = Nat /\ reached = [n \in Nat |-> reached[n]]  BY <1>5
  <2> QED  BY <2>1, <2>2
<1> QED  BY <1>1, <1>8, <1>10

(* What is reached from S is in every closed set around S. *)
LEMMA ReachLeast ==
  ASSUME NEW C, Closed(heap, C), NEW S \in SUBSET C
  PROVE  ReachFrom(S) \subseteq C
<1>1. \A R \in SUBSET C : Further(R) \in SUBSET C  BY DEF Further, Closed
<1>2. PICK f \in [Nat -> SUBSET C] : ReachFrom(S) = f[Cardinality(Objs)]
  <2> DEFINE X == SUBSET C
  <2>1. S \in X /\ \A R \in X : Further(R) \in X  BY <1>1
  <2> HIDE DEF X
  <2>2. \E f \in [Nat -> X] : ReachFrom(S) = f[Cardinality(Objs)]  BY <2>1, ReachSteps
  <2> QED  BY <2>2 DEF X
<1> QED  BY <1>2, FiniteObjs

(* What can be reached from what is not dead is not dead. *)
LEMMA ReachedAlive ==
  ASSUME IInv
  PROVE  Reachable \subseteq Alive(heap, g)
<1>1. Closed(heap, Alive(heap, g))
  <2> SUFFICES ASSUME NEW o \in Alive(heap, g)  PROVE Strong(heap, o) \ {Nil} \subseteq Alive(heap, g)
    BY DEF Closed
  <2>1. o \in Objs /\ heap \in Heaps /\ SlotsExist(heap)  BY DEF Alive, Live, IInv, HeapInv
  <2>2. Refers(heap, o) \ {Nil} \subseteq Alive(heap, g)  BY DEF IInv, HeapInv, RefersToAlive
  <2>3. Strong(heap, o) \subseteq Refers(heap, o)  BY <2>1, RefersType
  <2> QED  BY <2>2, <2>3
<1>2. {Main, running} \subseteq Alive(heap, g)  BY DEF IInv, Roots
<1> QED  BY <1>1, <1>2, ReachLeast DEF Reachable

(* Nothing the program can reach is freed, weak tables included. *)
THEOREM NothingDanglesAlways == Spec => []NothingDangles
<1>1. ASSUME IInv  PROVE NothingDangles
  <2> SUFFICES ASSUME NEW o \in Reachable  PROVE Refers(heap, o) \ {Nil} \subseteq Allocated
    BY DEF NothingDangles
  <2>1. o \in Alive(heap, g)  BY <1>1, ReachedAlive
  <2>2. Refers(heap, o) \ {Nil} \subseteq Alive(heap, g)  BY <1>1, <2>1 DEF IInv, HeapInv, RefersToAlive
  <2> QED  BY <2>2 DEF Alive, Live, Allocated
<1>2. IInv => NothingDangles  BY <1>1
<1> QED  BY <1>2, CollectorInvariant, PTL

LEMMA TypesHold ==
  ASSUME IInv
  PROVE  TypeOK
<1>1. HeapInv(heap, g) /\ Roots(heap, g, running) /\ Finished(heap, g, called)  BY DEF IInv
<1>2. heap \in Heaps /\ g.c \in [Objs -> Whites \cup {"gray", "black"}]
  BY <1>1 DEF HeapInv, Collectors, Colours
<1>3. running \in Objs  BY <1>1 DEF Roots, Alive, Live
<1>4. called \subseteq Allocated
  <2>1. \A o \in called : o \in Objs /\ heap[o].tt = "udata"  BY <1>1 DEF Finished
  <2> QED  BY <2>1 DEF Allocated
<1>5. g.rootgc \cup g.tmudata \subseteq Allocated /\ g.sweepgc \subseteq g.rootgc
  <2>1. g.rootgc \subseteq Live(heap) /\ g.tmudata \subseteq Live(heap) /\ g.sweepgc \subseteq g.rootgc
    BY <1>1 DEF HeapInv, Listed, Alive
  <2> QED  BY <2>1 DEF Live, Allocated
<1> QED  BY <1>2, <1>3, <1>4, <1>5 DEF TypeOK

LEMMA ListsHold ==
  ASSUME IInv
  PROVE  OnOneList
<1> SUFFICES ASSUME g.state = "propagate"
             PROVE  /\ IsInjective(g.gray \o g.grayagain \o g.weak)
                    /\ \A i \in 1 .. Len(g.gray \o g.grayagain \o g.weak) :
                         g.c[(g.gray \o g.grayagain \o g.weak)[i]] = "gray"
  BY DEF OnOneList
<1>1. Shape(heap, g)  BY SoundHeap DEF IInv
<1>2. g.gray \in Seq(Objs) /\ g.grayagain \in Seq(Objs) /\ g.weak \in Seq(Objs)  BY <1>1 DEF Shape, Collectors
<1> DEFINE q == g.gray \o g.grayagain
           r == q \o g.weak
<1>3. /\ q \in Seq(Objs) /\ Range(q) = Range(g.gray) \cup Range(g.grayagain)
      /\ IsInjective(q)
  BY <1>1, <1>2, Joined DEF Shape, Distinct
<1> HIDE DEF q
<1>4. r \in Seq(Objs) /\ Range(r) = Range(q) \cup Range(g.weak) /\ IsInjective(r)
  BY <1>1, <1>2, <1>3, Joined DEF Shape, Distinct
<1>5. Range(r) = Lists(g)  BY <1>3, <1>4 DEF Lists
<1> HIDE DEF r
<1>6. \A i \in 1 .. Len(r) : r[i] \in Range(r)  BY <1>4 DEF Range
<1>7. \A i \in 1 .. Len(r) : g.c[r[i]] = "gray"  BY <1>1, <1>5, <1>6 DEF Shape
<1> QED  BY <1>4, <1>7 DEF r, q

LEMMA RestHolds ==
  ASSUME IInv
  PROVE  WhiteAtRest
<1>1. HeapInv(heap, g) /\ g \in Collectors  BY DEF IInv, HeapInv
<1>2. ASSUME g.state \in {"pause", "finalize"}, NEW o \in Allocated \ g.tmudata  PROVE g.c[o] = g.white
  <2>1. o \in Live(heap)  BY <1>2 DEF Allocated, Live
  <2>2. Swept(heap, g) /\ g.sweepgc = {}  BY <1>1, <1>2 DEF HeapInv, Listed
  <2> QED  BY <1>2, <2>1, <2>2 DEF Swept
<1>3. \A o \in Reachable : ~isdead(o)
  BY ReachedAlive DEF Alive, isdead, otherwhite, other
<1> QED  BY <1>2, <1>3 DEF WhiteAtRest

LEMMA FreedWereCalled ==
  ASSUME IInv, [Next]_vars
  PROVE  /\ g.tmudata \cap called = {}
         /\ \A u \in Addrs : Is(u, "udata") /\ heap'[u].tt = "free" => u \in called
<1>1. Finished(heap, g, called) /\ Listed(heap, g)  BY DEF IInv, HeapInv
<1>2. Spares  BY NextKeeps
<1>3. ASSUME NEW u \in Addrs, Is(u, "udata"), heap'[u].tt = "free"  PROVE u \in called
  <2>1. u \in Objs /\ heap[u].tt = "udata" /\ u \notin Alive(heap, g)  BY <1>2, <1>3 DEF Is, Spares
  <2>2. u \in g.tmudata \cup called  BY <1>1, <2>1 DEF Finished
  <2> QED  BY <1>1, <2>1, <2>2 DEF Listed
<1>4. g.tmudata \cap called = {}  BY <1>1 DEF Finished
<1> QED  BY <1>3, <1>4

(* __gc runs once for a userdata, and before it is freed. *)
THEOREM FinalizedOnceAlways == Spec => FinalizedOnce
<1>1. ASSUME IInv, [Next]_vars
      PROVE  [/\ g.tmudata \cap called = {}
              /\ \A u \in Addrs : Is(u, "udata") /\ heap'[u].tt = "free" => u \in called]_vars
  BY <1>1, FreedWereCalled
<1> QED  BY <1>1, CollectorInvariant, PTL DEF Spec, FinalizedOnce

(* No object is on two of the collector's lists, or twice on one; where no *)
(* barrier may fire all are white, and the program never holds a dead one. *)
THEOREM ListsAndColoursAlways == Spec => []ListsAndColours
<1>1. IInv => ListsAndColours  BY TypesHold, ListsHold, RestHolds DEF ListsAndColours
<1> QED  BY <1>1, CollectorInvariant, PTL

-----------------------------------------------------------------------------
(* Full collections.                                                       *)

(* Marking stays within a closed set. *)
Within(s, C) == s \in Collectors /\ Shape(heap, s) /\ Marked(s) \subseteq C

LEMMA MarkWithin ==
  ASSUME NEW C, Closed(heap, C), NEW s \in Collectors, Marked(s) \subseteq C, NEW V, V \ {Nil} \subseteq C
  PROVE  Marked(mark(s, V)) \subseteq C
<1> DEFINE os == ToGray(s, V)
           us == ToBlack(s, V)
           t == mark(s, V)
<1>1. \A o \in Objs : t.c[o] = IF o \in os THEN "gray" ELSE IF o \in us THEN "black" ELSE s.c[o]
  BY MarkFields
<1>2. us \subseteq C
  <2>1. us \subseteq V /\ us \subseteq Objs  BY DEF ToBlack, White
  <2> QED  BY <2>1, GCParameters
<1>3. \A u \in us : heap[u].env = Nil \/ heap[u].env \in C
  <2> TAKE u \in us
  <2>1. Strong(heap, u) = {heap[u].env}  BY DEF ToBlack, Is, Strong
  <2> QED  BY <1>2, <2>1 DEF Closed
<1>4. os \subseteq C
  <2> SUFFICES ASSUME NEW o \in os  PROVE o \in C
    OBVIOUS
  <2>1. o \in Objs /\ (o \in V \/ \E u \in us : o = heap[u].env)  BY DEF ToGray, White
  <2>2. o # Nil  BY <2>1, GCParameters
  <2> QED  BY <1>3, <2>1, <2>2
<1> HIDE DEF os, us, t
<1>5. \A o \in Marked(t) : o \in os \cup us \cup Marked(s)  BY <1>1 DEF Marked
<1> QED  BY <1>2, <1>4, <1>5 DEF t

LEMMA MarkUpvalWithin ==
  ASSUME NEW C, Closed(heap, C), NEW s \in Collectors, Marked(s) \subseteq C, NEW u \in C, heap[u].tt = "upval"
  PROVE  Marked(MarkUpval(s, u)) \subseteq C
<1> DEFINE r == mark(s, {UpvalValue(heap, u)})
           t == [r EXCEPT !.c = [r.c EXCEPT ![u] = IF IsOpen(u) THEN "gray" ELSE "black"]]
<1>1. {UpvalValue(heap, u)} \ {Nil} \subseteq C
  <2>1. Strong(heap, u) = {UpvalValue(heap, u)}  BY DEF Strong
  <2> QED  BY <2>1 DEF Closed
<1>2. r \in Collectors /\ Marked(r) \subseteq C  BY <1>1, MarkFields, MarkWithin
<1>3. MarkUpval(s, u) = s \/ MarkUpval(s, u) = t  BY DEF MarkUpval
<1> HIDE DEF r
<1>4. \A o \in Objs \ {u} : t.c[o] = r.c[o]  BY <1>2 DEF Collectors
<1> HIDE DEF t
<1>5. Marked(t) \subseteq Marked(r) \cup {u}  BY <1>4 DEF Marked
<1> QED  BY <1>2, <1>3, <1>5

LEMMA PropagateWithin ==
  ASSUME Sound(heap), NEW C, Closed(heap, C), NEW s, Within(s, C), s.gray # <<>>
  PROVE  Within(propagatemark(s), C)
<1> DEFINE o == Head(s.gray)
           r == [s EXCEPT !.gray = Tail(s.gray), !.c = [s.c EXCEPT ![o] = "black"]]
           w == [r EXCEPT !.weak = <<o>> \o r.weak, !.c = [r.c EXCEPT ![o] = "gray"]]
           x == [r EXCEPT !.c = [r.c EXCEPT ![o] = "gray"], !.grayagain = <<o>> \o r.grayagain]
           t == propagatemark(s)
<1>1. s \in Collectors /\ Shape(heap, s) /\ Marked(s) \subseteq C  BY DEF Within
<1>2. Grows(heap, s, t)  BY <1>1, PropagateGrows
<1>3. s.gray \in Seq(Objs) /\ s.weak \in Seq(Objs) /\ s.grayagain \in Seq(Objs) /\ s.c \in [Objs -> Colours]
  BY <1>1 DEF Collectors
<1>4. o \in Objs /\ Tail(s.gray) \in Seq(Objs) /\ o \in Range(s.gray)  BY <1>3, WithoutHead
<1>5. heap[o].tt \in {"table", "function", "thread"} /\ s.c[o] = "gray"  BY <1>1, <1>4 DEF Shape, Lists
<1>6. <<o>> \o s.weak \in Seq(Objs) /\ <<o>> \o s.grayagain \in Seq(Objs)  BY <1>3, <1>4, Prepended
<1>7. o \in C  BY <1>1, <1>4, <1>5 DEF Marked, Whites
<1> HIDE DEF o
<1>8. \A f \in [Objs -> Colours], k \in Colours : [f EXCEPT ![o] = k] \in [Objs -> Colours]
  OBVIOUS
<1>9. "gray" \in Colours /\ "black" \in Colours  BY DEF Colours
<1>10. r.c \in [Objs -> Colours] /\ w.c \in [Objs -> Colours] /\ x.c \in [Objs -> Colours]
  BY <1>1, <1>3, <1>8, <1>9 DEF Collectors
<1>11. r \in Collectors /\ w \in Collectors /\ x \in Collectors
  BY <1>1, <1>3, <1>4, <1>6, <1>10 DEF Collectors
<1>12. \A p \in Objs \ {o} : r.c[p] = s.c[p] /\ w.c[p] = s.c[p] /\ x.c[p] = s.c[p]
  BY <1>1, <1>3 DEF Collectors
<1> DEFINE ok(y) == y \in Collectors /\ Marked(y) \subseteq C
<1>13. ok(r) /\ ok(w) /\ ok(x)
  <2> HIDE DEF r, w, x
  <2> QED  BY <1>1, <1>7, <1>11, <1>12 DEF Marked
<1>14. Strong(heap, o) \ {Nil} \subseteq C  BY <1>7 DEF Closed
<1>15. CASE heap[o].tt = "table"
  <2>1. t = mark(r, Strong(heap, o)) \/ t = mark(w, Strong(heap, o))
    BY <1>15 DEF propagatemark, traversetable, o
  <2> HIDE DEF r, w, x, t
  <2> QED  BY <1>2, <1>13, <1>14, <2>1, MarkWithin DEF Grows, Shape, Within, t
<1>16. CASE heap[o].tt = "function"
  <2>1. t = MarkUpval(r, heap[o].up)  BY <1>16 DEF propagatemark, o
  <2>2. heap[o].up \in Addrs /\ heap[o].up # Nil
    <3>1. heap[o].up \in Addrs  BY <1>4, <1>16, Kinds DEF Function, Sound
    <3> QED  BY <3>1, GCParameters DEF Objs
  <2>3. heap[heap[o].up].tt = "upval" /\ heap[o].up \in C
    <3>1. Strong(heap, o) = {heap[o].up} /\ Refers(heap, o) = {heap[o].up}  BY <1>16 DEF Strong, Refers
    <3> QED  BY <1>4, <1>14, <1>16, <2>2, <3>1 DEF Sound, Leads
  <2> HIDE DEF r, w, x, t
  <2> QED  BY <1>2, <1>13, <2>1, <2>3, MarkUpvalWithin DEF Grows, Shape, Within, t
<1>17. CASE heap[o].tt = "thread"
  <2>1. t = mark(x, Strong(heap, o))  BY <1>17 DEF propagatemark, traversestack, o, Strong
  <2> HIDE DEF r, w, x, t
  <2> QED  BY <1>2, <1>13, <1>14, <2>1, MarkWithin DEF Grows, Shape, Within, t
<1> QED  BY <1>5, <1>15, <1>16, <1>17

LEMMA PropagateAllWithin ==
  ASSUME Sound(heap), NEW C, Closed(heap, C), NEW s, Within(s, C)
  PROVE  Within(propagateall(s), C)
<1> DEFINE X == {t \in Collectors : Within(t, C)}
<1>1. s \in X  BY DEF Within
<1>2. \A t \in X : t.gray # <<>> => propagatemark(t) \in X
  <2> TAKE t \in X
  <2>1. t.gray # <<>> => Within(propagatemark(t), C)  BY PropagateWithin
  <2> QED  BY <2>1 DEF Within
<1> HIDE DEF X
<1>3. propagateall(s) \in X  BY <1>1, <1>2, PropagateAllStays
<1> QED  BY <1>3 DEF X

(* The atomic end of the marking marks within a closed set that has the    *)
(* roots and the userdata that wait by then.                               *)
LEMMA EndingWithin ==
  ASSUME Sound(heap), HeapInv(heap, g), Roots(heap, g, running), g.state = "propagate", g.gray = <<>>,
         NEW C, Closed(heap, C), {Main, running} \subseteq C, Marked(g) \subseteq C
  PROVE  Within(Ending(g), C)
<1> DEFINE us == {v \in Objs : Is(v, "upval") /\ IsOpen(v) /\ g.c[v] = "gray"}
           V == {UpvalValue(heap, u) : u \in us}
           r1 == remarkupvals(g)
           s2 == propagateall(r1)
           a3 == [s2 EXCEPT !.gray = s2.weak, !.weak = <<>>]
           m3 == mark(a3, {running})
           s3 == propagateall(m3)
           a4 == [s3 EXCEPT !.gray = s3.grayagain, !.grayagain = <<>>]
           s4 == propagateall(a4)
<1>1. Ending(g) = s4  BY DEF Ending, WeakAgain, GrayAgain
<1>2. Agrees(heap)  BY DEF Agrees
<1>3. Within(g, C)  BY DEF HeapInv, Tricolour, Shape, Within
<1>4. V \ {Nil} \subseteq C /\ Markable(heap, V)
  <2> SUFFICES ASSUME NEW u \in us, UpvalValue(heap, u) # Nil
               PROVE  /\ UpvalValue(heap, u) \in C
                      /\ UpvalValue(heap, u) \in Objs /\ heap[UpvalValue(heap, u)].tt \notin {"free", "upval"}
    BY DEF Markable
  <2>1. u \in Objs /\ heap[u].tt = "upval" /\ u \in Marked(g)  BY DEF Is, Marked, Whites
  <2>2. Markable(heap, Refers(heap, u))  BY <2>1, ReferredMarkable
  <2>3. Refers(heap, u) = {UpvalValue(heap, u)} /\ Strong(heap, u) = {UpvalValue(heap, u)}
    BY <2>1, RefersCases DEF Strong
  <2>4. Strong(heap, u) \ {Nil} \subseteq C  BY <2>1 DEF Closed
  <2> QED  BY <2>2, <2>3, <2>4 DEF Markable
<1>5. r1 = mark(g, V)  BY DEF remarkupvals
<1> HIDE DEF V
<1>6. Within(r1, C)
  <2>1. Grows(heap, g, mark(g, V))  BY <1>2, <1>3, <1>4, MarkGrows DEF Within
  <2> QED  BY <1>3, <1>4, <1>5, <2>1, MarkWithin DEF Within, Grows, Shape
<1> HIDE DEF r1
<1>7. Within(s2, C) /\ s2.gray = <<>>  BY <1>6, PropagateAllWithin, PropagateAllGrows DEF Within
<1> HIDE DEF s2
<1>8. Within(a3, C)
  <2>1. Shape(heap, a3) /\ Marked(a3) = Marked(s2)  BY <1>7, Relisted DEF Within
  <2> HIDE DEF a3
  <2> QED  BY <1>7, <2>1 DEF Within, Shape
<1> HIDE DEF a3
<1>9. Within(m3, C)
  <2>1. Markable(heap, {running})  BY DEF Roots, Markable, Alive, Live
  <2>2. Grows(heap, a3, m3)  BY <1>2, <1>8, <2>1, MarkGrows DEF Within
  <2> QED  BY <1>8, <2>2, MarkWithin DEF Within, Grows, Shape
<1> HIDE DEF m3
<1>10. Within(s3, C) /\ s3.gray = <<>>  BY <1>9, PropagateAllWithin, PropagateAllGrows DEF Within
<1> HIDE DEF s3
<1>11. Within(a4, C)
  <2>1. Shape(heap, a4) /\ Marked(a4) = Marked(s3)  BY <1>10, Relisted DEF Within
  <2> HIDE DEF a4
  <2> QED  BY <1>10, <2>1 DEF Within, Shape
<1> HIDE DEF a4
<1>12. Within(s4, C)  BY <1>11, PropagateAllWithin
<1> QED  BY <1>1, <1>12

LEMMA KeepingWithin ==
  ASSUME Sound(heap), NEW C, Closed(heap, C), NEW s, Within(s, C), s.gray = <<>>,
         s.tmudata \cup Separated(s) \subseteq C,
         \A o \in s.tmudata : o \in Objs /\ heap[o].tt = "udata"
  PROVE  Marked(propagateall(marktmu(Keeping(s)))) \subseteq C
<1> DEFINE a == Keeping(s)
           b == Unmarked(a)
           m == marktmu(a)
<1>1. Shape(heap, s) /\ Marked(s) \subseteq C  BY DEF Within
<1>2. /\ m = mark(b, a.tmudata) /\ Shape(heap, b) /\ Marked(b) = Marked(s) \ a.tmudata
      /\ a.tmudata = s.tmudata \cup Separated(s) /\ Markable(heap, a.tmudata)
  BY <1>1, UnmarkedFields
<1> HIDE DEF a, b, m
<1>3. Grows(heap, b, mark(b, a.tmudata))  BY <1>2, MarkGrows DEF Agrees
<1>4. Marked(mark(b, a.tmudata)) \subseteq C
  <2>1. b \in Collectors /\ Marked(b) \subseteq C /\ a.tmudata \ {Nil} \subseteq C
    BY <1>1, <1>2 DEF Shape
  <2> QED  BY <2>1, MarkWithin
<1>5. Within(m, C)  BY <1>2, <1>3, <1>4 DEF Within, Grows, Shape
<1> QED  BY <1>5, PropagateAllWithin DEF Within, m, a

(* What is reached from S is a closed set.                                 *)
LEMMA ReachClosed ==
  ASSUME heap \in Heaps, SlotsExist(heap), NEW S \in SUBSET Objs
  PROVE  Closed(heap, ReachFrom(S)) /\ S \subseteq ReachFrom(S) /\ ReachFrom(S) \subseteq Objs
<1> DEFINE X == SUBSET Objs
<1>1. \A o \in Objs : Strong(heap, o) \ {Nil} \subseteq Objs
  <2> TAKE o \in Objs
  <2>1. Strong(heap, o) \subseteq Values  BY RefersType
  <2> QED  BY <2>1 DEF Values, Objs
<1>2. \A R \in X : Further(R) \in X  BY <1>1 DEF Further
<1>3. S \in X  OBVIOUS
<1> HIDE DEF X
<1>4. PICK f \in [Nat -> X] : Reaches(S, f) /\ ReachFrom(S) = f[Cardinality(Objs)]
  BY <1>2, <1>3, ReachSteps
<1>5. f[0] = S /\ \A n \in Nat : f[n + 1] = Further(f[n])  BY <1>4 DEF Reaches
<1>6. \A R \in X : R \subseteq Objs /\ IsFiniteSet(R) /\ Cardinality(R) \in Nat
  BY FiniteObjs, FS_Subset, FS_CardinalityType DEF X
<1>7. \A R \in X : R \subseteq Further(R) /\ (Closed(heap, R) <=> Further(R) = R)
  BY DEF Further, Closed
<1> DEFINE T == {n \in Nat : S \subseteq f[n] /\ (Further(f[n]) = f[n] \/ Cardinality(f[n]) >= n)}
<1>8. 0 \in T  BY <1>3, <1>5, <1>6
<1>9. ASSUME NEW n \in T  PROVE n + 1 \in T
  <2>1. n \in Nat /\ n + 1 \in Nat /\ f[n] \in X /\ f[n + 1] \in X /\ f[n + 1] = Further(f[n])
    BY <1>4, <1>5
  <2>2. S \subseteq f[n + 1]  BY <1>7, <2>1
  <2>3. CASE Further(f[n]) = f[n]  BY <2>1, <2>2, <2>3
  <2>4. CASE Further(f[n]) # f[n]
    <3>1. Cardinality(f[n]) >= n  BY <2>4
    <3>2. f[n] \subseteq f[n + 1] /\ f[n] # f[n + 1]  BY <1>7, <2>1, <2>4
    <3>3. IsFiniteSet(f[n + 1]) /\ Cardinality(f[n]) \in Nat /\ Cardinality(f[n + 1]) \in Nat  BY <1>6, <2>1
    <3>4. Cardinality(f[n]) < Cardinality(f[n + 1])  BY <3>2, <3>3, FS_Subset
    <3>5. Cardinality(f[n + 1]) >= n + 1
      <4> DEFINE p == Cardinality(f[n])
                 q == Cardinality(f[n + 1])
      <4>1. p \in Nat /\ q \in Nat /\ p < q /\ p >= n /\ n \in Nat  BY <2>1, <3>1, <3>3, <3>4
      <4> HIDE DEF p, q
      <4>2. q >= n + 1  BY <4>1
      <4> QED  BY <4>2 DEF q
    <3> QED  BY <2>1, <2>2, <3>5
  <2> QED  BY <2>3, <2>4
<1>10. T = Nat
  <2>1. T \subseteq Nat  OBVIOUS
  <2> HIDE DEF T
  <2> QED  BY <1>8, <1>9, <2>1, Successors
<1> DEFINE m == Cardinality(Objs)
           R == f[m]
<1>11. m \in Nat /\ R \in X  BY <1>4, FiniteObjs
<1>12. S \subseteq R /\ (Further(R) = R \/ Cardinality(R) >= m)  BY <1>10, <1>11
<1>13. Cardinality(R) >= m => R = Objs
  <2>1. R \subseteq Objs /\ Cardinality(R) \in Nat  BY <1>6, <1>11
  <2>2. R # Objs => Cardinality(R) < Cardinality(Objs)  BY <2>1, FiniteObjs, FS_Subset
  <2> QED  BY <1>11, <2>1, <2>2
<1>14. R = Objs => Further(R) = R  BY <1>1 DEF Further
<1> QED  BY <1>4, <1>6, <1>7, <1>11, <1>12, <1>13, <1>14

(* markroot forgets what was marked: only userdata that wait are not white. *)
LEMMA MarkrootWithin ==
  ASSUME HeapInv(heap, g), Roots(heap, g, running), g.state \in {"pause", "finalize"},
         NEW C, Closed(heap, C), {Main} \cup g.tmudata \subseteq C, {o \in Objs : heap[o].tt = "free"} \subseteq C
  PROVE  Marked(markroot(g)) \subseteq C
<1> DEFINE s == [g EXCEPT !.gray = <<>>, !.grayagain = <<>>, !.weak = <<>>, !.state = "propagate"]
<1>1. g \in Collectors /\ <<>> \in Seq(Objs) /\ "propagate" \in States  BY DEF HeapInv, States
<1>2. s \in Collectors /\ s.c = g.c  BY <1>1 DEF Collectors
<1>3. markroot(g) = mark(s, {Main})  BY DEF markroot
<1> HIDE DEF s
<1>4. \A o \in Live(heap) : g.c[o] = g.white \/ o \in g.tmudata
  BY DEF HeapInv, Listed, Swept
<1>5. Marked(s) \subseteq C
  <2>1. g.white \in Whites  BY <1>1 DEF Collectors
  <2> QED  BY <1>2, <1>4, <2>1 DEF Marked, Live
<1> QED  BY <1>2, <1>3, <1>5, MarkWithin

(* What the program can reach, or a userdata that waits can. *)
Kept == ReachFrom({Main, running} \cup g.tmudata)
Frees == {o \in Objs : heap[o].tt = "free"}

LEMMA KeptClosed ==
  ASSUME heap \in Heaps, SlotsExist(heap), NEW S \in SUBSET Objs
  PROVE  Closed(heap, ReachFrom(S) \cup Frees) /\ S \subseteq ReachFrom(S)
<1>1. Closed(heap, ReachFrom(S)) /\ S \subseteq ReachFrom(S)  BY ReachClosed
<1>2. \A o \in Frees : Strong(heap, o) = {}  BY DEF Frees, Strong
<1> QED  BY <1>1, <1>2 DEF Closed

(* In the second half of a full collection only that is marked.            *)
FullMarks ==
  full = "mark" /\ g.state = "propagate" => Marked(g) \subseteq Kept \cup Frees

LEMMA KeptBase ==
  ASSUME IInv
  PROVE  /\ Closed(heap, Kept \cup Frees) /\ {Main, running} \cup g.tmudata \subseteq Kept
         /\ {Main, running} \cup g.tmudata \in SUBSET Objs
<1>1. heap \in Heaps /\ SlotsExist(heap) /\ g.tmudata \subseteq Objs  BY DEF IInv, HeapInv, Listed, Alive, Live
<1>2. {Main, running} \subseteq Objs  BY DEF IInv, Roots, Alive, Live
<1> QED  BY <1>1, <1>2, KeptClosed DEF Kept

LEMMA FullMarksKept ==
  ASSUME IInv, FullMarks, [Next]_vars
  PROVE  FullMarks'
<1> SUFFICES ASSUME full' = "mark", g'.state = "propagate"  PROVE Marked(g') \subseteq (Kept \cup Frees)'
  BY DEF FullMarks, Marked
<1>1. /\ Closed(heap, Kept \cup Frees) /\ {Main, running} \cup g.tmudata \subseteq Kept
      /\ HeapInv(heap, g) /\ Roots(heap, g, running)
  BY KeptBase DEF IInv
<1>2. ASSUME heap' = heap, running' = running, g'.tmudata = g.tmudata  PROVE (Kept \cup Frees)' = Kept \cup Frees
  BY <1>2 DEF Kept, Frees, ReachFrom, Strong, UpvalValue
<1>3. ASSUME g.state \in {"pause", "finalize"}, g' = markroot(g), heap' = heap, running' = running
      PROVE  Marked(g') \subseteq (Kept \cup Frees)'
  <2>1. g'.tmudata = g.tmudata  BY <1>1, <1>3, MarkrootKeeps
  <2>2. {Main} \cup g.tmudata \subseteq Kept \cup Frees /\ {o \in Objs : heap[o].tt = "free"} \subseteq Kept \cup Frees
    BY <1>1 DEF Frees
  <2>3. Marked(markroot(g)) \subseteq Kept \cup Frees  BY <1>1, <1>3, <2>2, MarkrootWithin
  <2> QED  BY <1>2, <1>3, <2>1, <2>3
<1>4. CASE UNCHANGED vars
  <2>1. Marked(g) \subseteq Kept \cup Frees  BY <1>4 DEF vars, FullMarks
  <2> QED  BY <1>2, <1>4, <2>1 DEF vars, Marked
<1>5. CASE Next
  <2>1. FullStep  BY <1>5 DEF Next, Step, FullStart, ProgramStep, New, Move, Get, Close, Closure, Nested, Switch,
                             SetTable, SetEnv, SetUpval, SetMode
  <2>2. CASE g.state = "finalize" /\ g' = markroot(g) /\ UNCHANGED <<heap, running, called, program>>
    BY <1>3, <2>2
  <2>3. CASE full = "mark" /\ singlestep
    <3>1. running' = running  BY <2>3 DEF singlestep
    <3>2. CASE Pause  BY <1>3, <3>1, <3>2 DEF Pause
    <3>3. CASE Propagate
      <4>1. g.gray # <<>>
        <5>1. g.gray = <<>> /\ atomic => g'.state = "sweepstring"  BY <1>1, <3>3, AtomicKeeps DEF Propagate
        <5> QED  BY <3>3, <5>1 DEF Propagate
      <4>2. g' = propagatemark(g) /\ heap' = heap /\ g.state = "propagate"  BY <3>3, <4>1 DEF Propagate
      <4>3. Sound(heap) /\ Shape(heap, g) /\ g \in Collectors  BY <1>1, <4>2, SoundHeap DEF Shape
      <4>4. Within(g, Kept \cup Frees)  BY <2>3, <4>2, <4>3 DEF FullMarks, Within
      <4>5. Within(g', Kept \cup Frees)  BY <1>1, <4>1, <4>2, <4>3, <4>4, PropagateWithin
      <4>6. g'.tmudata = g.tmudata  BY <4>1, <4>2, <4>3, PropagateGrows DEF Grows, SameLists
      <4> QED  BY <1>2, <3>1, <4>2, <4>5, <4>6 DEF Within
    <3>4. ~(SweepString \/ Finalized \/ GCTM)
      <4>1. g \in Collectors  BY <1>1 DEF HeapInv
      <4> QED  BY <4>1 DEF SweepString, Finalized, GCTM, Collectors
    <3>5. ~SweepObject
      <4>1. \A o \in g.sweepgc : Sweep(o) => g'.state # "propagate"
        <5> TAKE o \in g.sweepgc
        <5>1. g \in Collectors  BY <1>1 DEF HeapInv
        <5> QED  BY <5>1 DEF Sweep, linkupval, Collectors
      <4> QED  BY <4>1 DEF SweepObject
    <3> QED  BY <2>3, <3>2, <3>3, <3>4, <3>5 DEF singlestep
  <2>4. ~(full = "sweep" /\ UNCHANGED full)  OBVIOUS
  <2> QED  BY <2>1, <2>2, <2>3, <2>4 DEF FullStep
<1> QED  BY <1>4, <1>5

(* Only the end of the marking turns the whites. *)
LEMMA WhiteTurns ==
  ASSUME IInv, singlestep, g'.white # g.white
  PROVE  g.state = "propagate" /\ g.gray = <<>> /\ atomic
<1>1. HeapInv(heap, g) /\ Roots(heap, g, running) /\ g \in Collectors  BY DEF IInv, HeapInv
<1>2. ~(SweepString \/ Finalized \/ GCTM)  BY <1>1 DEF SweepString, Finalized, GCTM, Collectors
<1>3. ~Pause
  <2> SUFFICES ASSUME Pause  PROVE g'.white = g.white
    OBVIOUS
  <2> DEFINE s == [g EXCEPT !.gray = <<>>, !.grayagain = <<>>, !.weak = <<>>, !.state = "propagate"]
  <2>1. <<>> \in Seq(Objs) /\ "propagate" \in States  BY DEF States
  <2>2. s \in Collectors /\ s.white = g.white  BY <1>1, <2>1 DEF Collectors
  <2>3. g' = mark(s, {Main})  BY DEF Pause, markroot
  <2> HIDE DEF s
  <2> QED  BY <2>2, <2>3, MarkFields DEF SameLists
<1>4. ~SweepObject
  <2>1. \A o \in g.sweepgc : g.state = "sweep" /\ Sweep(o) => g'.white = g.white
    BY <1>1 DEF Sweep, linkupval, Collectors
  <2> QED  BY <2>1 DEF SweepObject
<1>5. Propagate  BY <1>2, <1>3, <1>4 DEF singlestep
<1>6. g.gray = <<>>
  <2> SUFFICES ASSUME g.gray # <<>>  PROVE g'.white = g.white
    OBVIOUS
  <2>1. Sound(heap) /\ Shape(heap, g)  BY <1>1, <1>5, SoundHeap DEF Propagate
  <2> QED  BY <1>5, <2>1, PropagateGrows DEF Propagate, Grows, SameLists
<1> QED  BY <1>5, <1>6 DEF Propagate

LEMMA AtomicWithin ==
  ASSUME IInv, g.state = "propagate", g.gray = <<>>, atomic, Marked(g) \subseteq Kept \cup Frees,
         NEW o \in Allocated, g'.c[o] # g.white
  PROVE  o \in ReachFrom({Main, running} \cup g'.tmudata)
<1> DEFINE s4 == Ending(g)
           us == Separated(s4)
           s5 == propagateall(marktmu(Keeping(s4)))
           S == {Main, running} \cup g'.tmudata
           C == ReachFrom(S) \cup Frees
<1>1. HeapInv(heap, g) /\ Roots(heap, g, running) /\ g \in Collectors  BY DEF IInv, HeapInv
<1>2. Sound(heap) /\ Shape(heap, g)  BY <1>1, SoundHeap
<1>3. /\ Shape(heap, s4) /\ SameLists(g, s4) /\ s4.gray = <<>> /\ Loose(heap, s4) \subseteq g.tmudata
  BY <1>1, <1>2, EndingMarks
<1>4. \A p \in g.tmudata : p \in Objs /\ heap[p].tt = "udata"
  BY <1>1 DEF HeapInv, Listed, Alive, Live
<1>5. s4.tmudata = g.tmudata /\ s4.white = g.white  BY <1>3 DEF SameLists
<1>6. /\ Shape(heap, s5) /\ SameLists(Keeping(s4), s5)
  BY <1>2, <1>3, <1>4, <1>5, KeepingMarks
<1>7. g'.c = s5.c /\ g'.tmudata = s5.tmudata
  <2>1. g' = [s5 EXCEPT !.white = otherwhite, !.sweepgc = s5.rootgc, !.state = "sweepstring",
                        !.grayagain = <<>>, !.weak = <<>>]
    BY DEF atomic
  <2>2. s5 \in Collectors  BY <1>6 DEF Shape
  <2> HIDE DEF s5
  <2> QED  BY <2>1, <2>2 DEF Collectors
<1>8. s5.tmudata = g.tmudata \cup us /\ s5.white = g.white
  <2>1. s4 \in Collectors  BY <1>3 DEF Shape
  <2> HIDE DEF s4, us, s5
  <2> QED  BY <1>5, <1>6, <2>1 DEF SameLists, Keeping, Collectors, us
<1>9. us \subseteq Objs  BY DEF Separated, Is
<1> HIDE DEF s4
<1>10. S \in SUBSET Objs
  <2>1. {Main, running} \subseteq Objs  BY <1>1 DEF Roots, Alive, Live
  <2> HIDE DEF s5, us
  <2> QED  BY <1>4, <1>7, <1>8, <1>9, <2>1
<1> HIDE DEF S
<1>11. Closed(heap, C) /\ S \subseteq ReachFrom(S)  BY <1>2, <1>10, KeptClosed DEF Sound
<1>12. Kept \subseteq C
  <2>1. {Main, running} \cup g.tmudata \subseteq C  BY <1>7, <1>8, <1>11 DEF S
  <2> HIDE DEF C
  <2> QED  BY <1>11, <2>1, ReachLeast DEF Kept
<1>13. Within(s4, C)
  <2>1. Marked(g) \subseteq C  BY <1>12
  <2>2. {Main, running} \subseteq C  BY <1>11 DEF S
  <2> HIDE DEF C
  <2> QED  BY <1>1, <1>2, <1>11, <2>1, <2>2, EndingWithin DEF s4
<1>14. Marked(s5) \subseteq C
  <2>1. s4.tmudata \cup Separated(s4) \subseteq C  BY <1>5, <1>7, <1>8, <1>11 DEF S
  <2> HIDE DEF C
  <2> QED  BY <1>2, <1>3, <1>4, <1>5, <1>11, <1>13, <2>1, KeepingWithin
<1> HIDE DEF s5, us
<1>15. o \in Marked(s5)
  <2>1. o \in Live(heap) /\ o \in Objs  BY DEF Allocated, Live
  <2>2. s5.c[o] # other(g.white)  BY <1>6, <1>8, <2>1 DEF Shape, Alive
  <2>3. g.white \in Whites  BY <1>1 DEF Collectors
  <2> QED  BY <1>7, <2>1, <2>2, <2>3 DEF Marked, Whites, other
<1> QED  BY <1>14, <1>15 DEF Frees, Allocated, S, C

(* A full collection keeps only what the program, or a userdata that waits *)
(* for its __gc, can reach when the marks end.                             *)
THEOREM FullCollectsAlways == Spec => FullCollects
<1>1. ASSUME IInv, FullMarks, [Next]_vars
      PROVE  [full = "mark" /\ g'.white # g.white =>
                \A o \in Allocated : g'.c[o] # g.white => o \in ReachFrom({Main, running} \cup g'.tmudata)]_vars
  <2> SUFFICES ASSUME Next, full = "mark", g'.white # g.white, NEW o \in Allocated, g'.c[o] # g.white
               PROVE  o \in ReachFrom({Main, running} \cup g'.tmudata)
    BY <1>1
  <2>1. singlestep
    BY DEF Next, Step, FullStart, FullStep, ProgramStep, New, Move, Get, Close, Closure, Nested, Switch,
           SetTable, SetEnv, SetUpval, SetMode
  <2>2. g.state = "propagate" /\ g.gray = <<>> /\ atomic  BY <1>1, <2>1, WhiteTurns
  <2>3. Marked(g) \subseteq Kept \cup Frees  BY <1>1, <2>2 DEF FullMarks
  <2> QED  BY <1>1, <2>2, <2>3, AtomicWithin
<1>2. Init => FullMarks  BY DEF Init, FullMarks
<1>3. IInv /\ FullMarks /\ [Next]_vars => FullMarks'  BY FullMarksKept
<1>4. Spec => []FullMarks  BY <1>2, <1>3, CollectorInvariant, PTL DEF Spec
<1> QED  BY <1>1, <1>4, CollectorInvariant, PTL DEF Spec, FullCollects

-----------------------------------------------------------------------------
(* Weak tables at the end of the marking.                                  *)

LEMMA NoneListed == Range(<<>>) = {}
BY DEF Range

(* Weak tables listed though not all they keep alive is marked; black ones; *)
(* tables that wait to be traversed again.                                 *)
Stale(s)       == {o \in Range(s.weak) : ~(Strong(heap, o) \ {Nil} \subseteq Marked(s))}
WeakBlack(s)   == {o \in Objs : heap[o].tt = "table" /\ heap[o].mode # "" /\ s.c[o] = "black"}
TablesAgain(s) == {o \in Range(s.grayagain) : heap[o].tt = "table"}

(* Marking on the heap as it is adds to none of these. *)
Adds(s, t) ==
  /\ Grows(heap, s, t)
  /\ Stale(t) \subseteq Stale(s) /\ WeakBlack(t) \subseteq WeakBlack(s) /\ TablesAgain(t) \subseteq TablesAgain(s)

LEMMA AddsTwice ==
  ASSUME NEW s, NEW t, NEW u, Adds(s, t), Adds(t, u)
  PROVE  Adds(s, u)
BY GrowsTwice DEF Adds

(* mark and MarkUpval list no weak table, and make no table black. *)
Plainly(s, t) ==
  /\ t.weak = s.weak /\ t.grayagain = s.grayagain
  /\ \A o \in Objs : heap[o].tt = "table" => t.c[o] = s.c[o] \/ t.c[o] = "gray"

LEMMA MarkPlainly ==
  ASSUME NEW s \in Collectors, NEW V
  PROVE  Plainly(s, mark(s, V)) /\ V \cap Objs \subseteq Marked(mark(s, V))
<1> DEFINE t == mark(s, V)
<1>1. /\ t.grayagain = s.grayagain /\ t.weak = s.weak
      /\ \A o \in Objs : t.c[o] = IF o \in ToGray(s, V) THEN "gray"
                                  ELSE IF o \in ToBlack(s, V) THEN "black" ELSE s.c[o]
  BY MarkFields
<1> HIDE DEF t
<1>2. \A o \in ToBlack(s, V) : heap[o].tt = "udata"  BY DEF ToBlack, Is
<1>3. Plainly(s, t)  BY <1>1, <1>2 DEF Plainly
<1>4. ASSUME NEW o \in V \cap Objs  PROVE o \in Marked(t)
  <2>1. s.c[o] \in Whites => o \in ToGray(s, V) \/ o \in ToBlack(s, V)  BY DEF ToGray, White
  <2> QED  BY <1>1, <2>1 DEF Marked, Whites
<1> QED  BY <1>3, <1>4 DEF t

LEMMA MarkUpvalPlainly ==
  ASSUME NEW s \in Collectors, NEW u \in Objs, heap[u].tt = "upval"
  PROVE  Plainly(s, MarkUpval(s, u))
<1> DEFINE r == mark(s, {UpvalValue(heap, u)})
           t == [r EXCEPT !.c = [r.c EXCEPT ![u] = IF IsOpen(u) THEN "gray" ELSE "black"]]
<1>1. r \in Collectors /\ Plainly(s, r)  BY MarkFields, MarkPlainly
<1>2. MarkUpval(s, u) = s \/ MarkUpval(s, u) = t  BY DEF MarkUpval
<1> HIDE DEF r
<1>3. t.weak = r.weak /\ t.grayagain = r.grayagain /\ \A o \in Objs \ {u} : t.c[o] = r.c[o]
  BY <1>1 DEF Collectors
<1> HIDE DEF t
<1>4. Plainly(s, t)  BY <1>1, <1>3 DEF Plainly
<1>5. Plainly(s, s)  BY DEF Plainly
<1> QED  BY <1>2, <1>4, <1>5

LEMMA PlainlyAdds ==
  ASSUME NEW s, NEW t, Grows(heap, s, t), Plainly(s, t)
  PROVE  Adds(s, t)
<1>1. Marked(s) \subseteq Marked(t)  BY DEF Grows
<1>2. Stale(t) \subseteq Stale(s)  BY <1>1 DEF Stale, Plainly
<1>3. WeakBlack(t) \subseteq WeakBlack(s) /\ TablesAgain(t) = TablesAgain(s)
  BY DEF WeakBlack, TablesAgain, Plainly
<1> QED  BY <1>2, <1>3 DEF Adds

LEMMA PropagateAdds ==
  ASSUME Sound(heap), NEW s, Shape(heap, s), s.gray # <<>>
  PROVE  Adds(s, propagatemark(s))
<1> DEFINE o == Head(s.gray)
           r == [s EXCEPT !.gray = Tail(s.gray), !.c = [s.c EXCEPT ![o] = "black"]]
           w == [r EXCEPT !.weak = <<o>> \o r.weak, !.c = [r.c EXCEPT ![o] = "gray"]]
           x == [r EXCEPT !.c = [r.c EXCEPT ![o] = "gray"], !.grayagain = <<o>> \o r.grayagain]
           t == propagatemark(s)
<1>1. Grows(heap, s, t) /\ s \in Collectors  BY PropagateGrows DEF Shape
<1>2. s.gray \in Seq(Objs) /\ s.weak \in Seq(Objs) /\ s.grayagain \in Seq(Objs) /\ s.c \in [Objs -> Colours]
  BY <1>1 DEF Collectors
<1>3. o \in Objs /\ Tail(s.gray) \in Seq(Objs) /\ o \in Range(s.gray)  BY <1>2, WithoutHead
<1>4. heap[o].tt \in {"table", "function", "thread"}  BY <1>3 DEF Shape
<1>5. /\ <<o>> \o s.weak \in Seq(Objs) /\ <<o>> \o s.grayagain \in Seq(Objs)
      /\ Range(<<o>> \o s.weak) = {o} \cup Range(s.weak)
      /\ Range(<<o>> \o s.grayagain) = {o} \cup Range(s.grayagain)
  BY <1>2, <1>3, Prepended
<1> HIDE DEF o
<1>6. \A f \in [Objs -> Colours], k \in Colours : [f EXCEPT ![o] = k] \in [Objs -> Colours]
  OBVIOUS
<1>7. "gray" \in Colours /\ "black" \in Colours  BY DEF Colours
<1>8. r.c \in [Objs -> Colours] /\ w.c \in [Objs -> Colours] /\ x.c \in [Objs -> Colours]
  BY <1>1, <1>2, <1>6, <1>7 DEF Collectors
<1>9. r \in Collectors /\ w \in Collectors /\ x \in Collectors
  BY <1>1, <1>2, <1>3, <1>5, <1>8 DEF Collectors
<1>10. \A p \in Objs \ {o} : r.c[p] = s.c[p] /\ w.c[p] = s.c[p] /\ x.c[p] = s.c[p]
  BY <1>1, <1>2 DEF Collectors
<1>11. /\ r.weak = s.weak /\ r.grayagain = s.grayagain
       /\ w.weak = <<o>> \o s.weak /\ w.grayagain = s.grayagain /\ w.c[o] = "gray"
       /\ x.weak = s.weak /\ x.grayagain = <<o>> \o s.grayagain /\ x.c[o] = "gray"
  BY <1>1, <1>2, <1>3 DEF Collectors
<1> HIDE DEF r, w, x
<1>12. CASE heap[o].tt = "table" /\ heap[o].mode = ""
  <2>1. t = mark(r, Strong(heap, o))  BY <1>12 DEF propagatemark, traversetable, o, r
  <2> HIDE DEF t
  <2>2. Plainly(r, t)  BY <1>9, <2>1, MarkPlainly
  <2>3. Stale(t) \subseteq Stale(s)  BY <1>1, <1>11, <2>2 DEF Stale, Plainly, Grows
  <2>4. WeakBlack(t) \subseteq WeakBlack(s)  BY <1>10, <1>12, <2>2 DEF WeakBlack, Plainly
  <2>5. TablesAgain(t) = TablesAgain(s)  BY <1>11, <2>2 DEF TablesAgain, Plainly
  <2> QED  BY <1>1, <2>3, <2>4, <2>5 DEF Adds, t
<1>13. CASE heap[o].tt = "table" /\ heap[o].mode # ""
  <2>1. t = mark(w, Strong(heap, o))  BY <1>13 DEF propagatemark, traversetable, o, w, r
  <2> HIDE DEF t
  <2>2. Plainly(w, t) /\ Strong(heap, o) \cap Objs \subseteq Marked(t)  BY <1>9, <2>1, MarkPlainly
  <2>3. Strong(heap, o) \ {Nil} \subseteq Marked(t)
    <3>1. Strong(heap, o) \subseteq Values  BY <1>3, RefersType DEF Sound
    <3> QED  BY <2>2, <3>1 DEF Values, Objs
  <2>4. Stale(t) \subseteq Stale(s)  BY <1>1, <1>5, <1>11, <2>2, <2>3 DEF Stale, Plainly, Grows
  <2>5. WeakBlack(t) \subseteq WeakBlack(s)  BY <1>10, <1>11, <2>2 DEF WeakBlack, Plainly
  <2>6. TablesAgain(t) = TablesAgain(s)  BY <1>11, <2>2 DEF TablesAgain, Plainly
  <2> QED  BY <1>1, <2>4, <2>5, <2>6 DEF Adds, t
<1>14. CASE heap[o].tt = "function"
  <2>1. t = MarkUpval(r, heap[o].up)  BY <1>14 DEF propagatemark, o, r
  <2>2. heap[o].up \in Objs /\ heap[o].up # Nil
    <3>1. heap[o].up \in Addrs  BY <1>3, <1>14, Kinds DEF Function, Sound
    <3> QED  BY <3>1, GCParameters DEF Objs
  <2>3. heap[heap[o].up].tt = "upval"
    <3>1. Refers(heap, o) = {heap[o].up}  BY <1>14, RefersCases
    <3> QED  BY <1>3, <1>14, <2>2, <3>1 DEF Sound, Leads
  <2> HIDE DEF t
  <2>4. Plainly(r, t)  BY <1>9, <2>1, <2>2, <2>3, MarkUpvalPlainly
  <2>5. Stale(t) \subseteq Stale(s)  BY <1>1, <1>11, <2>4 DEF Stale, Plainly, Grows
  <2>6. WeakBlack(t) \subseteq WeakBlack(s)  BY <1>10, <1>14, <2>4 DEF WeakBlack, Plainly
  <2>7. TablesAgain(t) = TablesAgain(s)  BY <1>11, <2>4 DEF TablesAgain, Plainly
  <2> QED  BY <1>1, <2>5, <2>6, <2>7 DEF Adds, t
<1>15. CASE heap[o].tt = "thread"
  <2>1. t = mark(x, Range(heap[o].stack))  BY <1>15 DEF propagatemark, traversestack, o, x, r
  <2> HIDE DEF t
  <2>2. Plainly(x, t)  BY <1>9, <2>1, MarkPlainly
  <2>3. Stale(t) \subseteq Stale(s)  BY <1>1, <1>11, <2>2 DEF Stale, Plainly, Grows
  <2>4. WeakBlack(t) \subseteq WeakBlack(s)  BY <1>10, <1>15, <2>2 DEF WeakBlack, Plainly
  <2>5. TablesAgain(t) \subseteq TablesAgain(s)  BY <1>5, <1>11, <1>15, <2>2 DEF TablesAgain, Plainly
  <2> QED  BY <1>1, <2>3, <2>4, <2>5 DEF Adds, t
<1> QED  BY <1>4, <1>12, <1>13, <1>14, <1>15

LEMMA PropagateAllAdds ==
  ASSUME Sound(heap), NEW s, Shape(heap, s)
  PROVE  Adds(s, propagateall(s)) /\ propagateall(s).gray = <<>>
<1> DEFINE X == {t \in Collectors : Adds(s, t)}
<1>1. s \in X
  <2>1. Grows(heap, s, s) /\ Plainly(s, s) /\ s \in Collectors  BY DEF Grows, SameLists, Plainly, Shape
  <2> QED  BY <2>1, PlainlyAdds
<1>2. \A t \in X : t.gray # <<>> => propagatemark(t) \in X
  <2> SUFFICES ASSUME NEW t \in X, t.gray # <<>>  PROVE propagatemark(t) \in X
    OBVIOUS
  <2>1. Adds(s, t) /\ Shape(heap, t)  BY DEF Adds, Grows
  <2>2. Adds(t, propagatemark(t))  BY <2>1, PropagateAdds
  <2>3. Adds(s, propagatemark(t))  BY <2>1, <2>2, AddsTwice
  <2> QED  BY <2>3 DEF Adds, Grows, Shape
<1> HIDE DEF X
<1>3. propagateall(s) \in X  BY <1>1, <1>2, PropagateAllStays
<1> QED  BY <1>3, PropagateAllGrows DEF X

(* At the end of the marking every weak table that was not black when it   *)
(* began is on the list weak, with all it keeps alive marked.              *)
LEMMA EndingAdds ==
  ASSUME Sound(heap), HeapInv(heap, g), Roots(heap, g, running), g.state = "propagate", g.gray = <<>>
  PROVE  /\ Stale(Ending(g)) = {} /\ TablesAgain(Ending(g)) = {}
         /\ WeakBlack(Ending(g)) \subseteq WeakBlack(g)
<1> DEFINE us == {v \in Objs : Is(v, "upval") /\ IsOpen(v) /\ g.c[v] = "gray"}
           V == {UpvalValue(heap, u) : u \in us}
           r1 == remarkupvals(g)
           s2 == propagateall(r1)
           a3 == [s2 EXCEPT !.gray = s2.weak, !.weak = <<>>]
           m3 == mark(a3, {running})
           s3 == propagateall(m3)
           a4 == [s3 EXCEPT !.gray = s3.grayagain, !.grayagain = <<>>]
           s4 == propagateall(a4)
<1>1. Ending(g) = s4  BY DEF Ending, WeakAgain, GrayAgain
<1>2. Agrees(heap) /\ Shape(heap, g)  BY DEF Agrees, HeapInv, Tricolour
<1>3. Range(<<>>) = {}  BY NoneListed
<1>4. Markable(heap, V)
  <2> SUFFICES ASSUME NEW u \in us, UpvalValue(heap, u) # Nil
               PROVE  UpvalValue(heap, u) \in Objs /\ heap[UpvalValue(heap, u)].tt \notin {"free", "upval"}
    BY DEF Markable
  <2>1. u \in Objs /\ heap[u].tt = "upval"  BY DEF Is
  <2>2. Markable(heap, Refers(heap, u))  BY <2>1, ReferredMarkable
  <2>3. Refers(heap, u) = {UpvalValue(heap, u)}  BY <2>1, RefersCases
  <2> QED  BY <2>2, <2>3 DEF Markable
<1>5. r1 = mark(g, V)  BY DEF remarkupvals
<1> HIDE DEF V, r1
<1>6. Adds(g, r1)
  <2>1. Grows(heap, g, r1)  BY <1>2, <1>4, <1>5, MarkGrows
  <2>2. Plainly(g, r1)  BY <1>2, <1>5, MarkPlainly DEF Shape
  <2> QED  BY <2>1, <2>2, PlainlyAdds
<1>7. Adds(r1, s2) /\ s2.gray = <<>>  BY <1>6, PropagateAllAdds DEF Adds, Grows
<1>8. Shape(heap, s2) /\ s2 \in Collectors  BY <1>7 DEF Adds, Grows, Shape
<1> HIDE DEF s2
<1>9. Shape(heap, a3) /\ a3.weak = <<>> /\ a3.c = s2.c
  <2>1. a3.weak = <<>> /\ a3.c = s2.c  BY <1>8 DEF Collectors
  <2> QED  BY <1>7, <1>8, <2>1, Relisted
<1> HIDE DEF a3
<1>10. Stale(a3) = {} /\ WeakBlack(a3) = WeakBlack(s2)  BY <1>3, <1>9 DEF Stale, WeakBlack
<1>11. Adds(a3, m3)
  <2>1. Markable(heap, {running})  BY DEF Roots, Markable, Alive, Live
  <2>2. Grows(heap, a3, m3)  BY <1>2, <1>9, <2>1, MarkGrows
  <2>3. Plainly(a3, m3)  BY <1>9, MarkPlainly DEF Shape
  <2> QED  BY <2>2, <2>3, PlainlyAdds
<1> HIDE DEF m3
<1>12. Adds(m3, s3) /\ s3.gray = <<>>  BY <1>11, PropagateAllAdds DEF Adds, Grows
<1>13. Shape(heap, s3) /\ s3 \in Collectors  BY <1>12 DEF Adds, Grows, Shape
<1> HIDE DEF s3
<1>14. Shape(heap, a4) /\ a4.grayagain = <<>> /\ a4.weak = s3.weak /\ a4.c = s3.c
  <2>1. a4.grayagain = <<>> /\ a4.weak = s3.weak /\ a4.c = s3.c  BY <1>13 DEF Collectors
  <2> QED  BY <1>12, <1>13, <2>1, Relisted
<1> HIDE DEF a4
<1>15. Stale(a4) = Stale(s3) /\ WeakBlack(a4) = WeakBlack(s3) /\ TablesAgain(a4) = {}
  <2>1. Marked(a4) = Marked(s3)  BY <1>14 DEF Marked
  <2> QED  BY <1>3, <1>14, <2>1 DEF Stale, WeakBlack, TablesAgain
<1>16. Adds(a4, s4)  BY <1>14, PropagateAllAdds
<1> HIDE DEF s4
<1> QED  BY <1>1, <1>6, <1>7, <1>10, <1>11, <1>12, <1>15, <1>16 DEF Adds

LEMMA KeepingAdds ==
  ASSUME Sound(heap), NEW s, Shape(heap, s), s.gray = <<>>, Stale(s) = {}, TablesAgain(s) = {},
         \A o \in s.tmudata : o \in Objs /\ heap[o].tt = "udata"
  PROVE  LET t == propagateall(marktmu(Keeping(s))) IN
         Stale(t) = {} /\ TablesAgain(t) = {} /\ WeakBlack(t) \subseteq WeakBlack(s)
<1> DEFINE a == Keeping(s)
           b == Unmarked(a)
           m == marktmu(a)
           t == propagateall(m)
<1>1. /\ m = mark(b, a.tmudata) /\ Shape(heap, b) /\ Marked(b) = Marked(s) \ a.tmudata
      /\ Markable(heap, a.tmudata) /\ Nil \notin a.tmudata
      /\ b.weak = s.weak /\ b.grayagain = s.grayagain
      /\ \A o \in Objs : b.c[o] = IF o \in a.tmudata THEN s.white ELSE s.c[o]
  BY UnmarkedFields
<1>2. s.white # "black"  BY DEF Shape, Collectors, Whites
<1> HIDE DEF a, b, m, t
<1>3. WeakBlack(b) \subseteq WeakBlack(s) /\ TablesAgain(b) = {}  BY <1>1, <1>2 DEF WeakBlack, TablesAgain
<1>4. Grows(heap, b, m) /\ a.tmudata \subseteq Marked(m)  BY <1>1, MarkGrows DEF Agrees
<1>5. Plainly(b, m)  BY <1>1, MarkPlainly DEF Shape
<1>6. WeakBlack(m) \subseteq WeakBlack(s) /\ TablesAgain(m) = {}  BY <1>3, <1>4, <1>5, PlainlyAdds DEF Adds
<1>7. Marked(s) \subseteq Marked(m)  BY <1>1, <1>4 DEF Grows
<1>8. Stale(m) = {}  BY <1>1, <1>5, <1>7 DEF Stale, Plainly
<1>9. Adds(m, t)  BY <1>4, PropagateAllAdds DEF Grows, t
<1>10. Stale(t) = {} /\ TablesAgain(t) = {} /\ WeakBlack(t) \subseteq WeakBlack(s)
  BY <1>6, <1>8, <1>9 DEF Adds
<1> QED  BY <1>10 DEF t, m, a

(* What the program can reach is marked, and a weak table that it reaches, *)
(* not black before, is cleared.                                           *)
LEMMA ReachedCleared ==
  ASSUME IInv, g.state = "propagate", g.gray = <<>>, atomic,
         NEW t \in Reachable, Is(t, "table"), heap[t].mode # "", g.c[t] # "black"
  PROVE  heap'[t].val \notin called
<1> DEFINE s4 == Ending(g)
           us == Separated(s4)
           s5 == propagateall(marktmu(Keeping(s4)))
           h == Waiting(us)
<1>1. HeapInv(heap, g) /\ Roots(heap, g, running) /\ Finished(heap, g, called)  BY DEF IInv
<1>2. Sound(heap) /\ Shape(heap, g)  BY <1>1, SoundHeap
<1>3. /\ Shape(heap, s4) /\ SameLists(g, s4) /\ s4.gray = <<>> /\ Loose(heap, s4) \subseteq g.tmudata
      /\ {Main, running} \subseteq Marked(s4)
  BY <1>1, <1>2, EndingMarks
<1>4. Stale(s4) = {} /\ TablesAgain(s4) = {} /\ WeakBlack(s4) \subseteq WeakBlack(g)
  BY <1>1, <1>2, EndingAdds
<1>5. \A p \in g.tmudata : p \in Objs /\ heap[p].tt = "udata"
  BY <1>1 DEF HeapInv, Listed, Alive, Live
<1>6. s4.tmudata = g.tmudata  BY <1>3 DEF SameLists
<1> HIDE DEF s4
<1>7. /\ Shape(heap, s5) /\ s5.gray = <<>> /\ Loose(heap, s5) = {} /\ Marked(s4) \subseteq Marked(s5)
  BY <1>2, <1>3, <1>5, <1>6, KeepingMarks
<1>8. Stale(s5) = {} /\ TablesAgain(s5) = {} /\ WeakBlack(s5) \subseteq WeakBlack(g)
  BY <1>2, <1>3, <1>4, <1>5, <1>6, KeepingAdds
<1>9. heap' = Cleared(s5, h)  BY DEF atomic, s4
<1> HIDE DEF s5
<1>10. Range(s5.gray) = {}
  BY <1>7, NoneListed
<1>11. Closed(heap, Marked(s5))
  <2> SUFFICES ASSUME NEW o \in Marked(s5)  PROVE Strong(heap, o) \ {Nil} \subseteq Marked(s5)
    BY DEF Closed
  <2>1. CASE o \in Range(s5.weak)  BY <1>8, <2>1 DEF Stale
  <2>2. CASE o \notin Range(s5.weak)
    <3>1. Done(heap, s5, o)  BY <1>7, <1>10, <2>2 DEF Loose
    <3>2. Strong(heap, o) \subseteq Refers(heap, o)  BY DEF Refers
    <3> QED  BY <3>1, <3>2 DEF Done
  <2> QED  BY <2>1, <2>2
<1>12. t \in Marked(s5)
  <2>1. {Main, running} \subseteq Marked(s5)  BY <1>3, <1>7
  <2> QED  BY <1>11, <2>1, ReachLeast DEF Reachable
<1>13. t \in Range(s5.weak)
  <2>1. t \in Objs /\ heap[t].tt = "table" /\ t \in Live(heap)  BY DEF Is, Live
  <2>2. s5.c[t] # "black"  BY <1>8, <2>1 DEF WeakBlack
  <2>3. s5.c[t] = "gray"  BY <1>7, <1>12, <2>1, <2>2 DEF Shape, Collectors, Colours, Marked
  <2>4. t \in Range(s5.weak) \/ t \in Range(s5.grayagain)  BY <1>7, <1>10, <2>1, <2>3 DEF Shape, Lists
  <2> QED  BY <1>8, <2>1, <2>4 DEF TablesAgain
<1>14. t \in Objs /\ h[t] = heap[t]
  <2>1. \A o \in us : heap[o].tt = "udata"  BY DEF Separated, Is
  <2> HIDE DEF us
  <2> QED  BY <2>1 DEF Is, Waiting
<1>15. \A o \in called : o \in Objs /\ h[o].tt = "udata" /\ h[o].fin
  <2> SUFFICES ASSUME NEW o \in called  PROVE o \in Objs /\ h[o].tt = "udata" /\ h[o].fin
    OBVIOUS
  <2>1. o \in Objs /\ heap[o].tt = "udata" /\ heap[o].fin = TRUE  BY <1>1 DEF Finished
  <2>2. heap[o] \in Udata  BY <1>2, <2>1, Kinds DEF Sound
  <2> HIDE DEF us
  <2> QED  BY <2>1, <2>2 DEF Waiting, Udata
<1>16. Nil \notin called  BY <1>15, GCParameters
<1>17. heap[t] \in Table  BY <1>2, <1>14, Kinds DEF Sound, Is
<1> HIDE DEF h
<1>18. CASE heap[t].val \in called
  <2>1. iscleared(s5, h, h[t].val, FALSE)  BY <1>14, <1>15, <1>16, <1>18 DEF iscleared
  <2>2. heap'[t] = [heap[t] EXCEPT !.key = Nil, !.val = Nil]  BY <1>9, <1>13, <1>14, <2>1 DEF Cleared
  <2>3. heap'[t].val = Nil  BY <1>17, <2>2 DEF Table
  <2> QED  BY <1>16, <2>3
<1>19. CASE heap[t].val \notin called
  <2>1. heap'[t] = [heap[t] EXCEPT !.key = Nil, !.val = Nil] \/ heap'[t] = heap[t]  BY <1>9, <1>14 DEF Cleared
  <2>2. heap'[t].val = Nil \/ heap'[t].val = heap[t].val  BY <1>17, <2>1 DEF Table
  <2> QED  BY <1>16, <1>19, <2>2
<1> QED  BY <1>18, <1>19

(* The program never turns the whites. *)
LEMMA ProgramWhite ==
  ASSUME g \in Collectors
  PROVE  /\ \A o \in Addrs, i \in Slots : New(o, i) => g'.white = g.white
         /\ \A i \in Slots : Close(i) => g'.white = g.white
         /\ \A f, u \in Addrs, i, j \in Slots : Closure(f, u, i, j) => g'.white = g.white
         /\ \A f \in Addrs, e \in Held, i \in Slots : Nested(f, e, i) => g'.white = g.white
         /\ \A o \in Held, k, v \in Held \cup {Nil} : SetTable(o, k, v) => g'.white = g.white
         /\ \A o \in Held, v \in Held \cup {Nil} : SetEnv(o, v) \/ SetUpval(o, v) => g'.white = g.white
         /\ FullStart => g'.white = g.white
         /\ FullStep /\ ~singlestep => g'.white = g.white
<1>1. \A s \in Collectors : \A V : mark(s, V).white = s.white  BY MarkFields DEF SameLists
<1>2. \A o, f : Link(g, o).white = g.white /\ Link([g EXCEPT !.c = f], o).white = g.white
  BY DEF Link, Collectors
<1>3. ASSUME NEW o \in Addrs, NEW i \in Slots, New(o, i)  PROVE g'.white = g.white  BY <1>2, <1>3 DEF New
<1>4. ASSUME NEW i \in Slots, Close(i)  PROVE g'.white = g.white
  BY <1>4 DEF Close, luaF_close, linkupval, mark, Collectors
<1>5. ASSUME NEW f \in Addrs, NEW u \in Addrs, NEW i \in Slots, NEW j \in Slots, Closure(f, u, i, j)
      PROVE  g'.white = g.white
  BY <1>2, <1>5 DEF Closure
<1>6. ASSUME NEW f \in Addrs, NEW e \in Held, NEW i \in Slots, Nested(f, e, i)  PROVE g'.white = g.white
  BY <1>2, <1>6 DEF Nested
<1>7. ASSUME NEW o \in Held, NEW k \in Held \cup {Nil}, NEW v \in Held \cup {Nil}, SetTable(o, k, v)
      PROVE  g'.white = g.white
  BY <1>7 DEF SetTable, luaC_barriert, Collectors
<1>8. \A o, v : luaC_barrier(o, v).white = g.white
  <2> TAKE o, v
  <2>1. [g EXCEPT !.c = [g.c EXCEPT ![o] = g.white]].white = g.white  BY DEF Collectors
  <2> QED  BY <1>1, <2>1 DEF luaC_barrier
<1>9. ASSUME NEW o \in Held, NEW v \in Held \cup {Nil}, SetEnv(o, v) \/ SetUpval(o, v)  PROVE g'.white = g.white
  BY <1>8, <1>9 DEF SetEnv, SetUpval
<1>10. FullStart => g'.white = g.white  BY DEF FullStart, Collectors
<1>11. markroot(g).white = g.white
  <2> DEFINE s == [g EXCEPT !.gray = <<>>, !.grayagain = <<>>, !.weak = <<>>, !.state = "propagate"]
  <2>1. <<>> \in Seq(Objs) /\ "propagate" \in States  BY DEF States
  <2>2. s \in Collectors /\ s.white = g.white  BY <2>1 DEF Collectors
  <2>3. markroot(g) = mark(s, {Main})  BY DEF markroot
  <2> HIDE DEF s
  <2> QED  BY <1>1, <2>2, <2>3
<1>12. FullStep /\ ~singlestep => g'.white = g.white  BY <1>11 DEF FullStep
<1> QED  BY <1>3, <1>4, <1>5, <1>6, <1>7, <1>9, <1>10, <1>12

(* The whites turn only at the end of the marking, in whatever step. *)
LEMMA TurnIsAtomic ==
  ASSUME IInv, Next, g'.white # g.white
  PROVE  g.state = "propagate" /\ g.gray = <<>> /\ atomic
<1>1. g \in Collectors  BY DEF IInv, HeapInv
<1>2. singlestep
  <2> SUFFICES ASSUME ~singlestep  PROVE FALSE
    OBVIOUS
  <2>1. ~Step /\ ~FullStart /\ ~FullStep  BY <1>1, ProgramWhite DEF Step
  <2>2. ASSUME NEW i \in Slots,
           \/ \E o \in Addrs : New(o, i)
           \/ \E v \in Held \cup {Nil} : Move(i, v)
           \/ Get(i) \/ Close(i)
           \/ \E j \in Slots, f, u \in Addrs : Closure(f, u, i, j)
           \/ \E f \in Addrs, e \in Held : Nested(f, e, i)
           \/ \E t \in Held \cup {Main} : Is(t, "thread") /\ \E j \in DOMAIN heap[t].stack : Switch(t, i, j)
        PROVE FALSE
    <3>1. \A v : ~Move(i, v)  BY DEF Move
    <3>2. \A t, j : ~Switch(t, i, j)  BY DEF Switch
    <3>3. ~Get(i)  BY <3>1 DEF Get
    <3> QED  BY <1>1, <2>2, <3>1, <3>2, <3>3, ProgramWhite
  <2>3. ASSUME NEW o \in Held,
           \/ \E k, v \in Held \cup {Nil} : SetTable(o, k, v)
           \/ \E v \in Held \cup {Nil} : SetEnv(o, v) \/ SetUpval(o, v)
           \/ \E mode \in program.modes : SetMode(o, mode)
        PROVE FALSE
    <3>1. \A mode : ~SetMode(o, mode)  BY DEF SetMode
    <3> QED  BY <1>1, <2>3, <3>1, ProgramWhite
  <2> QED  BY <2>1, <2>2, <2>3 DEF Next
<1> QED  BY <1>2, WhiteTurns

(* No weak table the program can reach keeps a value whose __gc has run, if *)
(* it was weak when the collection traversed it; __gc runs once.           *)
THEOREM FinalizersAlways == Spec => Finalizers
<1>1. ASSUME IInv, [Next]_vars
      PROVE  [\A t \in Reachable :
                g'.white # g.white /\ Is(t, "table") /\ heap[t].mode # "" /\ g.c[t] # "black"
                  => heap'[t].val \notin called]_vars
  <2> SUFFICES ASSUME Next, NEW t \in Reachable, g'.white # g.white,
                      Is(t, "table"), heap[t].mode # "", g.c[t] # "black"
               PROVE  heap'[t].val \notin called
    BY <1>1
  <2>1. g.state = "propagate" /\ g.gray = <<>> /\ atomic  BY <1>1, TurnIsAtomic
  <2> QED  BY <1>1, <2>1, ReachedCleared
<1>2. Spec => NoFinalizedValue  BY <1>1, CollectorInvariant, PTL DEF Spec, NoFinalizedValue
<1> QED  BY <1>2, FinalizedOnceAlways DEF Finalizers

=============================================================================
