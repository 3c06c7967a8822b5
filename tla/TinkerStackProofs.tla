------------------------- MODULE TinkerStackProofs -------------------------
(***************************************************************************)
(* Whose slot is whose on the Lua stack: every table handle finds its      *)
(* table, however many handles, tables and slots there are; and every C++  *)
(* function finds its values, however deep the calls between C++ and the   *)
(* script, less one for each call of its own that failed.                  *)
(***************************************************************************)
EXTENDS TinkerTable, TinkerCall, FunctionTheorems, FiniteSetTheorems, SequenceTheorems, TLAPS

-----------------------------------------------------------------------------
(* How often a value is on a sequence, when one is added or taken out.     *)
Places(s, t) == {i \in 1 .. Len(s) : s[i] = t}

LEMMA PlacesFinite ==
  ASSUME NEW S, NEW s \in Seq(S), NEW t
  PROVE  IsFiniteSet(Places(s, t)) /\ Cardinality(Places(s, t)) \in Nat
<1>1. IsFiniteSet(1 .. Len(s))
  BY LenProperties, FS_Interval
<1>2. Places(s, t) \in SUBSET (1 .. Len(s))
  BY DEF Places
<1>3. IsFiniteSet(Places(s, t))
  BY <1>1, <1>2, FS_Subset
<1> QED
  BY <1>3, FS_CardinalityType

LEMMA PlacesAppend ==
  ASSUME NEW S, NEW s \in Seq(S), NEW v \in S, NEW t
  PROVE  Cardinality(Places(Append(s, v), t))
           = IF v = t THEN Cardinality(Places(s, t)) + 1 ELSE Cardinality(Places(s, t))
<1> DEFINE n == Len(s)
           a == Append(s, v)
<1>1. /\ n \in Nat /\ Len(a) = n + 1 /\ a[n + 1] = v
      /\ \A i \in 1 .. n : a[i] = s[i]
  BY AppendProperties, LenProperties
<1> HIDE DEF a, n
<1>2. n + 1 \notin Places(s, t) /\ 1 .. n + 1 = (1 .. n) \cup {n + 1}
  BY <1>1 DEF Places, n
<1>3. CASE v = t
  <2>1. Places(a, t) = Places(s, t) \cup {n + 1}
    BY <1>1, <1>2, <1>3 DEF Places, n
  <2> QED
    BY <2>1, <1>2, <1>3, PlacesFinite, FS_AddElement DEF a
<1>4. CASE v # t
  <2>1. Places(a, t) = Places(s, t)
    BY <1>1, <1>2, <1>4 DEF Places, n
  <2> QED
    BY <2>1, <1>4 DEF a
<1> QED
  BY <1>3, <1>4

LEMMA RemoveAtElements ==
  ASSUME NEW S, NEW s \in Seq(S), NEW i \in 1 .. Len(s)
  PROVE  /\ RemoveAt(s, i) \in Seq(S) /\ Len(RemoveAt(s, i)) = Len(s) - 1
         /\ \A j \in 1 .. Len(s) - 1 : RemoveAt(s, i)[j] = IF j < i THEN s[j] ELSE s[j + 1]
<1> DEFINE n == Len(s)
           h == SubSeq(s, 1, i - 1)
           l == SubSeq(s, i + 1, n)
<1>1. n \in Nat /\ i \in 1 .. n /\ \A j \in 1 .. n : s[j] \in S
  BY LenProperties
<1>2. h \in Seq(S) /\ Len(h) = i - 1 /\ \A j \in 1 .. i - 1 : h[j] = s[j]
  <2>1. \A j \in 1 .. i - 1 : s[j] \in S
    BY <1>1
  <2>2. /\ h \in Seq(S) /\ Len(h) = (IF 1 <= i - 1 THEN i - 1 - 1 + 1 ELSE 0)
        /\ \A j \in 1 .. i - 1 - 1 + 1 : h[j] = s[1 + j - 1]
    BY <2>1, <1>1, SubSeqProperties
  <2> HIDE DEF h, n
  <2>3. i - 1 - 1 + 1 = i - 1 /\ \A j \in 1 .. i - 1 : 1 + j - 1 = j
    BY <1>1
  <2> QED
    BY <2>2, <2>3, <1>1
<1>3. l \in Seq(S) /\ Len(l) = n - i /\ \A j \in 1 .. n - i : l[j] = s[i + j]
  <2>1. \A j \in i + 1 .. n : s[j] \in S
    BY <1>1
  <2>2. /\ l \in Seq(S) /\ Len(l) = (IF i + 1 <= n THEN n - (i + 1) + 1 ELSE 0)
        /\ \A j \in 1 .. n - (i + 1) + 1 : l[j] = s[(i + 1) + j - 1]
    BY <2>1, <1>1, SubSeqProperties
  <2> HIDE DEF l, n
  <2>3. n - (i + 1) + 1 = n - i /\ \A j \in 1 .. n - i : (i + 1) + j - 1 = i + j
    BY <1>1
  <2> QED
    BY <2>2, <2>3, <1>1
<1> HIDE DEF h, l, n
<1>4. /\ h \o l \in Seq(S) /\ Len(h \o l) = Len(h) + Len(l)
      /\ \A j \in 1 .. Len(h) + Len(l) : (h \o l)[j] = IF j <= Len(h) THEN h[j] ELSE l[j - Len(h)]
  BY <1>2, <1>3, ConcatProperties
<1>5. ASSUME NEW j \in 1 .. n - 1
      PROVE  (h \o l)[j] = IF j < i THEN s[j] ELSE s[j + 1]
  <2>1. j \in 1 .. Len(h) + Len(l) /\ (j <= Len(h) <=> j < i)
    BY <1>1, <1>2, <1>3
  <2>2. CASE j < i
    BY <2>1, <2>2, <1>1, <1>2, <1>4
  <2>3. CASE ~(j < i)
    <3>1. j - Len(h) \in 1 .. n - i /\ i + (j - Len(h)) = j + 1
      BY <2>3, <1>1, <1>2
    <3> QED
      BY <3>1, <2>1, <2>3, <1>3, <1>4
  <2> QED
    BY <2>2, <2>3
<1>6. Len(h \o l) = n - 1
  BY <1>1, <1>2, <1>3, <1>4
<1> QED
  BY <1>4, <1>5, <1>6 DEF RemoveAt, h, l, n

LEMMA PlacesRemoveAt ==
  ASSUME NEW S, NEW s \in Seq(S), NEW i \in 1 .. Len(s), NEW t
  PROVE  Cardinality(Places(RemoveAt(s, i), t))
           = IF s[i] = t THEN Cardinality(Places(s, t)) - 1 ELSE Cardinality(Places(s, t))
<1> DEFINE n == Len(s)
           r == RemoveAt(s, i)
           up == [j \in Places(r, t) |-> IF j < i THEN j ELSE j + 1]
<1>1. n \in Nat /\ i \in 1 .. n
  BY LenProperties
<1>2. /\ Len(r) = n - 1
      /\ \A j \in 1 .. n - 1 : r[j] = IF j < i THEN s[j] ELSE s[j + 1]
      /\ r \in Seq(S)
  BY RemoveAtElements
<1> HIDE DEF n, r
<1>3. \A j \in Places(r, t) : up[j] \in Places(s, t) \ {i}
  <2> SUFFICES ASSUME NEW j \in Places(r, t)
               PROVE  up[j] \in Places(s, t) \ {i}
    OBVIOUS
  <2>1. j \in 1 .. n - 1 /\ r[j] = t
    BY <1>2 DEF Places
  <2>2. CASE j < i
    BY <2>1, <2>2, <1>1, <1>2 DEF Places, n
  <2>3. CASE ~(j < i)
    BY <2>1, <2>3, <1>1, <1>2 DEF Places, n
  <2> QED
    BY <2>2, <2>3
<1>4. up \in [Places(r, t) -> Places(s, t) \ {i}]
  BY <1>3
<1>5. \A j, k \in Places(r, t) : up[j] = up[k] => j = k
  BY <1>1, <1>2 DEF Places
<1>6. \A k \in Places(s, t) \ {i} : \E j \in Places(r, t) : up[j] = k
  <2> SUFFICES ASSUME NEW k \in Places(s, t) \ {i}
               PROVE  \E j \in Places(r, t) : up[j] = k
    OBVIOUS
  <2>1. k \in 1 .. n /\ s[k] = t /\ k # i
    BY DEF Places, n
  <2>2. CASE k < i
    <3>1. k \in 1 .. n - 1 /\ r[k] = t
      BY <2>1, <2>2, <1>1, <1>2
    <3>2. k \in Places(r, t)
      BY <3>1, <1>2 DEF Places
    <3> QED
      BY <3>2, <2>2
  <2>3. CASE ~(k < i)
    <3>1. k - 1 \in 1 .. n - 1 /\ ~(k - 1 < i) /\ (k - 1) + 1 = k
      BY <2>1, <2>3, <1>1
    <3>2. k - 1 \in Places(r, t)
      BY <3>1, <2>1, <1>2 DEF Places
    <3> QED
      BY <3>1, <3>2
  <2> QED
    BY <2>2, <2>3
<1>7. up \in Bijection(Places(r, t), Places(s, t) \ {i})
  BY <1>4, <1>5, <1>6, Fun_IsBij
<1>8. Cardinality(Places(s, t) \ {i}) = Cardinality(Places(r, t))
  <2>1. ExistsBijection(Places(r, t), Places(s, t) \ {i})
    BY <1>7 DEF ExistsBijection
  <2> QED
    BY <2>1, <1>2, PlacesFinite, FS_Bijection
<1>9. Cardinality(Places(s, t) \ {i})
        = IF s[i] = t THEN Cardinality(Places(s, t)) - 1 ELSE Cardinality(Places(s, t))
  <2>1. i \in Places(s, t) <=> s[i] = t
    BY <1>1 DEF Places, n
  <2> QED
    BY <2>1, PlacesFinite, FS_RemoveElement
<1> QED
  BY <1>8, <1>9 DEF r

-----------------------------------------------------------------------------
(* The invariant: each table is as often on the stack as there are objects *)
(* for it, and each object counts its handles.                             *)
TableIInv == TableTypeOK /\ SlotForEach /\ CountIsHandles

HandlesOf(o) == {h \in Handles : m_obj[h] = o}
ObjsOf(t)    == {o \in Live : objs[o].pointer = t}

LEMMA CountsFinite ==
  ASSUME TableParameters
  PROVE  /\ IsFiniteSet(Ids) /\ IsFiniteSet(Live)
         /\ \A o : IsFiniteSet(HandlesOf(o)) /\ Cardinality(HandlesOf(o)) \in Nat
         /\ \A t : IsFiniteSet(ObjsOf(t)) /\ Cardinality(ObjsOf(t)) \in Nat
<1>1. Cardinality(Handles) \in Nat
  BY FS_CardinalityType DEF TableParameters
<1>2. IsFiniteSet(Ids)
  BY <1>1, FS_Interval DEF Ids
<1>3. IsFiniteSet(Live)
  BY <1>2, FS_Subset DEF Live
<1>4. ASSUME NEW o
      PROVE  IsFiniteSet(HandlesOf(o)) /\ Cardinality(HandlesOf(o)) \in Nat
  <2>1. HandlesOf(o) \in SUBSET Handles
    BY DEF HandlesOf
  <2> QED
    BY <2>1, FS_Subset, FS_CardinalityType DEF TableParameters
<1>5. ASSUME NEW t
      PROVE  IsFiniteSet(ObjsOf(t)) /\ Cardinality(ObjsOf(t)) \in Nat
  <2>1. ObjsOf(t) \in SUBSET Live
    BY DEF ObjsOf
  <2> QED
    BY <2>1, <1>3, FS_Subset, FS_CardinalityType
<1> QED
  BY <1>2, <1>3, <1>4, <1>5

(* The counts in the words of the lemmas. *)
LEMMA Counts ==
  /\ SlotForEach <=> \A t \in Tables : Cardinality(Places(stack, t)) = Cardinality(ObjsOf(t))
  /\ CountIsHandles <=> \A o \in Live :
       IF objs[o].named THEN objs[o].ref = Cardinality(HandlesOf(o)) - 1
       ELSE objs[o].ref = Cardinality(HandlesOf(o)) /\ Cardinality(HandlesOf(o)) > 0
BY DEF SlotForEach, CountIsHandles, Places, ObjsOf, HandlesOf

LEMMA LeastOf ==
  ASSUME NEW T, T \subseteq Nat, T # {}
  PROVE  \E j \in T : \A k \in T : j <= k
<1>1. PICK j \in T : \A k \in T : ~(<<k, j>> \in OpToRel(<, Nat))
  BY NatLessThanWellFounded, WFMin
<1>2. ASSUME NEW k \in T
      PROVE  j <= k
  <2>1. ~(k < j)
    BY <1>1 DEF OpToRel
  <2> QED
    BY <2>1
<1> QED
  BY <1>2

(* validate finds the table of an object that has one: it is on the stack. *)
LEMMA SlotFinds ==
  ASSUME TableParameters, TableIInv, NEW o \in Live
  PROVE  /\ objs[o] \in Objs /\ o \in Ids
         /\ IF objs[o].pointer = Nil THEN Slot(o) = 0
            ELSE Slot(o) \in 1 .. Len(stack) /\ stack[Slot(o)] = objs[o].pointer
<1> DEFINE p == objs[o].pointer
           i == objs[o].index
           at == {j \in 1 .. Len(stack) : stack[j] = p}
<1>1. /\ objs[o] \in Objs /\ o \in Ids /\ stack \in Seq(Tables \cup {Nil})
      /\ i \in 1 .. MaxStack
  BY DEF TableIInv, TableTypeOK, Live, Objs
<1>2. CASE p = Nil
  BY <1>1, <1>2 DEF Slot
<1>3. CASE p # Nil
  <2>1. p \in Tables
    BY <1>1, <1>3 DEF Objs
  <2>2. o \in ObjsOf(p)
    BY DEF ObjsOf
  <2>3. Cardinality(ObjsOf(p)) # 0
    BY <2>2, CountsFinite, FS_EmptySet
  <2>4. Cardinality(Places(stack, p)) # 0
    BY <2>1, <2>3, Counts DEF TableIInv
  <2>5. at # {}
    BY <2>4, FS_EmptySet DEF Places
  <2>6. IsFiniteSet(at)
    BY <1>1, PlacesFinite DEF Places
  <2>7. \E j \in at : \A k \in at : j <= k
    <3>1. at \subseteq Nat
      BY <1>1
    <3> QED
      BY <3>1, <2>5, LeastOf
  <2>8. Slot(o) = IF i \in at THEN i ELSE CHOOSE j \in at : \A k \in at : j <= k
    BY <2>5, <1>3 DEF Slot
  <2>9. Slot(o) \in at
    BY <2>7, <2>8
  <2> QED
    BY <2>9, <1>1, <1>3
<1> QED
  BY <1>2, <1>3

-----------------------------------------------------------------------------
(* A new object takes a new slot, and has one handle. *)
LEMMA HoldIInv ==
  ASSUME TableParameters, TableIInv, NEW h \in Handles, NEW v \in Tables \cup {Nil},
         NEW named \in BOOLEAN, Hold(h, v, named), globals' \in [Names -> Tables \cup {Nil}]
  PROVE  TableIInv'
<1> DEFINE n == Len(stack)
           rec == [index |-> n + 1, pointer |-> v, ref |-> IF named THEN 0 ELSE 1, named |-> named]
<1>1. /\ stack \in Seq(Tables \cup {Nil}) /\ n \in Nat /\ n <= MaxStack
      /\ objs \in [Ids -> Objs \cup {NoObj}] /\ m_obj \in [Handles -> Ids \cup {NoObj}]
      /\ Nil \notin Tables /\ NoObj \notin Objs /\ NoObj \notin Ids /\ MaxStack \in Nat
  BY LenProperties DEF TableIInv, TableTypeOK, TableParameters
<1>2. m_obj[h] = NoObj /\ n < MaxStack /\ stack' = Append(stack, v)
  BY DEF Hold
<1>3. PICK o \in Ids \ (Live \cup {m_obj[k] : k \in Handles}) :
        objs' = [objs EXCEPT ![o] = rec] /\ m_obj' = [m_obj EXCEPT ![h] = o]
  BY DEF Hold
<1>4. rec \in Objs /\ rec # NoObj
  BY <1>1, <1>2 DEF Objs
<1>5. stack' \in Seq(Tables \cup {Nil}) /\ Len(stack') = n + 1
  BY <1>1, <1>2, AppendProperties
<1>6. TableTypeOK'
  BY <1>1, <1>2, <1>3, <1>4, <1>5 DEF TableTypeOK
<1>7. o \notin Live /\ objs[o] = NoObj /\ \A k \in Handles : m_obj[k] # o
  BY <1>3 DEF Live
<1>8. objs'[o] = rec /\ \A q \in Ids : q # o => objs'[q] = objs[q]
  BY <1>1, <1>3
<1>9. rec.pointer = v /\ rec.named = named /\ rec.ref = IF named THEN 0 ELSE 1
  OBVIOUS
<1> HIDE DEF n, rec
<1>10. Live' = Live \cup {o}
  BY <1>3, <1>4, <1>8 DEF Live
<1>11. SlotForEach'
  <2> SUFFICES ASSUME NEW t \in Tables
               PROVE  Cardinality(Places(stack', t)) = Cardinality(ObjsOf(t)')
    BY DEF SlotForEach, Places, ObjsOf
  <2>1. Cardinality(Places(stack, t)) = Cardinality(ObjsOf(t))
    BY Counts DEF TableIInv
  <2>2. Cardinality(Places(stack', t))
          = IF v = t THEN Cardinality(Places(stack, t)) + 1 ELSE Cardinality(Places(stack, t))
    BY <1>1, <1>2, PlacesAppend
  <2>3. o \notin ObjsOf(t)
    BY <1>7 DEF ObjsOf
  <2>4. CASE v = t
    <3>1. ObjsOf(t)' = ObjsOf(t) \cup {o}
      BY <2>4, <1>3, <1>7, <1>8, <1>9, <1>10 DEF ObjsOf, Live
    <3>2. Cardinality(ObjsOf(t) \cup {o}) = Cardinality(ObjsOf(t)) + 1
      BY <2>3, CountsFinite, FS_AddElement
    <3> QED
      BY <3>1, <3>2, <2>1, <2>2, <2>4
  <2>5. CASE v # t
    <3>1. ObjsOf(t)' = ObjsOf(t)
      BY <2>5, <1>3, <1>7, <1>8, <1>9, <1>10 DEF ObjsOf, Live
    <3> QED
      BY <3>1, <2>1, <2>2, <2>5
  <2> QED
    BY <2>4, <2>5
<1>12. CountIsHandles'
  <2> SUFFICES ASSUME NEW q \in Live'
               PROVE  IF objs'[q].named THEN objs'[q].ref = Cardinality(HandlesOf(q)') - 1
                      ELSE objs'[q].ref = Cardinality(HandlesOf(q)') /\ Cardinality(HandlesOf(q)') > 0
    BY DEF CountIsHandles, HandlesOf
  <2>1. CASE q = o
    <3>1. HandlesOf(q)' = {h}
      BY <2>1, <1>1, <1>3, <1>7 DEF HandlesOf
    <3>2. Cardinality({h}) = 1
      BY FS_Singleton
    <3> QED
      BY <3>1, <3>2, <2>1, <1>8, <1>9
  <2>2. CASE q # o
    <3>1. q \in Live /\ q \in Ids /\ objs'[q] = objs[q]
      BY <2>2, <1>8, <1>10 DEF Live
    <3>2. HandlesOf(q)' = HandlesOf(q)
      BY <2>2, <3>1, <1>1, <1>2, <1>3 DEF HandlesOf
    <3> QED
      BY <3>1, <3>2, Counts DEF TableIInv
  <2> QED
    BY <2>1, <2>2
<1> QED
  BY <1>6, <1>11, <1>12 DEF TableIInv

LEMMA CopyIInv ==
  ASSUME TableParameters, TableIInv, NEW h \in Handles, NEW k \in Handles, Copy(h, k)
  PROVE  TableIInv'
<1>1. /\ objs \in [Ids -> Objs \cup {NoObj}] /\ m_obj \in [Handles -> Ids \cup {NoObj}]
      /\ NoObj \notin Objs /\ NoObj \notin Ids
  BY DEF TableIInv, TableTypeOK, TableParameters
<1>2. PICK o : o = m_obj[h]
  OBVIOUS
<1>3. /\ o # NoObj /\ m_obj[k] = NoObj /\ objs[o] # NoObj /\ k # h
      /\ m_obj' = [m_obj EXCEPT ![k] = o]
      /\ objs' = [objs EXCEPT ![o].ref = @ + 1]
      /\ stack' = stack /\ globals' = globals
  BY <1>2 DEF Copy
<1>4. o \in Ids /\ objs[o] \in Objs /\ o \in Live
  BY <1>1, <1>2, <1>3 DEF Live
<1>5. objs[o].ref \in Int
  BY <1>4 DEF Objs
<1>6. /\ objs'[o] = [objs[o] EXCEPT !.ref = @ + 1]
      /\ \A q \in Ids : q # o => objs'[q] = objs[q]
  BY <1>1, <1>3, <1>4
<1>7. /\ objs'[o] \in Objs
      /\ objs'[o].ref = objs[o].ref + 1
      /\ objs'[o].pointer = objs[o].pointer /\ objs'[o].named = objs[o].named
  BY <1>4, <1>5, <1>6 DEF Objs
<1>8. TableTypeOK'
  <2>1. objs' \in [Ids -> Objs \cup {NoObj}]
    BY <1>1, <1>3, <1>4, <1>6, <1>7
  <2> QED
    BY <2>1, <1>1, <1>3, <1>4 DEF TableIInv, TableTypeOK
<1>9. Live' = Live
  BY <1>1, <1>4, <1>6, <1>7 DEF Live
<1>10. SlotForEach'
  <2>1. ASSUME NEW t \in Tables
        PROVE  ObjsOf(t)' = ObjsOf(t)
    BY <1>6, <1>7, <1>9 DEF ObjsOf, Live
  <2>2. ASSUME NEW t \in Tables
        PROVE  Cardinality(Places(stack, t)) = Cardinality(ObjsOf(t)')
    BY <2>1, Counts DEF TableIInv
  <2> QED
    BY <2>2, <1>3 DEF SlotForEach, Places, ObjsOf
<1>11. CountIsHandles'
  <2> SUFFICES ASSUME NEW q \in Live
               PROVE  IF objs'[q].named THEN objs'[q].ref = Cardinality(HandlesOf(q)') - 1
                      ELSE objs'[q].ref = Cardinality(HandlesOf(q)') /\ Cardinality(HandlesOf(q)') > 0
    BY <1>9 DEF CountIsHandles, HandlesOf
  <2>1. /\ Cardinality(HandlesOf(q)) \in Nat
        /\ IF objs[q].named THEN objs[q].ref = Cardinality(HandlesOf(q)) - 1
           ELSE objs[q].ref = Cardinality(HandlesOf(q)) /\ Cardinality(HandlesOf(q)) > 0
    BY CountsFinite, Counts DEF TableIInv
  <2>2. CASE q = o
    <3>1. HandlesOf(q)' = HandlesOf(q) \cup {k} /\ k \notin HandlesOf(q)
      BY <2>2, <1>1, <1>3 DEF HandlesOf
    <3>2. Cardinality(HandlesOf(q)') = Cardinality(HandlesOf(q)) + 1
      BY <3>1, CountsFinite, FS_AddElement
    <3> QED
      BY <3>2, <2>1, <2>2, <1>7
  <2>3. CASE q # o
    <3>1. HandlesOf(q)' = HandlesOf(q)
      BY <2>3, <1>1, <1>3 DEF HandlesOf, Live
    <3> QED
      BY <3>1, <2>1, <2>3, <1>6 DEF Live
  <2> QED
    BY <2>2, <2>3
<1> QED
  BY <1>8, <1>10, <1>11 DEF TableIInv

(* A handle that is used finds its table, wherever its slot has gone. *)
LEMMA UseIInv ==
  ASSUME TableParameters, TableIInv, NEW h \in Handles, Use(h)
  PROVE  TableIInv' /\ \A q \in Live : objs'[q] # NoObj /\ objs'[q].pointer = objs[q].pointer
<1>1. /\ objs \in [Ids -> Objs \cup {NoObj}] /\ m_obj \in [Handles -> Ids \cup {NoObj}]
      /\ NoObj \notin Objs /\ NoObj \notin Ids /\ MaxStack \in Nat
      /\ Len(stack) \in Nat /\ Len(stack) <= MaxStack
  BY LenProperties DEF TableIInv, TableTypeOK, TableParameters
<1>2. PICK o : o = m_obj[h]
  OBVIOUS
<1>3. /\ o # NoObj /\ objs[o] # NoObj /\ objs' = [objs EXCEPT ![o] = Validated(o)]
      /\ stack' = stack /\ globals' = globals /\ m_obj' = m_obj
  BY <1>2 DEF Use
<1>4. o \in Ids /\ objs[o] \in Objs /\ o \in Live
  BY <1>1, <1>2, <1>3 DEF Live
<1>5. /\ Validated(o) \in Objs
      /\ Validated(o).pointer = objs[o].pointer
      /\ Validated(o).ref = objs[o].ref /\ Validated(o).named = objs[o].named
  <2>1. CASE objs[o].pointer = Nil
    <3>1. Slot(o) = 0
      BY <2>1, <1>4, SlotFinds
    <3>2. Validated(o) = [objs[o] EXCEPT !.pointer = Nil]
      BY <3>1 DEF Validated
    <3> QED
      BY <3>2, <2>1, <1>4 DEF Objs
  <2>2. CASE objs[o].pointer # Nil
    <3>1. Slot(o) \in 1 .. Len(stack)
      BY <2>2, <1>4, SlotFinds
    <3>2. Validated(o) = [objs[o] EXCEPT !.index = Slot(o)] /\ Slot(o) \in 1 .. MaxStack
      BY <3>1, <1>1 DEF Validated
    <3> QED
      BY <3>2, <1>4 DEF Objs
  <2> QED
    BY <2>1, <2>2
<1>6. objs'[o] = Validated(o) /\ \A q \in Ids : q # o => objs'[q] = objs[q]
  BY <1>1, <1>3, <1>4
<1>7. \A q \in Live : /\ q \in Ids /\ objs'[q] # NoObj /\ objs'[q].pointer = objs[q].pointer
                      /\ objs'[q].ref = objs[q].ref /\ objs'[q].named = objs[q].named
  BY <1>1, <1>5, <1>6 DEF Live
<1>8. TableTypeOK'
  <2>1. objs' \in [Ids -> Objs \cup {NoObj}]
    BY <1>1, <1>3, <1>4, <1>5
  <2> QED
    BY <2>1, <1>3 DEF TableIInv, TableTypeOK
<1>9. Live' = Live
  BY <1>1, <1>4, <1>5, <1>6 DEF Live
<1>10. SlotForEach' /\ CountIsHandles'
  <2>1. SlotForEach'
    BY <1>3, <1>7, <1>9 DEF TableIInv, SlotForEach
  <2>2. CountIsHandles'
    BY <1>3, <1>7, <1>9 DEF TableIInv, CountIsHandles
  <2> QED
    BY <2>1, <2>2
<1> QED
  BY <1>7, <1>8, <1>10 DEF TableIInv

(* The last handle takes the object with it, and the object its slot. *)
LEMMA ReleaseIInv ==
  ASSUME TableParameters, TableIInv, NEW h \in Handles, Release(h)
  PROVE  /\ TableIInv'
         /\ \A q \in Live : objs'[q] # NoObj => objs'[q].pointer = objs[q].pointer
         /\ \A q \in Live : objs'[q] = NoObj /\ ~objs[q].named => \A k \in Handles : m_obj'[k] # q
<1>1. /\ objs \in [Ids -> Objs \cup {NoObj}] /\ m_obj \in [Handles -> Ids \cup {NoObj}]
      /\ NoObj \notin Objs /\ NoObj \notin Ids /\ MaxStack \in Nat /\ Nil \notin Tables
      /\ stack \in Seq(Tables \cup {Nil}) /\ Len(stack) \in Nat /\ Len(stack) <= MaxStack
  BY LenProperties DEF TableIInv, TableTypeOK, TableParameters
<1>2. PICK o : o = m_obj[h]
  OBVIOUS
<1>3. /\ o # NoObj /\ objs[o] # NoObj /\ m_obj' = [m_obj EXCEPT ![h] = NoObj] /\ globals' = globals
      /\ IF objs[o].ref - 1 # 0
         THEN objs' = [objs EXCEPT ![o].ref = @ - 1] /\ stack' = stack
         ELSE /\ objs' = [objs EXCEPT ![o] = NoObj]
              /\ stack' = IF Slot(o) = 0 THEN stack ELSE RemoveAt(stack, Slot(o))
  BY <1>2 DEF Release
<1>4. o \in Ids /\ objs[o] \in Objs /\ o \in Live
  BY <1>1, <1>2, <1>3 DEF Live
<1>5. objs[o].ref \in Int
  BY <1>4 DEF Objs
<1>6. ASSUME NEW q \in Live
      PROVE  /\ Cardinality(HandlesOf(q)) \in Nat
             /\ IF objs[q].named THEN objs[q].ref = Cardinality(HandlesOf(q)) - 1
                ELSE objs[q].ref = Cardinality(HandlesOf(q)) /\ Cardinality(HandlesOf(q)) > 0
             /\ q # o => HandlesOf(q)' = HandlesOf(q)
             /\ q = o => Cardinality(HandlesOf(q)') = Cardinality(HandlesOf(q)) - 1
  <2>1. CASE q # o
    <3>1. HandlesOf(q)' = HandlesOf(q)
      BY <2>1, <1>1, <1>2, <1>3 DEF HandlesOf, Live
    <3> QED
      BY <2>1, <3>1, CountsFinite, Counts DEF TableIInv
  <2>2. CASE q = o
    <3>1. HandlesOf(q)' = HandlesOf(q) \ {h} /\ h \in HandlesOf(q)
      BY <2>2, <1>1, <1>2, <1>3 DEF HandlesOf
    <3>2. Cardinality(HandlesOf(q)') = Cardinality(HandlesOf(q)) - 1
      BY <3>1, CountsFinite, FS_RemoveElement
    <3> QED
      BY <2>2, <3>2, CountsFinite, Counts DEF TableIInv
  <2> QED
    BY <2>1, <2>2
<1>7. m_obj' \in [Handles -> Ids \cup {NoObj}]
  BY <1>1, <1>3
<1>8. ASSUME NEW t \in Tables
      PROVE  Cardinality(Places(stack, t)) = Cardinality(ObjsOf(t))
  BY Counts DEF TableIInv
<1>9. CASE objs[o].ref - 1 # 0
  <2>1. /\ objs'[o] = [objs[o] EXCEPT !.ref = @ - 1]
        /\ \A q \in Ids : q # o => objs'[q] = objs[q]
    BY <1>1, <1>3, <1>4, <1>9
  <2>2. /\ objs'[o] \in Objs /\ objs'[o].ref = objs[o].ref - 1
        /\ objs'[o].pointer = objs[o].pointer /\ objs'[o].named = objs[o].named
    BY <2>1, <1>4, <1>5 DEF Objs
  <2>3. objs' \in [Ids -> Objs \cup {NoObj}] /\ stack' = stack
    BY <2>2, <1>1, <1>3, <1>4, <1>9
  <2>4. TableTypeOK'
    BY <2>3, <1>1, <1>3, <1>7 DEF TableIInv, TableTypeOK
  <2>5. Live' = Live
    BY <2>1, <2>2, <1>1, <1>4 DEF Live
  <2>6. \A q \in Live : q \in Ids /\ objs'[q] # NoObj /\ objs'[q].pointer = objs[q].pointer
    BY <2>1, <2>2, <1>1 DEF Live
  <2>7. SlotForEach'
    BY <2>3, <2>5, <2>6 DEF TableIInv, SlotForEach
  <2>8. CountIsHandles'
    <3> SUFFICES ASSUME NEW q \in Live
                 PROVE  IF objs'[q].named THEN objs'[q].ref = Cardinality(HandlesOf(q)') - 1
                        ELSE objs'[q].ref = Cardinality(HandlesOf(q)') /\ Cardinality(HandlesOf(q)') > 0
      BY <2>5 DEF CountIsHandles, HandlesOf
    <3>1. CASE q = o
      BY <3>1, <2>2, <1>5, <1>6, <1>9
    <3>2. CASE q # o
      BY <3>2, <2>1, <1>6 DEF Live
    <3> QED
      BY <3>1, <3>2
  <2> QED
    BY <2>4, <2>6, <2>7, <2>8 DEF TableIInv
<1>10. CASE objs[o].ref - 1 = 0
  <2>1. /\ objs' = [objs EXCEPT ![o] = NoObj]
        /\ stack' = IF Slot(o) = 0 THEN stack ELSE RemoveAt(stack, Slot(o))
    BY <1>3, <1>10
  <2>2. /\ objs' \in [Ids -> Objs \cup {NoObj}] /\ objs'[o] = NoObj
        /\ \A q \in Ids : q # o => objs'[q] = objs[q]
    BY <2>1, <1>1, <1>4
  <2>3. Live' = Live \ {o} /\ \A q \in Live' : q \in Ids /\ q \in Live /\ q # o /\ objs'[q] = objs[q]
    BY <2>2 DEF Live
  <2>4. IF objs[o].pointer = Nil THEN Slot(o) = 0
        ELSE Slot(o) \in 1 .. Len(stack) /\ stack[Slot(o)] = objs[o].pointer
    BY <1>4, SlotFinds
  <2>5. stack' \in Seq(Tables \cup {Nil}) /\ Len(stack') <= MaxStack
    <3>1. CASE Slot(o) = 0
      BY <3>1, <2>1, <1>1
    <3>2. CASE Slot(o) # 0
      <4>1. Slot(o) \in 1 .. Len(stack) /\ stack' = RemoveAt(stack, Slot(o))
        BY <3>2, <2>1, <2>4
      <4> QED
        BY <4>1, <1>1, RemoveAtElements
    <3> QED
      BY <3>1, <3>2
  <2>6. TableTypeOK'
    BY <2>2, <2>5, <1>3, <1>7 DEF TableIInv, TableTypeOK
  <2>7. SlotForEach'
    <3> SUFFICES ASSUME NEW t \in Tables
                 PROVE  Cardinality(Places(stack', t)) = Cardinality(ObjsOf(t)')
      BY DEF SlotForEach, Places, ObjsOf
    <3>1. ObjsOf(t)' = ObjsOf(t) \ {o} /\ (o \in ObjsOf(t) <=> objs[o].pointer = t)
      BY <2>2, <2>3, <1>4 DEF ObjsOf
    <3>2. Cardinality(ObjsOf(t)') = IF objs[o].pointer = t THEN Cardinality(ObjsOf(t)) - 1
                                    ELSE Cardinality(ObjsOf(t))
      BY <3>1, CountsFinite, FS_RemoveElement
    <3>3. CASE objs[o].pointer = Nil
      <4>1. objs[o].pointer # t /\ stack' = stack
        BY <3>3, <2>1, <2>4, <1>1
      <4> QED
        BY <4>1, <3>2, <1>8
    <3>4. CASE objs[o].pointer # Nil
      <4>1. /\ Slot(o) \in 1 .. Len(stack) /\ stack[Slot(o)] = objs[o].pointer
            /\ stack' = RemoveAt(stack, Slot(o))
        BY <3>4, <2>1, <2>4
      <4>2. Cardinality(Places(stack', t))
              = IF stack[Slot(o)] = t THEN Cardinality(Places(stack, t)) - 1
                ELSE Cardinality(Places(stack, t))
        BY <4>1, <1>1, PlacesRemoveAt
      <4> QED
        BY <4>1, <4>2, <3>2, <1>8
    <3> QED
      BY <3>3, <3>4
  <2>8. CountIsHandles'
    <3> SUFFICES ASSUME NEW q \in Live'
                 PROVE  IF objs'[q].named THEN objs'[q].ref = Cardinality(HandlesOf(q)') - 1
                        ELSE objs'[q].ref = Cardinality(HandlesOf(q)') /\ Cardinality(HandlesOf(q)') > 0
      BY DEF CountIsHandles, HandlesOf
    <3> QED
      BY <2>3, <1>6
  <2>9. ~objs[o].named => \A k \in Handles : m_obj'[k] # o
    <3> SUFFICES ASSUME ~objs[o].named
                 PROVE  \A k \in Handles : m_obj'[k] # o
      OBVIOUS
    <3>1. Cardinality(HandlesOf(o)') = 0
      BY <1>4, <1>5, <1>6, <1>10
    <3>2. IsFiniteSet(HandlesOf(o)')
      <4>1. HandlesOf(o)' \in SUBSET Handles
        BY DEF HandlesOf
      <4> QED
        BY <4>1, FS_Subset DEF TableParameters
    <3>3. HandlesOf(o)' = {}
      BY <3>1, <3>2, FS_EmptySet
    <3> QED
      BY <3>3 DEF HandlesOf
  <2>10. \A q \in Live : (objs'[q] # NoObj => objs'[q].pointer = objs[q].pointer) /\ (objs'[q] = NoObj => q = o)
    BY <2>2, <1>1 DEF Live
  <2> QED
    BY <2>6, <2>7, <2>8, <2>9, <2>10 DEF TableIInv
<1> QED
  BY <1>9, <1>10

-----------------------------------------------------------------------------
LEMMA InitIInv ==
  ASSUME TableParameters, TableInit
  PROVE  TableIInv
<1>1. stack = <<>> /\ Live = {} /\ 0 <= MaxStack
  BY DEF TableInit, Live, TableParameters
<1>2. stack \in Seq(Tables \cup {Nil}) /\ Len(stack) = 0
  BY <1>1, EmptySeq
<1>3. TableTypeOK
  BY <1>1, <1>2 DEF TableInit, TableTypeOK
<1>4. SlotForEach
  <2> SUFFICES ASSUME NEW t \in Tables
               PROVE  Cardinality(Places(stack, t)) = Cardinality(ObjsOf(t))
    BY Counts
  <2>1. Places(stack, t) = {} /\ ObjsOf(t) = {}
    BY <1>1, <1>2 DEF Places, ObjsOf
  <2> QED
    BY <2>1
<1>5. CountIsHandles
  BY <1>1 DEF CountIsHandles
<1> QED
  BY <1>3, <1>4, <1>5 DEF TableIInv

(* What a step does to the invariant and to the objects that handles have. *)
KeepsTables == \A o \in Live : objs'[o] # NoObj => objs'[o].pointer = objs[o].pointer
DeletesLast == \A o \in Live : objs'[o] = NoObj /\ ~objs[o].named => \A h \in Handles : m_obj'[h] # o

(* A step after which every object is still there as it was. *)
LEMMA ObjectsStay ==
  ASSUME TableParameters, TableIInv,
         \A o \in Live : objs'[o] # NoObj /\ objs'[o].pointer = objs[o].pointer
  PROVE  KeepsTables /\ DeletesLast
BY DEF KeepsTables, DeletesLast

LEMMA HoldKeeps ==
  ASSUME TableParameters, TableIInv, NEW h \in Handles, NEW v \in Tables \cup {Nil},
         NEW named \in BOOLEAN, Hold(h, v, named)
  PROVE  KeepsTables /\ DeletesLast
<1>1. \E o \in Ids \ Live : \E r : objs' = [objs EXCEPT ![o] = r]
  BY DEF Hold
<1>2. \A o \in Live : o \in Ids /\ objs'[o] = objs[o] /\ objs[o] # NoObj
  BY <1>1 DEF TableIInv, TableTypeOK, Live
<1> QED
  BY <1>2, ObjectsStay

LEMMA CopyKeeps ==
  ASSUME TableParameters, TableIInv, NEW h \in Handles, NEW k \in Handles, Copy(h, k)
  PROVE  KeepsTables /\ DeletesLast
<1>1. PICK p : p = m_obj[h]
  OBVIOUS
<1>2. objs' = [objs EXCEPT ![p].ref = @ + 1]
  BY <1>1 DEF Copy
<1>3. ASSUME NEW o \in Live
      PROVE  objs'[o] # NoObj /\ objs'[o].pointer = objs[o].pointer
  <2>1. o \in Ids /\ objs[o] \in Objs /\ objs \in [Ids -> Objs \cup {NoObj}]
    BY DEF TableIInv, TableTypeOK, Live
  <2>2. objs'[o] = IF o = p THEN [objs[o] EXCEPT !.ref = @ + 1] ELSE objs[o]
    BY <2>1, <1>2
  <2>3. objs[o].ref \in Int
    BY <2>1 DEF Objs
  <2>4. objs'[o] \in Objs /\ objs'[o].pointer = objs[o].pointer
    BY <2>1, <2>2, <2>3 DEF Objs
  <2> QED
    BY <2>4 DEF TableParameters
<1> QED
  BY <1>3, ObjectsStay

LEMMA NextIInv ==
  ASSUME TableParameters, TableIInv, [TableNext]_tableVars
  PROVE  TableIInv' /\ KeepsTables /\ DeletesLast
<1>1. CASE \E h \in Handles : New(h)
  <2>1. PICK h \in Handles : New(h)
    BY <1>1
  <2>2. PICK t \in Tables : Hold(h, t, FALSE)
    BY <2>1 DEF New, Fresh
  <2>3. globals' \in [Names -> Tables \cup {Nil}]
    BY <2>1 DEF New, TableIInv, TableTypeOK
  <2> QED
    BY <2>2, <2>3, HoldIInv, HoldKeeps
<1>2. CASE \E h \in Handles, n \in Names : FromName(h, n)
  <2>1. PICK h \in Handles, n \in Names : FromName(h, n)
    BY <1>2
  <2>2. globals \in [Names -> Tables \cup {Nil}]
    BY DEF TableIInv, TableTypeOK
  <2>3. PICK t \in Tables : Hold(h, t, TRUE) /\ globals' \in [Names -> Tables \cup {Nil}]
    BY <2>1, <2>2 DEF FromName, Fresh
  <2> QED
    BY <2>3, HoldIInv, HoldKeeps
<1>3. CASE \E h \in Handles : Get(h)
  <2>1. PICK h \in Handles : Get(h)
    BY <1>3
  <2>2. PICK v \in Tables \cup {Nil} : Hold(h, v, FALSE)
    BY <2>1 DEF Get
  <2>3. globals' \in [Names -> Tables \cup {Nil}]
    BY <2>1 DEF Get, TableIInv, TableTypeOK
  <2> QED
    BY <2>2, <2>3, HoldIInv, HoldKeeps
<1>4. CASE \E h, k \in Handles : Copy(h, k)
  BY <1>4, CopyIInv, CopyKeeps
<1>5. CASE \E h \in Handles : Release(h)
  BY <1>5, ReleaseIInv DEF KeepsTables, DeletesLast
<1>6. CASE \E h \in Handles : Use(h)
  BY <1>6, UseIInv, ObjectsStay
<1>7. CASE UNCHANGED tableVars
  <2>1. TableIInv'
    BY <1>7 DEF tableVars, TableIInv, TableTypeOK, SlotForEach, CountIsHandles, Live
  <2>2. KeepsTables /\ DeletesLast
    BY <1>7, ObjectsStay DEF tableVars, Live
  <2> QED
    BY <2>1, <2>2
<1> QED
  BY <1>1, <1>2, <1>3, <1>4, <1>5, <1>6, <1>7 DEF TableNext

(* Every object has a slot of its own and counts its handles. *)
THEOREM SlotPerObjectAlways ==
  ASSUME TableParameters
  PROVE  TableSpec => []SlotPerObject
<1>1. TableInit => TableIInv
  BY InitIInv
<1>2. TableIInv /\ [TableNext]_tableVars => TableIInv'
  BY NextIInv
<1>3. TableIInv => SlotPerObject
  BY DEF TableIInv, SlotPerObject
<1> QED
  BY <1>1, <1>2, <1>3, PTL DEF TableSpec

(* validate never gives a table up, and an object not made from a name goes *)
(* with its last handle.                                                   *)
THEOREM HandlesKeepAlways ==
  ASSUME TableParameters
  PROVE  TableSpec => HandlesKeep
<1>1. TableInit => TableIInv
  BY InitIInv
<1>2. TableIInv /\ [TableNext]_tableVars => TableIInv'
  BY NextIInv
<1>3. TableIInv /\ [TableNext]_tableVars => [KeepsTables]_tableVars /\ [DeletesLast]_tableVars
  BY NextIInv
<1> QED
  BY <1>1, <1>2, <1>3, PTL DEF TableSpec, HandlesKeep, TableKept, DeletedWithLast, KeepsTables, DeletesLast

-----------------------------------------------------------------------------
(* The calls into scripts, beside the table handles: the C++ functions and *)
(* the scripts in progress share the slots.                                *)
Frames == [func : 1 .. StackSize, by : {"host", "call", "chunk", "script"},
           held : Seq(Values), fails : Nat]

LEMMA CallTypes ==
  ASSUME CallParameters, CallIInv
  PROVE  /\ slots \in [1 .. StackSize -> Slots] /\ top \in 0 .. StackSize
         /\ frames \in Seq(Frames) /\ Len(frames) \in 1 .. MaxFrames /\ Len(frames) \in Nat \ {0}
         /\ MaxFrames \in Nat \ {0} /\ MaxHeld \in Nat /\ StackSize \in Nat
         /\ \A i \in 1 .. Len(frames) :
              /\ frames[i] \in Frames /\ frames[i].func \in Nat \ {0}
              /\ frames[i].held \in Seq(Values) /\ Len(frames[i].held) \in Nat
              /\ frames[i].fails \in Nat
<1>1. /\ slots \in [1 .. StackSize -> Slots] /\ top \in 0 .. StackSize
      /\ frames \in Seq(Frames)
  BY DEF CallIInv, CallTypeOK, Frames
<1>2. Len(frames) \in 1 .. MaxFrames /\ MaxFrames \in Nat \ {0} /\ MaxHeld \in Nat
  BY DEF CallIInv, FramesInOrder, CallParameters
<1>3. Len(frames) \in Nat \ {0} /\ StackSize \in Nat
  BY <1>2 DEF StackSize
<1>4. \A i \in 1 .. Len(frames) : frames[i] \in Frames
  BY <1>1, ElementOfSeq
<1>5. \A f \in Frames : /\ f.func \in 1 .. StackSize /\ f.held \in Seq(Values)
                        /\ f.fails \in Nat
  BY DEF Frames
<1>6. \A f \in Frames : f.func \in Nat \ {0} /\ Len(f.held) \in Nat
  BY <1>3, <1>5, LenProperties
<1> QED
  BY <1>1, <1>2, <1>3, <1>4, <1>5, <1>6

(* Frames alternate. *)
LEMMA Parity ==
  ASSUME NEW i \in Nat
  PROVE  i % 2 \in {0, 1} /\ (i + 1) % 2 = 1 - (i % 2)
OBVIOUS

(* There are slots for the frame that runs and for what a call prepares.   *)
LEMMA RoomAbove ==
  ASSUME CallParameters, CallIInv
  PROVE  /\ top + 3 <= StackSize
         /\ top + 2 <= Len(frames) * (MaxHeld + 3) + 1
         /\ Len(frames) % 2 = 1 => top + 1 >= frames[Len(frames)].func
         /\ Len(frames) % 2 # 1 => top - frames[Len(frames)].func \in 0 .. 1
<1> DEFINE n == Len(frames)
           f == frames[n]
<1>1. /\ n \in 1 .. MaxFrames /\ n \in Nat \ {0} /\ MaxFrames \in Nat \ {0} /\ MaxHeld \in Nat
      /\ f.func \in Nat /\ Len(f.held) \in Nat /\ f.fails \in Nat /\ top \in Nat
      /\ StackSize \in Nat
  BY CallTypes
<1>2. /\ f.func <= (n - 1) * (MaxHeld + 3) + 1 /\ Len(f.held) <= MaxHeld + 1
      /\ top - f.func \in IF n % 2 = 1 THEN Nat \cup {-1} ELSE 0 .. 1
      /\ InPlace(n, f, top - f.func)
  <2>1. n \in 1 .. n
    BY <1>1
  <2>2. f.func <= (n - 1) * (MaxHeld + 3) + 1 /\ Len(f.held) <= MaxHeld + 1
    BY <2>1 DEF CallIInv, FramesInOrder
  <2>3. top - f.func \in IF n % 2 = 1 THEN Nat \cup {-1} ELSE 0 .. 1
    BY <1>1 DEF CallIInv, FramesInOrder, Current, InCpp, CppFrames
  <2>4. Extent(n) = top - f.func
    BY DEF Extent
  <2>5. InPlace(n, f, top - f.func)
    BY <2>1, <2>4 DEF CallIInv
  <2> QED
    BY <2>2, <2>3, <2>5
<1>3. top <= f.func + MaxHeld + 1
  <2>1. CASE n % 2 = 1
    <3>1. top - f.func = Len(f.held) - f.fails
      BY <2>1, <1>2 DEF InPlace
    <3> HIDE DEF f
    <3>2. PICK a \in Nat, g \in Nat, z \in Nat, t \in Nat, h \in Nat :
            a = f.func /\ g = Len(f.held) /\ z = f.fails /\ t = top /\ h = MaxHeld
      BY <1>1
    <3>3. t - a = g - z /\ g <= h + 1
      BY <3>1, <3>2, <1>2
    <3>4. t <= a + h + 1
      BY <3>3
    <3> QED
      BY <3>2, <3>4
  <2>2. CASE n % 2 # 1
    BY <2>2, <1>1, <1>2
  <2> QED
    BY <2>1, <2>2
<1>4. PICK K \in Nat : K = MaxHeld + 3
  BY <1>1
<1>5. (n - 1) * K + K = n * K /\ n * K \in Nat
  BY <1>1
<1>6. n * K <= MaxFrames * K /\ MaxFrames * K \in Nat
  BY <1>1
<1>7. top + 2 <= n * K + 1
  <2>1. top + 2 <= f.func + K
    BY <1>1, <1>3, <1>4
  <2> QED
    BY <2>1, <1>1, <1>2, <1>4, <1>5
<1>8. top + 3 <= MaxFrames * K + 3
  BY <1>1, <1>5, <1>6, <1>7
<1> QED
  BY <1>1, <1>2, <1>4, <1>7, <1>8 DEF StackSize

(* Two functions that follow each other. *)
LEMMA Neighbours ==
  ASSUME CallParameters, CallIInv, NEW i \in 2 .. Len(frames)
  PROVE  IF i % 2 = 1 THEN frames[i].func - frames[i - 1].func \in 1 .. 2
                      ELSE frames[i].func - frames[i - 1].func \in Nat \ {0, 1}
<1>1. Len(frames) \in Nat /\ i \in 1 .. Len(frames)
  BY CallTypes
<1> QED
  BY <1>1 DEF CallIInv, FramesInOrder, CppFrames

(* A slot two or more above another one is not the first.                  *)
LEMMA AtLeastOneBelow ==
  ASSUME NEW a \in Nat, NEW d \in Nat, a - d \in Nat \ {0, 1}
  PROVE  a - 1 >= 1
OBVIOUS

(* What a frame uses is below the functions of the frames above it.        *)
LEMMA UsedBelow ==
  ASSUME CallParameters, CallIInv, NEW m \in 1 .. Len(frames), NEW i \in 1 .. m - 1
  PROVE  /\ i \in 1 .. Len(frames) /\ i + 1 \in 1 .. Len(frames)
         /\ frames[i].func \in 1 .. frames[m].func - 1
         /\ Extent(i) = frames[i + 1].func - 2 - frames[i].func
         /\ i % 2 = 1 => \A k \in 1 .. Extent(i) : frames[i].func + k \in 1 .. frames[m].func - 1
         /\ i % 2 # 1 => frames[i].func - 1 \in 1 .. frames[m].func - 1
<1>1. /\ Len(frames) \in Nat /\ i \in 1 .. Len(frames) /\ i + 1 \in 1 .. Len(frames)
      /\ m \in Nat /\ i \in Nat /\ i + 1 <= m /\ i < Len(frames)
  BY CallTypes
<1>2. PICK a \in Nat \ {0}, b \in Nat \ {0}, c \in Nat \ {0} :
        a = frames[i].func /\ b = frames[i + 1].func /\ c = frames[m].func
  BY <1>1, CallTypes
<1>3. \A h \in 1 .. Len(frames), j \in 1 .. Len(frames) : j < h => frames[j].func < frames[h].func
  <2>1. ASSUME NEW h \in 1 .. Len(frames), NEW j \in 1 .. Len(frames), j < h
        PROVE  frames[j].func < frames[h].func
    <3>1. j \in 1 .. h - 1
      BY <2>1, <1>1
    <3> QED
      BY <3>1 DEF CallIInv, FramesInOrder
  <2> QED
    BY <2>1
<1>4. a < c /\ b <= c
  <2>1. CASE i + 1 = m
    BY <2>1, <1>1, <1>2, <1>3
  <2>2. CASE i + 1 # m
    BY <2>2, <1>1, <1>2, <1>3
  <2> QED
    BY <2>1, <2>2
<1>5. Extent(i) = b - 2 - a
  BY <1>1, <1>2 DEF Extent
<1>6. i % 2 # 1 => a - 1 >= 1
  <2>1. ASSUME i % 2 # 1
        PROVE  a - 1 >= 1
    <3>1. i # 1
      BY <2>1
    <3>2. i \in 2 .. Len(frames)
      BY <3>1, <1>1
    <3>3. a - frames[i - 1].func \in Nat \ {0, 1}
      BY <2>1, <3>2, <1>2, Neighbours
    <3>4. PICK d \in Nat : d = frames[i - 1].func
      BY <3>2, <1>1, CallTypes
    <3>5. a - d \in Nat \ {0, 1}
      BY <3>3, <3>4
    <3> QED
      BY <3>5, AtLeastOneBelow
  <2> QED
    BY <2>1
<1>7. i % 2 # 1 => a - 1 \in 1 .. c - 1
  BY <1>2, <1>4, <1>6
<1>8. ASSUME NEW k \in 1 .. b - 2 - a
      PROVE  a + k \in 1 .. c - 1
  <2>1. k \in Nat \ {0} /\ k <= b - 2 - a
    OBVIOUS
  <2> QED
    BY <2>1, <1>4
<1> QED
  BY <1>1, <1>2, <1>4, <1>5, <1>7, <1>8

(* So they keep what they have when nothing below those functions changes. *)
LEMMA LowFramesKept ==
  ASSUME CallParameters, CallIInv, NEW m \in 1 .. Len(frames),
         \A p \in 1 .. frames[m].func - 1 : slots'[p] = slots[p],
         Len(frames') \in Nat, m <= Len(frames'), frames'[m].func = frames[m].func,
         \A i \in 1 .. m - 1 : frames'[i] = frames[i]
  PROVE  \A i \in 1 .. m - 1 : InPlace(i, frames[i], Extent(i))'
<1> SUFFICES ASSUME NEW i \in 1 .. m - 1
             PROVE  InPlace(i, frames[i], Extent(i))'
  OBVIOUS
<1>1. /\ i \in 1 .. Len(frames) /\ i + 1 \in 1 .. Len(frames) /\ Len(frames) \in Nat
      /\ frames[i].func \in 1 .. frames[m].func - 1
      /\ Extent(i) = frames[i + 1].func - 2 - frames[i].func
      /\ i % 2 = 1 => \A k \in 1 .. Extent(i) : frames[i].func + k \in 1 .. frames[m].func - 1
      /\ i % 2 # 1 => frames[i].func - 1 \in 1 .. frames[m].func - 1
  BY UsedBelow, CallTypes
<1>2. InPlace(i, frames[i], Extent(i))
  BY <1>1 DEF CallIInv
<1>3. frames'[i] = frames[i] /\ frames'[i + 1].func = frames[i + 1].func /\ i # Len(frames')
  <2>1. CASE i + 1 = m
    BY <2>1, <1>1
  <2>2. CASE i + 1 # m
    <3>1. i + 1 \in 1 .. m - 1
      BY <2>2, <1>1
    <3> QED
      BY <3>1, <1>1
  <2> QED
    BY <2>1, <2>2
<1>4. Extent(i)' = Extent(i)
  BY <1>1, <1>3 DEF Extent
<1> HIDE DEF Extent
<1>5. CASE i % 2 = 1
  BY <1>1, <1>2, <1>3, <1>4, <1>5 DEF InPlace
<1>6. CASE i % 2 # 1
  BY <1>1, <1>2, <1>3, <1>6 DEF InPlace
<1> QED
  BY <1>5, <1>6

(* A step of the frame that runs, and a return to the frame m below: it    *)
(* becomes f, and what lies under its function is untouched.               *)
LEMMA BackTo ==
  ASSUME CallParameters, CallIInv, NEW m \in 1 .. Len(frames), NEW f \in Frames,
         f.func = frames[m].func, Len(f.held) <= MaxHeld + 1,
         frames' \in Seq(Frames), Len(frames') = m, frames'[m] = f,
         \A i \in 1 .. m - 1 : frames'[i] = frames[i],
         slots' \in [1 .. StackSize -> Slots], top' \in 0 .. StackSize,
         \A p \in 1 .. f.func - 1 : slots'[p] = slots[p],
         top' - f.func \in IF m % 2 = 1 THEN Nat \cup {-1} ELSE 0 .. 1,
         InPlace(m, f, top - f.func)'
  PROVE  CallIInv'
<1>1. /\ Len(frames) \in Nat /\ Len(frames) <= MaxFrames /\ MaxFrames \in Nat
      /\ m \in Nat \ {0} /\ m <= Len(frames)
  BY CallTypes
<1>2. CallTypeOK'
  BY DEF CallTypeOK, Frames
<1>3. \A i \in 1 .. m :
        /\ frames'[i].func = frames[i].func /\ Len(frames'[i].held) <= MaxHeld + 1
        /\ i \in 1 .. Len(frames)
  <2>1. \A i \in 1 .. Len(frames) : Len(frames[i].held) <= MaxHeld + 1
    BY DEF CallIInv, FramesInOrder
  <2>2. \A i \in 1 .. m : i \in 1 .. m - 1 \/ i = m
    BY <1>1
  <2> QED
    BY <2>1, <2>2, <1>1
<1>4. FramesInOrder'
  <2>1. m \in 1 .. MaxFrames /\ frames'[1].func = 1
    <3>1. 1 \in 1 .. m
      BY <1>1
    <3> QED
      BY <3>1, <1>1, <1>3 DEF CallIInv, FramesInOrder
  <2>2. ASSUME NEW i \in 1 .. m
        PROVE  /\ frames'[i].func <= (i - 1) * (MaxHeld + 3) + 1
               /\ \A j \in 1 .. i - 1 : frames'[j].func < frames'[i].func
               /\ Len(frames'[i].held) <= MaxHeld + 1
    <3>1. \A j \in 1 .. i - 1 : j \in 1 .. m
      BY <1>1
    <3> QED
      BY <3>1, <1>3 DEF CallIInv, FramesInOrder
  <2>3. ASSUME NEW i \in 2 .. m
        PROVE  frames'[i].func - frames'[i - 1].func
                 \in IF i % 2 = 1 THEN 1 .. 2 ELSE Nat \ {0, 1}
    <3>1. i \in 1 .. m /\ i - 1 \in 1 .. m /\ i \in 2 .. Len(frames)
      BY <1>1
    <3> QED
      BY <3>1, <1>3, Neighbours
  <2>4. InCpp' <=> m % 2 = 1
    BY <1>1 DEF InCpp, CppFrames
  <2>5. (top - Current.func \in IF InCpp THEN Nat \cup {-1} ELSE 0 .. 1)'
    BY <2>4 DEF Current
  <2>6. \A i \in 2 .. m : (i \in CppFrames)' <=> i % 2 = 1
    BY <1>1 DEF CppFrames
  <2> QED
    BY <2>1, <2>2, <2>3, <2>5, <2>6 DEF FramesInOrder
<1>5. \A i \in 1 .. m - 1 : InPlace(i, frames[i], Extent(i))'
  <2>1. \A p \in 1 .. frames[m].func - 1 : slots'[p] = slots[p]
    OBVIOUS
  <2>2. Len(frames') \in Nat /\ m <= Len(frames') /\ frames'[m].func = frames[m].func
    BY <1>1
  <2> QED
    BY <2>1, <2>2, LowFramesKept
<1>6. InPlace(m, frames[m], Extent(m))'
  BY DEF Extent
<1>7. \A i \in 1 .. m : InPlace(i, frames[i], Extent(i))'
  <2>1. \A i \in 1 .. m : i \in 1 .. m - 1 \/ i = m
    BY <1>1
  <2> QED
    BY <2>1, <1>5, <1>6
<1> QED
  BY <1>2, <1>4, <1>7 DEF CallIInv

(* A call: the frame g above the one that runs, whose slots it leaves.     *)
LEMMA CallOf ==
  ASSUME CallParameters, CallIInv, NEW g \in Frames, NEW n, n = Len(frames),
         n < MaxFrames, Len(g.held) <= MaxHeld + 1,
         IF n % 2 = 1 THEN top >= frames[n].func /\ g.func = top + 2 ELSE g.func = top + 1,
         frames' = Append(frames, g),
         slots' \in [1 .. StackSize -> Slots], top' \in 0 .. StackSize,
         \A p \in 1 .. top : slots'[p] = slots[p],
         top' - g.func \in IF n % 2 = 1 THEN 0 .. 1 ELSE Nat,
         InPlace(n + 1, g, top - g.func)'
  PROVE  CallIInv'
<1>1. /\ n \in Nat \ {0} /\ n <= MaxFrames /\ MaxFrames \in Nat /\ MaxHeld \in Nat
      /\ frames \in Seq(Frames) /\ top \in Nat
      /\ (n + 1) % 2 = 1 <=> n % 2 # 1
  BY CallTypes, Parity
<1>2. /\ frames' \in Seq(Frames) /\ Len(frames') = n + 1 /\ frames'[n + 1] = g
      /\ \A i \in 1 .. n : frames'[i] = frames[i]
  BY <1>1, AppendProperties
<1>3. PICK a \in Nat \ {0}, b \in Nat : a = frames[n].func /\ b = g.func
  <2>1. frames[n].func \in Nat \ {0}
    BY <1>1, CallTypes
  <2>2. g.func \in Nat
    BY <1>1
  <2> QED
    BY <2>1, <2>2
<1>4. /\ top + 2 <= n * (MaxHeld + 3) + 1
      /\ n % 2 # 1 => top - a \in 0 .. 1
      /\ n % 2 = 1 => top >= a /\ b = top + 2
      /\ n % 2 # 1 => b = top + 1
  BY <1>3, RoomAbove
<1>5. CallTypeOK'
  BY <1>2 DEF CallTypeOK, Frames
<1>6. a <= top /\ a < b /\ b <= n * (MaxHeld + 3) + 1
      /\ b - a \in IF n % 2 # 1 THEN 1 .. 2 ELSE Nat \ {0, 1}
  <2>1. PICK x \in Nat : x = n * (MaxHeld + 3) + 1
    BY <1>1
  <2>2. CASE n % 2 = 1
    BY <2>1, <2>2, <1>1, <1>4
  <2>3. CASE n % 2 # 1
    BY <2>1, <2>3, <1>1, <1>4
  <2> QED
    BY <2>2, <2>3
<1>7. FramesInOrder'
  <2>1. n + 1 \in 1 .. MaxFrames /\ frames'[1].func = 1
    <3>1. 1 \in 1 .. n
      BY <1>1
    <3> QED
      BY <3>1, <1>1, <1>2 DEF CallIInv, FramesInOrder
  <2>2. ASSUME NEW i \in 1 .. n
        PROVE  /\ frames'[i].func <= (i - 1) * (MaxHeld + 3) + 1
               /\ \A j \in 1 .. i - 1 : frames'[j].func < frames'[i].func
               /\ Len(frames'[i].held) <= MaxHeld + 1
    <3>1. \A j \in 1 .. i - 1 : j \in 1 .. n
      BY <1>1
    <3> QED
      BY <3>1, <1>2 DEF CallIInv, FramesInOrder
  <2>3. \A j \in 1 .. n : frames'[j].func < b
    <3>1. ASSUME NEW j \in 1 .. n
          PROVE  frames[j].func < b
      <4>1. CASE j = n
        BY <4>1, <1>3, <1>6
      <4>2. CASE j # n
        <5>1. n \in 1 .. n /\ j \in 1 .. n - 1
          BY <4>2, <1>1
        <5>2. frames[j].func \in 1 .. a - 1
          BY <5>1, <1>3, UsedBelow
        <5> QED
          BY <5>2, <1>6
      <4> QED
        BY <4>1, <4>2
    <3> QED
      BY <3>1, <1>2
  <2>4. ASSUME NEW i \in 2 .. n + 1
        PROVE  frames'[i].func - frames'[i - 1].func
                 \in IF i % 2 = 1 THEN 1 .. 2 ELSE Nat \ {0, 1}
    <3>1. CASE i = n + 1
      <4>1. i - 1 = n /\ n \in 1 .. n
        BY <3>1, <1>1
      <4>2. frames'[i].func = b /\ frames'[i - 1].func = a
        BY <3>1, <4>1, <1>2, <1>3
      <4> QED
        BY <3>1, <4>2, <1>1, <1>6
    <3>2. CASE i # n + 1
      <4>1. i \in 1 .. n /\ i - 1 \in 1 .. n /\ i \in 2 .. Len(frames)
        BY <3>2, <1>1
      <4> QED
        BY <4>1, <1>2, Neighbours
    <3> QED
      BY <3>1, <3>2
  <2>5. InCpp' <=> n % 2 # 1
    BY <1>1, <1>2 DEF InCpp, CppFrames
  <2>6. (top - Current.func \in IF InCpp THEN Nat \cup {-1} ELSE 0 .. 1)'
    BY <2>5, <1>2 DEF Current
  <2>7. \A i \in 2 .. n + 1 : (i \in CppFrames)' <=> i % 2 = 1
    BY <1>1, <1>2 DEF CppFrames
  <2>8. /\ frames'[n + 1].func <= (n + 1 - 1) * (MaxHeld + 3) + 1
        /\ \A j \in 1 .. n + 1 - 1 : frames'[j].func < frames'[n + 1].func
        /\ Len(frames'[n + 1].held) <= MaxHeld + 1
    <3>1. n + 1 - 1 = n
      BY <1>1
    <3> QED
      BY <3>1, <2>3, <1>2, <1>3, <1>6
  <2>9. ASSUME NEW i \in 1 .. n + 1
        PROVE  /\ frames'[i].func <= (i - 1) * (MaxHeld + 3) + 1
               /\ \A j \in 1 .. i - 1 : frames'[j].func < frames'[i].func
               /\ Len(frames'[i].held) <= MaxHeld + 1
    <3>1. i \in 1 .. n \/ i = n + 1
      BY <1>1
    <3> QED
      BY <3>1, <2>2, <2>8
  <2> QED
    BY <2>1, <2>4, <2>6, <2>7, <2>9, <1>2 DEF FramesInOrder
<1>8. \A i \in 1 .. n - 1 : InPlace(i, frames[i], Extent(i))'
  <2>1. \A p \in 1 .. frames[n].func - 1 : slots'[p] = slots[p]
    <3>1. \A p \in 1 .. a - 1 : p \in 1 .. top
      BY <1>1, <1>6
    <3> QED
      BY <3>1, <1>3
  <2>2. /\ n \in 1 .. Len(frames) /\ Len(frames') \in Nat /\ n <= Len(frames')
        /\ frames'[n].func = frames[n].func /\ \A i \in 1 .. n - 1 : frames'[i] = frames[i]
    BY <1>1, <1>2
  <2> QED
    BY <2>1, <2>2, LowFramesKept
<1>9. InPlace(n, frames[n], Extent(n))'
  <2>1. frames'[n] = frames[n] /\ n # n + 1 /\ n \in 1 .. n
    BY <1>1, <1>2
  <2>2. Extent(n) = top - a
    BY <1>3 DEF Extent
  <2>3. Extent(n)' = b - 2 - a
    BY <2>1, <1>1, <1>2, <1>3 DEF Extent
  <2>4. InPlace(n, frames[n], top - a)
    BY <2>1, <2>2 DEF CallIInv
  <2> HIDE DEF Extent
  <2>5. CASE n % 2 = 1
    <3>1. b - 2 - a = top - a /\ \A k \in 1 .. top - a : a + k \in 1 .. top
      BY <2>5, <1>1, <1>4
    <3>2. a \in 1 .. top
      BY <1>1, <1>6
    <3>3. /\ top - a = Len(frames[n].held) - frames[n].fails
          /\ \A k \in 1 .. top - a : slots[a + k] = frames[n].held[k]
          /\ frames[n].fails <= Len(frames[n].held) => slots[a] = IF n = 1 THEN LuaNil ELSE Native
      BY <2>4, <2>5, <1>3 DEF InPlace
    <3>4. \A k \in 1 .. top - a : slots'[a + k] = frames[n].held[k]
      BY <3>1, <3>3
    <3>5. slots'[a] = slots[a] /\ Extent(n)' = top - a /\ frames'[n] = frames[n]
      BY <3>1, <3>2, <2>1, <2>3
    <3> QED
      BY <2>5, <3>3, <3>4, <3>5, <1>3 DEF InPlace
  <2>6. CASE n % 2 # 1
    <3>1. a - 1 \in 1 .. top
      <4>1. n # 1
        BY <2>6
      <4>2. n \in 2 .. Len(frames) /\ n - 1 \in 1 .. Len(frames)
        BY <4>1, <1>1
      <4>3. PICK d \in Nat \ {0} : d = frames[n - 1].func
        BY <4>2, CallTypes
      <4>4. a - d \in Nat \ {0, 1}
        BY <2>6, <4>2, <4>3, <1>3, Neighbours
      <4>5. a >= d + 2
        BY <4>4
      <4> QED
        BY <4>5, <1>1, <1>6
    <3>2. a \in 1 .. top
      BY <1>1, <1>6
    <3> QED
      BY <2>1, <2>4, <2>6, <3>1, <3>2, <1>3 DEF InPlace
  <2> QED
    BY <2>5, <2>6
<1>10. InPlace(n + 1, frames[n + 1], Extent(n + 1))'
  BY <1>2 DEF Extent
<1>11. \A i \in 1 .. n + 1 : InPlace(i, frames[i], Extent(i))'
  <2>1. \A i \in 1 .. n + 1 : i \in 1 .. n - 1 \/ i = n \/ i = n + 1
    BY <1>1
  <2> QED
    BY <2>1, <1>8, <1>9, <1>10
<1> QED
  BY <1>2, <1>5, <1>7, <1>11 DEF CallIInv

-----------------------------------------------------------------------------
(* The end of call: two slots less, and those under them as they were.     *)
LEMMA CallFinishGives ==
  ASSUME NEW N \in Nat, N = StackSize, NEW a, a \in [1 .. N -> Slots], NEW t \in 2 .. N,
         NEW s, s = CallFinish([slots |-> a, top |-> t])
  PROVE  /\ s.slots \in [1 .. N -> Slots] /\ s.top = t - 2
         /\ \A p \in 1 .. t - 2 : s.slots[p] = a[p]
<1> DEFINE b == [i \in 1 .. N |-> IF i \in t - 1 .. t - 1 THEN a[i + 1] ELSE a[i]]
<1>1. lua_remove([slots |-> a, top |-> t], -2) = [slots |-> b, top |-> t - 1]
  <2>1. t + 1 + (-2) = t - 1
    OBVIOUS
  <2> QED
    BY <2>1 DEF lua_remove
<1>2. CallFinish([slots |-> a, top |-> t]) = [slots |-> b, top |-> t - 2]
  <2>1. (t - 1) - 1 = t - 2
    OBVIOUS
  <2> HIDE DEF b
  <2> QED
    BY <2>1, <1>1 DEF CallFinish, Pop
<1>3. b \in [1 .. N -> Slots] /\ \A p \in 1 .. t - 2 : b[p] = a[p]
  OBVIOUS
<1> QED
  BY <1>2, <1>3

LEMMA LoadFinishGives ==
  ASSUME NEW a, NEW t
  PROVE  /\ LoadFinish([slots |-> a, top |-> t]) = [slots |-> a, top |-> t - 1]
         /\ Pop([slots |-> a, top |-> t]) = [slots |-> a, top |-> t - 1]
BY DEF LoadFinish, Pop

-----------------------------------------------------------------------------
(* The slots of a call: the functions fs and the arguments.                *)
LEMMA Prepared ==
  ASSUME CallParameters, CallIInv, NEW fs \in Seq(Slots), NEW args \in Seq(Slots),
         Len(fs) \in 1 .. 2, Len(args) \in 0 .. 1, NEW vs, vs = fs \o args,
         slots' = PushAll(Stack, vs).slots, top' = PushAll(Stack, vs).top
  PROVE  /\ slots' \in [1 .. StackSize -> Slots]
         /\ top' = top + Len(fs) + Len(args) /\ top' \in 0 .. StackSize
         /\ \A p \in 1 .. top : slots'[p] = slots[p]
         /\ \A k \in 1 .. Len(fs) : slots'[top + k] = fs[k]
         /\ \A k \in 1 .. Len(args) : slots'[top + Len(fs) + k] = args[k]
<1>1. PICK a \in 1 .. 2, b \in 0 .. 1 : a = Len(fs) /\ b = Len(args)
  OBVIOUS
<1>2. /\ vs \in Seq(Slots) /\ Len(vs) = a + b
      /\ \A i \in 1 .. a + b : vs[i] = IF i <= a THEN fs[i] ELSE args[i - a]
  BY <1>1, ConcatProperties
<1>3. /\ StackSize \in Nat /\ top \in Nat /\ top + 3 <= StackSize
      /\ slots \in [1 .. StackSize -> Slots]
  BY CallTypes, RoomAbove
<1> DEFINE N == StackSize
           t == top
           S == slots
<1>4. \A i \in 1 .. a + b : vs[i] \in Slots
  BY <1>2, ElementOfSeq
<1>5. /\ slots' = [i \in 1 .. N |-> IF i - t \in 1 .. a + b THEN vs[i - t] ELSE S[i]]
      /\ top' = t + (a + b)
  BY <1>2, <1>3 DEF PushAll, Stack
<1> HIDE DEF N, t, S
<1>6. slots' \in [1 .. N -> Slots] /\ top' = t + a + b /\ top' \in 0 .. N
  <2>1. \A i \in 1 .. N : (IF i - t \in 1 .. a + b THEN vs[i - t] ELSE S[i]) \in Slots
    BY <1>3, <1>4 DEF N, S, t
  <2>2. t + (a + b) = t + a + b /\ t + (a + b) \in 0 .. N
    BY <1>3 DEF N, t
  <2> QED
    BY <2>1, <2>2, <1>5
<1>7. ASSUME NEW p \in 1 .. t
      PROVE  slots'[p] = S[p]
  <2>1. p \in 1 .. N /\ p - t \notin 1 .. a + b
    BY <1>3 DEF N, t
  <2> QED
    BY <2>1, <1>5
<1>8. ASSUME NEW k \in 1 .. a + b
      PROVE  slots'[t + k] = vs[k]
  <2>1. t + k \in 1 .. N /\ (t + k) - t = k
    BY <1>3 DEF N, t
  <2> QED
    BY <2>1, <1>5
<1>9. ASSUME NEW k \in 1 .. a
      PROVE  slots'[t + k] = fs[k]
  <2>1. k \in 1 .. a + b /\ k <= a
    OBVIOUS
  <2> QED
    BY <2>1, <1>2, <1>8
<1>10. ASSUME NEW k \in 1 .. b
       PROVE  slots'[t + a + k] = args[k]
  <2>1. PICK j \in 1 .. a + b : j = a + k /\ ~(j <= a) /\ j - a = k /\ t + j = t + a + k
    BY <1>3 DEF t
  <2> QED
    BY <2>1, <1>2, <1>8
<1> QED
  BY <1>1, <1>6, <1>7, <1>9, <1>10 DEF N, t, S

LEMMA CallScriptIInv ==
  ASSUME CallParameters, CallIInv, NEW by \in {"call", "chunk"},
         NEW args \in Seq(Slots), Len(args) \in 0 .. 1, CallScript(by, args)
  PROVE  CallIInv'
<1>1. PICK n : n = Len(frames) /\ n \in Nat \ {0}
  BY CallTypes
<1>2. PICK b \in 0 .. 1 : b = Len(args)
  OBVIOUS
<1>3. PICK t \in Nat : t = top /\ t + 2 \in 1 .. StackSize
  BY CallTypes, RoomAbove
<1>4. PICK g : g = [func |-> t + 2, by |-> by, held |-> <<>>, fails |-> 0]
  OBVIOUS
<1>5. /\ n % 2 = 1 /\ n < MaxFrames /\ top >= frames[n].func
      /\ slots' = PushAll(Stack, <<Handler, Script>> \o args).slots
      /\ top' = PushAll(Stack, <<Handler, Script>> \o args).top
      /\ frames' = Append(frames, g)
  BY <1>1, <1>3, <1>4 DEF CallScript, Set, InCpp, CppFrames, Current
<1>6. /\ slots' \in [1 .. StackSize -> Slots]
      /\ top' = t + 2 + b /\ top' \in 0 .. StackSize
      /\ \A p \in 1 .. top : slots'[p] = slots[p]
      /\ slots'[t + 1] = Handler /\ slots'[t + 2] = Script
  <2>1. PICK fs, vs : fs = <<Handler, Script>> /\ vs = fs \o args
    OBVIOUS
  <2>2. fs \in Seq(Slots) /\ Len(fs) = 2 /\ fs[1] = Handler /\ fs[2] = Script
    BY <2>1 DEF Slots
  <2>3. slots' = PushAll(Stack, vs).slots /\ top' = PushAll(Stack, vs).top
    BY <2>1, <1>5
  <2>4. Len(fs) \in 1 .. 2
    BY <2>2
  <2>5. /\ slots' \in [1 .. StackSize -> Slots]
        /\ top' = top + Len(fs) + Len(args) /\ top' \in 0 .. StackSize
        /\ \A p \in 1 .. top : slots'[p] = slots[p]
        /\ \A k \in 1 .. Len(fs) : slots'[top + k] = fs[k]
    BY <2>1, <2>2, <2>3, <2>4, Prepared
  <2> QED
    BY <2>2, <2>5, <1>2, <1>3
<1>7. g \in Frames /\ Len(g.held) = 0 /\ g.func = t + 2
  BY <1>3, <1>4, EmptySeq DEF Frames
<1>8. top' - g.func = b
  BY <1>3, <1>6, <1>7
<1>9. InPlace(n + 1, g, top - g.func)'
  <2>1. (n + 1) % 2 # 1 /\ (t + 2) - 1 = t + 1
    BY <1>1, <1>3, <1>5, Parity
  <2> QED
    BY <2>1, <1>6, <1>7 DEF InPlace
<1>10. Len(g.held) <= MaxHeld + 1
  BY <1>7, CallTypes
<1> QED
  BY <1>1, <1>2, <1>3, <1>5, <1>6, <1>7, <1>8, <1>9, <1>10, CallOf

LEMMA CallNativeIInv ==
  ASSUME CallParameters, CallIInv, CallNative
  PROVE  CallIInv'
<1>1. PICK n : n = Len(frames) /\ n \in Nat \ {0}
  BY CallTypes
<1>2. PICK t \in Nat : t = top /\ t + 1 \in 1 .. StackSize
  BY CallTypes, RoomAbove
<1>3. PICK v \in Values : \E args \in {<<>>, <<v>>} :
        /\ slots' = PushAll(Stack, <<Native>> \o args).slots
        /\ top' = PushAll(Stack, <<Native>> \o args).top
        /\ frames' = Append(frames, [func |-> top + 1, by |-> "script", held |-> args,
                                     fails |-> 0])
  BY DEF CallNative, Set
<1>4. PICK args \in Seq(Values) :
        /\ Len(args) \in 0 .. 1
        /\ slots' = PushAll(Stack, <<Native>> \o args).slots
        /\ top' = PushAll(Stack, <<Native>> \o args).top
        /\ frames' = Append(frames, [func |-> top + 1, by |-> "script", held |-> args,
                                     fails |-> 0])
  <2>1. <<>> \in Seq(Values) /\ Len(<<>>) = 0 /\ <<v>> \in Seq(Values) /\ Len(<<v>>) = 1
    BY EmptySeq
  <2>2. PICK args \in {<<>>, <<v>>} :
          /\ slots' = PushAll(Stack, <<Native>> \o args).slots
        /\ top' = PushAll(Stack, <<Native>> \o args).top
          /\ frames' = Append(frames, [func |-> top + 1, by |-> "script", held |-> args,
                                       fails |-> 0])
    BY <1>3
  <2>3. args \in Seq(Values) /\ Len(args) \in 0 .. 1
    <3>1. CASE args = <<>>
      BY <3>1, <2>1
    <3>2. CASE args = <<v>>
      BY <3>2, <2>1
    <3> QED
      BY <3>1, <3>2
  <2> QED
    BY <2>2, <2>3
<1>5. PICK b \in 0 .. 1 : b = Len(args)
  BY <1>4
<1>6. PICK g : g = [func |-> t + 1, by |-> "script", held |-> args, fails |-> 0]
  OBVIOUS
<1>7. n % 2 # 1 /\ n < MaxFrames /\ frames' = Append(frames, g)
  BY <1>1, <1>2, <1>4, <1>6 DEF CallNative, InCpp, CppFrames
<1>8. /\ slots' \in [1 .. StackSize -> Slots]
      /\ top' = t + 1 + b /\ top' \in 0 .. StackSize
      /\ \A p \in 1 .. top : slots'[p] = slots[p]
      /\ slots'[t + 1] = Native /\ \A k \in 1 .. b : slots'[t + 1 + k] = args[k]
  <2>1. PICK fs, vs : fs = <<Native>> /\ vs = fs \o args
    OBVIOUS
  <2>2. fs \in Seq(Slots) /\ Len(fs) = 1 /\ fs[1] = Native
    BY <2>1 DEF Slots
  <2>3. args \in Seq(Slots)
    BY <1>4 DEF Slots
  <2>4. slots' = PushAll(Stack, vs).slots /\ top' = PushAll(Stack, vs).top
    BY <2>1, <1>4
  <2>5. Len(fs) \in 1 .. 2 /\ Len(args) \in 0 .. 1
    BY <2>2, <1>4
  <2>6. /\ slots' \in [1 .. StackSize -> Slots]
        /\ top' = top + Len(fs) + Len(args) /\ top' \in 0 .. StackSize
        /\ \A p \in 1 .. top : slots'[p] = slots[p]
        /\ \A k \in 1 .. Len(fs) : slots'[top + k] = fs[k]
        /\ \A k \in 1 .. Len(args) : slots'[top + Len(fs) + k] = args[k]
    BY <2>1, <2>2, <2>3, <2>4, <2>5, Prepared
  <2> QED
    BY <2>2, <2>6, <1>2, <1>5
<1>9. g \in Frames /\ g.held = args /\ g.func = t + 1 /\ g.fails = 0
  BY <1>2, <1>6 DEF Frames
<1>10. top' - g.func = b
  BY <1>2, <1>8, <1>9
<1>11. InPlace(n + 1, g, top - g.func)'
  <2>1. (n + 1) % 2 = 1 /\ n + 1 # 1 /\ b = Len(g.held) - g.fails
    BY <1>1, <1>5, <1>7, <1>9
  <2> QED
    BY <2>1, <1>8, <1>9, <1>10 DEF InPlace
<1>12. Len(g.held) <= MaxHeld + 1
  <2>1. PICK h \in Nat : h = MaxHeld
    BY CallTypes
  <2> QED
    BY <2>1, <1>5, <1>9
<1> QED
  <2>1. top' - g.func \in Nat /\ g.func = top + 1
    BY <1>2, <1>9, <1>10
  <2> QED
    BY <2>1, <1>1, <1>7, <1>8, <1>9, <1>11, <1>12, CallOf

(* The frames below one are frames as they were. *)
LEMMA Lower ==
  ASSUME CallParameters, CallIInv, NEW m \in 1 .. Len(frames), NEW lower,
         lower = SubSeq(frames, 1, m)
  PROVE  /\ lower \in Seq(Frames) /\ Len(lower) = m
         /\ \A i \in 1 .. m : lower[i] = frames[i]
<1>1. Len(frames) \in Nat /\ frames \in Seq(Frames) /\ m \in Nat \ {0} /\ m <= Len(frames)
  BY CallTypes
<1>2. \A i \in 1 .. m : frames[i] \in Frames
  BY <1>1, CallTypes
<1> QED
  BY <1>1, <1>2, SubSeqProperties

(* The end of a script: its caller c has its slots back, one less if the   *)
(* call failed, and the one it loses may be its own function's.            *)
LEMMA ScriptGone ==
  ASSUME CallParameters, CallIInv, NEW c \in 1 .. Len(frames) - 1, c % 2 = 1, NEW d \in {0, 1},
         frames' \in Seq(Frames), Len(frames') = c,
         \A i \in 1 .. c - 1 : frames'[i] = frames[i],
         frames'[c] \in Frames, frames'[c].func = frames[c].func,
         frames'[c].held = frames[c].held, frames'[c].fails = frames[c].fails + d,
         slots' \in [1 .. StackSize -> Slots], top' = frames[c + 1].func - 2 - d,
         \A p \in 1 .. frames[c + 1].func - 2 - d : slots'[p] = slots[p]
  PROVE  CallIInv'
<1>1. /\ Len(frames) \in Nat /\ c \in Nat \ {0} /\ c \in 1 .. Len(frames)
      /\ c + 1 \in 2 .. Len(frames) /\ c + 1 \in 1 .. Len(frames) /\ (c + 1) % 2 # 1
      /\ c # Len(frames) /\ (c + 1) - 1 = c
  <2>1. PICK n \in Nat \ {0} : n = Len(frames)
    BY CallTypes
  <2>2. c \in 1 .. n - 1
    BY <2>1
  <2>3. (c + 1) % 2 # 1
    BY <2>2, Parity
  <2>4. /\ c \in Nat \ {0} /\ c \in 1 .. n /\ c + 1 \in 2 .. n /\ c + 1 \in 1 .. n
        /\ c # n /\ (c + 1) - 1 = c
    BY <2>2
  <2> QED
    BY <2>1, <2>3, <2>4
<1>2. PICK a \in Nat \ {0}, b \in Nat \ {0}, l \in Nat, x \in Nat, N \in Nat :
        /\ a = frames[c].func /\ b = frames[c + 1].func /\ l = Len(frames[c].held)
        /\ x = frames[c].fails /\ N = StackSize
  BY <1>1, CallTypes
<1>3. b >= a + 2 /\ b <= N
  <2>1. b - a \in Nat \ {0, 1}
    BY <1>1, <1>2, Neighbours
  <2>2. frames[c + 1] \in Frames
    BY <1>1, CallTypes
  <2>3. b \in 1 .. N
    BY <2>2, <1>2 DEF Frames
  <2> QED
    BY <2>1, <2>3
<1>4. PICK t : t = b - 2 - d /\ t \in 0 .. N /\ t >= a - 1 /\ t - a \in Nat \cup {-1}
  BY <1>3
<1>5. Extent(c) = b - 2 - a
  BY <1>1, <1>2 DEF Extent
<1>6. InPlace(c, frames[c], b - 2 - a)
  BY <1>1, <1>5 DEF CallIInv
<1>7. /\ b - 2 - a = l - x /\ \A k \in 1 .. b - 2 - a : slots[a + k] = frames[c].held[k]
      /\ x <= l => slots[a] = IF c = 1 THEN LuaNil ELSE Native
  BY <1>2, <1>6 DEF InPlace
<1>8. \A p \in 1 .. t : slots'[p] = slots[p]
  BY <1>2, <1>4
<1>9. ASSUME NEW k \in 1 .. t - a
      PROVE  slots'[a + k] = frames[c].held[k]
  <2>1. PICK z \in Nat : z = t - a
    <3>1. t - a # -1
      OBVIOUS
    <3> QED
      BY <3>1, <1>4
  <2>2. k \in 1 .. z /\ t = a + z /\ z <= b - 2 - a
    <3>1. t = a + z /\ t <= b - 2
      BY <2>1, <1>4
    <3> QED
      BY <2>1, <3>1
  <2>3. k \in 1 .. b - 2 - a /\ a + k \in 1 .. t
    BY <2>2
  <2> QED
    BY <2>3, <1>7, <1>8
<1>10. x + d <= l => slots'[a] = IF c = 1 THEN LuaNil ELSE Native
  <2>1. b - 2 - a = l - x
    BY <1>7
  <2>2. x + d <= l => a \in 1 .. t /\ x <= l
    BY <2>1, <1>3, <1>4
  <2> QED
    BY <2>2, <1>7, <1>8
<1>11. t - a = l - (x + d)
  <2>1. b - 2 - a = l - x
    BY <1>7
  <2> QED
    BY <2>1, <1>4
<1>12. top' = t
  BY <1>2, <1>4
<1>13. PICK f : f = frames'[c]
  OBVIOUS
<1>14. f.func = a /\ f.held = frames[c].held /\ f.fails = x + d
  BY <1>2, <1>13
<1>15. InPlace(c, f, top - f.func)'
  BY <1>2, <1>9, <1>10, <1>11, <1>12, <1>14 DEF InPlace
<1>16. Len(f.held) <= MaxHeld + 1
  BY <1>1, <1>14 DEF CallIInv, FramesInOrder
<1>17. \A p \in 1 .. a - 1 : slots'[p] = slots[p]
  <2>1. \A p \in 1 .. a - 1 : p \in 1 .. t
    BY <1>4
  <2> QED
    BY <2>1, <1>8
<1> QED
  BY <1>1, <1>2, <1>4, <1>12, <1>13, <1>14, <1>15, <1>16, <1>17, BackTo

LEMMA ReturnScriptIInv ==
  ASSUME CallParameters, CallIInv, ReturnScript
  PROVE  CallIInv'
<1>1. PICK n : n = Len(frames) /\ n \in Nat \ {0}
  BY CallTypes
<1>2. /\ n % 2 # 1 /\ frames' = SubSeq(frames, 1, n - 1)
  BY <1>1 DEF ReturnScript, InCpp, CppFrames
<1>3. PICK c : c = n - 1 /\ c \in 1 .. n - 1 /\ c \in 1 .. n /\ c % 2 = 1 /\ c + 1 = n
  <2>1. n # 1
    BY <1>2
  <2>2. n - 1 \in Nat /\ (n - 1) + 1 = n
    BY <1>1
  <2>3. (n - 1) % 2 = 1
    BY <2>2, <1>2, Parity
  <2> QED
    BY <2>1, <2>3, <1>1
<1>4. /\ frames' \in Seq(Frames) /\ Len(frames') = c
      /\ \A i \in 1 .. c : frames'[i] = frames[i]
  BY <1>1, <1>2, <1>3, Lower
<1>5. PICK N \in Nat, b \in 3 .. StackSize : N = StackSize /\ b = frames[n].func
  <2>1. n \in 2 .. Len(frames) /\ n \in 1 .. Len(frames) /\ n - 1 \in 1 .. Len(frames)
    BY <1>1, <1>3
  <2>2. PICK a \in Nat \ {0}, b \in Nat \ {0} : a = frames[n - 1].func /\ b = frames[n].func
    BY <2>1, CallTypes
  <2>3. b - a \in Nat \ {0, 1}
    BY <2>1, <2>2, <1>2, Neighbours
  <2>4. b \in 1 .. StackSize /\ StackSize \in Nat
    BY <2>1, <2>2, CallTypes DEF Frames
  <2>5. b >= a + 2
    BY <2>3
  <2>6. b \in 3 .. StackSize
    BY <2>2, <2>4, <2>5
  <2> QED
    BY <2>2, <2>4, <2>6
<1>6. PICK v \in Values \cup {LuaNil} :
        Set(IF frames[n].by = "call"
              THEN CallFinish(Push([slots |-> slots, top |-> b - 1], v))
              ELSE LoadFinish([slots |-> slots, top |-> b - 1]))
  BY <1>1, <1>5 DEF ReturnScript, Finish, Current
<1>7. slots \in [1 .. N -> Slots] /\ v \in Slots
  BY <1>5, CallTypes DEF Slots
<1>8. /\ slots' \in [1 .. N -> Slots] /\ top' = b - 2
      /\ \A p \in 1 .. b - 2 : slots'[p] = slots[p]
  <2>1. CASE frames[n].by = "call"
    <3>1. PICK e : e = [slots EXCEPT ![b] = v]
      OBVIOUS
    <3>2. e \in [1 .. N -> Slots] /\ \A p \in 1 .. b - 2 : e[p] = slots[p]
      BY <3>1, <1>5, <1>7
    <3>3. (b - 1) + 1 = b
      BY <1>5
    <3>4. Push([slots |-> slots, top |-> b - 1], v) = [slots |-> e, top |-> b]
      BY <3>1, <3>3 DEF Push
    <3>5. PICK s : s = CallFinish([slots |-> e, top |-> b])
      OBVIOUS
    <3>6. slots' = s.slots /\ top' = s.top
      BY <2>1, <3>4, <3>5, <1>6 DEF Set
    <3>7. /\ s.slots \in [1 .. N -> Slots] /\ s.top = b - 2
          /\ \A p \in 1 .. b - 2 : s.slots[p] = e[p]
      <4>1. b \in 2 .. N /\ N = StackSize
        BY <1>5
      <4> QED
        BY <4>1, <3>2, <3>5, CallFinishGives
    <3> QED
      BY <3>2, <3>6, <3>7
  <2>2. CASE frames[n].by # "call"
    <3>1. (b - 1) - 1 = b - 2
      BY <1>5
    <3>2. LoadFinish([slots |-> slots, top |-> b - 1]) = [slots |-> slots, top |-> b - 2]
      BY <3>1, LoadFinishGives
    <3> QED
      BY <2>2, <3>2, <1>6, <1>7 DEF Set
  <2> QED
    BY <2>1, <2>2
<1>9. PICK d \in {0, 1} : d = 0 /\ b - 2 = b - 2 - d /\ frames[c].fails + d = frames[c].fails
  <2>1. frames[c].fails \in Nat
    BY <1>1, <1>3, CallTypes
  <2> QED
    BY <2>1, <1>5
<1>10. frames'[c] \in Frames /\ \A i \in 1 .. c - 1 : frames'[i] = frames[i]
  <2>1. c \in 1 .. c /\ \A i \in 1 .. c - 1 : i \in 1 .. c
    BY <1>1, <1>3
  <2> QED
    BY <2>1, <1>1, <1>3, <1>4, CallTypes
<1> QED
  BY <1>1, <1>3, <1>4, <1>5, <1>8, <1>9, <1>10, ScriptGone

LEMMA FailIInv ==
  ASSUME CallParameters, CallIInv, Fail
  PROVE  CallIInv'
<1>1. PICK n \in Nat \ {0} : n = Len(frames) /\ n # 1
  BY CallTypes DEF Fail
<1>2. PICK c : /\ c = Caller /\ c \in 1 .. n - 1 /\ c \in 1 .. n /\ c % 2 = 1
               /\ c + 1 \in 2 .. n /\ c + 1 \in 1 .. n /\ (c + 1) - 1 = c /\ (c + 1) % 2 # 1
  <2>1. n \in 1 .. Len(frames) /\ (InCpp <=> n % 2 = 1)
    BY <1>1 DEF InCpp, CppFrames
  <2>2. CASE n % 2 = 1
    <3>1. n # 2
      BY <2>2
    <3>2. PICK m \in Nat \ {0} : m = n - 2 /\ n = (m + 1) + 1
      BY <3>1, <1>1
    <3>3. (m + 1) % 2 # 1 /\ m % 2 = 1
      BY <2>2, <3>2, Parity
    <3>4. Caller = m
      BY <2>1, <2>2, <3>2, <1>1 DEF Caller
    <3>5. m \in 1 .. n - 1 /\ m \in 1 .. n /\ m + 1 \in 2 .. n /\ m + 1 \in 1 .. n /\ (m + 1) - 1 = m
      BY <3>2
    <3> QED
      BY <3>3, <3>4, <3>5
  <2>3. CASE n % 2 # 1
    <3>1. n - 1 \in Nat \ {0} /\ (n - 1) + 1 = n
      BY <1>1
    <3>2. (n - 1) % 2 = 1
      BY <2>3, <3>1, Parity
    <3>3. Caller = n - 1
      BY <2>1, <2>3, <1>1 DEF Caller
    <3> QED
      BY <2>3, <3>1, <3>2, <3>3, <1>1
  <2> QED
    BY <2>2, <2>3
<1>3. PICK N \in Nat, b \in 3 .. StackSize : N = StackSize /\ b = frames[c + 1].func
  <2>1. PICK a \in Nat \ {0}, b \in Nat \ {0} : a = frames[c].func /\ b = frames[c + 1].func
    BY <1>1, <1>2, CallTypes
  <2>2. b - a \in Nat \ {0, 1}
    BY <2>1, <1>1, <1>2, Neighbours
  <2>3. frames[c + 1] \in Frames /\ StackSize \in Nat
    BY <1>1, <1>2, CallTypes
  <2>4. b \in 1 .. StackSize
    BY <2>1, <2>3 DEF Frames
  <2>5. b >= a + 2
    BY <2>2
  <2>6. b \in 3 .. StackSize
    BY <2>3, <2>4, <2>5
  <2> QED
    BY <2>1, <2>3, <2>6
<1>4. PICK by : by = frames[c + 1].by
  OBVIOUS
<1>5. PICK e : e = [slots EXCEPT ![b] = LuaNil]
  OBVIOUS
<1>6. slots \in [1 .. N -> Slots] /\ LuaNil \in Slots
  BY <1>3, CallTypes DEF Slots
<1>7. e \in [1 .. N -> Slots] /\ \A p \in 1 .. b - 1 : e[p] = slots[p]
  BY <1>3, <1>5, <1>6
<1>8. Pop(Push([slots |-> slots, top |-> b - 1], LuaNil)) = [slots |-> e, top |-> b - 1]
  <2>1. (b - 1) + 1 = b
    BY <1>3
  <2>2. Push([slots |-> slots, top |-> b - 1], LuaNil) = [slots |-> e, top |-> b]
    BY <2>1, <1>5 DEF Push
  <2> QED
    BY <2>2, LoadFinishGives
<1>9. Set(Finish(by, Pop(Push([slots |-> slots, top |-> b - 1], LuaNil))))
  BY <1>2, <1>3, <1>4 DEF Fail
<1>10. PICK d \in {0, 1} : d = IF by = "call" THEN 1 ELSE 0
  OBVIOUS
<1>11. /\ slots' \in [1 .. N -> Slots] /\ top' = b - 2 - d
       /\ \A p \in 1 .. b - 2 - d : slots'[p] = slots[p]
  <2>1. CASE by = "call"
    <3>1. PICK s : s = CallFinish([slots |-> e, top |-> b - 1])
      OBVIOUS
    <3>2. slots' = s.slots /\ top' = s.top
      BY <2>1, <3>1, <1>8, <1>9 DEF Set, Finish
    <3>3. b - 1 \in 2 .. N
      BY <1>3
    <3>4. PICK t : t = b - 1 /\ t \in 2 .. N
      BY <3>3
    <3>5. /\ s.slots \in [1 .. N -> Slots] /\ s.top = t - 2
          /\ \A p \in 1 .. t - 2 : s.slots[p] = e[p]
      <4>1. s = CallFinish([slots |-> e, top |-> t])
        BY <3>1, <3>4
      <4>2. N = StackSize /\ e \in [1 .. N -> Slots]
        BY <1>3, <1>7
      <4> QED
        BY <4>1, <4>2, <3>4, CallFinishGives
    <3>6. t - 2 = b - 2 - d /\ \A p \in 1 .. b - 2 - d : p \in 1 .. t - 2 /\ p \in 1 .. b - 1
      BY <2>1, <3>4, <1>3, <1>10
    <3> QED
      BY <3>2, <3>5, <3>6, <1>7
  <2>2. CASE by # "call"
    <3>1. (b - 1) - 1 = b - 2 - d /\ \A p \in 1 .. b - 2 - d : p \in 1 .. b - 1
      BY <2>2, <1>3, <1>10
    <3>2. LoadFinish([slots |-> e, top |-> b - 1]) = [slots |-> e, top |-> b - 2 - d]
      BY <3>1, LoadFinishGives
    <3>3. slots' = e /\ top' = b - 2 - d
      BY <2>2, <3>2, <1>8, <1>9 DEF Set, Finish
    <3> QED
      BY <3>1, <3>3, <1>7
  <2> QED
    BY <2>1, <2>2
<1>12. PICK lower : lower = SubSeq(frames, 1, c)
  OBVIOUS
<1>13. /\ lower \in Seq(Frames) /\ Len(lower) = c
       /\ \A i \in 1 .. c : lower[i] = frames[i]
  BY <1>1, <1>2, <1>12, Lower
<1>14. frames' = [lower EXCEPT ![c].fails = IF by = "call" THEN @ + 1 ELSE @]
  BY <1>2, <1>4, <1>12 DEF Fail
<1>15. PICK f : f = [frames[c] EXCEPT !.fails = IF by = "call" THEN @ + 1 ELSE @]
  OBVIOUS
<1>16. frames[c] \in Frames /\ frames[c].fails \in Nat
  BY <1>1, <1>2, CallTypes
<1>17. /\ f \in Frames /\ f.func = frames[c].func /\ f.held = frames[c].held
       /\ f.fails = frames[c].fails + d
  BY <1>10, <1>15, <1>16 DEF Frames
<1>18. c \in 1 .. Len(lower) /\ lower[c] = frames[c] /\ DOMAIN lower = 1 .. c
  BY <1>2, <1>13, LenProperties
<1>19. frames' = [lower EXCEPT ![c] = f]
  BY <1>14, <1>15, <1>18
<1>20. /\ frames' \in Seq(Frames) /\ Len(frames') = c /\ frames'[c] = f
       /\ \A i \in 1 .. c - 1 : frames'[i] = frames[i]
  <2>1. /\ frames' \in Seq(Frames) /\ Len(frames') = c /\ frames'[c] = f
        /\ \A i \in 1 .. Len(lower) : i # c => frames'[i] = lower[i]
    BY <1>13, <1>17, <1>18, <1>19, ExceptSeq
  <2>2. \A i \in 1 .. c - 1 : i \in 1 .. c /\ i # c
    BY <1>2
  <2> QED
    BY <2>1, <2>2, <1>13
<1> QED
  BY <1>1, <1>2, <1>3, <1>11, <1>17, <1>20, ScriptGone

(* A C++ function called by a script returns: what it held is dropped.     *)
LEMMA ReturnNativeIInv ==
  ASSUME CallParameters, CallIInv, ReturnNative
  PROVE  CallIInv'
<1>1. PICK n \in Nat \ {0} : n = Len(frames) /\ n # 1
  <2>1. Len(frames) > 1
    BY DEF ReturnNative
  <2> QED
    BY <2>1, CallTypes
<1>2. PICK m \in Nat \ {0} : m = n - 1 /\ m \in 1 .. n /\ m % 2 # 1 /\ m + 1 = n
                            /\ n % 2 = 1 /\ n \in 2 .. n /\ n \in 1 .. n
  <2>1. n % 2 = 1
    BY <1>1 DEF ReturnNative, InCpp, CppFrames
  <2>2. n - 1 \in Nat \ {0} /\ (n - 1) + 1 = n /\ n - 1 \in 1 .. n /\ n \in 2 .. n /\ n \in 1 .. n
    BY <1>1
  <2>3. (n - 1) % 2 # 1
    BY <2>1, <2>2, Parity
  <2> QED
    BY <2>1, <2>2, <2>3
<1>3. PICK a \in Nat \ {0}, b \in Nat \ {0}, N \in Nat :
        a = frames[m].func /\ b = frames[n].func /\ N = StackSize
  BY <1>1, <1>2, CallTypes
<1>4. b - a \in 1 .. 2
  BY <1>1, <1>2, <1>3, Neighbours
<1>5. b \in 1 .. N
  <2>1. frames[n] \in Frames
    BY <1>1, <1>2, CallTypes
  <2> QED
    BY <2>1, <1>3 DEF Frames
<1>6. PICK v \in Values \cup {LuaNil} :
        slots' = [slots EXCEPT ![b] = v] /\ top' = b - 1 /\ frames' = SubSeq(frames, 1, m)
  BY <1>1, <1>2, <1>3 DEF ReturnNative, Set, Current
<1>7. slots \in [1 .. N -> Slots] /\ v \in Slots
  BY <1>3, CallTypes DEF Slots
<1>8. slots' \in [1 .. N -> Slots] /\ \A p \in 1 .. b - 1 : slots'[p] = slots[p]
  BY <1>5, <1>6, <1>7
<1>9. /\ frames' \in Seq(Frames) /\ Len(frames') = m
      /\ \A i \in 1 .. m : frames'[i] = frames[i]
  BY <1>1, <1>2, <1>6, Lower
<1>10. PICK f \in Frames : f = frames[m]
  BY <1>1, <1>2, CallTypes
<1>11. f.func = a /\ frames'[m] = f /\ \A i \in 1 .. m - 1 : frames'[i] = frames[i]
  <2>1. m \in 1 .. m /\ \A i \in 1 .. m - 1 : i \in 1 .. m
    BY <1>2
  <2> QED
    BY <2>1, <1>3, <1>9, <1>10
<1>12. Len(f.held) <= MaxHeld + 1
  BY <1>1, <1>2, <1>10 DEF CallIInv, FramesInOrder
<1>13. slots'[a] = Script /\ slots'[a - 1] = Handler
  <2>1. slots[a] = Script /\ slots[a - 1] = Handler
    BY <1>1, <1>2, <1>3 DEF CallIInv, InPlace
  <2>2. m \in 2 .. Len(frames) /\ m - 1 \in 1 .. Len(frames)
    <3>1. m # 1
      BY <1>2
    <3> QED
      BY <3>1, <1>1, <1>2
  <2>3. PICK d \in Nat \ {0} : d = frames[m - 1].func
    BY <2>2, CallTypes
  <2>4. a - d \in Nat \ {0, 1}
    BY <2>2, <2>3, <1>2, <1>3, Neighbours
  <2>5. a - 1 \in 1 .. b - 1 /\ a \in 1 .. b - 1
    BY <2>4, <1>4
  <2> QED
    BY <2>1, <2>5, <1>8
<1>14. InPlace(m, f, top - f.func)'
  BY <1>2, <1>11, <1>13 DEF InPlace
<1>15. /\ top' \in 0 .. N /\ top' - a \in 0 .. 1
       /\ \A p \in 1 .. a - 1 : slots'[p] = slots[p]
  <2>1. b - 1 \in 0 .. N /\ (b - 1) - a \in 0 .. 1 /\ \A p \in 1 .. a - 1 : p \in 1 .. b - 1
    BY <1>4, <1>5
  <2> QED
    BY <2>1, <1>6, <1>8
<1> QED
  BY <1>1, <1>2, <1>3, <1>8, <1>9, <1>10, <1>11, <1>12, <1>14, <1>15, BackTo

(* A C++ function pushes a value of its own. *)
LEMMA PushValueIInv ==
  ASSUME CallParameters, CallIInv, PushOwn
  PROVE  CallIInv'
<1>1. PICK n \in Nat \ {0} : n = Len(frames) /\ n \in 1 .. n
  BY CallTypes
<1>2. PICK v \in Values :
        /\ n % 2 = 1 /\ Len(frames[n].held) < MaxHeld /\ frames[n].fails = 0
        /\ slots' = Push([slots |-> slots, top |-> top], v).slots
        /\ top' = Push([slots |-> slots, top |-> top], v).top
        /\ frames' = [frames EXCEPT ![n].held = Append(@, v)]
  BY <1>1 DEF PushOwn, Set, Stack, InCpp, CppFrames, Current
<1>3. PICK a \in Nat \ {0}, l \in Nat, N \in Nat, t \in Nat :
        /\ a = frames[n].func /\ l = Len(frames[n].held) /\ N = StackSize /\ t = top
        /\ t + 3 <= N
  <2>1. StackSize \in Nat /\ top \in 0 .. StackSize /\ top + 3 <= StackSize
    BY CallTypes, RoomAbove
  <2>2. PICK N \in Nat, t \in Nat : N = StackSize /\ t = top /\ t + 3 <= N
    BY <2>1
  <2>3. frames[n].func \in Nat \ {0} /\ Len(frames[n].held) \in Nat
    BY <1>1, CallTypes
  <2> QED
    BY <2>2, <2>3
<1>4. /\ slots \in [1 .. N -> Slots] /\ v \in Slots /\ frames[n] \in Frames
      /\ frames \in Seq(Frames) /\ frames[n].held \in Seq(Values) /\ MaxHeld \in Nat
  BY <1>1, <1>3, CallTypes DEF Slots
<1>5. /\ slots' = [slots EXCEPT ![t + 1] = v] /\ top' = t + 1
  BY <1>2, <1>3 DEF Push
<1>6. /\ slots' \in [1 .. N -> Slots] /\ slots'[t + 1] = v
      /\ \A p \in 1 .. t : slots'[p] = slots[p]
  <2>1. t + 1 \in 1 .. N
    BY <1>3
  <2> QED
    BY <2>1, <1>4, <1>5
<1>7. InPlace(n, frames[n], t - a)
  BY <1>1, <1>3 DEF CallIInv, Extent
<1>8. /\ t - a = l - 0 /\ \A k \in 1 .. t - a : slots[a + k] = frames[n].held[k]
      /\ slots[a] = IF n = 1 THEN LuaNil ELSE Native
  BY <1>2, <1>3, <1>7 DEF InPlace
<1>9. t = a + l
  BY <1>8
<1>10. PICK held : held = Append(frames[n].held, v)
  OBVIOUS
<1>11. /\ held \in Seq(Values) /\ Len(held) = l + 1 /\ held[l + 1] = v
       /\ \A k \in 1 .. l : held[k] = frames[n].held[k]
  BY <1>3, <1>4, <1>10, AppendProperties
<1>12. PICK f : f = [frames[n] EXCEPT !.held = Append(@, v)]
  OBVIOUS
<1>13. f \in Frames /\ f.func = a /\ f.held = held /\ f.fails = 0
  BY <1>2, <1>3, <1>4, <1>10, <1>11, <1>12 DEF Frames
<1>14. frames' = [frames EXCEPT ![n] = f]
  <2>1. DOMAIN frames = 1 .. n
    BY <1>1, <1>4, LenProperties
  <2> QED
    BY <2>1, <1>1, <1>2, <1>12
<1>15. /\ frames' \in Seq(Frames) /\ Len(frames') = n /\ frames'[n] = f
       /\ \A i \in 1 .. n - 1 : frames'[i] = frames[i]
  <2>1. \A i \in 1 .. n - 1 : i \in 1 .. n /\ i # n
    OBVIOUS
  <2> QED
    BY <2>1, <1>1, <1>4, <1>13, <1>14, ExceptSeq
<1>16. Len(f.held) <= MaxHeld + 1
  <2>1. PICK h \in Nat : h = MaxHeld
    BY <1>4
  <2>2. l < h
    BY <2>1, <1>2, <1>3
  <2>3. l + 1 <= h + 1
    BY <2>2
  <2> QED
    BY <2>1, <2>3, <1>11, <1>13
<1>17. ASSUME NEW k \in 1 .. l + 1
       PROVE  slots'[a + k] = held[k]
  <2>1. CASE k = l + 1
    <3>1. a + k = t + 1
      BY <2>1, <1>9
    <3> QED
      BY <3>1, <2>1, <1>6, <1>11
  <2>2. CASE k # l + 1
    <3>1. k \in 1 .. l /\ k \in 1 .. t - a /\ a + k \in 1 .. t
      BY <2>2, <1>9
    <3> QED
      BY <3>1, <1>6, <1>8, <1>11
  <2> QED
    BY <2>1, <2>2
<1>18. /\ slots'[a] = IF n = 1 THEN LuaNil ELSE Native
       /\ top' - a = l + 1 /\ l + 1 = Len(held) - 0 /\ l + 1 \in Nat /\ top' \in 0 .. N
       /\ \A p \in 1 .. a - 1 : slots'[p] = slots[p]
  <2>1. /\ a \in 1 .. t /\ \A p \in 1 .. a - 1 : p \in 1 .. t
        /\ (t + 1) - a = l + 1 /\ t + 1 \in 0 .. N
    <3>1. t + 3 <= N
      BY <1>3
    <3> QED
      BY <3>1, <1>9
  <2> QED
    BY <2>1, <1>5, <1>6, <1>8, <1>11
<1>19. InPlace(n, f, top - f.func)'
  BY <1>2, <1>13, <1>17, <1>18 DEF InPlace
<1>20. n \in 1 .. Len(frames) /\ f.func = frames[n].func /\ slots' \in [1 .. StackSize -> Slots]
  BY <1>1, <1>3, <1>6, <1>13
<1>21. top' \in 0 .. StackSize /\ top' - f.func \in IF n % 2 = 1 THEN Nat \cup {-1} ELSE 0 .. 1
  BY <1>2, <1>3, <1>13, <1>18
<1>22. \A p \in 1 .. f.func - 1 : slots'[p] = slots[p]
  BY <1>13, <1>18
<1>23. f \in Frames
  BY <1>13
<1> QED
  BY <1>15, <1>16, <1>19, <1>20, <1>21, <1>22, <1>23, BackTo

(* The slots below a call's function and those of its values are in use.   *)
LEMMA WithinTop ==
  ASSUME NEW a \in Nat \ {0}, NEW t \in Nat, t >= a
  PROVE  /\ \A p \in 1 .. a - 1 : p \in 1 .. t
         /\ \A k \in 1 .. t - a : a + k \in 1 .. t
         /\ a \in 1 .. t /\ t - a \in Nat
<1>1. PICK z \in Nat : z = t - a /\ t = a + z
  OBVIOUS
<1>2. \A p \in 1 .. a - 1 : p \in 1 .. t
  OBVIOUS
<1>3. \A k \in 1 .. z : a + k \in 1 .. t
  BY <1>1
<1>4. a \in 1 .. t
  OBVIOUS
<1> QED
  BY <1>1, <1>2, <1>3, <1>4

(* A call that ends without a script: the slots are as before it.          *)
LEMMA NoScript ==
  ASSUME CallParameters, CallIInv, frames' = frames, top' = top,
         slots' \in [1 .. StackSize -> Slots], \A p \in 1 .. top : slots'[p] = slots[p],
         Len(frames) % 2 = 1, top >= frames[Len(frames)].func
  PROVE  CallIInv'
<1>1. PICK n \in Nat \ {0} : n = Len(frames) /\ n \in 1 .. n
  BY CallTypes
<1>2. PICK a \in Nat \ {0}, t \in Nat :
        a = frames[n].func /\ t = top /\ t >= a /\ t \in 0 .. StackSize
  BY <1>1, CallTypes
<1>3. PICK f \in Frames : f = frames[n]
  BY <1>1, CallTypes
<1>4. InPlace(n, f, t - a)
  BY <1>1, <1>2, <1>3 DEF CallIInv, Extent
<1>5. /\ \A p \in 1 .. a - 1 : p \in 1 .. t
      /\ \A k \in 1 .. t - a : a + k \in 1 .. t
      /\ a \in 1 .. t /\ t - a \in Nat
  BY <1>2, WithinTop
<1>6. InPlace(n, f, top - f.func)'
  <2>1. f.func = a /\ top' = t /\ n % 2 = 1
    BY <1>1, <1>2, <1>3
  <2>2. /\ t - a = Len(f.held) - f.fails
        /\ \A k \in 1 .. t - a : slots[a + k] = f.held[k]
        /\ f.fails <= Len(f.held) => slots[a] = IF n = 1 THEN LuaNil ELSE Native
    BY <2>1, <1>4 DEF InPlace
  <2>3. \A p \in 1 .. t : slots'[p] = slots[p]
    BY <1>2
  <2>4. (\A k \in 1 .. t - a : slots'[a + k] = slots[a + k]) /\ slots'[a] = slots[a]
    BY <2>3, <1>5
  <2>5. /\ \A k \in 1 .. t - a : slots'[a + k] = f.held[k]
        /\ f.fails <= Len(f.held) => slots'[a] = IF n = 1 THEN LuaNil ELSE Native
    BY <2>2, <2>4
  <2> QED
    BY <2>1, <2>2, <2>5 DEF InPlace
<1>7. frames \in Seq(Frames) /\ Len(f.held) <= MaxHeld + 1
  BY <1>1, <1>3, CallTypes DEF CallIInv, FramesInOrder
<1> QED
  BY <1>1, <1>2, <1>3, <1>5, <1>6, <1>7, BackTo

LEMMA NoScriptIInv ==
  ASSUME CallParameters, CallIInv, CallNoFunction \/ DoNoChunk
  PROVE  CallIInv'
<1>1. /\ Len(frames) % 2 = 1 /\ top >= frames[Len(frames)].func /\ frames' = frames
      /\ Len(frames) \in 1 .. Len(frames)
  BY CallTypes DEF CallNoFunction, DoNoChunk, InCpp, CppFrames, Current
<1>2. PICK N \in Nat, t \in Nat : N = StackSize /\ t = top /\ t + 3 <= N
  BY CallTypes, RoomAbove
<1>3. slots \in [1 .. N -> Slots] /\ Handler \in Slots
  BY <1>2, CallTypes DEF Slots
<1>4. /\ t + 1 \in 1 .. N /\ t + 2 \in 1 .. N /\ (t + 1) + 1 = t + 2 /\ t + 2 \in 2 .. N
      /\ (t + 2) - 2 = t /\ (t + 2) - 1 = t + 1 /\ (t + 1) - 1 = t
  BY <1>2
<1>5. PICK h : h = [slots EXCEPT ![t + 1] = Handler]
  OBVIOUS
<1>6. h \in [1 .. N -> Slots] /\ \A p \in 1 .. t : h[p] = slots[p]
  BY <1>3, <1>4, <1>5
<1>7. Push(Stack, Handler) = [slots |-> h, top |-> t + 1]
  BY <1>2, <1>5 DEF Push, Stack
<1>8. ASSUME NEW v \in Slots
      PROVE  /\ Push(Push(Stack, Handler), v)
                  = [slots |-> [h EXCEPT ![t + 2] = v], top |-> t + 2]
             /\ [h EXCEPT ![t + 2] = v] \in [1 .. N -> Slots]
             /\ \A p \in 1 .. t : [h EXCEPT ![t + 2] = v][p] = slots[p]
  <2>1. PICK q \in 1 .. N : q = t + 2 /\ (t + 1) + 1 = q /\ \A p \in 1 .. t : p # q /\ p \in 1 .. N
    BY <1>2, <1>4
  <2>2. PICK e : e = [h EXCEPT ![q] = v]
    OBVIOUS
  <2>3. Push(Push(Stack, Handler), v) = [slots |-> e, top |-> q]
    BY <1>7, <2>1, <2>2 DEF Push
  <2>4. e \in [1 .. N -> Slots] /\ \A p \in 1 .. t : e[p] = slots[p]
    BY <1>6, <2>1, <2>2
  <2> QED
    BY <2>1, <2>2, <2>3, <2>4
<1>9. slots' \in [1 .. N -> Slots] /\ top' = t /\ \A p \in 1 .. t : slots'[p] = slots[p]
  <2>1. CASE CallNoFunction
    <3>1. PICK v \in Slots : Set(CallFinish(Push(Push(Stack, Handler), v)))
      BY <2>1 DEF CallNoFunction, Slots
    <3>2. PICK e : e = [h EXCEPT ![t + 2] = v]
      OBVIOUS
    <3>3. PICK s : s = CallFinish([slots |-> e, top |-> t + 2])
      OBVIOUS
    <3>4. slots' = s.slots /\ top' = s.top
      BY <3>1, <3>2, <3>3, <1>8 DEF Set
    <3>5. e \in [1 .. N -> Slots] /\ \A p \in 1 .. t : e[p] = slots[p]
      BY <3>2, <1>8
    <3>6. PICK u \in 2 .. N : u = t + 2 /\ u - 2 = t
      BY <1>4
    <3>7. s = CallFinish([slots |-> e, top |-> u]) /\ N = StackSize
      BY <3>3, <3>6, <1>2
    <3>8. /\ s.slots \in [1 .. N -> Slots] /\ s.top = u - 2
          /\ \A p \in 1 .. u - 2 : s.slots[p] = e[p]
      BY <3>5, <3>7, CallFinishGives
    <3> QED
      BY <3>4, <3>5, <3>6, <3>8
  <2>2. CASE DoNoChunk
    <3>1. PICK v \in Slots : Set(LoadFinish(Pop(Push(Push(Stack, Handler), v))))
      BY <2>2 DEF DoNoChunk, Slots
    <3>2. PICK e : e = [h EXCEPT ![t + 2] = v]
      OBVIOUS
    <3>3. LoadFinish(Pop([slots |-> e, top |-> t + 2])) = [slots |-> e, top |-> t]
      BY <1>4, LoadFinishGives
    <3>4. Push(Push(Stack, Handler), v) = [slots |-> e, top |-> t + 2]
      BY <3>2, <1>8
    <3>5. LoadFinish(Pop(Push(Push(Stack, Handler), v))) = [slots |-> e, top |-> t]
      BY <3>3, <3>4
    <3>6. slots' = e /\ top' = t
      BY <3>1, <3>5 DEF Set
    <3> QED
      BY <3>2, <3>6, <1>8
  <2> QED
    BY <2>1, <2>2
<1> QED
  BY <1>1, <1>2, <1>9, NoScript

-----------------------------------------------------------------------------
LEMMA CallInitIInv ==
  ASSUME CallParameters, CallInit
  PROVE  CallIInv
<1>1. PICK f : f = [func |-> 1, by |-> "host", held |-> <<>>, fails |-> 0]
  OBVIOUS
<1>2. StackSize \in Nat /\ StackSize >= 3 /\ MaxFrames \in Nat \ {0} /\ MaxHeld \in Nat
  <2>1. PICK m \in Nat, k \in Nat : m = MaxFrames /\ k = MaxHeld + 3
    BY DEF CallParameters
  <2>2. m * k \in Nat
    OBVIOUS
  <2>3. m * k + 3 \in Nat /\ m * k + 3 >= 3
    BY <2>2
  <2> QED
    BY <2>1, <2>3 DEF StackSize, CallParameters
<1>3. f \in Frames /\ f.func = 1 /\ f.held = <<>> /\ f.fails = 0 /\ Len(f.held) = 0
  BY <1>1, <1>2, EmptySeq DEF Frames
<1>4. frames = <<f>> /\ top = 1 /\ slots = [i \in 1 .. StackSize |-> LuaNil]
  BY <1>1 DEF CallInit
<1>5. /\ frames \in Seq(Frames) /\ Len(frames) = 1 /\ frames[1] = f
  BY <1>3, <1>4
<1>6. CallTypeOK
  <2>1. slots \in [1 .. StackSize -> Slots]
    BY <1>4 DEF Slots
  <2>2. top \in 0 .. StackSize
    BY <1>2, <1>4
  <2> QED
    BY <2>1, <2>2, <1>5 DEF CallTypeOK, Frames
<1>7. 1 % 2 = 1 /\ 1 \in CppFrames /\ InCpp
  BY <1>5 DEF CppFrames, InCpp
<1>8. FramesInOrder
  <2>1. 1 <= (1 - 1) * (MaxHeld + 3) + 1
    BY <1>2
  <2>2. top - Current.func = 0
    BY <1>3, <1>4, <1>5 DEF Current
  <2> QED
    BY <2>1, <2>2, <1>2, <1>3, <1>5, <1>7 DEF FramesInOrder
<1>9. Extent(1) = 0
  BY <1>3, <1>4, <1>5 DEF Extent
<1>10. InPlace(1, f, 0)
  BY <1>2, <1>3, <1>4, <1>7 DEF InPlace
<1> QED
  BY <1>5, <1>6, <1>8, <1>9, <1>10 DEF CallIInv

LEMMA CallNextIInv ==
  ASSUME CallParameters, CallIInv, [CallNext]_callVars
  PROVE  CallIInv'
<1>1. CASE Call
  <2>1. PICK v \in Values : CallScript("call", <<v>>)
    BY <1>1 DEF Call
  <2>2. <<v>> \in Seq(Slots) /\ Len(<<v>>) \in 0 .. 1
    BY DEF Slots
  <2> QED
    BY <2>1, <2>2, CallScriptIInv
<1>2. CASE DoChunk
  <2>1. <<>> \in Seq(Slots) /\ Len(<<>>) \in 0 .. 1
    BY EmptySeq
  <2> QED
    BY <2>1, <1>2, CallScriptIInv DEF DoChunk
<1>3. CASE UNCHANGED callVars
  BY <1>3
     DEF callVars, CallIInv, CallTypeOK, FramesInOrder, InPlace, Extent, Current, InCpp,
         CppFrames
<1> QED
  BY <1>1, <1>2, <1>3, CallNativeIInv, PushValueIInv, ReturnNativeIInv, ReturnScriptIInv,
     FailIInv, NoScriptIInv
     DEF CallNext

-----------------------------------------------------------------------------
(* Two ways to say what lies in the slots of a C++ frame.                  *)
LEMMA ContentOf ==
  ASSUME CallParameters, CallIInv, NEW i \in CppFrames
  PROVE  /\ Extent(i) = Len(frames[i].held) - frames[i].fails
         /\ Content(i) = SubSeq(frames[i].held, 1, Extent(i))
         /\ frames[i].fails <= Len(frames[i].held) =>
              slots[frames[i].func] = IF i = 1 THEN LuaNil ELSE Native
<1>1. i \in 1 .. Len(frames) /\ i % 2 = 1
  BY DEF CppFrames
<1>2. PICK a \in Nat \ {0}, N \in Nat, l \in Nat, d \in Nat :
        a = frames[i].func /\ N = StackSize /\ l = Len(frames[i].held) /\ d = frames[i].fails
  BY <1>1, CallTypes
<1>3. PICK e : e = Extent(i)
  OBVIOUS
<1>4. InPlace(i, frames[i], e)
  BY <1>1, <1>3 DEF CallIInv
<1>5. /\ e = l - d /\ \A k \in 1 .. e : slots[a + k] = frames[i].held[k]
      /\ d <= l => slots[a] = IF i = 1 THEN LuaNil ELSE Native
  BY <1>1, <1>2, <1>4 DEF InPlace
<1>6. e \in Int /\ e <= l
  BY <1>5
<1>7. a + e <= N
  <2>1. CASE i = Len(frames)
    <3>1. PICK t \in 0 .. N : t = top
      BY <1>2, CallTypes
    <3>2. e = t - a
      BY <2>1, <3>1, <1>2, <1>3 DEF Extent
    <3> QED
      BY <3>2
  <2>2. CASE i # Len(frames)
    <3>1. i + 1 \in 1 .. Len(frames)
      BY <2>2, <1>1, CallTypes
    <3>2. PICK b \in 1 .. N : b = frames[i + 1].func
      <4>1. frames[i + 1] \in Frames
        BY <3>1, CallTypes
      <4> QED
        BY <4>1, <1>2 DEF Frames
    <3>3. e = b - 2 - a
      BY <2>2, <3>2, <1>2, <1>3 DEF Extent
    <3> QED
      BY <3>3
  <2> QED
    BY <2>1, <2>2
<1>8. slots \in Seq(Slots) /\ Len(slots) = N /\ frames[i].held \in Seq(Values)
  <2>1. slots \in [1 .. N -> Slots]
    BY <1>2, CallTypes
  <2> QED
    BY <2>1, <1>1, CallTypes
<1>9. PICK s, h : s = SubSeq(slots, a + 1, a + e) /\ h = SubSeq(frames[i].held, 1, e)
  OBVIOUS
<1>10. s = h
  <2>1. CASE e <= 0
    <3>1. a + 1 > a + e /\ 1 > e
      BY <2>1, <1>6
    <3>2. s = <<>> /\ h = <<>>
      BY <3>1, <1>6, <1>8, <1>9, SubSeqEmpty
    <3> QED
      BY <3>2
  <2>2. CASE e > 0
    <3>1. a + 1 \in 1 .. N + 1 /\ a + e \in a .. N /\ 1 \in 1 .. l + 1 /\ e \in 0 .. l
      BY <2>2, <1>6, <1>7
    <3>2. (a + e) - (a + 1) + 1 = e /\ e - 1 + 1 = e
      BY <1>6
    <3>3. /\ s \in Seq(Slots) /\ Len(s) = e
          /\ \A k \in 1 .. e : s[k] = slots[(a + 1) + k - 1]
      BY <3>1, <3>2, <1>8, <1>9, SubSeqProperties
    <3>4. /\ h \in Seq(Values) /\ Len(h) = e
          /\ \A k \in 1 .. e : h[k] = frames[i].held[1 + k - 1]
      <4>1. PICK held \in Seq(Values) : held = frames[i].held
        BY <1>8
      <4>2. \A k \in 1 .. e : k \in 1 .. Len(held)
        BY <3>1, <4>1, <1>2
      <4>3. \A k \in 1 .. e : held[k] \in Values
        BY <4>2, ElementOfSeq
      <4>4. /\ h \in Seq(Values) /\ Len(h) = e
            /\ \A k \in 1 .. e : h[k] = held[1 + k - 1]
        BY <4>1, <4>3, <3>1, <3>2, <1>9, SubSeqProperties
      <4> QED
        BY <4>1, <4>4
    <3>5. \A k \in 1 .. e : (a + 1) + k - 1 = a + k /\ 1 + k - 1 = k
      BY <1>6
    <3>6. \A k \in 1 .. e : s[k] = h[k]
      BY <3>3, <3>4, <3>5, <1>5
    <3>7. s \in Seq(Slots \cup Values) /\ h \in Seq(Slots \cup Values)
      BY <3>3, <3>4
    <3> QED
      BY <3>3, <3>4, <3>6, <3>7, SeqEqual
  <2> QED
    BY <1>6, <2>1, <2>2
<1> QED
  BY <1>2, <1>3, <1>5, <1>9, <1>10 DEF Content

LEMMA CallIInvGives ==
  ASSUME CallParameters, CallIInv
  PROVE  CallsLeaveStack
<1>1. OneSlotPerFailure
  BY ContentOf DEF OneSlotPerFailure
<1>2. \A i \in Scripts : slots[frames[i].func] = Script /\ slots[frames[i].func - 1] = Handler
  <2> SUFFICES ASSUME NEW i \in Scripts
               PROVE  slots[frames[i].func] = Script /\ slots[frames[i].func - 1] = Handler
    OBVIOUS
  <2>1. i \in 1 .. Len(frames) /\ i % 2 # 1
    BY DEF Scripts
  <2>2. InPlace(i, frames[i], Extent(i))
    BY <2>1 DEF CallIInv
  <2> QED
    BY <2>1, <2>2 DEF InPlace
<1>3. FunctionsInPlace
  BY <1>2, ContentOf DEF FunctionsInPlace
<1> QED
  BY <1>1, <1>3 DEF CallsLeaveStack, CallIInv

(* Whatever calls C++ functions and scripts make of each other, and however *)
(* these end, each frame keeps its slots: a C++ function finds its values   *)
(* where it left them, but for one it loses with each call of its own that  *)
(* fails, and the handler lua_pcall names by index is where it was pushed.  *)
THEOREM CallsLeaveStackAlways ==
  ASSUME CallParameters
  PROVE  CallSpec => []CallsLeaveStack
<1>1. CallInit => CallIInv
  BY CallInitIInv
<1>2. CallIInv /\ [CallNext]_callVars => CallIInv'
  BY CallNextIInv
<1>3. CallIInv => CallsLeaveStack
  BY CallIInvGives
<1> QED
  BY <1>1, <1>2, <1>3, PTL DEF CallSpec

=============================================================================
