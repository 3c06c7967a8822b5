----------------------------- MODULE LuaLibProofs -----------------------------
(***************************************************************************)
(* What the libraries do with one table: luaL_ref and luaL_unref, for any  *)
(* set of values and any number of keys; sort, for any array and whatever  *)
(* the order function answers.                                             *)
(***************************************************************************)
EXTENDS LuaRef, LuaTableLib, FiniteSetTheorems, SequenceTheorems, TLAPS

(* Cardinality of an initial segment, and of a set of keys inside one. *)
LEMMA SegmentCardinality ==
  ASSUME NEW n \in Nat, NEW S \in SUBSET (1 .. n)
  PROVE  /\ Cardinality(1 .. n) = n
         /\ Cardinality(S) \in Nat
         /\ Cardinality(S) <= n
<1>1. IsFiniteSet(1 .. n) /\ Cardinality(1 .. n) = n
  BY FS_Interval
<1>2. IsFiniteSet(S) /\ Cardinality(S) <= n
  BY <1>1, FS_Subset
<1> QED
  BY <1>1, <1>2, FS_CardinalityType

(* The chain without its head. *)
LEMMA TailFacts ==
  ASSUME NEW S, NEW s \in Seq(S), s # <<>>
  PROVE  /\ Tail(s) \in Seq(S)
         /\ Len(s) \in Nat \ {0} /\ 1 \in 1 .. Len(s)
         /\ Len(Tail(s)) = Len(s) - 1
         /\ \A p \in 1 .. Len(Tail(s)) :
              p + 1 \in 1 .. Len(s) /\ p + 1 # 1 /\ Tail(s)[p] = s[p + 1]
<1>1. Len(s) \in Nat \ {0}
  BY EmptySeq
<1>2. /\ Tail(s) \in Seq(S) /\ Len(Tail(s)) = Len(s) - 1
      /\ \A p \in 1 .. Len(Tail(s)) : Tail(s)[p] = s[p + 1]
  BY HeadTailProperties
<1> QED
  BY <1>1, <1>2

(* The chain with a new head. *)
LEMMA ConsFacts ==
  ASSUME NEW S, NEW s \in Seq(S), NEW e \in S
  PROVE  /\ <<e>> \o s \in Seq(S)
         /\ Len(s) \in Nat /\ Len(<<e>> \o s) = Len(s) + 1
         /\ 1 \in 1 .. Len(<<e>> \o s) /\ (<<e>> \o s)[1] = e
         /\ \A p \in 1 .. Len(<<e>> \o s) :
              p # 1 => p - 1 \in 1 .. Len(s) /\ (<<e>> \o s)[p] = s[p - 1]
         /\ \A p \in 1 .. Len(s) :
              p + 1 \in 1 .. Len(<<e>> \o s) /\ (<<e>> \o s)[p + 1] = s[p]
<1>1. <<e>> \in Seq(S) /\ Len(<<e>>) = 1 /\ <<e>>[1] = e
  OBVIOUS
<1>2. Len(s) \in Nat
  BY LenProperties
<1>3. /\ <<e>> \o s \in Seq(S)
      /\ Len(<<e>> \o s) = 1 + Len(s)
      /\ \A p \in 1 .. 1 + Len(s) :
           (<<e>> \o s)[p] = IF p <= 1 THEN <<e>>[p] ELSE s[p - 1]
  BY <1>1, ConcatProperties
<1>4. \A p \in 1 .. Len(<<e>> \o s) :
        p # 1 => p - 1 \in 1 .. Len(s) /\ (<<e>> \o s)[p] = s[p - 1]
  BY <1>2, <1>3
<1>5. \A p \in 1 .. Len(s) :
        p + 1 \in 1 .. Len(<<e>> \o s) /\ (<<e>> \o s)[p + 1] = s[p]
  <2> SUFFICES ASSUME NEW p \in 1 .. Len(s)
               PROVE  p + 1 \in 1 .. Len(<<e>> \o s) /\ (<<e>> \o s)[p + 1] = s[p]
    OBVIOUS
  <2>1. p + 1 \in 1 .. Len(<<e>> \o s) /\ p + 1 # 1 /\ (p + 1) - 1 = p
    BY <1>2, <1>3
  <2> QED
    BY <2>1, <1>4
<1> QED
  BY <1>1, <1>2, <1>3, <1>4, <1>5

LEMMA InitIInv == RefInit => RefIInv
<1> SUFFICES ASSUME RefInit PROVE RefIInv
  OBVIOUS
<1> USE LuaRefAssumption DEF RefInit, Refs, RefSlots, Held, Released, FREELIST_REF
<1>1. free = <<>> /\ Len(free) = 0 /\ free \in Seq(Refs)
  BY EmptySeq
<1>2. RefTypeOK
  BY <1>1 DEF RefTypeOK
<1>3. LiveIntact /\ Compact /\ Chain /\ NothingAbovePeak
  BY <1>1 DEF LiveIntact, Compact, Chain, NothingAbovePeak
<1> QED
  BY <1>2, <1>3 DEF RefIInv

(* luaL_ref from the chain hands out the key given back last. *)
LEMMA RefReuseIInv ==
  ASSUME RefIInv, NEW v \in RefValues, RefReuse(v)
  PROVE  RefIInv'
<1> USE LuaRefAssumption DEF Refs, RefSlots, FREELIST_REF
<1>0. FirstFree = free[1] /\ free # <<>> /\ FirstFree \in Refs
  BY EmptySeq, ElementOfSeq DEF RefIInv, Chain, RefTypeOK, FirstFree, RefReuse
<1>1. PICK ref \in Refs : ref = FirstFree /\ ref = free[1] /\ free # <<>>
  BY <1>0
<1>2. /\ free' = Tail(free) /\ free' \in Seq(Refs)
      /\ Len(free) \in Nat \ {0} /\ 1 \in 1 .. Len(free)
      /\ Len(free') = Len(free) - 1
      /\ \A p \in 1 .. Len(free') :
           p + 1 \in 1 .. Len(free) /\ p + 1 # 1 /\ free'[p] = free[p + 1]
  BY <1>1, TailFacts DEF RefIInv, RefTypeOK, RefReuse, HandOut
<1>3. /\ t' = [t EXCEPT ![0] = t[ref], ![ref] = v]
      /\ live' = [live EXCEPT ![ref] = v]
  BY <1>1 DEF RefReuse, HandOut
<1>4. /\ t \in [RefSlots -> RefValues \cup Refs \cup {NoValue}]
      /\ live \in [Refs -> RefValues \cup {NoValue}]
      /\ free \in Seq(Refs) /\ peak \in 0 .. MaxRef
  BY DEF RefIInv, RefTypeOK
<1>5. \A p \in 1 .. Len(free) : free[p] \in Refs
  BY <1>4, ElementOfSeq
<1>6. ref \in Released /\ ref \notin Held /\ ref \in 1 .. peak
  <2>1. ref \in Released
    BY <1>1, <1>2 DEF Released
  <2>2. Held \cap Released = {} /\ Held \cup Released = 1 .. peak
    BY DEF RefIInv, Chain, Compact
  <2> QED
    BY <2>1, <2>2
<1>7. Held' = Held \cup {ref}
  BY <1>1, <1>3, <1>4 DEF Held
<1>8. Released' = Released \ {ref}
  <2>1. ASSUME NEW p \in 1 .. Len(free')
        PROVE  free'[p] \in Released /\ free'[p] # ref
    <3>1. /\ p + 1 \in 1 .. Len(free) /\ p + 1 # 1 /\ 1 \in 1 .. Len(free)
          /\ free'[p] = free[p + 1]
      BY <1>2
    <3>2. free[p + 1] = free[1] => p + 1 = 1
      BY <3>1 DEF RefIInv, Chain
    <3>3. free[p + 1] \in Released
      BY <3>1 DEF Released
    <3> QED
      BY <3>1, <3>2, <3>3, <1>1
  <2>2. ASSUME NEW p \in 1 .. Len(free), free[p] # ref
        PROVE  \E q \in 1 .. Len(free') : free'[q] = free[p]
    <3>1. p # 1 /\ p - 1 \in 1 .. Len(free') /\ (p - 1) + 1 = p
      BY <2>2, <1>1, <1>2
    <3>2. free'[p - 1] = free[(p - 1) + 1]
      BY <3>1, <1>2
    <3> QED
      BY <3>1, <3>2
  <2> QED
    BY <2>1, <2>2 DEF Released
<1>9. peak' = peak
  <2>1. Held \cup {ref} \in SUBSET (1 .. peak)
    BY <1>6 DEF RefIInv, Compact
  <2>2. Cardinality(Held \cup {ref}) \in Nat /\ Cardinality(Held \cup {ref}) <= peak
    <3>1. peak \in Nat
      BY <1>4
    <3> QED
      BY <2>1, <3>1, SegmentCardinality
  <2>3. peak' = IF Cardinality(Held \cup {ref}) > peak
                THEN Cardinality(Held \cup {ref}) ELSE peak
    BY <1>1 DEF RefReuse, HandOut
  <2> QED
    BY <2>2, <2>3, <1>4
<1>10. RefTypeOK'
  BY <1>1, <1>2, <1>3, <1>4, <1>9 DEF RefTypeOK
<1>11. LiveIntact'
  <2> SUFFICES ASSUME NEW r \in Refs, r \in Held' PROVE t'[r] = live'[r]
    BY DEF LiveIntact, Held
  <2>1. CASE r = ref
    BY <2>1, <1>3, <1>4
  <2>2. CASE r # ref
    <3>1. r \in Held /\ r # 0
      BY <2>2, <1>7
    <3>2. t[r] = live[r]
      BY <3>1 DEF RefIInv, LiveIntact
    <3>3. t'[r] = t[r] /\ live'[r] = live[r]
      BY <3>1, <2>2, <1>3, <1>4
    <3> QED
      BY <3>2, <3>3
  <2> QED
    BY <2>1, <2>2
<1>12. Compact'
  BY <1>6, <1>7, <1>8, <1>9 DEF Compact, RefIInv
<1>13. Chain'
  <2>1. t'[0] = IF free' = <<>> THEN NoValue ELSE free'[1]
    <3>1. t[ref] = IF 1 = Len(free) THEN NoValue ELSE free[1 + 1]
      BY <1>1, <1>2 DEF RefIInv, Chain
    <3>2. t'[0] = t[ref]
      BY <1>3, <1>4
    <3>3. CASE Len(free) = 1
      <4>1. free' = <<>>
        BY <3>3, <1>2, EmptySeq
      <4> QED
        BY <3>1, <3>2, <3>3, <4>1
    <3>4. CASE Len(free) # 1
      <4>1. Len(free') # 0 /\ 1 \in 1 .. Len(free')
        BY <3>4, <1>2
      <4>2. free' # <<>> /\ free'[1] = free[1 + 1]
        BY <4>1, <1>2, EmptySeq
      <4> QED
        BY <3>1, <3>2, <3>4, <4>2
    <3> QED
      BY <3>3, <3>4
  <2>2. ASSUME NEW p \in 1 .. Len(free')
        PROVE  t'[free'[p]] = IF p = Len(free') THEN NoValue ELSE free'[p + 1]
    <3>1. free'[p] = free[p + 1] /\ p + 1 \in 1 .. Len(free) /\ p + 1 # 1
      BY <1>2
    <3>2. free[p + 1] # ref /\ free[p + 1] # 0
      <4>1. free[p + 1] = free[1] => p + 1 = 1
        BY <3>1, <1>2 DEF RefIInv, Chain
      <4>2. free[p + 1] \in Refs
        BY <3>1, <1>5
      <4> QED
        BY <3>1, <4>1, <4>2, <1>1
    <3>3. t'[free'[p]] = t[free[p + 1]]
      BY <3>1, <3>2, <1>3, <1>4, <1>5
    <3>4. t[free[p + 1]] = IF p + 1 = Len(free) THEN NoValue ELSE free[(p + 1) + 1]
      BY <3>1 DEF RefIInv, Chain
    <3>5. p + 1 = Len(free) <=> p = Len(free')
      BY <1>2
    <3>6. p # Len(free') => free[(p + 1) + 1] = free'[p + 1]
      <4>0. Len(free') \in Nat
        BY <1>2, LenProperties
      <4> SUFFICES ASSUME p # Len(free') PROVE free[(p + 1) + 1] = free'[p + 1]
        OBVIOUS
      <4>1. PICK k \in 1 .. Len(free') : k = p + 1
        <5>1. p + 1 \in 1 .. Len(free')
          BY <4>0
        <5> QED
          BY <5>1, Zenon
      <4>2. free'[k] = free[k + 1]
        BY <1>2
      <4> QED
        BY <4>1, <4>2
    <3> QED
      BY <3>3, <3>4, <3>5, <3>6
  <2>3. \A p, q \in 1 .. Len(free') : free'[p] = free'[q] => p = q
    <3> SUFFICES ASSUME NEW p \in 1 .. Len(free'), NEW q \in 1 .. Len(free'),
                        free'[p] = free'[q]
                 PROVE  p = q
      OBVIOUS
    <3>1. /\ p + 1 \in 1 .. Len(free) /\ q + 1 \in 1 .. Len(free)
          /\ free[p + 1] = free[q + 1]
      BY <1>2
    <3>2. p + 1 = q + 1
      BY <3>1 DEF RefIInv, Chain
    <3> QED
      BY <3>2
  <2>4. Held' \cap Released' = {}
    BY <1>7, <1>8 DEF RefIInv, Chain
  <2> QED
    BY <2>1, <2>2, <2>3, <2>4 DEF Chain
<1>14. NothingAbovePeak'
  <2> SUFFICES ASSUME NEW k \in RefSlots, k > peak PROVE t'[k] = NoValue
    BY <1>9 DEF NothingAbovePeak
  <2>1. t[k] = NoValue
    BY DEF RefIInv, NothingAbovePeak
  <2>2. k # ref /\ k # 0
    BY <1>4, <1>6
  <2> QED
    BY <2>1, <2>2, <1>3, <1>4
<1> QED
  BY <1>10, <1>11, <1>12, <1>13, <1>14 DEF RefIInv

(* luaL_ref with an empty chain: the only border is peak. *)
LEMMA RefFreshIInv ==
  ASSUME RefIInv, NEW v \in RefValues, RefFresh(v)
  PROVE  RefIInv'
<1> USE LuaRefAssumption DEF Refs, RefSlots, FREELIST_REF
<1>1. PICK n \in Borders :
        /\ n < MaxRef
        /\ t' = [t EXCEPT ![n + 1] = v]
        /\ HandOut(n + 1, v)
  BY DEF RefFresh
<1>2. /\ t \in [RefSlots -> RefValues \cup Refs \cup {NoValue}]
      /\ live \in [Refs -> RefValues \cup {NoValue}]
      /\ free \in Seq(Refs) /\ peak \in 0 .. MaxRef
  BY DEF RefIInv, RefTypeOK
<1>3. free = <<>> /\ Len(free) = 0 /\ Released = {}
  <2>1. free # <<>> => free[1] \in Refs
    BY <1>2, EmptySeq, ElementOfSeq
  <2>2. free = <<>>
    BY <2>1, <1>2 DEF RefIInv, Chain, RefFresh, FirstFree
  <2> QED
    BY <2>2, EmptySeq DEF Released
<1>4. Held = 1 .. peak
  BY <1>3 DEF RefIInv, Compact
<1>5. n = peak
  <2>1. \A k \in 1 .. peak : t[k] # NoValue
    BY <1>2, <1>4 DEF RefIInv, LiveIntact, Held
  <2>2. \A k \in RefSlots : k > peak => t[k] = NoValue
    BY DEF RefIInv, NothingAbovePeak
  <2>3. n \in 0 .. MaxRef /\ (n = 0 \/ t[n] # NoValue) /\ t[n + 1] = NoValue
    BY DEF Borders
  <2> QED
    BY <2>1, <2>2, <2>3, <1>2
<1>6. live' = [live EXCEPT ![peak + 1] = v] /\ peak + 1 \in Refs
  BY <1>1, <1>2, <1>5 DEF HandOut
<1>7. free' = <<>>
  BY <1>1, <1>3 DEF HandOut
<1>8. Held' = 1 .. peak + 1
  <2>1. Held' = Held \cup {peak + 1}
    BY <1>2, <1>6 DEF Held
  <2> QED
    BY <2>1, <1>2, <1>4
<1>9. peak' = peak + 1
  <2>1. Held \cup {peak + 1} = 1 .. peak + 1
    BY <1>2, <1>4
  <2>2. Cardinality(1 .. peak + 1) = peak + 1
    BY <1>2, SegmentCardinality
  <2> QED
    BY <2>1, <2>2, <1>1, <1>2, <1>5 DEF HandOut
<1>10. Released' = {} /\ Len(free') = 0
  BY <1>7, EmptySeq DEF Released
<1>11. t' = [t EXCEPT ![peak + 1] = v]
  BY <1>1, <1>5
<1>12. RefTypeOK'
  BY <1>2, <1>6, <1>7, <1>9, <1>11, EmptySeq DEF RefTypeOK
<1>13. LiveIntact'
  BY <1>2, <1>4, <1>6, <1>8, <1>11 DEF LiveIntact, RefIInv
<1>14. Compact'
  BY <1>8, <1>9, <1>10 DEF Compact
<1>15. Chain'
  <2>1. t'[0] = NoValue
    BY <1>2, <1>3, <1>11 DEF RefIInv, Chain
  <2> QED
    BY <2>1, <1>7, <1>10 DEF Chain
<1>16. NothingAbovePeak'
  BY <1>2, <1>9, <1>11 DEF NothingAbovePeak, RefIInv
<1> QED
  BY <1>12, <1>13, <1>14, <1>15, <1>16 DEF RefIInv

(* luaL_unref puts the key in front of the chain. *)
LEMMA UnrefIInv ==
  ASSUME RefIInv, NEW ref \in Refs, Unref(ref)
  PROVE  RefIInv'
<1> USE LuaRefAssumption DEF Refs, RefSlots, FREELIST_REF
<1>1. /\ t \in [RefSlots -> RefValues \cup Refs \cup {NoValue}]
      /\ live \in [Refs -> RefValues \cup {NoValue}]
      /\ free \in Seq(Refs) /\ peak \in 0 .. MaxRef
  BY DEF RefIInv, RefTypeOK
<1>2. /\ t' = [t EXCEPT ![ref] = t[0], ![0] = ref]
      /\ live' = [live EXCEPT ![ref] = NoValue]
      /\ free' = <<ref>> \o free
      /\ peak' = peak
      /\ ref \in Held
  BY DEF Unref
<1>3. /\ free' \in Seq(Refs) /\ Len(free) \in Nat /\ Len(free') = Len(free) + 1
      /\ 1 \in 1 .. Len(free') /\ free'[1] = ref
      /\ \A p \in 1 .. Len(free') :
           p # 1 => p - 1 \in 1 .. Len(free) /\ free'[p] = free[p - 1]
      /\ \A p \in 1 .. Len(free) :
           p + 1 \in 1 .. Len(free') /\ free'[p + 1] = free[p]
  BY <1>1, <1>2, ConsFacts
<1>4. \A p \in 1 .. Len(free) : free[p] \in Refs /\ free[p] # ref
  BY <1>1, <1>2, ElementOfSeq DEF RefIInv, Chain, Released
<1>5. Held' = Held \ {ref}
  BY <1>1, <1>2 DEF Held
<1>6. Released' = Released \cup {ref}
  <2>1. \A p \in 1 .. Len(free') : free'[p] \in Released \cup {ref}
    <3> SUFFICES ASSUME NEW p \in 1 .. Len(free'), p # 1
                 PROVE  free'[p] \in Released
      BY <1>3
    <3>1. p - 1 \in 1 .. Len(free) /\ free'[p] = free[p - 1]
      BY <1>3
    <3> QED
      BY <3>1 DEF Released
  <2>2. \A p \in 1 .. Len(free) : free[p] \in Released'
    <3> SUFFICES ASSUME NEW p \in 1 .. Len(free) PROVE free[p] \in Released'
      OBVIOUS
    <3>1. p + 1 \in 1 .. Len(free') /\ free'[p + 1] = free[p]
      BY <1>3
    <3> QED
      BY <3>1 DEF Released
  <2>3. ref \in Released'
    BY <1>3 DEF Released
  <2>4. Released' \subseteq Released \cup {ref}
    BY <2>1 DEF Released
  <2>5. Released \subseteq Released'
    BY <2>2 DEF Released
  <2> QED
    BY <2>3, <2>4, <2>5
<1>7. RefTypeOK'
  <2>1. 0 \in RefSlots /\ ref \in RefSlots /\ ref \in Refs
    BY <1>2 DEF Held
  <2>2. t[0] \in RefValues \cup Refs \cup {NoValue}
    BY <2>1, <1>1
  <2>3. t' \in [RefSlots -> RefValues \cup Refs \cup {NoValue}]
    BY <2>1, <2>2, <1>1, <1>2
  <2>4. live' \in [Refs -> RefValues \cup {NoValue}]
    BY <2>1, <1>1, <1>2
  <2> QED
    BY <2>3, <2>4, <1>1, <1>2, <1>3 DEF RefTypeOK
<1>8. LiveIntact'
  BY <1>1, <1>2, <1>5 DEF LiveIntact, RefIInv, Held
<1>9. Compact'
  BY <1>2, <1>5, <1>6 DEF Compact, RefIInv
<1>10. Chain'
  <2>1. t'[0] = IF free' = <<>> THEN NoValue ELSE free'[1]
    <3>1. free' # <<>>
      BY <1>3, EmptySeq
    <3> QED
      BY <3>1, <1>1, <1>2, <1>3
  <2>2. ASSUME NEW p \in 1 .. Len(free')
        PROVE  t'[free'[p]] = IF p = Len(free') THEN NoValue ELSE free'[p + 1]
    <3>1. CASE p = 1
      <4>1. t'[free'[p]] = t[0]
        BY <3>1, <1>1, <1>2, <1>3
      <4>2. t[0] = IF free = <<>> THEN NoValue ELSE free[1]
        BY DEF RefIInv, Chain
      <4>3. free = <<>> <=> Len(free) = 0
        BY <1>1, EmptySeq
      <4> QED
        BY <4>1, <4>2, <4>3, <3>1, <1>3
    <3>2. CASE p # 1
      <4>1. p - 1 \in 1 .. Len(free) /\ free'[p] = free[p - 1]
        BY <3>2, <1>3
      <4>2. t'[free'[p]] = t[free[p - 1]]
        BY <4>1, <1>1, <1>2, <1>4
      <4>3. t[free[p - 1]] = IF p - 1 = Len(free) THEN NoValue ELSE free[p]
        BY <4>1 DEF RefIInv, Chain
      <4>4. p - 1 = Len(free) <=> p = Len(free')
        BY <1>3
      <4>5. p # Len(free') => free'[p + 1] = free[p]
        BY <4>1, <1>3
      <4> QED
        BY <4>2, <4>3, <4>4, <4>5
    <3> QED
      BY <3>1, <3>2
  <2>3. \A p, q \in 1 .. Len(free') : free'[p] = free'[q] => p = q
    <3> SUFFICES ASSUME NEW p \in 1 .. Len(free'), NEW q \in 1 .. Len(free'),
                        free'[p] = free'[q]
                 PROVE  p = q
      OBVIOUS
    <3>1. p # 1 => p - 1 \in 1 .. Len(free) /\ free'[p] = free[p - 1]
      BY <1>3
    <3>2. q # 1 => q - 1 \in 1 .. Len(free) /\ free'[q] = free[q - 1]
      BY <1>3
    <3>3. p # 1 => free'[p] # ref
      BY <3>1, <1>4
    <3>4. q # 1 => free'[q] # ref
      BY <3>2, <1>4
    <3>5. p # 1 /\ q # 1 => p - 1 = q - 1
      BY <3>1, <3>2 DEF RefIInv, Chain
    <3>6. CASE p = 1 \/ q = 1
      BY <3>3, <3>4, <3>6, <1>3
    <3>7. CASE p # 1 /\ q # 1
      BY <3>5, <3>7, <1>3
    <3> QED
      BY <3>6, <3>7
  <2>4. Held' \cap Released' = {}
    BY <1>5, <1>6 DEF RefIInv, Chain
  <2> QED
    BY <2>1, <2>2, <2>3, <2>4 DEF Chain
<1>11. NothingAbovePeak'
  <2>1. ref \in 1 .. peak
    BY <1>2 DEF RefIInv, Compact
  <2> QED
    BY <2>1, <1>1, <1>2 DEF NothingAbovePeak, RefIInv
<1> QED
  BY <1>7, <1>8, <1>9, <1>10, <1>11 DEF RefIInv

LEMMA StutterIInv ==
  ASSUME RefIInv, UNCHANGED refVars
  PROVE  RefIInv'
BY DEF refVars, RefIInv, RefTypeOK, LiveIntact, Compact, Chain, NothingAbovePeak, Held, Released

(* The invariant is inductive, for every set of values and number of keys. *)
THEOREM LuaRefInvariant == RefSpec => []RefIInv
<1>1. RefInit => RefIInv
  BY InitIInv
<1>2. RefIInv /\ [RefNext]_refVars => RefIInv'
  BY RefReuseIInv, RefFreshIInv, UnrefIInv, StutterIInv DEF RefNext
<1> QED
  BY <1>1, <1>2, PTL DEF RefSpec

(* A value anchored by luaL_ref stays under its key until the key is given *)
(* back: the engine's callbacks are the functions the script registered.   *)
THEOREM LiveIntactAlways == RefSpec => []LiveIntact
<1>1. RefIInv => LiveIntact
  BY DEF RefIInv
<1> QED
  BY <1>1, LuaRefInvariant, PTL

(* The reference table is never larger than the largest number of keys     *)
(* held at one time.                                                       *)
THEOREM CompactAlways == RefSpec => []Compact
<1>1. RefIInv => Compact
  BY DEF RefIInv
<1> QED
  BY <1>1, LuaRefInvariant, PTL

(* luaL_ref never hands out a key that is held. *)
THEOREM NeverReissuedAlways == RefSpec => NeverReissued
<1>1. RefIInv /\ [RefNext]_refVars => [\A r \in Held : r \in Held' => live'[r] = live[r]]_refVars
  <2> SUFFICES ASSUME RefIInv, [RefNext]_refVars, NEW r \in Held, r \in Held'
               PROVE  live'[r] = live[r]
    OBVIOUS
  <2>0. live \in [Refs -> RefValues \cup {NoValue}] /\ r \in Refs
    BY DEF RefIInv, RefTypeOK, Held
  <2>1. CASE UNCHANGED refVars
    BY <2>1 DEF refVars
  <2>2. ASSUME NEW v \in RefValues, RefReuse(v) PROVE live'[r] = live[r]
    <3>1. FirstFree \notin Held
      <4>1. free # <<>> /\ FirstFree = free[1]
        BY <2>2, LuaRefAssumption DEF RefIInv, RefTypeOK, Chain, RefReuse, FirstFree, Refs
      <4>2. Len(free) \in Nat \ {0}
        BY <4>1, EmptySeq DEF RefIInv, RefTypeOK
      <4> QED
        BY <4>1, <4>2 DEF RefIInv, Chain, Released
    <3> QED
      BY <2>0, <2>2, <3>1 DEF RefReuse, HandOut
  <2>3. ASSUME NEW v \in RefValues, RefFresh(v) PROVE live'[r] = live[r]
    <3>1. \A n \in Borders : n + 1 \notin Held
      <4> SUFFICES ASSUME NEW n \in Borders, n + 1 \in Held PROVE FALSE
        OBVIOUS
      <4>1. t[n + 1] = NoValue /\ live[n + 1] # NoValue
        BY DEF Borders, Held
      <4> QED
        BY <4>1 DEF RefIInv, LiveIntact
    <3> QED
      BY <2>0, <2>3, <3>1 DEF RefFresh, HandOut
  <2>4. ASSUME NEW ref \in Refs, Unref(ref) PROVE live'[r] = live[r]
    BY <2>0, <2>4 DEF Unref, Held
  <2> QED
    BY <2>1, <2>2, <2>3, <2>4 DEF RefNext
<1> QED
  BY <1>1, LuaRefInvariant, PTL DEF RefSpec, NeverReissued

-----------------------------------------------------------------------------
(* sort. *)

(* A sequence that holds the elements sort was given. *)
Count(a, v) == Cardinality({k \in DOMAIN a : a[k] = v})
Keeps(a) ==
  /\ a \in Seq(Int) /\ Len(a) = Len(given)
  /\ ToSet(a) \subseteq ToSet(given)
  /\ \A v \in ToSet(given) : Count(a, v) = Count(given, v)

(* The ranges still to be sorted, this one and those of the calls, lie     *)
(* apart, and two places out of order are in one of them.                  *)
Pending == {calls[k] : k \in 1 .. Len(calls)} \cup (IF pc = "done" THEN {} ELSE {<<l, u>>})
Off(r, s) == r[2] < s[1] \/ s[2] < r[1] \/ r[2] < r[1] \/ s[2] < s[1]
Apart ==
  /\ pc # "done" => \A k \in 1 .. Len(calls) : Off(calls[k], <<l, u>>)
  /\ \A k, m \in 1 .. Len(calls) : k # m => Off(calls[k], calls[m])
InOrder(a, R) ==
  \A x, y \in 1 .. Len(a) : x < y => a[x] <= a[y] \/ \E r \in R : r[1] <= x /\ y <= r[2]

(* Where auxsort's variables may point. *)
Ranges == (1 .. Len(given) + 1) \X (0 .. Len(given))
IndexOK ==
  /\ given \in Seq(Int) /\ order \in {"<", "any"}
  /\ <<l, u>> \in Ranges /\ i \in 0 .. Len(given) + 1 /\ j \in 0 .. Len(given)
  /\ pc \in {"first", "middle", "upper", "up", "down", "done", "error"}
  /\ calls \in Seq(Ranges)
  /\ pc = "done" => calls = <<>>
  /\ pc \in {"middle", "upper"} => u - l >= 2 /\ i = (l + u) \div 2
  /\ pc \in {"up", "down"} => l < u /\ P \in Int /\ j \in l .. u - 1
  /\ pc = "up" => i \in l .. u
  /\ pc = "down" => i \in l + 1 .. u + 1 /\ i <= Len(given)

(* "invariant: a[l..i] <= P <= a[j..u]", and what it is between the scans. *)
ScanOK ==
  /\ pc # "error"
  /\ pc \in {"middle", "upper"} => array[l] <= array[u]
  /\ pc = "upper" => array[l] <= array[i]
  /\ pc \in {"up", "down"} => u - l >= 3 /\ array[u - 1] = P /\ \A x \in j .. u : P <= array[x]
  /\ pc = "up" => i <= j /\ i <= u - 2 /\ (i = j => l < i) /\ \A x \in l .. i : array[x] <= P
  /\ pc = "down" => /\ i < u /\ i <= j + 1 /\ l < j /\ P <= array[i]
                    /\ \A x \in l .. i - 1 : array[x] <= P

(* A call sorts at most half of what its caller does. *)
Halves ==
  /\ pc # "done" => twoto[Len(calls)] * (u - l + 2) <= Len(given) + 1
  /\ \A k \in 1 .. Len(calls) :
       /\ twoto[k - 1] * (calls[k][2] - calls[k][1] + 2) <= Len(given) + 1
       /\ 5 * twoto[k - 1] <= Len(given) + 1

OrderOK == order = "<" => Apart /\ InOrder(array, Pending) /\ ScanOK /\ Halves

SInv == Keeps(array) /\ IndexOK /\ OrderOK

-----------------------------------------------------------------------------
(* A swap moves two elements and no others. *)
LEMMA Swap ==
  ASSUME NEW a \in Seq(Int), NEW x \in 1 .. Len(a), NEW y \in 1 .. Len(a)
  PROVE  /\ set2(a, x, y) \in Seq(Int) /\ Len(set2(a, x, y)) = Len(a)
         /\ DOMAIN set2(a, x, y) = 1 .. Len(a)
         /\ set2(a, x, y)[x] = a[y] /\ set2(a, x, y)[y] = a[x]
         /\ \A k \in 1 .. Len(a) : k # x /\ k # y => set2(a, x, y)[k] = a[k]
<1>1. a[x] \in Int /\ a[y] \in Int /\ DOMAIN a = 1 .. Len(a)  OBVIOUS
<1> DEFINE b == [a EXCEPT ![x] = a[y]]
<1>2. b \in Seq(Int) /\ Len(b) = Len(a)  BY <1>1
<1>3. \A k \in 1 .. Len(a) : b[k] = IF k = x THEN a[y] ELSE a[k]  BY <1>1
<1>4. set2(a, x, y) = [b EXCEPT ![y] = a[x]]  BY DEF set2
<1> HIDE DEF b
<1>5. set2(a, x, y) \in Seq(Int) /\ Len(set2(a, x, y)) = Len(a)  BY <1>1, <1>2, <1>4
<1>6. \A k \in 1 .. Len(a) : set2(a, x, y)[k] = IF k = y THEN a[x] ELSE b[k]  BY <1>2, <1>4
<1>7. DOMAIN set2(a, x, y) = 1 .. Len(a)  BY <1>5
<1> QED  BY <1>3, <1>5, <1>6, <1>7

(* As many places hold a value after a swap as before it. *)
LEMMA SwapCounts ==
  ASSUME NEW a \in Seq(Int), NEW x \in 1 .. Len(a), NEW y \in 1 .. Len(a), NEW v
  PROVE  Count(set2(a, x, y), v) = Count(a, v)
<1> DEFINE b == set2(a, x, y)
           S == {k \in 1 .. Len(a) : a[k] = v}
           T == {k \in 1 .. Len(a) : b[k] = v}
           other(k) == IF k = x THEN y ELSE IF k = y THEN x ELSE k
           f == [k \in S |-> other(k)]
<1>1. /\ DOMAIN b = 1 .. Len(a) /\ b[x] = a[y] /\ b[y] = a[x]
      /\ \A k \in 1 .. Len(a) : k # x /\ k # y => b[k] = a[k]
  BY Swap
<1> HIDE DEF b
<1>2. \A k \in 1 .. Len(a) : other(k) \in 1 .. Len(a) /\ other(other(k)) = k /\ b[other(k)] = a[k]
  BY <1>1
<1> HIDE DEF other
<1>3. f \in [S -> T]  BY <1>2
<1>4. \A k, m \in S : f[k] = f[m] => k = m  BY <1>2
<1>5. \A m \in T : other(m) \in S /\ f[other(m)] = m
  <2> TAKE m \in T
  <2>1. m \in 1 .. Len(a) /\ b[m] = v  OBVIOUS
  <2>2. a[other(m)] = v
    <3>1. b[other(other(m))] = a[other(m)]  BY <1>2, <2>1
    <3> QED  BY <3>1, <1>2, <2>1
  <2> QED  BY <1>2, <2>1, <2>2
<1>6. f \in Bijection(S, T)
  <2>1. f \in Injection(S, T)  BY <1>3, <1>4 DEF Injection, IsInjective
  <2>2. f \in Surjection(S, T)  BY <1>3, <1>5 DEF Surjection
  <2> QED  BY <2>1, <2>2 DEF Bijection
<1>7. IsFiniteSet(S)
  <2>1. IsFiniteSet(1 .. Len(a))  BY FS_Interval
  <2> QED  BY <2>1, FS_Subset
<1>8. Cardinality(T) = Cardinality(S)  BY <1>6, <1>7, FS_Bijection DEF ExistsBijection
<1>9. DOMAIN a = 1 .. Len(a)  OBVIOUS
<1> QED  BY <1>1, <1>8, <1>9 DEF Count, b

LEMMA SwapKeeps ==
  ASSUME NEW a, Keeps(a), NEW x \in 1 .. Len(given), NEW y \in 1 .. Len(given)
  PROVE  Keeps(set2(a, x, y))
<1>1. a \in Seq(Int) /\ x \in 1 .. Len(a) /\ y \in 1 .. Len(a)  BY DEF Keeps
<1>2. set2(a, x, y) \in Seq(Int) /\ Len(set2(a, x, y)) = Len(given)  BY <1>1, Swap DEF Keeps
<1>3. ToSet(set2(a, x, y)) \subseteq ToSet(a)
  <2> SUFFICES ASSUME NEW k \in DOMAIN set2(a, x, y)  PROVE set2(a, x, y)[k] \in ToSet(a)
    BY DEF ToSet
  <2> DEFINE b == set2(a, x, y)
  <2>1. /\ DOMAIN b = 1 .. Len(a) /\ b[x] = a[y] /\ b[y] = a[x]
        /\ \A m \in 1 .. Len(a) : m # x /\ m # y => b[m] = a[m]
    BY <1>1, Swap
  <2>2. k \in DOMAIN b  OBVIOUS
  <2> HIDE DEF b
  <2>3. k \in 1 .. Len(a) /\ DOMAIN a = 1 .. Len(a)  BY <1>1, <2>1, <2>2
  <2>4. b[k] = a[x] \/ b[k] = a[y] \/ b[k] = a[k]  BY <2>1, <2>3
  <2>5. b[k] \in ToSet(a)  BY <1>1, <2>3, <2>4 DEF ToSet
  <2> QED  BY <2>5 DEF b
<1>4. \A v \in ToSet(given) : Count(set2(a, x, y), v) = Count(a, v)  BY <1>1, SwapCounts
<1> QED  BY <1>2, <1>3, <1>4 DEF Keeps

(* A swap within one of the ranges leaves the rest of the order alone. *)
LEMMA SwapInOrder ==
  ASSUME NEW a \in Seq(Int), NEW lo \in 1 .. Len(a), NEW hi \in 1 .. Len(a),
         NEW x \in lo .. hi, NEW y \in lo .. hi,
         NEW R \in SUBSET (Int \X Int), <<lo, hi>> \in R, InOrder(a, R),
         \A r \in R : r = <<lo, hi>> \/ Off(r, <<lo, hi>>)
  PROVE  InOrder(set2(a, x, y), R)
<1> DEFINE b == set2(a, x, y)
<1>1. x \in 1 .. Len(a) /\ y \in 1 .. Len(a)  OBVIOUS
<1>2. /\ b \in Seq(Int) /\ Len(b) = Len(a) /\ b[x] = a[y] /\ b[y] = a[x]
      /\ \A k \in 1 .. Len(a) : k # x /\ k # y => b[k] = a[k]
  BY <1>1, Swap
<1> HIDE DEF b
<1>3. \A k \in lo .. hi : \E m \in lo .. hi : b[k] = a[m]
  <2> SUFFICES ASSUME NEW k \in lo .. hi  PROVE \E m \in lo .. hi : b[k] = a[m]
    OBVIOUS
  <2>1. CASE k = x  BY <1>2, <2>1
  <2>2. CASE k = y  BY <1>2, <2>2
  <2>3. CASE k # x /\ k # y
    <3>1. k \in 1 .. Len(a)  OBVIOUS
    <3> QED  BY <1>2, <2>3, <3>1
  <2> QED  BY <2>1, <2>2, <2>3
<1>4. \A k \in 1 .. Len(a) : k \notin lo .. hi => b[k] = a[k]  BY <1>2
<1>5. \A r \in R : r[1] \in Int /\ r[2] \in Int  OBVIOUS
<1>6. \A r \in R : r = <<lo, hi>> \/ r[2] < lo \/ hi < r[1] \/ r[2] < r[1]
  <2>1. lo <= hi /\ <<lo, hi>>[1] = lo /\ <<lo, hi>>[2] = hi  OBVIOUS
  <2> QED  BY <2>1, <1>5 DEF Off
<1>7. SUFFICES ASSUME NEW p \in 1 .. Len(a), NEW q \in 1 .. Len(a), p < q
               PROVE  b[p] <= b[q] \/ \E r \in R : r[1] <= p /\ q <= r[2]
  BY <1>2 DEF InOrder, b
<1>8. CASE p \in lo .. hi /\ q \in lo .. hi
  <2>1. <<lo, hi>>[1] <= p /\ q <= <<lo, hi>>[2]  BY <1>8
  <2> QED  BY <2>1
<1>9. CASE p \in lo .. hi /\ q \notin lo .. hi
  <2>1. PICK m \in lo .. hi : b[p] = a[m]  BY <1>3, <1>9
  <2>2. hi < q /\ m < q /\ m \in 1 .. Len(a)  BY <1>7, <1>9, <2>1
  <2>3. ~ \E r \in R : r[1] <= m /\ q <= r[2]
    <3> SUFFICES ASSUME NEW r \in R, r[1] <= m, q <= r[2]  PROVE FALSE
      OBVIOUS
    <3>1. r # <<lo, hi>>  BY <2>2
    <3>2. r[2] < lo \/ hi < r[1] \/ r[2] < r[1]  BY <1>6, <3>1
    <3> QED  BY <1>5, <2>1, <2>2, <3>2
  <2>4. a[m] <= a[q]  BY <2>2, <2>3 DEF InOrder
  <2> QED  BY <1>4, <1>9, <2>1, <2>4
<1>10. CASE p \notin lo .. hi /\ q \in lo .. hi
  <2>1. PICK m \in lo .. hi : b[q] = a[m]  BY <1>3, <1>10
  <2>2. p < lo /\ p < m /\ m \in 1 .. Len(a)  BY <1>7, <1>10, <2>1
  <2>3. ~ \E r \in R : r[1] <= p /\ m <= r[2]
    <3> SUFFICES ASSUME NEW r \in R, r[1] <= p, m <= r[2]  PROVE FALSE
      OBVIOUS
    <3>1. r # <<lo, hi>>  BY <2>2
    <3>2. r[2] < lo \/ hi < r[1] \/ r[2] < r[1]  BY <1>6, <3>1
    <3> QED  BY <1>5, <2>1, <2>2, <3>2
  <2>4. a[p] <= a[m]  BY <2>2, <2>3 DEF InOrder
  <2> QED  BY <1>4, <1>10, <2>1, <2>4
<1>11. CASE p \notin lo .. hi /\ q \notin lo .. hi  BY <1>4, <1>7, <1>11 DEF InOrder
<1> QED  BY <1>8, <1>9, <1>10, <1>11

-----------------------------------------------------------------------------
(* A set that has zero and the successor of each of its elements has every *)
(* natural number.                                                         *)
LEMMA Successors ==
  ASSUME NEW T, T \subseteq Nat, 0 \in T, \A n \in T : n + 1 \in T
  PROVE  T = Nat
<1> SUFFICES ASSUME Nat \ T # {}  PROVE FALSE
  OBVIOUS
<1>1. PICK m \in Nat \ T : \A k \in Nat \ T : ~(<<k, m>> \in OpToRel(<, Nat))
  BY NatLessThanWellFounded, WFMin
<1>2. m # 0 /\ m - 1 \in Nat  OBVIOUS
<1>3. m - 1 \notin T  BY <1>2
<1>4. <<m - 1, m>> \in OpToRel(<, Nat)  BY <1>2 DEF OpToRel
<1> QED  BY <1>1, <1>2, <1>3, <1>4

(* The powers of two up to the nth, as the recursion has them. *)
Powers(n) == {f \in [0 .. n -> Nat \ {0}] : f[0] = 1 /\ \A k \in 1 .. n : f[k] = 2 * f[k - 1]}

LEMMA PowersExist == \A n \in Nat : Powers(n) # {}
<1> DEFINE T == {n \in Nat : Powers(n) # {}}
<1>1. 0 \in T
  <2>1. [k \in 0 .. 0 |-> 1] \in Powers(0)  BY DEF Powers
  <2> QED  BY <2>1
<1>2. ASSUME NEW n \in T  PROVE n + 1 \in T
  <2>1. PICK f : f \in Powers(n)  OBVIOUS
  <2>2. n \in Nat /\ f \in [0 .. n -> Nat \ {0}] /\ f[0] = 1 /\ \A k \in 1 .. n : f[k] = 2 * f[k - 1]
    BY <2>1 DEF Powers
  <2> DEFINE g == [k \in 0 .. n + 1 |-> IF k = n + 1 THEN 2 * f[n] ELSE f[k]]
  <2>3. n \in 0 .. n /\ f[n] \in Nat \ {0} /\ 2 * f[n] \in Nat \ {0}  BY <2>2
  <2>4. g \in [0 .. n + 1 -> Nat \ {0}]
    <3>1. \A k \in 0 .. n + 1 : k # n + 1 => k \in 0 .. n  BY <2>2
    <3> QED  BY <2>2, <2>3, <3>1
  <2>5. g[0] = 1  BY <2>2
  <2>6. ASSUME NEW k \in 1 .. n + 1  PROVE g[k] = 2 * g[k - 1]
    <3>1. k - 1 \in 0 .. n /\ k - 1 # n + 1 /\ k - 1 \in 0 .. n + 1 /\ k \in 0 .. n + 1  BY <2>2
    <3>2. g[k - 1] = f[k - 1]  BY <3>1
    <3>3. CASE k = n + 1
      <4>1. k - 1 = n /\ g[k] = 2 * f[n]  BY <2>2, <3>1, <3>3
      <4> QED  BY <3>2, <4>1
    <3>4. CASE k # n + 1
      <4>1. k \in 1 .. n  BY <2>2, <3>4
      <4>2. g[k] = f[k]  BY <3>1, <3>4
      <4> QED  BY <2>2, <3>2, <4>1, <4>2
    <3> QED  BY <3>3, <3>4
  <2>7. g \in Powers(n + 1)  BY <2>4, <2>5, <2>6 DEF Powers
  <2> QED  BY <2>2, <2>7
<1>3. T = Nat
  <2>1. T \subseteq Nat  OBVIOUS
  <2> HIDE DEF T
  <2> QED  BY <1>1, <1>2, <2>1, Successors
<1> QED  BY <1>3

LEMMA PowersAgree ==
  ASSUME NEW m \in Nat, NEW n \in Nat, NEW f \in Powers(m), NEW g \in Powers(n),
         NEW k \in Nat, k <= m, k <= n
  PROVE  f[k] = g[k]
<1> DEFINE T == {x \in Nat : x <= m /\ x <= n => f[x] = g[x]}
<1>1. 0 \in T  BY DEF Powers
<1>2. ASSUME NEW x \in T  PROVE x + 1 \in T
  <2> SUFFICES ASSUME x + 1 <= m, x + 1 <= n  PROVE f[x + 1] = g[x + 1]
    OBVIOUS
  <2>1. x \in Nat /\ x + 1 \in 1 .. m /\ x + 1 \in 1 .. n /\ (x + 1) - 1 = x  OBVIOUS
  <2>2. f[x] = g[x]  BY <2>1
  <2>3. f[x + 1] = 2 * f[x] /\ g[x + 1] = 2 * g[x]  BY <2>1 DEF Powers
  <2> QED  BY <2>2, <2>3
<1>3. T = Nat
  <2>1. T \subseteq Nat  OBVIOUS
  <2> HIDE DEF T
  <2> QED  BY <1>1, <1>2, <2>1, Successors
<1> QED  BY <1>3

(* twoto doubles from one step to the next. *)
LEMMA Doubles ==
  /\ twoto[0] = 1
  /\ \A n \in Nat : twoto[n] \in Nat \ {0} /\ twoto[n + 1] = 2 * twoto[n]
<1> DEFINE best(n) == CHOOSE f : f \in Powers(n)
           g == [n \in Nat |-> best(n)[n]]
<1>1. \A n \in Nat : best(n) \in Powers(n)  BY PowersExist
<1> HIDE DEF best
<1>2. g[0] = 1  BY <1>1 DEF Powers
<1>3. ASSUME NEW n \in Nat  PROVE g[n] \in Nat \ {0} /\ g[n + 1] = 2 * g[n]
  <2>1. best(n) \in Powers(n) /\ best(n + 1) \in Powers(n + 1)  BY <1>1
  <2>2. n + 1 \in 1 .. n + 1 /\ (n + 1) - 1 = n /\ n \in 0 .. n  OBVIOUS
  <2>3. best(n)[n] \in Nat \ {0} /\ best(n + 1)[n + 1] = 2 * best(n + 1)[n]
    BY <2>1, <2>2 DEF Powers
  <2>4. best(n + 1)[n] = best(n)[n]  BY <2>1, PowersAgree
  <2>5. g[n] = best(n)[n] /\ g[n + 1] = best(n + 1)[n + 1]  OBVIOUS
  <2> QED  BY <2>3, <2>4, <2>5
<1> DEFINE F(f) == [n \in Nat |-> IF n = 0 THEN 1 ELSE 2 * f[n - 1]]
<1>4. g = F(g)
  <2>1. ASSUME NEW n \in Nat  PROVE g[n] = IF n = 0 THEN 1 ELSE 2 * g[n - 1]
    <3>1. CASE n = 0  BY <1>2, <3>1
    <3>2. CASE n # 0
      <4>1. n - 1 \in Nat /\ (n - 1) + 1 = n  BY <3>2
      <4>2. g[(n - 1) + 1] = 2 * g[n - 1]  BY <1>3, <4>1
      <4> QED  BY <3>2, <4>1, <4>2
    <3> QED  BY <3>1, <3>2
  <2>2. g = [n \in Nat |-> g[n]]  OBVIOUS
  <2> HIDE DEF g
  <2> QED  BY <2>1, <2>2
<1> HIDE DEF g
<1>5. twoto = F(twoto)  BY <1>4 DEF twoto
<1>6. twoto[0] = 1  BY <1>5
<1>7. \A n \in Nat : twoto[n + 1] = 2 * twoto[n]
  <2> TAKE n \in Nat
  <2>1. n + 1 \in Nat /\ n + 1 # 0 /\ (n + 1) - 1 = n  OBVIOUS
  <2> QED  BY <1>5, <2>1
<1> DEFINE T == {n \in Nat : twoto[n] \in Nat \ {0}}
<1>8. T = Nat
  <2>1. T \subseteq Nat /\ 0 \in T  BY <1>6
  <2>2. \A n \in T : n + 1 \in T  BY <1>7
  <2> HIDE DEF T
  <2> QED  BY <2>1, <2>2, Successors
<1> QED  BY <1>6, <1>7, <1>8

(* A product does not shrink when a factor grows. *)
LEMMA Grows ==
  ASSUME NEW z \in Nat, NEW a \in Int, NEW b \in Int, a <= b
  PROVE  z * a <= z * b
<1>1. PICK d \in Nat : b = a + d
  <2>1. b - a \in Nat /\ b = a + (b - a)  OBVIOUS
  <2> QED  BY <2>1
<1>2. z * b = z * a + z * d  BY <1>1
<1>3. z * d \in Nat /\ z * a \in Int  BY <1>1
<1> QED  BY <1>2, <1>3

-----------------------------------------------------------------------------
USE DEF Ranges

LEMMA Bounds ==
  ASSUME IndexOK
  PROVE  /\ l \in Int /\ u \in Int /\ i \in Int /\ j \in Int /\ Len(given) \in Nat
         /\ 1 <= l /\ l <= Len(given) + 1 /\ 0 <= u /\ u <= Len(given)
         /\ 0 <= i /\ i <= Len(given) + 1 /\ 0 <= j /\ j <= Len(given)
         /\ Len(calls) \in Nat
         /\ \A k \in 1 .. Len(calls) : calls[k] \in Ranges
         /\ \A k \in 1 .. Len(calls) : calls[k] = <<calls[k][1], calls[k][2]>>
         /\ Pending \in SUBSET (Int \X Int)
<1>1. Len(given) \in Nat /\ Len(calls) \in Nat  BY DEF IndexOK
<1>2. l \in 1 .. Len(given) + 1 /\ u \in 0 .. Len(given)  BY DEF IndexOK
<1>3. \A k \in 1 .. Len(calls) : calls[k] \in Ranges  BY DEF IndexOK
<1>4. Ranges \subseteq Int \X Int  BY <1>1
<1>5. Pending \in SUBSET (Int \X Int)  BY <1>2, <1>3, <1>4 DEF Pending
<1>6. i \in 0 .. Len(given) + 1 /\ j \in 0 .. Len(given)  BY DEF IndexOK
<1>7. /\ l \in Int /\ u \in Int /\ i \in Int /\ j \in Int
      /\ 1 <= l /\ l <= Len(given) + 1 /\ 0 <= u /\ u <= Len(given)
      /\ 0 <= i /\ i <= Len(given) + 1 /\ 0 <= j /\ j <= Len(given)
  BY <1>1, <1>2, <1>6
<1>8. \A k \in 1 .. Len(calls) : calls[k] = <<calls[k][1], calls[k][2]>>  BY <1>3, <1>4
<1> QED  BY <1>1, <1>3, <1>5, <1>7, <1>8

(* The sequences that end with the call that waits last. *)
LEMMA Ends ==
  ASSUME NEW S, NEW s \in Seq(S), s # <<>>
  PROVE  /\ Len(s) \in Nat \ {0} /\ Last(s) = s[Len(s)] /\ s[Len(s)] \in S
         /\ Front(s) \in Seq(S) /\ Len(Front(s)) = Len(s) - 1
         /\ \A k \in 1 .. Len(s) - 1 : Front(s)[k] = s[k]
<1>1. Len(s) \in Nat \ {0} /\ Len(s) \in 1 .. Len(s)  OBVIOUS
<1>2. Last(s) = s[Len(s)]  BY DEF Last
<1>3. Front(s) = [k \in 1 .. Len(s) - 1 |-> s[k]]  BY DEF Front
<1>4. s[Len(s)] \in S /\ \A k \in 1 .. Len(s) - 1 : s[k] \in S  BY <1>1
<1>5. Front(s) \in Seq(S) /\ Len(Front(s)) = Len(s) - 1  BY <1>1, <1>3, <1>4
<1> QED  BY <1>1, <1>2, <1>3, <1>4, <1>5

(* A call that has sorted its range gives way to the one that waits. *)
LEMMA ReturnKeeps ==
  ASSUME IndexOK, pc # "done", Keeps(array'), Return, UNCHANGED <<given, order>>,
         i' \in 0 .. Len(given) + 1, j' \in 0 .. Len(given),
         order = "<" => /\ Apart /\ InOrder(array', Pending) /\ Halves
                        /\ \A x, y \in l .. u : x < y => array'[x] <= array'[y]
  PROVE  SInv'
<1>0. given' = given /\ order' = order  OBVIOUS
<1>1. Keeps(array)'  BY <1>0 DEF Keeps
<1>2. CASE calls = <<>>
  <2>1. pc' = "done" /\ l' = l /\ u' = u /\ calls' = calls  BY <1>2 DEF Return
  <2>2. IndexOK'  BY <1>0, <1>2, <2>1 DEF IndexOK
  <2>3. ASSUME order = "<"  PROVE Pending' = {} /\ InOrder(array', {})
    <3>1. Len(calls) = 0 /\ Len(calls') = 0  BY <1>2, <2>1
    <3>2. 1 .. Len(calls) = {} /\ 1 .. Len(calls') = {}  BY <3>1
    <3>3. Pending = {<<l, u>>}  BY <3>2 DEF Pending
    <3>4. Pending' = {}  BY <3>2, <2>1 DEF Pending
    <3>5. Len(array') = Len(given)  BY DEF Keeps
    <3>6. SUFFICES ASSUME NEW x \in 1 .. Len(array'), NEW y \in 1 .. Len(array'), x < y
                   PROVE  array'[x] <= array'[y]
      BY <3>4 DEF InOrder
    <3>7. CASE \E r \in Pending : r[1] <= x /\ y <= r[2]
      <4>1. l <= x /\ y <= u  BY <3>3, <3>7
      <4>2. x \in l .. u /\ y \in l .. u  BY <4>1, <3>6, Bounds
      <4> QED  BY <2>3, <3>6, <4>2
    <3> QED  BY <2>3, <3>6, <3>7 DEF InOrder
  <2>4. ASSUME order = "<"  PROVE Apart' /\ InOrder(array', Pending') /\ ScanOK' /\ Halves'
    <3>1. Apart' /\ InOrder(array', Pending')
      <4>1. Len(calls') = 0  BY <1>2, <2>1
      <4> QED  BY <2>1, <2>3, <2>4, <4>1 DEF Apart
    <3>2. ScanOK'  BY <2>1 DEF ScanOK
    <3>3. Halves'  BY <1>2, <2>1 DEF Halves
    <3> QED  BY <3>1, <3>2, <3>3
  <2>5. OrderOK'  BY <1>0, <2>4 DEF OrderOK
  <2> QED  BY <1>1, <2>2, <2>5 DEF SInv
<1>3. CASE calls # <<>>
  <2>1. l' = Last(calls)[1] /\ u' = Last(calls)[2] /\ calls' = Front(calls) /\ pc' = "first"
    BY <1>3 DEF Return
  <2> DEFINE m == Len(calls)
  <2>2. calls \in Seq(Ranges)  BY DEF IndexOK
  <2>3. /\ m \in Nat \ {0} /\ Last(calls) = calls[m] /\ calls[m] \in Ranges
        /\ calls' \in Seq(Ranges) /\ Len(calls') = m - 1
        /\ \A k \in 1 .. m - 1 : calls'[k] = calls[k]
    BY <1>3, <2>1, <2>2, Ends
  <2>4. calls[m] = <<l', u'>>  BY <2>1, <2>3
  <2>5. IndexOK'
    <3>1. <<l', u'>> \in Ranges  BY <2>3, <2>4
    <3> QED  BY <1>0, <2>1, <2>3, <3>1 DEF IndexOK
  <2>6. Pending' = {calls[k] : k \in 1 .. m}
    <3>1. Pending' = {calls'[k] : k \in 1 .. m - 1} \cup {<<l', u'>>}  BY <2>1, <2>3 DEF Pending
    <3>2. {calls'[k] : k \in 1 .. m - 1} = {calls[k] : k \in 1 .. m - 1}  BY <2>3
    <3>3. 1 .. m = (1 .. m - 1) \cup {m}  BY <2>3
    <3> QED  BY <2>4, <3>1, <3>2, <3>3
  <2>7. Pending = Pending' \cup {<<l, u>>}  BY <2>6 DEF Pending
  <2>8. ASSUME order = "<"  PROVE Apart' /\ InOrder(array', Pending') /\ ScanOK' /\ Halves'
    <3>1. Apart'
      <4>1. \A k, n \in 1 .. m : k # n => Off(calls[k], calls[n])  BY <2>8 DEF Apart
      <4>2. m \in 1 .. m /\ \A k \in 1 .. m - 1 : k \in 1 .. m /\ k # m  BY <2>3
      <4> HIDE DEF m
      <4>3. \A k \in 1 .. m - 1 : Off(calls'[k], <<l', u'>>)  BY <2>3, <2>4, <4>1, <4>2
      <4>4. \A k, n \in 1 .. m - 1 : k # n => Off(calls'[k], calls'[n])  BY <2>3, <4>1, <4>2
      <4> QED  BY <2>3, <4>3, <4>4 DEF Apart
    <3>2. InOrder(array', Pending')
      <4>1. Len(array') = Len(given)  BY DEF Keeps
      <4>2. SUFFICES ASSUME NEW x \in 1 .. Len(array'), NEW y \in 1 .. Len(array'), x < y,
                            ~ array'[x] <= array'[y]
                     PROVE  \E r \in Pending' : r[1] <= x /\ y <= r[2]
        BY DEF InOrder
      <4>3. PICK r \in Pending : r[1] <= x /\ y <= r[2]  BY <2>8, <4>2 DEF InOrder
      <4>4. r # <<l, u>>
        <5> SUFFICES ASSUME r = <<l, u>>  PROVE FALSE
          OBVIOUS
        <5>1. l <= x /\ y <= u  BY <4>3
        <5>2. x \in l .. u /\ y \in l .. u  BY <4>2, <5>1, Bounds
        <5> QED  BY <2>8, <4>2, <5>2
      <4> QED  BY <2>7, <4>3, <4>4
    <3>3. ScanOK'  BY <2>1 DEF ScanOK
    <3>4. Halves'
      <4>1. \A k \in 1 .. m : /\ twoto[k - 1] * (calls[k][2] - calls[k][1] + 2) <= Len(given) + 1
                              /\ 5 * twoto[k - 1] <= Len(given) + 1
        BY <2>8 DEF Halves
      <4>2. m \in 1 .. m /\ \A k \in 1 .. m - 1 : k \in 1 .. m  BY <2>3
      <4>3. twoto[m - 1] * (u' - l' + 2) <= Len(given) + 1
        <5>1. calls[m][1] = l' /\ calls[m][2] = u'  BY <2>4
        <5> QED  BY <4>1, <4>2, <5>1
      <4> HIDE DEF m
      <4>4. \A k \in 1 .. m - 1 : /\ twoto[k - 1] * (calls'[k][2] - calls'[k][1] + 2) <= Len(given) + 1
                                  /\ 5 * twoto[k - 1] <= Len(given) + 1
        BY <2>3, <4>1, <4>2
      <4> QED  BY <1>0, <2>3, <4>3, <4>4 DEF Halves
    <3> QED  BY <3>1, <3>2, <3>3, <3>4
  <2>9. OrderOK'  BY <1>0, <2>8 DEF OrderOK
  <2> QED  BY <1>1, <2>5, <2>9 DEF SInv
<1> QED  BY <1>2, <1>3

LEMMA ApartPending ==
  ASSUME Apart, pc # "done"
  PROVE  <<l, u>> \in Pending /\ \A r \in Pending : r = <<l, u>> \/ Off(r, <<l, u>>)
BY DEF Apart, Pending

LEMMA HalvesStay ==
  ASSUME Halves, pc # "done", UNCHANGED <<l, u, calls, given>>
  PROVE  Halves'
BY DEF Halves

LEMMA ApartStays ==
  ASSUME Apart, pc # "done", UNCHANGED <<l, u, calls>>
  PROVE  Apart'
BY DEF Apart

LEMMA PendingStays ==
  ASSUME pc # "done", pc' # "done", UNCHANGED <<l, u, calls>>
  PROVE  Pending' = Pending
BY DEF Pending

(* A swap between two places of the range that is being sorted. *)
LEMMA SwapPending ==
  ASSUME IndexOK, pc # "done", NEW a, Keeps(a), Apart, InOrder(a, Pending),
         NEW x \in Int, NEW y \in Int, l <= x, x <= u, l <= y, y <= u
  PROVE  InOrder(set2(a, x, y), Pending)
<1>1. a \in Seq(Int) /\ Len(a) = Len(given)  BY DEF Keeps
<1>2. l \in 1 .. Len(a) /\ u \in 1 .. Len(a) /\ x \in l .. u /\ y \in l .. u  BY <1>1, Bounds
<1>3. Pending \in SUBSET (Int \X Int)  BY Bounds
<1>4. <<l, u>> \in Pending /\ \A r \in Pending : r = <<l, u>> \/ Off(r, <<l, u>>)
  BY ApartPending
<1> QED  BY <1>1, <1>2, <1>3, <1>4, SwapInOrder

(* The middle of a range of more than three. *)
LEMMA Half ==
  ASSUME NEW a \in Int, NEW b \in Int, b - a >= 2
  PROVE  /\ (a + b) \div 2 \in Int /\ a < (a + b) \div 2 /\ (a + b) \div 2 < b
         /\ (b - a = 2 => (a + b) \div 2 = a + 1)
OBVIOUS

(* "a[l] <= P == a[u-1] <= a[u]" once the three are in order and the pivot *)
(* is put away; with no more than three, the call has done.                *)
LEMMA PartitionKeeps ==
  ASSUME IndexOK, pc \in {"middle", "upper"}, NEW a, Keeps(a), Partition(a),
         UNCHANGED <<given, order>>,
         order = "<" => /\ Apart /\ InOrder(a, Pending) /\ Halves
                        /\ a[l] <= a[i] /\ a[i] <= a[u]
  PROVE  SInv'
<1>0. pc # "done" /\ u - l >= 2 /\ i = (l + u) \div 2 /\ given' = given /\ order' = order
  BY DEF IndexOK
<1>1. /\ l \in Int /\ u \in Int /\ i \in Int /\ j \in Int /\ Len(given) \in Nat
      /\ 1 <= l /\ u <= Len(given)
  BY Bounds
<1>2. l < i /\ i < u /\ (u - l = 2 => i = l + 1)  BY <1>0, <1>1, Half
<1>3. a \in Seq(Int) /\ Len(a) = Len(given) /\ DOMAIN a = 1 .. Len(given)  BY DEF Keeps
<1>4. a[l] \in Int /\ a[i] \in Int /\ a[u] \in Int  BY <1>1, <1>2, <1>3
<1>5. CASE u - l = 2
  <2>1. Return /\ array' = a /\ i' = i /\ j' = j  BY <1>5 DEF Partition
  <2>2. i' \in 0 .. Len(given) + 1 /\ j' \in 0 .. Len(given)  BY <2>1 DEF IndexOK
  <2>3. ASSUME order = "<"
        PROVE  \A x, y \in l .. u : x < y => array'[x] <= array'[y]
    <3>1. i = l + 1 /\ u = l + 2  BY <1>1, <1>2, <1>5
    <3>2. ASSUME NEW x \in l .. u, NEW y \in l .. u, x < y
          PROVE  (x = l /\ y = i) \/ (x = l /\ y = u) \/ (x = i /\ y = u)
      BY <1>1, <3>1, <3>2
    <3>3. a[l] <= a[i] /\ a[i] <= a[u] /\ a[l] <= a[u]  BY <1>4, <2>3
    <3> QED  BY <2>1, <3>2, <3>3
  <2> QED  BY <1>0, <2>1, <2>2, <2>3, ReturnKeeps
<1>6. CASE u - l # 2
  <2>1. /\ P' = a[i] /\ array' = set2(a, i, u - 1) /\ i' = l /\ j' = u - 1 /\ pc' = "up"
        /\ l' = l /\ u' = u /\ calls' = calls
    BY <1>6 DEF Partition
  <2>2. u - l >= 3 /\ i \in 1 .. Len(given) /\ u - 1 \in 1 .. Len(given)  BY <1>0, <1>1, <1>2, <1>6
  <2>3. Keeps(array')  BY <2>1, <2>2, SwapKeeps
  <2>4. Keeps(array)'  BY <1>0, <2>3 DEF Keeps
  <2>5. IndexOK'
    <3>1. i' \in l .. u /\ i' \in 0 .. Len(given) + 1 /\ j' \in l .. u - 1 /\ j' \in 0 .. Len(given)
      BY <1>1, <2>1, <2>2
    <3>2. l < u /\ P' \in Int  BY <1>1, <1>4, <2>1, <2>2
    <3> QED  BY <1>0, <2>1, <3>1, <3>2 DEF IndexOK
  <2>6. ASSUME order = "<"  PROVE Apart' /\ InOrder(array', Pending') /\ ScanOK' /\ Halves'
    <3>1. Pending' = Pending  BY <1>0, <2>1, PendingStays
    <3>2. u - 1 \in Int /\ l <= i /\ i <= u /\ l <= u - 1 /\ u - 1 <= u  BY <1>1, <1>2, <2>2
    <3>3. InOrder(array', Pending)  BY <1>0, <1>1, <2>1, <2>6, <3>2, SwapPending
    <3>4. Apart' /\ Halves'  BY <1>0, <2>1, <2>6, ApartStays, HalvesStay
    <3>5. /\ array'[u - 1] = a[i]
          /\ \A k \in 1 .. Len(a) : k # i /\ k # u - 1 => array'[k] = a[k]
      <4>1. i \in 1 .. Len(a) /\ u - 1 \in 1 .. Len(a)  BY <1>3, <2>2
      <4>2. /\ set2(a, i, u - 1)[i] = a[u - 1] /\ set2(a, i, u - 1)[u - 1] = a[i]
            /\ \A k \in 1 .. Len(a) : k # i /\ k # u - 1 => set2(a, i, u - 1)[k] = a[k]
        BY <1>3, <4>1, Swap
      <4> QED  BY <2>1, <4>2
    <3>6. array'[l] = a[l]
      <4>1. l \in 1 .. Len(a) /\ l # i /\ l # u - 1  BY <1>1, <1>2, <1>3, <2>2
      <4> QED  BY <3>5, <4>1
    <3>7. array'[u] = a[u]
      <4>1. u \in 1 .. Len(a) /\ u # i /\ u # u - 1  BY <1>1, <1>2, <1>3, <2>2
      <4> QED  BY <3>5, <4>1
    <3>8. \A x \in u - 1 .. u : P' <= array'[x]
      <4>1. \A x \in u - 1 .. u : x = u - 1 \/ x = u  BY <1>1
      <4>2. P' <= array'[u - 1] /\ P' <= array'[u]  BY <1>4, <2>1, <2>6, <3>5, <3>7
      <4> QED  BY <4>1, <4>2
    <3>9. \A x \in l .. l : array'[x] <= P'
      <4>1. \A x \in l .. l : x = l  BY <1>1
      <4> QED  BY <2>1, <2>6, <3>6, <4>1
    <3>10. l <= u - 1 /\ l <= u - 2 /\ l # u - 1  BY <1>1, <2>2
    <3>11. ScanOK'  BY <2>1, <2>2, <3>5, <3>8, <3>9, <3>10 DEF ScanOK
    <3> QED  BY <3>1, <3>3, <3>4, <3>11
  <2>7. OrderOK'  BY <1>0, <2>6 DEF OrderOK
  <2> QED  BY <2>4, <2>5, <2>7 DEF SInv
<1> QED  BY <1>5, <1>6

(* "a[l..i-1] <= a[i] == P <= a[i+1..u]": two ranges are left, the smaller *)
(* to be sorted first and at most half as long.                            *)
LEMMA SplitKeeps ==
  ASSUME IndexOK, pc = "down", Keeps(array), Split(i), UNCHANGED <<given, order, i>>,
         j' \in 0 .. Len(given),
         order = "<" => /\ Apart /\ InOrder(array, Pending) /\ Halves
                        /\ u - l >= 3 /\ i < u /\ array[u - 1] = P
                        /\ \A x \in l .. i - 1 : array[x] <= P
                        /\ \A x \in i .. u : P <= array[x]
  PROVE  SInv'
<1>0. given' = given /\ order' = order /\ i' = i  OBVIOUS
<1>1. /\ l \in Int /\ u \in Int /\ i \in Int /\ P \in Int /\ Len(given) \in Nat
      /\ 1 <= l /\ l < u /\ u <= Len(given) /\ l < i /\ i <= u + 1 /\ i <= Len(given)
  BY Bounds DEF IndexOK
<1>2. u - 1 \in 1 .. Len(given) /\ i \in 1 .. Len(given)  BY <1>1
<1> DEFINE lower  == <<l, i - 1>>
           higher == <<i + 1, u>>
           fewer  == i - l < u - i
           small  == IF fewer THEN lower ELSE higher
           large  == IF fewer THEN higher ELSE lower
           m      == Len(calls)
<1>3. /\ array' = set2(array, u - 1, i) /\ calls' = Append(calls, large)
      /\ l' = small[1] /\ u' = small[2] /\ pc' = "first"
  BY DEF Split
<1>4. small = <<l', u'>>  BY <1>3
<1>5. Keeps(array)'
  <2>1. Keeps(array')  BY <1>2, <1>3, SwapKeeps
  <2> QED  BY <1>0, <2>1 DEF Keeps
<1>6. lower \in Ranges /\ higher \in Ranges  BY <1>1
<1>7. small \in Ranges /\ large \in Ranges  BY <1>6
<1>8. calls \in Seq(Ranges) /\ m \in Nat  BY DEF IndexOK
<1>9. /\ calls' \in Seq(Ranges) /\ Len(calls') = m + 1 /\ calls'[m + 1] = large
      /\ \A k \in 1 .. m : calls'[k] = calls[k]
  BY <1>3, <1>7, <1>8
<1>10. IndexOK'
  <2>1. <<l', u'>> \in Ranges  BY <1>4, <1>7
  <2> QED  BY <1>0, <1>3, <1>9, <2>1 DEF IndexOK
<1>11. ASSUME order = "<"  PROVE Apart' /\ InOrder(array', Pending') /\ ScanOK' /\ Halves'
  <2>1. /\ Apart /\ InOrder(array, Pending) /\ Halves
        /\ u - l >= 3 /\ i < u /\ array[u - 1] = P
        /\ \A x \in l .. i - 1 : array[x] <= P
        /\ \A x \in i .. u : P <= array[x]
    BY <1>11
  <2>2. lower[1] = l /\ lower[2] = i - 1 /\ higher[1] = i + 1 /\ higher[2] = u  OBVIOUS
  <2>3. ScanOK'  BY <1>3 DEF ScanOK
  <2>4. Apart'
    <3>1. \A k \in 1 .. m : Off(calls[k], <<l, u>>)  BY <2>1 DEF Apart
    <3>2. \A k \in 1 .. m : calls[k][1] \in Int /\ calls[k][2] \in Int  BY <1>8, <1>1
    <3>3. ASSUME NEW k \in 1 .. m  PROVE Off(calls[k], lower) /\ Off(calls[k], higher)
      <4>1. calls[k][2] < l \/ u < calls[k][1] \/ calls[k][2] < calls[k][1]
        BY <1>1, <3>1, <3>2 DEF Off
      <4> QED  BY <1>1, <2>1, <2>2, <3>2, <4>1 DEF Off
    <3>4. Off(lower, higher) /\ Off(higher, lower)  BY <1>1, <2>2 DEF Off
    <3>5. ASSUME NEW k \in 1 .. m
          PROVE  Off(calls[k], small) /\ Off(calls[k], large) /\ Off(large, calls[k])
      <4>1. Off(large, calls[k])  BY <3>3 DEF Off
      <4> QED  BY <3>3, <4>1
    <3>6. Off(large, small)  BY <3>4
    <3> HIDE DEF lower, higher, small, large, m
    <3>7. \A k \in 1 .. m + 1 : k \in 1 .. m \/ k = m + 1  BY <1>8
    <3>8. \A k \in 1 .. m + 1 : Off(calls'[k], small)  BY <1>9, <3>5, <3>6, <3>7
    <3>9. \A k, n \in 1 .. m : k # n => Off(calls[k], calls[n])  BY <2>1 DEF Apart, m
    <3>10. \A k, n \in 1 .. m + 1 : k # n => Off(calls'[k], calls'[n])
      BY <1>9, <3>5, <3>7, <3>9
    <3> QED  BY <1>4, <1>9, <3>8, <3>10 DEF Apart
  <2>5. InOrder(array', Pending')
    <3>1. InOrder(array', Pending)
      <4>1. u - 1 \in Int /\ l <= u - 1 /\ u - 1 <= u /\ l <= i /\ i <= u  BY <1>1, <2>1
      <4> QED  BY <1>1, <1>3, <2>1, <4>1, SwapPending
    <3>2. \A r \in Pending : r = <<l, u>> \/ r \in Pending'
      <4>1. \A k \in 1 .. m : calls[k] \in Pending'
        <5> TAKE k \in 1 .. m
        <5>1. k \in 1 .. Len(calls') /\ calls[k] = calls'[k]  BY <1>8, <1>9
        <5> QED  BY <5>1 DEF Pending
      <4> QED  BY <4>1 DEF Pending
    <3>3. lower \in Pending' /\ higher \in Pending'
      <4>1. small \in Pending'  BY <1>3, <1>4 DEF Pending
      <4>2. large \in Pending'
        <5>1. m + 1 \in 1 .. Len(calls')  BY <1>8, <1>9
        <5> QED  BY <1>9, <5>1 DEF Pending
      <4> QED  BY <4>1, <4>2
    <3>4. /\ array \in Seq(Int) /\ array' \in Seq(Int)
          /\ Len(array) = Len(given) /\ Len(array') = Len(given)
      BY <1>0, <1>5 DEF Keeps
    <3>5. /\ array'[i] = P /\ array'[u - 1] = array[i]
          /\ \A k \in 1 .. Len(given) : k # i /\ k # u - 1 => array'[k] = array[k]
      <4>1. i \in 1 .. Len(array) /\ u - 1 \in 1 .. Len(array)  BY <1>2, <3>4
      <4>2. /\ set2(array, u - 1, i)[i] = array[u - 1] /\ set2(array, u - 1, i)[u - 1] = array[i]
            /\ \A k \in 1 .. Len(array) : k # i /\ k # u - 1 => set2(array, u - 1, i)[k] = array[k]
        BY <3>4, <4>1, Swap
      <4> QED  BY <1>3, <2>1, <3>4, <4>2
    <3>6. \A x \in l .. i - 1 : array'[x] <= P
      <4> TAKE x \in l .. i - 1
      <4>1. x \in 1 .. Len(given) /\ x # i /\ x # u - 1  BY <1>1, <2>1
      <4> QED  BY <2>1, <3>5, <4>1
    <3>7. \A x \in i .. u : P <= array'[x]
      <4> TAKE x \in i .. u
      <4>1. x \in 1 .. Len(given) /\ i \in i .. u  BY <1>1, <2>1
      <4>2. P <= array[i] /\ P <= array[x]  BY <2>1, <4>1
      <4> QED  BY <1>1, <3>5, <4>1, <4>2
    <3>8. SUFFICES ASSUME NEW x \in 1 .. Len(given), NEW y \in 1 .. Len(given), x < y,
                          ~ array'[x] <= array'[y]
                   PROVE  \E r \in Pending' : r[1] <= x /\ y <= r[2]
      BY <3>4 DEF InOrder
    <3>9. PICK r \in Pending : r[1] <= x /\ y <= r[2]  BY <3>1, <3>4, <3>8 DEF InOrder
    <3>10. CASE r # <<l, u>>  BY <3>2, <3>9, <3>10
    <3>11. CASE r = <<l, u>>
      <4>1. l <= x /\ y <= u  BY <3>9, <3>11
      <4>2. CASE y < i
        <5>1. lower[1] <= x /\ y <= lower[2]  BY <1>1, <4>1, <4>2
        <5> QED  BY <3>3, <5>1
      <4>3. CASE i < x
        <5>1. higher[1] <= x /\ y <= higher[2]  BY <1>1, <4>1, <4>3
        <5> QED  BY <3>3, <5>1
      <4>4. CASE x <= i /\ i <= y
        <5>1. y \in i .. u /\ (x = i \/ x \in l .. i - 1)  BY <1>1, <4>1, <4>4
        <5>2. P <= array'[y] /\ array'[x] <= P  BY <1>1, <3>5, <3>6, <3>7, <5>1
        <5>3. array'[x] \in Int /\ array'[y] \in Int  BY <3>4
        <5> QED  BY <1>1, <3>8, <5>2, <5>3
      <4> QED  BY <1>1, <4>2, <4>3, <4>4
    <3> QED  BY <3>10, <3>11
  <2>6. Halves'
    <3> DEFINE z == twoto[m]
               w == u - l + 2
               ws == small[2] - small[1] + 2
               wl == large[2] - large[1] + 2
    <3>1. z \in Nat \ {0} /\ twoto[m + 1] = 2 * z  BY <1>8, Doubles
    <3>2. z * w <= Len(given) + 1  BY <2>1 DEF Halves
    <3>3. w \in Int /\ ws \in Int /\ wl \in Int /\ wl <= w /\ 2 * ws <= w /\ 5 <= w
      <4>1. CASE fewer
        <5>1. small = lower /\ large = higher  BY <4>1
        <5>2. ws = (i - 1) - l + 2 /\ wl = u - (i + 1) + 2  BY <2>2, <5>1
        <5> HIDE DEF small, large, ws, wl
        <5> QED  BY <1>1, <2>1, <4>1, <5>2
      <4>2. CASE ~fewer
        <5>1. small = higher /\ large = lower  BY <4>2
        <5>2. ws = u - (i + 1) + 2 /\ wl = (i - 1) - l + 2  BY <2>2, <5>1
        <5> HIDE DEF small, large, ws, wl
        <5> QED  BY <1>1, <2>1, <4>2, <5>2
      <4> QED  BY <4>1, <4>2
    <3> HIDE DEF z, w, ws, wl
    <3>4. (2 * z) * ws = z * (2 * ws)  BY <3>1, <3>3
    <3>5. z * wl <= z * w /\ z * (2 * ws) <= z * w /\ z * 5 <= z * w
      <4>1. z \in Nat /\ 2 * ws \in Int /\ 5 \in Int  BY <3>1, <3>3
      <4> QED  BY <3>3, <4>1, Grows
    <3>6. z * w \in Int /\ z * wl \in Int /\ (2 * z) * ws \in Int /\ z * 5 = 5 * z
      BY <3>1, <3>3
    <3>7. z * wl <= Len(given) + 1 /\ (2 * z) * ws <= Len(given) + 1 /\ 5 * z <= Len(given) + 1
      BY <1>1, <3>1, <3>2, <3>3, <3>4, <3>5, <3>6
    <3>8. \A k \in 1 .. m : /\ twoto[k - 1] * (calls'[k][2] - calls'[k][1] + 2) <= Len(given) + 1
                            /\ 5 * twoto[k - 1] <= Len(given) + 1
      BY <1>9, <2>1 DEF Halves
    <3>9. /\ twoto[m] * (calls'[m + 1][2] - calls'[m + 1][1] + 2) <= Len(given) + 1
          /\ 5 * twoto[m] <= Len(given) + 1
      BY <1>9, <3>7 DEF z, wl
    <3>10. twoto[m + 1] * (u' - l' + 2) <= Len(given) + 1  BY <1>3, <3>1, <3>7 DEF ws
    <3> HIDE DEF m
    <3>11. \A k \in 1 .. m + 1 : /\ twoto[k - 1] * (calls'[k][2] - calls'[k][1] + 2) <= Len(given) + 1
                                 /\ 5 * twoto[k - 1] <= Len(given) + 1
      <4>1. \A k \in 1 .. m + 1 : k \in 1 .. m \/ (k = m + 1 /\ k - 1 = m)  BY <1>8
      <4> QED  BY <3>8, <3>9, <4>1
    <3> QED  BY <1>0, <1>9, <3>10, <3>11 DEF Halves
  <2> QED  BY <2>3, <2>4, <2>5, <2>6
<1>12. OrderOK'  BY <1>0, <1>11 DEF OrderOK
<1> QED  BY <1>5, <1>10, <1>12 DEF SInv

-----------------------------------------------------------------------------
(* With an order, a comparison of two elements has one answer. *)
LEMMA OneAnswer ==
  ASSUME NEW x \in Int, NEW y \in Int, order = "<", NEW lt \in Answers(x, y)
  PROVE  lt = (x < y)
<1>1. LuaNil \notin {x, y}  BY SortParameters
<1> QED  BY <1>1 DEF Answers

LEMMA ReadIsElement ==
  ASSUME Keeps(array), NEW k \in 1 .. Len(given)
  PROVE  Read(k) = array[k] /\ array[k] \in Int /\ Read(k) # LuaNil
<1>1. k \in DOMAIN array /\ array[k] \in Int  BY DEF Keeps
<1> QED  BY <1>1, SortParameters DEF Read

(* Beyond the table there is nothing, and nothing to compare. *)
LEMMA ReadInside ==
  ASSUME Keeps(array), NEW k, NEW x, Answers(Read(k), x) # {} \/ Answers(x, Read(k)) # {}
  PROVE  k \in 1 .. Len(given)
<1>1. DOMAIN array = 1 .. Len(given)  BY DEF Keeps
<1>2. Read(k) # LuaNil  BY DEF Answers
<1> QED  BY <1>1, <1>2 DEF Read

LEMMA SingleKeeps == ASSUME SInv, Single PROVE SInv'
<1>1. pc = "first" /\ l >= u /\ Return /\ UNCHANGED <<array, given, order, i, j>>  BY DEF Single
<1>2. Keeps(array) /\ IndexOK /\ OrderOK  BY DEF SInv
<1>3. Keeps(array')  BY <1>1, <1>2
<1>4. i' \in 0 .. Len(given) + 1 /\ j' \in 0 .. Len(given)  BY <1>1, <1>2 DEF IndexOK
<1>5. order = "<" => /\ Apart /\ InOrder(array', Pending) /\ Halves
                     /\ \A x, y \in l .. u : x < y => array'[x] <= array'[y]
  <2>1. l \in Int /\ u \in Int  BY <1>2, Bounds
  <2>2. \A x, y \in l .. u : ~ x < y  BY <1>1, <2>1
  <2> QED  BY <1>1, <1>2, <2>2 DEF OrderOK
<1> QED  BY <1>1, <1>2, <1>3, <1>4, <1>5, ReturnKeeps

LEMMA FirstKeeps == ASSUME SInv, First PROVE SInv'
<1>1. PICK lt \in Answers(array[u], array[l]) :
        array' = IF lt THEN set2(array, l, u) ELSE array
  BY DEF First
<1>2. pc = "first" /\ l < u /\ UNCHANGED <<given, order, j>>  BY DEF First
<1>3. Keeps(array) /\ IndexOK /\ OrderOK  BY DEF SInv
<1>4. l \in Int /\ u \in Int /\ Len(given) \in Nat /\ 1 <= l /\ u <= Len(given)  BY <1>3, Bounds
<1>5. l \in 1 .. Len(given) /\ u \in 1 .. Len(given)  BY <1>2, <1>4
<1>6. Keeps(array')  BY <1>1, <1>3, <1>5, SwapKeeps
<1>7. ASSUME order = "<"
      PROVE  Apart /\ InOrder(array', Pending) /\ Halves /\ array'[l] <= array'[u]
  <2>1. Apart /\ InOrder(array, Pending) /\ Halves  BY <1>3, <1>7 DEF OrderOK
  <2>2. InOrder(array', Pending)
    <3>1. InOrder(set2(array, l, u), Pending)  BY <1>2, <1>3, <1>4, <2>1, SwapPending
    <3> QED  BY <1>1, <2>1, <3>1
  <2>3. array \in Seq(Int) /\ Len(array) = Len(given)  BY <1>3 DEF Keeps
  <2>4. array[l] \in Int /\ array[u] \in Int  BY <1>5, <2>3
  <2>5. lt = (array[u] < array[l])  BY <1>7, <2>4, OneAnswer
  <2>6. CASE array[u] < array[l]
    <3>1. array'[l] = array[u] /\ array'[u] = array[l]
      <4>1. l \in 1 .. Len(array) /\ u \in 1 .. Len(array)  BY <1>5, <2>3
      <4>2. set2(array, l, u)[l] = array[u] /\ set2(array, l, u)[u] = array[l]
        BY <2>3, <4>1, Swap
      <4> QED  BY <1>1, <2>5, <2>6, <4>2
    <3> QED  BY <2>1, <2>2, <2>4, <2>6, <3>1
  <2>7. CASE ~ array[u] < array[l]
    <3>1. array' = array  BY <1>1, <2>5, <2>7
    <3> QED  BY <2>1, <2>2, <2>4, <2>7, <3>1
  <2> QED  BY <2>6, <2>7
<1>8. CASE u - l = 1
  <2>1. Return /\ i' = i /\ j' = j  BY <1>2, <1>8 DEF First
  <2>2. i' \in 0 .. Len(given) + 1 /\ j' \in 0 .. Len(given)  BY <1>3, <2>1 DEF IndexOK
  <2>3. \A x, y \in l .. u : x < y => x = l /\ y = u  BY <1>4, <1>8
  <2> QED  BY <1>2, <1>3, <1>6, <1>7, <2>1, <2>2, <2>3, ReturnKeeps
<1>9. CASE u - l # 1
  <2>1. i' = (l + u) \div 2 /\ pc' = "middle" /\ UNCHANGED <<l, u, calls>>  BY <1>9 DEF First
  <2>2. u - l >= 2  BY <1>2, <1>4, <1>9
  <2>3. Keeps(array)'  BY <1>2, <1>6 DEF Keeps
  <2>4. IndexOK'
    <3>1. i' \in Int /\ l < i' /\ i' < u  BY <1>4, <2>1, <2>2, Half
    <3>2. i' \in 0 .. Len(given) + 1  BY <1>4, <3>1
    <3> QED  BY <1>2, <1>3, <2>1, <2>2, <3>2 DEF IndexOK
  <2>5. ASSUME order = "<"  PROVE Apart' /\ InOrder(array', Pending') /\ ScanOK' /\ Halves'
    <3>1. Apart' /\ Halves'  BY <1>2, <1>7, <2>1, <2>5, ApartStays, HalvesStay
    <3>2. Pending' = Pending  BY <1>2, <2>1, PendingStays
    <3>3. ScanOK'  BY <1>7, <2>1, <2>5 DEF ScanOK
    <3> QED  BY <1>7, <2>5, <3>1, <3>2, <3>3
  <2>6. OrderOK'  BY <1>2, <2>5 DEF OrderOK
  <2> QED  BY <2>3, <2>4, <2>6 DEF SInv
<1> QED  BY <1>8, <1>9

LEMMA MiddleKeeps == ASSUME SInv, Middle PROVE SInv'
<1>1. PICK lt \in Answers(array[i], array[l]) :
        IF lt THEN Partition(set2(array, i, l))
        ELSE pc' = "upper" /\ UNCHANGED <<array, l, u, i, j, P, calls>>
  BY DEF Middle
<1>2. pc = "middle" /\ given' = given /\ order' = order  BY DEF Middle
<1>3. Keeps(array) /\ IndexOK /\ OrderOK  BY DEF SInv
<1>4. /\ l \in Int /\ u \in Int /\ i \in Int /\ Len(given) \in Nat /\ 1 <= l /\ u <= Len(given)
      /\ u - l >= 2 /\ i = (l + u) \div 2
  BY <1>2, <1>3, Bounds DEF IndexOK
<1>5. l < i /\ i < u  BY <1>4, Half
<1>6. l \in 1 .. Len(given) /\ u \in 1 .. Len(given) /\ i \in 1 .. Len(given)  BY <1>4, <1>5
<1>7. array \in Seq(Int) /\ Len(array) = Len(given)  BY <1>3 DEF Keeps
<1>8. array[l] \in Int /\ array[u] \in Int /\ array[i] \in Int  BY <1>6, <1>7
<1>9. order = "<" => lt = (array[i] < array[l])  BY <1>8, OneAnswer
<1>10. order = "<" => Apart /\ InOrder(array, Pending) /\ Halves /\ array[l] <= array[u]
  BY <1>2, <1>3 DEF OrderOK, ScanOK
<1>11. CASE lt
  <2> DEFINE a == set2(array, i, l)
  <2>1. Keeps(a)  BY <1>3, <1>6, SwapKeeps
  <2>2. ASSUME order = "<"
        PROVE  Apart /\ InOrder(a, Pending) /\ Halves /\ a[l] <= a[i] /\ a[i] <= a[u]
    <3>1. InOrder(a, Pending)  BY <1>2, <1>3, <1>4, <1>5, <1>10, <2>2, SwapPending
    <3>2. a[i] = array[l] /\ a[l] = array[i] /\ a[u] = array[u]
      <4>1. u # i /\ u # l  BY <1>4, <1>5
      <4>2. i \in 1 .. Len(array) /\ l \in 1 .. Len(array) /\ u \in 1 .. Len(array)
        BY <1>6, <1>7
      <4> QED  BY <1>7, <4>1, <4>2, Swap
    <3>3. array[i] < array[l]  BY <1>9, <1>11, <2>2
    <3>4. array[i] <= array[l]  BY <1>8, <3>3
    <3> HIDE DEF a
    <3> QED  BY <1>10, <2>2, <3>1, <3>2, <3>4
  <2>3. Partition(a)  BY <1>1, <1>11
  <2> HIDE DEF a
  <2> QED  BY <1>2, <1>3, <2>1, <2>2, <2>3, PartitionKeeps
<1>12. CASE ~lt
  <2>1. pc' = "upper" /\ UNCHANGED <<array, l, u, i, j, P, calls>>  BY <1>1, <1>12
  <2>2. Keeps(array)'  BY <1>2, <1>3, <2>1 DEF Keeps
  <2>3. IndexOK'  BY <1>2, <1>3, <1>4, <2>1 DEF IndexOK
  <2>4. ASSUME order = "<"  PROVE Apart' /\ InOrder(array', Pending') /\ ScanOK' /\ Halves'
    <3>1. Apart' /\ Halves'  BY <1>2, <1>10, <2>1, <2>4, ApartStays, HalvesStay
    <3>2. Pending' = Pending  BY <1>2, <2>1, PendingStays
    <3>3. ~ array[i] < array[l]  BY <1>9, <1>12, <2>4
    <3>4. array[l] <= array[i]  BY <1>8, <3>3
    <3>5. ScanOK'  BY <1>10, <2>1, <2>4, <3>4 DEF ScanOK
    <3> QED  BY <1>10, <2>1, <2>4, <3>1, <3>2, <3>5
  <2>5. OrderOK'  BY <1>2, <2>4 DEF OrderOK
  <2> QED  BY <2>2, <2>3, <2>5 DEF SInv
<1> QED  BY <1>11, <1>12

LEMMA UpperKeeps == ASSUME SInv, Upper PROVE SInv'
<1>1. PICK lt \in Answers(array[u], array[i]) :
        Partition(IF lt THEN set2(array, i, u) ELSE array)
  BY DEF Upper
<1>2. pc = "upper" /\ given' = given /\ order' = order  BY DEF Upper
<1>3. Keeps(array) /\ IndexOK /\ OrderOK  BY DEF SInv
<1>4. /\ l \in Int /\ u \in Int /\ i \in Int /\ Len(given) \in Nat /\ 1 <= l /\ u <= Len(given)
      /\ u - l >= 2 /\ i = (l + u) \div 2
  BY <1>2, <1>3, Bounds DEF IndexOK
<1>5. l < i /\ i < u  BY <1>4, Half
<1>6. l \in 1 .. Len(given) /\ u \in 1 .. Len(given) /\ i \in 1 .. Len(given)  BY <1>4, <1>5
<1>7. array \in Seq(Int) /\ Len(array) = Len(given)  BY <1>3 DEF Keeps
<1>8. array[l] \in Int /\ array[u] \in Int /\ array[i] \in Int  BY <1>6, <1>7
<1>9. order = "<" => lt = (array[u] < array[i])  BY <1>8, OneAnswer
<1>10. order = "<" => /\ Apart /\ InOrder(array, Pending) /\ Halves
                      /\ array[l] <= array[u] /\ array[l] <= array[i]
  BY <1>2, <1>3 DEF OrderOK, ScanOK
<1> DEFINE a == IF lt THEN set2(array, i, u) ELSE array
<1>11. Keeps(a)
  <2>1. Keeps(set2(array, i, u))  BY <1>3, <1>6, SwapKeeps
  <2> QED  BY <1>3, <2>1
<1>12. ASSUME order = "<"
       PROVE  Apart /\ InOrder(a, Pending) /\ Halves /\ a[l] <= a[i] /\ a[i] <= a[u]
  <2>1. InOrder(set2(array, i, u), Pending)
    <3>1. l <= i /\ i <= u /\ l <= u /\ u <= u  BY <1>4, <1>5
    <3> QED  BY <1>2, <1>3, <1>4, <1>10, <1>12, <3>1, SwapPending
  <2>2. CASE array[u] < array[i]
    <3>1. a = set2(array, i, u)  BY <1>9, <1>12, <2>2
    <3>2. a[i] = array[u] /\ a[u] = array[i] /\ a[l] = array[l]
      <4>1. l # i /\ l # u  BY <1>4, <1>5
      <4>2. i \in 1 .. Len(array) /\ l \in 1 .. Len(array) /\ u \in 1 .. Len(array)
        BY <1>6, <1>7
      <4>3. /\ set2(array, i, u)[i] = array[u] /\ set2(array, i, u)[u] = array[i]
            /\ set2(array, i, u)[l] = array[l]
        BY <1>7, <4>1, <4>2, Swap
      <4> QED  BY <3>1, <4>3
    <3>3. array[u] <= array[i]  BY <1>8, <2>2
    <3>4. InOrder(a, Pending)  BY <2>1, <3>1
    <3> HIDE DEF a
    <3> QED  BY <1>10, <1>12, <3>2, <3>3, <3>4
  <2>3. CASE ~ array[u] < array[i]
    <3>1. a = array  BY <1>9, <1>12, <2>3
    <3>2. array[i] <= array[u]  BY <1>8, <2>3
    <3> QED  BY <1>10, <1>12, <3>1, <3>2
  <2> QED  BY <2>2, <2>3
<1>13. Partition(a)  BY <1>1
<1> HIDE DEF a
<1> QED  BY <1>2, <1>3, <1>11, <1>12, <1>13, PartitionKeeps

LEMMA UpKeeps == ASSUME SInv, Up PROVE SInv'
<1>1. PICK lt \in Answers(Read(i + 1), P) :
        pc' = IF ~lt THEN "down" ELSE IF i + 1 > u THEN "error" ELSE "up"
  BY DEF Up
<1>2. pc = "up" /\ i' = i + 1 /\ UNCHANGED <<array, given, order, l, u, j, P, calls>>  BY DEF Up
<1>3. Keeps(array) /\ IndexOK /\ OrderOK  BY DEF SInv
<1>4. /\ l \in Int /\ u \in Int /\ i \in Int /\ j \in Int /\ P \in Int /\ Len(given) \in Nat
      /\ 1 <= l /\ l < u /\ u <= Len(given) /\ l <= i /\ i <= u /\ l <= j /\ j <= u - 1
  BY <1>2, <1>3, Bounds DEF IndexOK
<1>5. i + 1 \in 1 .. Len(given)  BY <1>1, <1>3, ReadInside
<1>6. Read(i + 1) = array[i + 1] /\ array[i + 1] \in Int  BY <1>3, <1>5, ReadIsElement
<1>7. Keeps(array)'  BY <1>2, <1>3 DEF Keeps
<1>8. pc' \in {"down", "error", "up"} /\ (pc' = "up" => ~ i + 1 > u)  BY <1>1
<1>9. IndexOK'
  <2>1. i' \in 0 .. Len(given) + 1 /\ i' \in l + 1 .. u + 1 /\ i' <= Len(given)
    BY <1>2, <1>4, <1>5
  <2>2. pc' = "up" => i' \in l .. u  BY <1>2, <1>4, <1>8
  <2> QED  BY <1>2, <1>3, <1>8, <2>1, <2>2 DEF IndexOK
<1>10. ASSUME order = "<"  PROVE Apart' /\ InOrder(array', Pending') /\ ScanOK' /\ Halves'
  <2>1. /\ Apart /\ InOrder(array, Pending) /\ Halves
        /\ u - l >= 3 /\ array[u - 1] = P /\ i <= j /\ i <= u - 2 /\ (i = j => l < i)
    BY <1>2, <1>3, <1>10 DEF OrderOK, ScanOK
  <2>2. \A x \in j .. u : P <= array[x]  BY <1>2, <1>3, <1>10 DEF OrderOK, ScanOK
  <2>3. \A x \in l .. i : array[x] <= P  BY <1>2, <1>3, <1>10 DEF OrderOK, ScanOK
  <2>4. lt = (array[i + 1] < P)  BY <1>4, <1>6, <1>10, OneAnswer
  <2>5. i + 1 <= u - 1  BY <1>4, <2>1
  <2>6. pc' = IF array[i + 1] < P THEN "up" ELSE "down"
    <3>1. ~ i + 1 > u  BY <1>4, <2>5
    <3>2. pc' = IF lt THEN "up" ELSE "down"  BY <1>1, <3>1
    <3> QED  BY <2>4, <3>2
  <2>7. Apart' /\ Halves' /\ Pending' = Pending
    BY <1>2, <2>1, <2>6, ApartStays, HalvesStay, PendingStays
  <2>8. CASE array[i + 1] < P
    <3>1. pc' = "up"  BY <2>6, <2>8
    <3>2. ~ j <= i + 1
      <4> SUFFICES ASSUME j <= i + 1  PROVE FALSE
        OBVIOUS
      <4>1. i + 1 \in j .. u  BY <1>4, <2>5
      <4> QED  BY <1>4, <1>6, <2>2, <2>8, <4>1
    <3>3. i + 1 <= j /\ i + 1 <= u - 2 /\ l < i + 1  BY <1>4, <3>2
    <3>4. \A x \in l .. i + 1 : array[x] <= P
      <4>1. \A x \in l .. i + 1 : x = i + 1 \/ x \in l .. i  BY <1>4
      <4>2. array[i + 1] <= P  BY <1>4, <1>6, <2>8
      <4> QED  BY <2>3, <4>1, <4>2
    <3>5. ScanOK'  BY <1>2, <2>1, <2>2, <3>1, <3>3, <3>4 DEF ScanOK
    <3> QED  BY <1>2, <2>1, <2>7, <3>5
  <2>9. CASE ~ array[i + 1] < P
    <3>1. pc' = "down"  BY <2>6, <2>9
    <3>2. i + 1 < u /\ i + 1 <= j + 1 /\ (i + 1) - 1 = i  BY <1>4, <2>1, <2>5
    <3>3. l < j  BY <1>4, <2>1
    <3>4. P <= array[i + 1]  BY <1>4, <1>6, <2>9
    <3>5. ScanOK'  BY <1>2, <2>1, <2>2, <2>3, <3>1, <3>2, <3>3, <3>4 DEF ScanOK
    <3> QED  BY <1>2, <2>1, <2>7, <3>5
  <2> QED  BY <2>8, <2>9
<1>11. OrderOK'  BY <1>2, <1>10 DEF OrderOK
<1> QED  BY <1>7, <1>9, <1>11 DEF SInv

LEMMA DownKeeps == ASSUME SInv, Down PROVE SInv'
<1>1. PICK lt \in Answers(P, Read(j - 1)) :
        IF lt THEN pc' = (IF j - 1 < l THEN "error" ELSE "down") /\ UNCHANGED <<array, l, u, calls>>
        ELSE IF j - 1 < i THEN Split(i)
        ELSE array' = set2(array, i, j - 1) /\ pc' = "up" /\ UNCHANGED <<l, u, calls>>
  BY DEF Down
<1>2. pc = "down" /\ j' = j - 1 /\ UNCHANGED <<given, order, i, P>>  BY DEF Down
<1>3. Keeps(array) /\ IndexOK /\ OrderOK  BY DEF SInv
<1>4. /\ l \in Int /\ u \in Int /\ i \in Int /\ j \in Int /\ P \in Int /\ Len(given) \in Nat
      /\ 1 <= l /\ l < u /\ u <= Len(given) /\ l < i /\ i <= u + 1 /\ i <= Len(given)
      /\ l <= j /\ j <= u - 1
  BY <1>2, <1>3, Bounds DEF IndexOK
<1>5. j - 1 \in 1 .. Len(given)  BY <1>1, <1>3, ReadInside
<1>6. Read(j - 1) = array[j - 1] /\ array[j - 1] \in Int  BY <1>3, <1>5, ReadIsElement
<1>7. j' \in 0 .. Len(given)  BY <1>2, <1>4, <1>5
<1>8. ASSUME order = "<"
      PROVE  /\ Apart /\ InOrder(array, Pending) /\ Halves
             /\ u - l >= 3 /\ array[u - 1] = P /\ i < u /\ i <= j + 1 /\ l < j /\ P <= array[i]
             /\ lt = (P < array[j - 1])
  <2>1. lt = (P < array[j - 1])  BY <1>4, <1>6, <1>8, OneAnswer
  <2> QED  BY <1>2, <1>3, <1>8, <2>1 DEF OrderOK, ScanOK
<1>9. ASSUME order = "<"
      PROVE  (\A x \in j .. u : P <= array[x]) /\ (\A x \in l .. i - 1 : array[x] <= P)
  BY <1>2, <1>3, <1>9 DEF OrderOK, ScanOK
<1>10. CASE lt
  <2>1. pc' = (IF j - 1 < l THEN "error" ELSE "down") /\ UNCHANGED <<array, l, u, calls>>
    BY <1>1, <1>10
  <2>2. Keeps(array)'  BY <1>2, <1>3, <2>1 DEF Keeps
  <2>3. IndexOK'
    <3>1. pc' \in {"error", "down"}  BY <2>1
    <3>2. pc' = "down" => j' \in l .. u - 1  BY <1>2, <1>4, <2>1
    <3> QED  BY <1>2, <1>3, <1>7, <2>1, <3>1, <3>2 DEF IndexOK
  <2>4. ASSUME order = "<"  PROVE Apart' /\ InOrder(array', Pending') /\ ScanOK' /\ Halves'
    <3>1. P < array[j - 1]  BY <1>8, <1>10, <2>4
    <3>2. ~ j - 1 <= i - 1
      <4> SUFFICES ASSUME j - 1 <= i - 1  PROVE FALSE
        OBVIOUS
      <4>1. j - 1 \in l .. i - 1  BY <1>4, <1>8, <2>4
      <4> QED  BY <1>4, <1>6, <1>9, <2>4, <3>1, <4>1
    <3>3. i <= (j - 1) + 1 /\ l < j - 1 /\ ~ j - 1 < l  BY <1>4, <3>2
    <3>4. pc' = "down"  BY <2>1, <3>3
    <3>5. \A x \in j - 1 .. u : P <= array[x]
      <4>1. \A x \in j - 1 .. u : x = j - 1 \/ x \in j .. u  BY <1>4
      <4>2. P <= array[j - 1]  BY <1>4, <1>6, <3>1
      <4> QED  BY <1>9, <2>4, <4>1, <4>2
    <3>6. ScanOK'  BY <1>2, <1>8, <1>9, <2>1, <2>4, <3>3, <3>4, <3>5 DEF ScanOK
    <3>7. Apart' /\ Halves' /\ Pending' = Pending
      BY <1>2, <1>8, <2>1, <2>4, <3>4, ApartStays, HalvesStay, PendingStays
    <3> QED  BY <1>8, <2>1, <2>4, <3>6, <3>7
  <2>5. OrderOK'  BY <1>2, <2>4 DEF OrderOK
  <2> QED  BY <2>2, <2>3, <2>5 DEF SInv
<1>11. CASE ~lt /\ j - 1 < i
  <2>1. Split(i)  BY <1>1, <1>11
  <2>2. ASSUME order = "<"
        PROVE  \A x \in i .. u : P <= array[x]
    <3>1. \A x \in i .. u : x = i \/ x \in j .. u  BY <1>4, <1>11
    <3> QED  BY <1>8, <1>9, <2>2, <3>1
  <2> QED  BY <1>2, <1>3, <1>7, <1>8, <1>9, <2>1, <2>2, SplitKeeps
<1>12. CASE ~lt /\ ~ j - 1 < i
  <2>1. array' = set2(array, i, j - 1) /\ pc' = "up" /\ UNCHANGED <<l, u, calls>>  BY <1>1, <1>12
  <2>2. i <= j - 1 /\ i \in 1 .. Len(given)  BY <1>4, <1>12
  <2>3. Keeps(array')  BY <1>3, <1>5, <2>1, <2>2, SwapKeeps
  <2>4. Keeps(array)'  BY <1>2, <2>3 DEF Keeps
  <2>5. IndexOK'
    <3>1. i' \in l .. u /\ j' \in l .. u - 1  BY <1>2, <1>4, <2>2
    <3> QED  BY <1>2, <1>3, <1>4, <1>7, <2>1, <3>1 DEF IndexOK
  <2>6. ASSUME order = "<"  PROVE Apart' /\ InOrder(array', Pending') /\ ScanOK' /\ Halves'
    <3>1. InOrder(array', Pending)
      <4>1. j - 1 \in Int /\ l <= i /\ i <= u /\ l <= j - 1 /\ j - 1 <= u  BY <1>4, <2>2
      <4> QED  BY <1>2, <1>3, <1>4, <1>8, <2>1, <2>6, <4>1, SwapPending
    <3>2. Apart' /\ Halves' /\ Pending' = Pending
      BY <1>2, <1>8, <2>1, <2>6, ApartStays, HalvesStay, PendingStays
    <3>3. array \in Seq(Int) /\ Len(array) = Len(given)  BY <1>3 DEF Keeps
    <3>4. /\ array'[i] = array[j - 1] /\ array'[j - 1] = array[i]
          /\ \A k \in 1 .. Len(given) : k # i /\ k # j - 1 => array'[k] = array[k]
      <4>1. i \in 1 .. Len(array) /\ j - 1 \in 1 .. Len(array)  BY <1>5, <2>2, <3>3
      <4>2. /\ set2(array, i, j - 1)[i] = array[j - 1] /\ set2(array, i, j - 1)[j - 1] = array[i]
            /\ \A k \in 1 .. Len(array) : k # i /\ k # j - 1 => set2(array, i, j - 1)[k] = array[k]
        BY <3>3, <4>1, Swap
      <4> QED  BY <2>1, <3>3, <4>2
    <3>5. array[j - 1] <= P
      <4>1. ~ P < array[j - 1]  BY <1>8, <1>12, <2>6
      <4> QED  BY <1>4, <1>6, <4>1
    <3>6. \A x \in l .. i : array'[x] <= P
      <4> TAKE x \in l .. i
      <4>1. CASE x = i  BY <3>4, <3>5, <4>1
      <4>2. CASE x # i
        <5>1. x \in 1 .. Len(given) /\ x # j - 1 /\ x \in l .. i - 1  BY <1>4, <2>2, <4>2
        <5> QED  BY <1>9, <2>6, <3>4, <4>2, <5>1
      <4> QED  BY <4>1, <4>2
    <3>7. \A x \in j - 1 .. u : P <= array'[x]
      <4> TAKE x \in j - 1 .. u
      <4>1. CASE x = j - 1  BY <1>8, <2>6, <3>4, <4>1
      <4>2. CASE x # j - 1
        <5>1. x \in 1 .. Len(given) /\ x # i /\ x \in j .. u  BY <1>4, <2>2, <4>2
        <5> QED  BY <1>9, <2>6, <3>4, <4>2, <5>1
      <4> QED  BY <4>1, <4>2
    <3>8. array'[u - 1] = P
      <4>1. u - 1 \in 1 .. Len(given) /\ u - 1 # i /\ u - 1 # j - 1  BY <1>4, <2>2
      <4> QED  BY <1>8, <2>6, <3>4, <4>1
    <3>9. i <= u - 2  BY <1>4, <2>2
    <3>10. ScanOK'  BY <1>2, <1>4, <1>8, <2>1, <2>2, <2>6, <3>6, <3>7, <3>8, <3>9 DEF ScanOK
    <3> QED  BY <3>1, <3>2, <3>10
  <2>7. OrderOK'  BY <1>2, <2>6 DEF OrderOK
  <2> QED  BY <2>4, <2>5, <2>7 DEF SInv
<1> QED  BY <1>10, <1>11, <1>12

(* With an order there is nothing to raise an error for. *)
LEMMA RaiseKeeps == ASSUME SInv, Raise PROVE SInv'
<1>1. pc' = "error" /\ UNCHANGED <<array, given, order, l, u, i, j, P, calls>>  BY DEF Raise
<1>2. Keeps(array) /\ IndexOK /\ OrderOK  BY DEF SInv
<1>3. order # "<"
  <2> SUFFICES ASSUME order = "<"  PROVE FALSE
    OBVIOUS
  <2>1. (pc = "up" /\ Read(i + 1) = LuaNil) \/ (pc = "down" /\ Read(j - 1) = LuaNil)  BY DEF Raise
  <2>2. /\ l \in Int /\ u \in Int /\ i \in Int /\ j \in Int
        /\ Len(given) \in Nat /\ 1 <= l /\ u <= Len(given)
    BY <1>2, Bounds
  <2>3. CASE pc = "up"
    <3>1. l <= i /\ i <= u - 2  BY <1>2, <2>2, <2>3 DEF IndexOK, OrderOK, ScanOK
    <3>2. i + 1 \in 1 .. Len(given)  BY <2>2, <3>1
    <3> QED  BY <1>2, <2>1, <2>3, <3>2, ReadIsElement
  <2>4. CASE pc = "down"
    <3>1. l < j /\ j <= u - 1  BY <1>2, <2>2, <2>4 DEF IndexOK, OrderOK, ScanOK
    <3>2. j - 1 \in 1 .. Len(given)  BY <2>2, <3>1
    <3> QED  BY <1>2, <2>1, <2>4, <3>2, ReadIsElement
  <2> QED  BY <2>1, <2>3, <2>4
<1>4. Keeps(array)'  BY <1>1, <1>2 DEF Keeps
<1>5. IndexOK'  BY <1>1, <1>2 DEF IndexOK
<1>6. OrderOK'  BY <1>1, <1>3 DEF OrderOK
<1> QED  BY <1>4, <1>5, <1>6 DEF SInv

-----------------------------------------------------------------------------
LEMMA InitSInv == SortInit => SInv
<1> SUFFICES ASSUME SortInit  PROVE SInv
  OBVIOUS
<1>1. /\ given \in Seq(Int) /\ array = given /\ order \in {"<", "any"}
      /\ l = 1 /\ u = Len(given) /\ i = 0 /\ j = 0 /\ calls = <<>> /\ pc = "first"
  BY SortParameters DEF SortInit
<1>2. Len(given) \in Nat /\ Len(calls) = 0  BY <1>1
<1>3. Keeps(array)  BY <1>1 DEF Keeps
<1>4. IndexOK  BY <1>1, <1>2 DEF IndexOK
<1>5. Apart  BY <1>1, <1>2 DEF Apart
<1>6. InOrder(array, Pending)
  <2>1. <<1, Len(given)>> \in Pending  BY <1>1 DEF Pending
  <2>2. <<1, Len(given)>>[1] = 1 /\ <<1, Len(given)>>[2] = Len(given)  OBVIOUS
  <2> QED  BY <1>1, <1>2, <2>1, <2>2 DEF InOrder
<1>7. ScanOK  BY <1>1 DEF ScanOK
<1>8. Halves
  <2>1. twoto[Len(calls)] * (u - l + 2) <= Len(given) + 1
    <3>1. twoto[Len(calls)] = 1 /\ u - l + 2 = Len(given) + 1  BY <1>1, <1>2, Doubles
    <3> QED  BY <1>2, <3>1
  <2> QED  BY <1>2, <2>1 DEF Halves
<1> QED  BY <1>3, <1>4, <1>5, <1>6, <1>7, <1>8 DEF SInv, OrderOK

LEMMA NextSInv == SInv /\ [SortNext]_sortVars => SInv'
<1> SUFFICES ASSUME SInv, [SortNext]_sortVars  PROVE SInv'
  OBVIOUS
<1>1. CASE SortNext
  BY <1>1, SingleKeeps, FirstKeeps, MiddleKeeps, UpperKeeps, UpKeeps, DownKeeps, RaiseKeeps
     DEF SortNext
<1>2. CASE UNCHANGED sortVars
  <2>1. UNCHANGED <<array, given, order, l, u, i, j, P, calls, pc>>  BY <1>2 DEF sortVars
  <2> QED  BY <2>1
     DEF SInv, Keeps, Count, IndexOK, OrderOK, Apart, Pending, ScanOK, Halves
<1> QED  BY <1>1, <1>2

LEMMA SInvSorted == SInv => ArraySorted
<1> SUFFICES ASSUME SInv  PROVE ArraySorted
  OBVIOUS
<1>1. Keeps(array) /\ IndexOK /\ OrderOK  BY DEF SInv
<1>2. array \in Seq(Int) /\ Len(array) = Len(given) /\ given \in Seq(Int)
  BY <1>1 DEF Keeps, IndexOK
<1>3. LibTypeOK  BY <1>1, <1>2 DEF LibTypeOK, IndexOK
<1>4. NothingLost  BY <1>1 DEF NothingLost, Keeps, Count
<1>5. Sorted
  <2> SUFFICES ASSUME order = "<"  PROVE pc # "error" /\ (pc = "done" =>
                                    \A k \in 2 .. Len(array) : array[k - 1] <= array[k])
    BY DEF Sorted
  <2>1. pc # "error" /\ InOrder(array, Pending)  BY <1>1 DEF OrderOK, ScanOK
  <2>2. ASSUME pc = "done", NEW k \in 2 .. Len(array)  PROVE array[k - 1] <= array[k]
    <3>1. Pending = {}
      <4>1. Len(calls) = 0  BY <1>1, <2>2 DEF IndexOK
      <4> QED  BY <2>2, <4>1 DEF Pending
    <3>2. k - 1 \in 1 .. Len(array) /\ k \in 1 .. Len(array) /\ k - 1 < k  BY <1>2
    <3> QED  BY <2>1, <3>1, <3>2 DEF InOrder
  <2> QED  BY <2>1, <2>2
<1>6. DepthIsLog
  <2> SUFFICES ASSUME order = "<", calls # <<>>
               PROVE  twoto[Len(calls) + 1] <= Len(array)
    BY DEF DepthIsLog
  <2> DEFINE m == Len(calls)
  <2>1. m \in Nat \ {0}  BY <1>1 DEF IndexOK
  <2>2. 5 * twoto[m - 1] <= Len(given) + 1
    <3>1. m \in 1 .. m  BY <2>1
    <3> QED  BY <1>1, <3>1 DEF OrderOK, Halves
  <2> HIDE DEF m
  <2>3. m - 1 \in Nat /\ (m - 1) + 1 = m  BY <2>1
  <2>4. twoto[m - 1] \in Nat \ {0} /\ twoto[m] = 2 * twoto[m - 1] /\ twoto[m + 1] = 2 * twoto[m]
    BY <2>1, <2>3, Doubles
  <2>5. twoto[m + 1] <= Len(given)
    <3> DEFINE z == twoto[m - 1]
    <3>1. z \in Nat \ {0} /\ twoto[m + 1] = 2 * (2 * z) /\ 5 * z <= Len(given) + 1  BY <2>2, <2>4
    <3> HIDE DEF z
    <3>2. Len(given) \in Nat  BY <1>2
    <3> QED  BY <3>1, <3>2
  <2> QED  BY <1>2, <2>5 DEF m
<1> QED  BY <1>3, <1>4, <1>5, <1>6 DEF ArraySorted

(* Whatever array sort is given and whatever its order function does, the  *)
(* table holds the same elements in every state; with an order, sort never *)
(* raises its error, ends with a sorted table, and nests no more calls     *)
(* than the logarithm of the length, which bounds the slots it asks for.   *)
THEOREM ArraySortedInvariant == SortSpec => []ArraySorted
<1>1. SortInit => SInv  BY InitSInv
<1>2. SInv /\ [SortNext]_sortVars => SInv'  BY NextSInv
<1>3. SInv => ArraySorted  BY SInvSorted
<1> QED  BY <1>1, <1>2, <1>3, PTL DEF SortSpec

=============================================================================
