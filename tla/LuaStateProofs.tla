--------------------------- MODULE LuaStateProofs ---------------------------
(***************************************************************************)
(* What a Lua state keeps once: equal strings are one object, for any      *)
(* contents, number of strings and size of the first table; and a module's *)
(* chunk runs once, for any modules.                                       *)
(***************************************************************************)
EXTENDS LuaString, LuaRequire, FiniteSetTheorems, SequenceTheorems, WellFoundedInduction, TLAPS

(* The bucket of a content is one of the table's. *)
LEMMA Bucket ==
  ASSUME NEW c \in Nat, NEW n \in Nat \ {0}
  PROVE  lmod(c, n) \in 1 .. n
<1>1. (c % n) \in 0 .. n - 1
  OBVIOUS
<1> QED
  BY <1>1 DEF lmod

Strings == {i \in Ids : content[i] # None}

LEMMA Types ==
  ASSUME StringParameters, StringIInv
  PROVE  /\ strt \in Seq(SUBSET Ids) /\ size \in Nat \ {0}
         /\ strt \in [1 .. size -> SUBSET Ids]
         /\ content \in [Ids -> Contents \cup {None}] /\ marked \in [Ids -> {0, 1, black}]
         /\ currentwhite \in {0, 1} /\ held \subseteq Ids
         /\ \A i \in Ids : content[i] # None => content[i] \in Contents /\ content[i] \in Nat
         /\ IsFiniteSet(Strings) /\ Cardinality(Strings) \in Nat /\ nuse = Cardinality(Strings)
         /\ Cardinality(Strings) <= Cardinality(Ids) /\ Cardinality(Ids) \in Nat
<1>1. StringTypeOK /\ HeldStays /\ size > 0
  BY DEF StringIInv, StringsUnique, InBucket
<1>2. strt \in Seq(SUBSET Ids) /\ size \in Nat \ {0} /\ strt \in [1 .. size -> SUBSET Ids]
  BY <1>1, LenProperties DEF StringTypeOK, size
<1>3. Strings \in SUBSET Ids
  BY DEF Strings
<1>4. /\ IsFiniteSet(Strings) /\ Cardinality(Strings) \in Nat
      /\ Cardinality(Strings) <= Cardinality(Ids) /\ Cardinality(Ids) \in Nat
  BY <1>3, FS_Subset, FS_CardinalityType DEF StringParameters
<1>5. nuse = Cardinality(Strings)
  BY <1>1 DEF HeldStays, Strings
<1> QED
  BY <1>1, <1>2, <1>4, <1>5 DEF StringTypeOK, StringParameters

(* A table of other size has the same strings, each in its new bucket. *)
LEMMA Resized ==
  ASSUME NEW table \in Seq(SUBSET Ids), NEW n \in Nat \ {0}
  PROVE  /\ luaS_resize(table, n) \in Seq(SUBSET Ids) /\ Len(luaS_resize(table, n)) = n
         /\ \A i \in Ids : \A b \in 1 .. n :
              i \in luaS_resize(table, n)[b] <=>
                (\E k \in 1 .. Len(table) : i \in table[k]) /\ lmod(content'[i], n) = b
<1> DEFINE all == UNION {table[k] : k \in 1 .. Len(table)}
           r == [b \in 1 .. n |-> {i \in all : lmod(content'[i], n) = b}]
<1>1. \A k \in 1 .. Len(table) : table[k] \subseteq Ids
  BY LenProperties
<1>2. all \subseteq Ids
  BY <1>1
<1>3. r \in [1 .. n -> SUBSET Ids]
  BY <1>2
<1>4. r \in Seq(SUBSET Ids) /\ Len(r) = n
  <2> HIDE DEF r
  <2>1. r \in Seq(SUBSET Ids)
    BY <1>3, SeqDef
  <2>2. DOMAIN r = 1 .. n /\ DOMAIN r = 1 .. Len(r) /\ Len(r) \in Nat
    BY <1>3, <2>1, LenProperties
  <2> QED
    BY <2>1, <2>2
<1>5. ASSUME NEW i \in Ids, NEW b \in 1 .. n
      PROVE  i \in r[b] <=> (\E k \in 1 .. Len(table) : i \in table[k]) /\ lmod(content'[i], n) = b
  BY <1>2
<1> QED
  BY <1>4, <1>5 DEF luaS_resize

-----------------------------------------------------------------------------
LEMMA InitIInv ==
  ASSUME StringParameters, StringInit
  PROVE  StringIInv
<1>1. MINSTRTABSIZE \in Nat \ {0}
  BY DEF StringParameters
<1>2. strt \in [1 .. MINSTRTABSIZE -> SUBSET Ids] /\ \A b \in 1 .. MINSTRTABSIZE : strt[b] = {}
  BY DEF StringInit
<1>3. strt \in Seq(SUBSET Ids) /\ size = MINSTRTABSIZE
  <2>1. strt \in Seq(SUBSET Ids)
    BY <1>1, <1>2, SeqDef
  <2>2. DOMAIN strt = 1 .. MINSTRTABSIZE /\ DOMAIN strt = 1 .. Len(strt) /\ Len(strt) \in Nat
    BY <1>2, <2>1, LenProperties
  <2> QED
    BY <2>1, <2>2, <1>1 DEF size
<1>4. Strings = {} /\ Cardinality({}) = 0 /\ Cardinality(Ids) \in Nat
  BY FS_EmptySet, FS_CardinalityType DEF StringInit, Strings, StringParameters
<1>5. StringTypeOK
  BY <1>3, <1>4 DEF StringInit, StringTypeOK, black
<1>6. OneObjectPerContent /\ HeldStays
  BY <1>4 DEF StringInit, OneObjectPerContent, HeldStays, Strings
<1>7. InBucket /\ NoDead
  BY <1>1, <1>2, <1>3 DEF StringInit, InBucket, NoDead
<1> QED
  BY <1>5, <1>6, <1>7 DEF StringIInv, StringsUnique

(* luaS_newlstr meets the string, and a dead one is revived. *)
LEMMA FoundIInv ==
  ASSUME StringParameters, StringIInv, NEW i \in Strings, Found(i),
         UNCHANGED <<currentwhite, gcstate, sweepstrgc>>
  PROVE  StringIInv'
<1>1. /\ marked \in [Ids -> {0, 1, black}] /\ currentwhite \in {0, 1} /\ i \in Ids
      /\ held \subseteq Ids /\ content[i] # None
  BY Types DEF Strings
<1>2. /\ held' = held \cup {i} /\ strt' = strt /\ nuse' = nuse /\ content' = content
      /\ currentwhite' = currentwhite /\ gcstate' = gcstate /\ sweepstrgc' = sweepstrgc
      /\ size' = size
      /\ marked' = [marked EXCEPT ![i] = IF isdead(i) THEN currentwhite ELSE @]
  BY DEF Found, size
<1>3. /\ marked' \in [Ids -> {0, 1, black}]
      /\ \A j \in Ids : isdead(j)' => isdead(j) /\ j # i
  BY <1>1, <1>2 DEF isdead, black
<1>4. StringsUnique'
  BY <1>1, <1>2, <1>3 DEF StringIInv, StringsUnique, StringTypeOK, OneObjectPerContent, HeldStays
<1>5. InBucket'
  BY <1>2 DEF StringIInv, InBucket
<1>6. NoDead'
  <2>1. ASSUME NEW b \in 1 .. size, Swept(b), NEW j \in strt[b]
        PROVE  ~isdead(j)'
    <3>1. j \in Ids
      BY Types
    <3> QED
      BY <3>1, <2>1, <1>3 DEF StringIInv, NoDead
  <2>2. ASSUME NEW j \in held'
        PROVE  ~isdead(j)'
    BY <2>2, <1>1, <1>2, <1>3 DEF StringIInv, NoDead
  <2> QED
    BY <2>1, <2>2, <1>2 DEF StringIInv, NoDead, Swept
<1> QED
  BY <1>4, <1>5, <1>6 DEF StringIInv

(* A new string: its content was in no bucket, not only not in its own. *)
LEMMA NewIInv ==
  ASSUME StringParameters, StringIInv, NEW c \in Contents, newlstr(c),
         \A j \in strt[lmod(c, size)] : content[j] # c,
         UNCHANGED <<currentwhite, gcstate, sweepstrgc>>
  PROVE  StringIInv'
<1> DEFINE n == size
           h == lmod(c, n)
<1>1. /\ strt \in Seq(SUBSET Ids) /\ n \in Nat \ {0} /\ strt \in [1 .. n -> SUBSET Ids]
      /\ content \in [Ids -> Contents \cup {None}] /\ marked \in [Ids -> {0, 1, black}]
      /\ currentwhite \in {0, 1} /\ held \subseteq Ids /\ nuse = Cardinality(Strings)
      /\ IsFiniteSet(Strings) /\ Cardinality(Strings) \in Nat
      /\ c \in Nat /\ c # None
  BY Types DEF StringParameters
<1>2. PICK i \in Ids :
        /\ content[i] = None
        /\ content' = [content EXCEPT ![i] = c]
        /\ marked' = [marked EXCEPT ![i] = currentwhite]
        /\ nuse' = nuse + 1 /\ held' = held \cup {i}
        /\ strt' = IF nuse' > n /\ gcstate # "sweepstring"
                   THEN luaS_resize([strt EXCEPT ![h] = @ \cup {i}], n * 2)
                   ELSE [strt EXCEPT ![h] = @ \cup {i}]
  BY DEF newlstr
<1>3. h \in 1 .. n
  BY <1>1, Bucket
<1>4. PICK t : t = [strt EXCEPT ![h] = @ \cup {i}]
  OBVIOUS
<1>5. /\ t \in [1 .. n -> SUBSET Ids]
      /\ \A b \in 1 .. n : t[b] = IF b = h THEN strt[b] \cup {i} ELSE strt[b]
  BY <1>1, <1>3, <1>4
<1>6. t \in Seq(SUBSET Ids) /\ Len(t) = n
  <2>1. t \in Seq(SUBSET Ids)
    BY <1>1, <1>5, SeqDef
  <2>2. DOMAIN t = 1 .. n /\ DOMAIN t = 1 .. Len(t) /\ Len(t) \in Nat
    BY <1>5, <2>1, LenProperties
  <2> QED
    BY <2>1, <2>2, <1>1
<1>7. /\ content' \in [Ids -> Contents \cup {None}] /\ marked' \in [Ids -> {0, 1, black}]
      /\ content'[i] = c /\ \A j \in Ids : j # i => content'[j] = content[j]
      /\ marked'[i] = currentwhite /\ \A j \in Ids : j # i => marked'[j] = marked[j]
      /\ currentwhite' = currentwhite /\ gcstate' = gcstate /\ sweepstrgc' = sweepstrgc
  BY <1>1, <1>2
<1>8. InBucket
  BY DEF StringIInv
<1> HIDE DEF n, h
<1>9. \A j \in Ids : \A b \in 1 .. n : j \in t[b] <=> content'[j] # None /\ lmod(content'[j], n) = b
  <2> SUFFICES ASSUME NEW j \in Ids, NEW b \in 1 .. n
               PROVE  j \in t[b] <=> content'[j] # None /\ lmod(content'[j], n) = b
    OBVIOUS
  <2>1. j \in strt[b] <=> content[j] # None /\ lmod(content[j], n) = b
    BY <1>8 DEF InBucket, n
  <2>2. CASE j = i
    BY <2>1, <2>2, <1>1, <1>2, <1>5, <1>7 DEF h
  <2>3. CASE j # i
    BY <2>1, <2>3, <1>5, <1>7
  <2> QED
    BY <2>2, <2>3
<1>10. PICK m \in Nat \ {0} :
         /\ strt' \in Seq(SUBSET Ids) /\ Len(strt') = m
         /\ \A j \in Ids : \A b \in 1 .. m :
              j \in strt'[b] <=> content'[j] # None /\ lmod(content'[j], m) = b
         /\ gcstate = "sweepstring" => strt' = t /\ m = n
  <2>1. CASE nuse' > n /\ gcstate # "sweepstring"
    <3> DEFINE m == n * 2
    <3>1. strt' = luaS_resize(t, m) /\ m \in Nat \ {0}
      BY <2>1, <1>1, <1>2, <1>4 DEF n
    <3> HIDE DEF m
    <3>2. /\ strt' \in Seq(SUBSET Ids) /\ Len(strt') = m
          /\ \A j \in Ids : \A b \in 1 .. m :
               j \in strt'[b] <=> (\E k \in 1 .. Len(t) : j \in t[k]) /\ lmod(content'[j], m) = b
      BY <3>1, <1>6, Resized
    <3>3. ASSUME NEW j \in Ids
          PROVE  (\E k \in 1 .. Len(t) : j \in t[k]) <=> content'[j] # None
      <4>1. content'[j] # None => content'[j] \in Nat
        BY <1>7 DEF StringParameters
      <4>2. content'[j] # None => lmod(content'[j], n) \in 1 .. n
        BY <4>1, <1>1, Bucket DEF n
      <4> QED
        BY <4>2, <1>6, <1>9
    <3> QED
      BY <3>1, <3>2, <3>3, <2>1
  <2>2. CASE ~(nuse' > n /\ gcstate # "sweepstring")
    <3>1. strt' = t
      BY <2>2, <1>2, <1>4
    <3> QED
      BY <3>1, <1>1, <1>6, <1>9 DEF n
  <2> QED
    BY <2>1, <2>2
<1>11. size' = m
  BY <1>10 DEF size
<1>12. InBucket'
  BY <1>10, <1>11 DEF InBucket
<1>13. OneObjectPerContent'
  <2>1. ASSUME NEW j \in Ids, content[j] = c
        PROVE  FALSE
    <3>1. j \in strt[h]
      BY <2>1, <1>1, <1>3, <1>8 DEF InBucket, h, n
    <3> QED
      BY <3>1, <2>1 DEF h, n
  <2> QED
    BY <2>1, <1>7 DEF StringIInv, StringsUnique, OneObjectPerContent
<1>14. Strings' = Strings \cup {i} /\ i \notin Strings
  BY <1>1, <1>2, <1>7 DEF Strings
<1>15. /\ IsFiniteSet(Strings') /\ Cardinality(Strings') = Cardinality(Strings) + 1
       /\ nuse' = Cardinality(Strings') /\ nuse' \in 0 .. Cardinality(Ids)
  <2>1. IsFiniteSet(Strings \cup {i}) /\ Cardinality(Strings \cup {i}) = Cardinality(Strings) + 1
    BY <1>1, <1>14, FS_AddElement
  <2>2. Strings' \in SUBSET Ids
    BY DEF Strings
  <2>3. Cardinality(Strings') <= Cardinality(Ids) /\ Cardinality(Ids) \in Nat
    BY <2>2, FS_Subset, FS_CardinalityType DEF StringParameters
  <2> QED
    BY <2>1, <2>3, <1>1, <1>2, <1>14
<1>16. HeldStays'
  <2>1. \A j \in held' : content'[j] # None
    BY <1>1, <1>2, <1>7 DEF StringIInv, StringsUnique, HeldStays
  <2>2. ASSUME NEW j \in Ids, content'[j] # None
        PROVE  \E b \in 1 .. m : j \in strt'[b]
    <3>1. content'[j] \in Nat
      BY <2>2, <1>7 DEF StringParameters
    <3>2. lmod(content'[j], m) \in 1 .. m
      BY <3>1, Bucket
    <3> QED
      BY <3>2, <2>2, <1>10
  <2> QED
    BY <2>1, <2>2, <1>11, <1>15 DEF HeldStays, Strings
<1>17. StringTypeOK'
  <2>1. held' \subseteq Ids
    BY <1>1, <1>2
  <2> QED
    BY <2>1, <1>7, <1>10, <1>15 DEF StringIInv, StringsUnique, StringTypeOK
<1>18. NoDead'
  <2>1. \A j \in Ids : isdead(j)' => isdead(j) /\ j # i
    BY <1>1, <1>7 DEF isdead
  <2>2. ASSUME NEW b \in 1 .. m, Swept(b), NEW j \in strt'[b]
        PROVE  ~isdead(j)'
    <3>1. j \in Ids
      BY <1>10, LenProperties
    <3>2. CASE j = i
      BY <3>2, <2>1, <3>1
    <3>3. CASE j # i
      <4>1. content[j] # None
        BY <3>1, <3>3, <2>2, <1>7, <1>10
      <4>2. PICK k \in 1 .. n : j \in strt[k] /\ (gcstate = "sweepstring" => k = b)
        <5>1. CASE gcstate = "sweepstring"
          BY <5>1, <2>2, <3>3, <1>5, <1>10
        <5>2. CASE gcstate # "sweepstring"
          BY <5>2, <4>1, <3>1 DEF StringIInv, StringsUnique, HeldStays, n
        <5> QED
          BY <5>1, <5>2
      <4>3. Swept(k)
        BY <4>2, <2>2 DEF Swept
      <4>4. ~isdead(j)
        BY <4>2, <4>3 DEF StringIInv, NoDead, n
      <4> QED
        BY <4>4, <2>1, <3>1
    <3> QED
      BY <3>2, <3>3
  <2>3. \A j \in held' : ~isdead(j)'
    BY <2>1, <1>1, <1>2 DEF StringIInv, NoDead
  <2>4. gcstate = "sweepstring" => sweepstrgc < m
    BY <1>10 DEF StringIInv, NoDead, n
  <2> QED
    BY <2>2, <2>3, <2>4, <1>7, <1>11 DEF StringIInv, NoDead, Swept
<1> QED
  BY <1>12, <1>13, <1>16, <1>17, <1>18 DEF StringIInv, StringsUnique

LEMMA luaS_newlstrIInv ==
  ASSUME StringParameters, StringIInv, NEW c \in Contents, luaS_newlstr(c)
  PROVE  StringIInv'
<1> DEFINE at == {i \in strt[lmod(c, size)] : content[i] = c}
<1>1. UNCHANGED <<currentwhite, gcstate, sweepstrgc>>
  BY DEF luaS_newlstr
<1>2. CASE at # {}
  <2>1. PICK i \in at : Found(i)
    BY <1>2 DEF luaS_newlstr
  <2>2. c \in Nat /\ c # None
    BY DEF StringParameters
  <2>3. strt[lmod(c, size)] \subseteq Ids
    BY <2>2, Bucket, Types
  <2>4. i \in Strings
    BY <2>2, <2>3 DEF Strings
  <2> QED
    BY <2>1, <2>4, <1>1, FoundIInv
<1>3. CASE at = {}
  <2>1. newlstr(c)
    BY <1>3 DEF luaS_newlstr
  <2>2. \A j \in strt[lmod(c, size)] : content[j] # c
    BY <1>3
  <2> QED
    BY <2>1, <2>2, <1>1, NewIInv
<1> QED
  BY <1>2, <1>3

LEMMA DropIInv ==
  ASSUME StringParameters, StringIInv, NEW i \in held, Drop(i)
  PROVE  StringIInv'
<1>1. /\ held' = held \ {i} /\ strt' = strt /\ nuse' = nuse /\ content' = content
      /\ marked' = marked /\ currentwhite' = currentwhite /\ gcstate' = gcstate
      /\ sweepstrgc' = sweepstrgc /\ size' = size
  BY DEF Drop, size
<1>2. held' \subseteq held
  BY <1>1
<1>3. StringsUnique'
  BY <1>1, <1>2
     DEF StringIInv, StringsUnique, StringTypeOK, OneObjectPerContent, HeldStays
<1>4. InBucket'
  BY <1>1 DEF StringIInv, InBucket
<1>5. NoDead'
  BY <1>1, <1>2 DEF StringIInv, NoDead, Swept, isdead
<1> QED
  BY <1>3, <1>4, <1>5 DEF StringIInv

(* The end of the marking: what is held is black, so that no flip of the   *)
(* whites makes it dead; no bucket is swept.                               *)
LEMMA atomicIInv ==
  ASSUME StringParameters, StringIInv, atomic
  PROVE  StringIInv'
<1>1. /\ strt' = strt /\ nuse' = nuse /\ content' = content /\ held' = held
      /\ currentwhite' = 1 - currentwhite /\ gcstate' = "sweepstring" /\ sweepstrgc' = 0
      /\ marked' = [i \in Ids |-> IF i \in held THEN black ELSE marked[i]] /\ size' = size
  BY DEF atomic, size
<1>2. /\ currentwhite \in {0, 1} /\ marked \in [Ids -> {0, 1, black}] /\ held \subseteq Ids
      /\ size \in Nat \ {0}
  BY Types
<1>3. StringsUnique'
  BY <1>1, <1>2
     DEF StringIInv, StringsUnique, StringTypeOK, OneObjectPerContent, HeldStays, black
<1>4. InBucket'
  BY <1>1 DEF StringIInv, InBucket
<1>5. \A i \in held : ~isdead(i)'
  BY <1>1, <1>2 DEF isdead, black
<1>6. NoDead'
  BY <1>1, <1>2, <1>5 DEF NoDead, Swept
<1> QED
  BY <1>3, <1>4, <1>6 DEF StringIInv

LEMMA luaC_fullgcIInv ==
  ASSUME StringParameters, StringIInv, luaC_fullgc
  PROVE  StringIInv'
<1>1. /\ strt' = strt /\ nuse' = nuse /\ content' = content /\ held' = held
      /\ currentwhite' = currentwhite /\ gcstate' = "sweepstring" /\ sweepstrgc' = 0
      /\ marked' = marked /\ size' = size
  BY DEF luaC_fullgc, size
<1>2. size \in Nat \ {0}
  BY Types
<1>3. StringsUnique'
  BY <1>1 DEF StringIInv, StringsUnique, StringTypeOK, OneObjectPerContent, HeldStays
<1>4. InBucket'
  BY <1>1 DEF StringIInv, InBucket
<1>5. NoDead'
  BY <1>1, <1>2 DEF StringIInv, NoDead, Swept, isdead
<1> QED
  BY <1>3, <1>4, <1>5 DEF StringIInv

(* The sweep of a bucket: the dead of this bucket go, and nothing of this  *)
(* bucket is dead after it; what is held does not go.                      *)
LEMMA SweepStringIInv ==
  ASSUME StringParameters, StringIInv, SweepString
  PROVE  StringIInv'
<1> DEFINE b == sweepstrgc + 1
           gone == {i \in strt[b] : isdead(i)}
<1>1. /\ strt \in Seq(SUBSET Ids) /\ size \in Nat \ {0} /\ strt \in [1 .. size -> SUBSET Ids]
      /\ content \in [Ids -> Contents \cup {None}] /\ marked \in [Ids -> {0, 1, black}]
      /\ currentwhite \in {0, 1} /\ held \subseteq Ids /\ nuse = Cardinality(Strings)
      /\ IsFiniteSet(Strings) /\ Cardinality(Strings) \in Nat
  BY Types
<1>2. /\ gcstate = "sweepstring" /\ sweepstrgc' = sweepstrgc + 1
      /\ held' = held /\ currentwhite' = currentwhite
      /\ strt' = [strt EXCEPT ![b] = @ \ gone]
      /\ marked' = [i \in Ids |-> IF i \in gone THEN 0
                                  ELSE IF i \in strt[b] THEN currentwhite ELSE marked[i]]
      /\ content' = [i \in Ids |-> IF i \in gone THEN None ELSE content[i]]
      /\ nuse' = nuse - Cardinality(gone)
      /\ gcstate' = IF b >= size THEN "sweep" ELSE gcstate
  BY DEF SweepString
<1>3. InBucket /\ NoDead /\ OneObjectPerContent /\ HeldStays
  BY DEF StringIInv, StringsUnique
<1>4. b \in 1 .. size /\ sweepstrgc \in Nat /\ sweepstrgc < size
  BY <1>1, <1>2, <1>3 DEF NoDead
<1>5. gone \subseteq Strings /\ gone \subseteq Ids /\ strt[b] \subseteq Ids
  BY <1>1, <1>3, <1>4 DEF InBucket, Strings
<1>6. \A i \in held : i \notin gone
  BY <1>3 DEF NoDead
<1>7. /\ content' \in [Ids -> Contents \cup {None}]
      /\ \A i \in Ids : content'[i] = IF i \in gone THEN None ELSE content[i]
  BY <1>1, <1>2
<1>8. /\ marked' \in [Ids -> {0, 1, black}]
      /\ \A i \in Ids : i \in strt[b] => ~isdead(i) \/ i \in gone
      /\ \A i \in Ids : isdead(i)' => i \in gone \/ (isdead(i) /\ i \notin strt[b])
  <2>1. marked' \in [Ids -> {0, 1, black}]
    BY <1>1, <1>2 DEF black
  <2>2. \A i \in Ids : i \in strt[b] => ~isdead(i) \/ i \in gone
    OBVIOUS
  <2>3. ASSUME NEW i \in Ids, isdead(i)', i \notin gone
        PROVE  isdead(i) /\ i \notin strt[b]
    BY <2>3, <1>1, <1>2 DEF isdead
  <2> QED
    BY <2>1, <2>2, <2>3
<1> HIDE DEF gone
<1>9. /\ strt' \in [1 .. size -> SUBSET Ids]
      /\ \A k \in 1 .. size : strt'[k] = IF k = b THEN strt[k] \ gone ELSE strt[k]
  BY <1>1, <1>2, <1>4
<1>10. strt' \in Seq(SUBSET Ids) /\ size' = size
  <2>1. strt' \in Seq(SUBSET Ids)
    BY <1>1, <1>9, SeqDef
  <2>2. DOMAIN strt' = 1 .. size /\ DOMAIN strt' = 1 .. size' /\ size' \in Nat
    BY <1>9, <2>1, LenProperties DEF size
  <2> QED
    BY <2>1, <2>2, <1>1
<1>11. \A i \in Ids : \A k \in 1 .. size : i \in gone /\ i \in strt[k] => k = b
  <2>1. \A i \in gone : i \in strt[b]
    BY DEF gone
  <2> QED
    BY <2>1, <1>3, <1>4 DEF InBucket
<1>12. ASSUME NEW i \in Ids, NEW k \in 1 .. size
       PROVE  i \in strt'[k] <=> i \in strt[k] /\ i \notin gone
  BY <1>9, <1>11
<1>13. InBucket'
  <2>1. ASSUME NEW i \in Ids, NEW k \in 1 .. size
        PROVE  i \in strt'[k] <=> content'[i] # None /\ lmod(content'[i], size) = k
    BY <1>3, <1>7, <1>12 DEF InBucket
  <2> QED
    BY <2>1, <1>1, <1>10 DEF InBucket
<1>14. OneObjectPerContent'
  BY <1>3, <1>7 DEF OneObjectPerContent
<1>15. Strings' = Strings \ gone
  BY <1>7 DEF Strings
<1>16. /\ nuse' = Cardinality(Strings') /\ nuse' \in 0 .. Cardinality(Ids)
  <2>1. IsFiniteSet(gone) /\ Cardinality(gone) \in Nat
    BY <1>1, <1>5, FS_Subset, FS_CardinalityType
  <2>2. Strings \cap gone = gone
    BY <1>5
  <2>3. Cardinality(Strings \ gone) = Cardinality(Strings) - Cardinality(Strings \cap gone)
    BY <1>1, FS_Difference
  <2>4. Cardinality(Strings') = Cardinality(Strings) - Cardinality(gone)
    BY <2>2, <2>3, <1>15
  <2>5. Strings' \in SUBSET Ids
    BY DEF Strings
  <2>6. /\ Cardinality(Strings') <= Cardinality(Ids) /\ Cardinality(Ids) \in Nat
        /\ Cardinality(Strings') \in Nat
    BY <2>5, FS_Subset, FS_CardinalityType DEF StringParameters
  <2> QED
    BY <2>4, <2>6, <1>1, <1>2
<1>17. HeldStays'
  <2>1. \A i \in held' : content'[i] # None
    BY <1>1, <1>2, <1>3, <1>6, <1>7 DEF HeldStays
  <2>2. ASSUME NEW i \in Ids, content'[i] # None
        PROVE  \E k \in 1 .. size : i \in strt'[k]
    <3>1. content[i] # None /\ i \notin gone
      BY <2>2, <1>7
    <3> QED
      BY <3>1, <1>3, <1>12 DEF HeldStays
  <2> QED
    BY <2>1, <2>2, <1>10, <1>16 DEF HeldStays, Strings
<1>18. StringTypeOK'
  <2>1. gcstate' \in {"pause", "sweepstring", "sweep"}
    BY <1>2
  <2> QED
    BY <2>1, <1>1, <1>2, <1>7, <1>8, <1>10, <1>16 DEF StringTypeOK
<1>19. NoDead'
  <2>1. /\ sweepstrgc' \in Nat
        /\ gcstate' = "sweepstring" => sweepstrgc' < size
    BY <1>1, <1>2, <1>4
  <2>2. ASSUME NEW k \in 1 .. size, Swept(k)', NEW i \in strt'[k]
        PROVE  ~isdead(i)'
    <3>1. i \in Ids
      BY <1>9
    <3>2. i \in strt[k] /\ i \notin gone
      BY <3>1, <1>12
    <3>3. CASE k = b
      BY <3>1, <3>2, <3>3, <1>8
    <3>4. CASE k # b
      <4>1. gcstate' = "sweepstring" => k <= sweepstrgc + 1
        BY <2>2, <1>2 DEF Swept
      <4>2. k <= sweepstrgc
        BY <4>1, <3>4, <1>1, <1>2, <1>4
      <4>3. ~isdead(i)
        BY <4>2, <3>2, <1>3 DEF NoDead, Swept
      <4> QED
        BY <4>3, <3>1, <3>2, <1>8
    <3> QED
      BY <3>3, <3>4
  <2>3. ASSUME NEW i \in held'
        PROVE  ~isdead(i)'
    <3>1. i \in Ids /\ ~isdead(i) /\ i \notin gone
      BY <1>1, <1>2, <1>3, <1>6 DEF NoDead
    <3> QED
      BY <3>1, <1>8
  <2> QED
    BY <2>1, <2>2, <2>3, <1>10 DEF NoDead
<1> QED
  BY <1>13, <1>14, <1>17, <1>18, <1>19 DEF StringIInv, StringsUnique

(* The end of a sweep: nothing in the table is dead, so it may be halved.  *)
LEMMA checkSizesIInv ==
  ASSUME StringParameters, StringIInv, checkSizes
  PROVE  StringIInv'
<1> DEFINE n == size
<1>1. /\ strt \in Seq(SUBSET Ids) /\ n \in Nat \ {0} /\ strt \in [1 .. n -> SUBSET Ids]
      /\ currentwhite \in {0, 1} /\ held \subseteq Ids
      /\ \A i \in Ids : content[i] # None => content[i] \in Contents /\ content[i] \in Nat
  BY Types
<1>2. /\ gcstate = "sweep" /\ gcstate' = "pause"
      /\ nuse' = nuse /\ content' = content /\ marked' = marked
      /\ currentwhite' = currentwhite /\ sweepstrgc' = sweepstrgc /\ held' = held
      /\ strt' = IF nuse < n \div 4 /\ n > MINSTRTABSIZE * 2
                 THEN luaS_resize(strt, n \div 2) ELSE strt
  BY DEF checkSizes
<1>3. InBucket /\ NoDead /\ OneObjectPerContent /\ HeldStays /\ StringTypeOK
  BY DEF StringIInv, StringsUnique
<1>4. \A i \in Ids : content[i] # None => ~isdead(i)
  BY <1>2, <1>3 DEF HeldStays, NoDead, Swept
<1>5. \A i \in Ids : \A b \in 1 .. n : i \in strt[b] <=> content[i] # None /\ lmod(content[i], n) = b
  BY <1>3 DEF InBucket
<1>6. \A i \in Ids : content[i] # None <=> \E b \in 1 .. n : i \in strt[b]
  BY <1>3 DEF InBucket, HeldStays
<1> HIDE DEF n
<1>7. PICK m \in Nat \ {0} :
        /\ strt' \in Seq(SUBSET Ids) /\ Len(strt') = m
        /\ \A i \in Ids : \A b \in 1 .. m :
             i \in strt'[b] <=> content'[i] # None /\ lmod(content'[i], m) = b
  <2>1. CASE nuse < n \div 4 /\ n > MINSTRTABSIZE * 2
    <3> DEFINE m == n \div 2
    <3>1. strt' = luaS_resize(strt, m) /\ m \in Nat \ {0}
      BY <2>1, <1>1, <1>2 DEF StringParameters
    <3> HIDE DEF m
    <3>2. /\ strt' \in Seq(SUBSET Ids) /\ Len(strt') = m
          /\ \A i \in Ids : \A b \in 1 .. m :
               i \in strt'[b] <=> (\E k \in 1 .. Len(strt) : i \in strt[k]) /\ lmod(content'[i], m) = b
      BY <3>1, <1>1, Resized
    <3> QED
      BY <3>1, <3>2, <1>2, <1>6 DEF n, size
  <2>2. CASE ~(nuse < n \div 4 /\ n > MINSTRTABSIZE * 2)
    BY <2>2, <1>1, <1>2, <1>5 DEF n, size
  <2> QED
    BY <2>1, <2>2
<1>8. size' = m
  BY <1>7 DEF size
<1>9. InBucket'
  BY <1>7, <1>8 DEF InBucket
<1>10. StringTypeOK' /\ OneObjectPerContent'
  BY <1>2, <1>3, <1>7 DEF StringTypeOK, OneObjectPerContent
<1>11. HeldStays'
  <2>1. ASSUME NEW i \in Ids, content'[i] # None
        PROVE  \E b \in 1 .. m : i \in strt'[b]
    <3>1. lmod(content'[i], m) \in 1 .. m
      BY <2>1, <1>1, <1>2, Bucket
    <3> QED
      BY <3>1, <2>1, <1>7
  <2> QED
    BY <2>1, <1>2, <1>3, <1>8 DEF HeldStays
<1>12. NoDead'
  <2>1. ASSUME NEW b \in 1 .. m, NEW i \in strt'[b]
        PROVE  ~isdead(i)'
    <3>1. i \in Ids /\ content[i] # None
      BY <1>2, <1>7, LenProperties
    <3> QED
      BY <3>1, <1>2, <1>4 DEF isdead
  <2>2. \A i \in held' : ~isdead(i)'
    BY <1>2, <1>3 DEF NoDead, isdead
  <2> QED
    BY <2>1, <2>2, <1>2, <1>3, <1>8 DEF NoDead
<1> QED
  BY <1>9, <1>10, <1>11, <1>12 DEF StringIInv, StringsUnique

LEMMA NextIInv ==
  ASSUME StringParameters, StringIInv, [StringNext]_stringVars
  PROVE  StringIInv'
<1>1. ASSUME NEW c \in Contents, luaS_newlstr(c)
      PROVE  StringIInv'
  BY <1>1, luaS_newlstrIInv
<1>2. ASSUME NEW i \in held, Drop(i)
      PROVE  StringIInv'
  BY <1>2, DropIInv
<1>3. CASE atomic \/ luaC_fullgc
  BY <1>3, atomicIInv, luaC_fullgcIInv
<1>4. CASE SweepString \/ checkSizes
  BY <1>4, SweepStringIInv, checkSizesIInv
<1>5. CASE UNCHANGED stringVars
  BY <1>5
     DEF stringVars, StringIInv, StringsUnique, StringTypeOK, OneObjectPerContent, HeldStays, InBucket,
         NoDead, Swept, isdead, size
<1> QED
  BY <1>1, <1>2, <1>3, <1>4, <1>5 DEF StringNext

(* luaS_newlstr, newlstr, luaS_resize and the sweep of strings keep the    *)
(* table of strings in order: each is in the bucket of its content, and no *)
(* bucket that is swept has a dead one left.                               *)
THEOREM StringInvariant ==
  ASSUME StringParameters
  PROVE  StringSpec => []StringIInv
<1>1. StringInit => StringIInv
  BY InitIInv
<1>2. StringIInv /\ [StringNext]_stringVars => StringIInv'
  BY NextIInv
<1> QED
  BY <1>1, <1>2, PTL DEF StringSpec

(* Equal strings are one object, and what the program holds is never       *)
(* given up (luaS_newlstr, sweepstrings).                                  *)
THEOREM StringsUniqueAlways ==
  ASSUME StringParameters
  PROVE  StringSpec => []StringsUnique
<1>1. StringIInv => StringsUnique
  BY DEF StringIInv
<1> QED
  BY <1>1, StringInvariant, PTL

-----------------------------------------------------------------------------
(* The modules of require, beside the strings.                             *)
(* A set of positions that is not empty has a last one. *)
LEMMA LastExists ==
  ASSUME NEW n \in Nat, NEW G \in SUBSET (1 .. n), G # {}
  PROVE  \E i \in G : \A j \in G : j <= i
<1> DEFINE T == {n - i : i \in G}
<1>1. T \subseteq Nat /\ T # {}
  <2>1. \A i \in G : i \in 1 .. n /\ n - i \in Nat
    OBVIOUS
  <2>2. PICK i \in G : TRUE
    OBVIOUS
  <2>3. n - i \in T
    OBVIOUS
  <2> QED
    BY <2>1, <2>3
<1>2. PICK k \in T : \A j \in T : ~(<<j, k>> \in OpToRel(<, Nat))
  <2> HIDE DEF T
  <2> QED
    BY <1>1, NatLessThanWellFounded, WFMin
<1>3. PICK i \in G : k = n - i
  OBVIOUS
<1>4. ASSUME NEW j \in G
      PROVE  j <= i
  <2>1. n - j \in T
    OBVIOUS
  <2>2. ~(n - j < k)
    BY <2>1, <1>1, <1>2 DEF OpToRel
  <2> QED
    BY <2>2, <1>3
<1> QED
  BY <1>4

(* Where an error is caught: the chunks below stay, those above failed.    *)
LEMMA UnwoundKeeps ==
  ASSUME RequireIInv, Unwound(running)
  PROVE  \E keep \in 0 .. Len(running) :
           /\ running' = SubSeq(running, 1, keep)
           /\ ended' = [m \in Modules |-> IF \E i \in keep + 1 .. Len(running) : running[i].m = m
                                          THEN "failed" ELSE ended[m]]
<1> DEFINE n == Len(running)
           guards == {i \in 1 .. n : running[i].guarded}
           last == CHOOSE i \in guards : \A j \in guards : j <= i
           keep == IF guards = {} THEN 0 ELSE last - 1
<1>1. n \in Nat
  BY LenProperties DEF RequireIInv, RequireTypeOK
<1>2. keep \in 0 .. n
  <2>1. CASE guards = {}
    BY <2>1, <1>1
  <2>2. CASE guards # {}
    <3>1. guards \in SUBSET (1 .. n)
      OBVIOUS
    <3> HIDE DEF guards
    <3>2. last \in guards
      BY <2>2, <3>1, <1>1, LastExists
    <3>3. PICK c \in 1 .. n : c = last
      BY <3>1, <3>2
    <3>4. keep = c - 1
      BY <2>2, <3>3
    <3> HIDE DEF keep, last
    <3> QED
      BY <3>3, <3>4, <1>1
  <2> QED
    BY <2>1, <2>2
<1>3. /\ running' = SubSeq(running, 1, keep)
      /\ ended' = [m \in Modules |-> IF \E i \in keep + 1 .. n : running[i].m = m
                                     THEN "failed" ELSE ended[m]]
  BY DEF Unwound
<1> QED
  BY <1>2, <1>3

(* The chunks in progress are of different modules, which are running.     *)
LEMMA AtWork ==
  ASSUME RequireIInv
  PROVE  /\ ended \in [Modules -> {"never", "running", "well", "failed"}]
         /\ Len(running) \in Nat
         /\ running \in Seq([m : Modules, guarded : BOOLEAN])
         /\ \A i \in 1 .. Len(running) : running[i].m \in Modules
         /\ \A i, j \in 1 .. Len(running) : running[i].m = running[j].m => i = j
         /\ \A m \in Modules :
              ended[m] = "running" <=> \E i \in 1 .. Len(running) : running[i].m = m
<1>1. /\ running \in Seq([m : Modules, guarded : BOOLEAN])
      /\ ended \in [Modules -> {"never", "running", "well", "failed"}]
  BY DEF RequireIInv, RequireTypeOK
<1>2. /\ Len(running) \in Nat
      /\ \A i \in 1 .. Len(running) : running[i] \in [m : Modules, guarded : BOOLEAN]
  BY <1>1, ElementOfSeq, LenProperties
<1>3. \A i, j \in 1 .. Len(running) : running[i].m = running[j].m => i = j
  BY DEF RequireIInv, ModulesOnce
<1>4. \A m \in Modules :
        ended[m] = "running" <=> \E i \in 1 .. Len(running) : running[i].m = m
  BY DEF RequireIInv, ModulesOnce, ModuleInProgress
<1> QED
  BY <1>1, <1>2, <1>3, <1>4

(* What is left of the chunks is the same chunks. *)
LEMMA Below ==
  ASSUME RequireIInv, NEW keep \in 0 .. Len(running)
  PROVE  /\ SubSeq(running, 1, keep) \in Seq([m : Modules, guarded : BOOLEAN])
         /\ Len(SubSeq(running, 1, keep)) = keep
         /\ \A i \in 1 .. keep : SubSeq(running, 1, keep)[i] = running[i]
<1>1. running \in Seq([m : Modules, guarded : BOOLEAN])
  BY DEF RequireIInv, RequireTypeOK
<1>2. /\ Len(running) \in Nat
      /\ \A i \in 1 .. Len(running) : running[i] \in [m : Modules, guarded : BOOLEAN]
  BY <1>1, ElementOfSeq, LenProperties
<1>3. \A i \in 1 .. keep : i \in 1 .. Len(running)
  BY <1>2
<1>4. \A i \in 1 .. keep : running[i] \in [m : Modules, guarded : BOOLEAN]
  BY <1>2, <1>3
<1> QED
  BY <1>1, <1>2, <1>4, SubSeqProperties

(* An error marks the chunks it ends, and those below are still running.   *)
LEMMA UnwoundIInv ==
  ASSUME RequireIInv, Unwound(running), loaded' = loaded
  PROVE  RequireIInv'
<1> DEFINE n == Len(running)
<1>1. PICK keep \in 0 .. n :
        /\ running' = SubSeq(running, 1, keep)
        /\ ended' = [m \in Modules |-> IF \E i \in keep + 1 .. n : running[i].m = m
                                       THEN "failed" ELSE ended[m]]
  BY UnwoundKeeps
<1>2. /\ running' \in Seq([m : Modules, guarded : BOOLEAN]) /\ Len(running') = keep
      /\ \A i \in 1 .. keep : running'[i] = running[i]
  BY <1>1, Below
<1>3. /\ ended \in [Modules -> {"never", "running", "well", "failed"}] /\ n \in Nat
      /\ \A i \in 1 .. n : running[i].m \in Modules
      /\ \A i, j \in 1 .. n : running[i].m = running[j].m => i = j
      /\ \A m \in Modules : ended[m] = "running" <=> \E i \in 1 .. n : running[i].m = m
  BY AtWork
<1>4. RequireTypeOK'
  BY <1>1, <1>2, <1>3 DEF RequireIInv, RequireTypeOK
<1>5. \A i, j \in 1 .. keep : running'[i].m = running'[j].m => i = j
  BY <1>2, <1>3
<1>6. ASSUME NEW m \in Modules
      PROVE  /\ (ended'[m] = "running") = \E i \in 1 .. keep : running'[i].m = m
             /\ ended'[m] = IF \E i \in keep + 1 .. n : running[i].m = m THEN "failed" ELSE ended[m]
             /\ ended'[m] = "failed" /\ ended[m] # "failed" => ended[m] = "running"
  <2>1. ended'[m] = IF \E i \in keep + 1 .. n : running[i].m = m THEN "failed" ELSE ended[m]
    BY <1>1
  <2>2. CASE \E i \in keep + 1 .. n : running[i].m = m
    <3>1. PICK i \in keep + 1 .. n : running[i].m = m
      BY <2>2
    <3>2. ~ \E j \in 1 .. keep : running'[j].m = m
      BY <3>1, <1>2, <1>3
    <3>3. ended[m] = "running"
      BY <3>1, <1>3
    <3> QED
      BY <2>1, <2>2, <3>2, <3>3
  <2>3. CASE ~ \E i \in keep + 1 .. n : running[i].m = m
    <3>1. (\E i \in 1 .. keep : running'[i].m = m) <=> \E i \in 1 .. n : running[i].m = m
      BY <2>3, <1>2, <1>3
    <3> QED
      BY <2>1, <2>3, <3>1, <1>3
  <2> QED
    BY <2>2, <2>3
<1>7. ModulesOnce'
  <2>1. \A m \in Modules : (ended'[m] = "running") = ModuleInProgress(m)'
    BY <1>2, <1>6 DEF ModuleInProgress
  <2> QED
    BY <2>1, <1>2, <1>5, <1>6 DEF RequireIInv, ModulesOnce, MarkedAtWork
<1>8. MarkedAtWork'
  BY <1>6 DEF RequireIInv, MarkedAtWork
<1> QED
  BY <1>4, <1>7, <1>8 DEF RequireIInv

(* A chunk starts only when its module is not at work; what another chunk  *)
(* of it had left has not failed.                                          *)
LEMMA LoadIInv ==
  ASSUME RequireIInv, NEW m \in Modules, NEW guarded \in BOOLEAN, Load(m, guarded)
  PROVE  RequireIInv'
<1> DEFINE n == Len(running)
           chunk == [m |-> m, guarded |-> guarded]
<1>1. /\ loaded[m] \notin Truthy /\ loaded' = [loaded EXCEPT ![m] = "sentinel"]
      /\ running' = Append(running, chunk) /\ ended' = [ended EXCEPT ![m] = "running"]
  BY DEF Load
<1>2. RequireTypeOK /\ ModulesOnce /\ MarkedAtWork
  BY DEF RequireIInv
<1>3. /\ running \in Seq([m : Modules, guarded : BOOLEAN]) /\ n \in Nat
      /\ \A i, j \in 1 .. n : running[i].m = running[j].m => i = j
      /\ \A k \in Modules : ended[k] = "running" <=> \E i \in 1 .. n : running[i].m = k
  BY AtWork
<1>4. ended[m] \in {"never", "well"}
  BY <1>1, <1>2 DEF ModulesOnce
<1>5. /\ running' \in Seq([m : Modules, guarded : BOOLEAN]) /\ Len(running') = n + 1
      /\ running'[n + 1].m = m /\ \A i \in 1 .. n : running'[i] = running[i]
  <2>1. chunk \in [m : Modules, guarded : BOOLEAN]
    OBVIOUS
  <2> HIDE DEF chunk
  <2>2. /\ running' \in Seq([m : Modules, guarded : BOOLEAN]) /\ Len(running') = n + 1
        /\ running'[n + 1] = chunk /\ \A i \in 1 .. n : running'[i] = running[i]
    BY <2>1, <1>1, <1>3, AppendProperties
  <2> QED
    BY <2>2 DEF chunk
<1>6. RequireTypeOK'
  BY <1>1, <1>2, <1>5 DEF RequireTypeOK, Loaded
<1>7. /\ ended'[m] = "running" /\ loaded'[m] = "sentinel"
      /\ \A k \in Modules : k # m => ended'[k] = ended[k] /\ loaded'[k] = loaded[k]
  BY <1>1, <1>2 DEF RequireTypeOK
<1>8. \A i, j \in 1 .. n + 1 : running'[i].m = running'[j].m => i = j
  <2>1. \A i \in 1 .. n : running'[i].m # m
    BY <1>3, <1>4, <1>5
  <2> QED
    BY <2>1, <1>3, <1>5
<1>9. \A k \in Modules : (ended'[k] = "running") = \E i \in 1 .. n + 1 : running'[i].m = k
  <2> SUFFICES ASSUME NEW k \in Modules
               PROVE  ended'[k] = "running" <=> \E i \in 1 .. n + 1 : running'[i].m = k
    OBVIOUS
  <2>1. CASE k # m
    <3>1. (\E i \in 1 .. n + 1 : running'[i].m = k) <=> \E i \in 1 .. n : running[i].m = k
      BY <2>1, <1>3, <1>5
    <3> QED
      BY <3>1, <2>1, <1>3, <1>7
  <2>2. CASE k = m
    <3>1. n + 1 \in 1 .. n + 1
      BY <1>3
    <3> QED
      BY <3>1, <2>2, <1>5, <1>7
  <2> QED
    BY <2>1, <2>2
<1>10. ModulesOnce'
  <2>1. \A k \in Modules : (ended'[k] = "running") = ModuleInProgress(k)'
    BY <1>5, <1>9 DEF ModuleInProgress
  <2> QED
    BY <2>1, <1>2, <1>5, <1>7, <1>8 DEF ModulesOnce, Truthy, Loaded
<1>11. MarkedAtWork'
  BY <1>2, <1>7 DEF MarkedAtWork
<1> QED
  BY <1>6, <1>10, <1>11 DEF RequireIInv

(* The chunk of the module on top is the only one of its module. *)
LEMMA TopChunk ==
  ASSUME RequireIInv, running # <<>>
  PROVE  /\ Len(running) \in Nat \ {0} /\ Top.m \in Modules /\ ended[Top.m] = "running"
         /\ Top = running[Len(running)]
<1>1. /\ Len(running) \in Nat /\ running \in Seq([m : Modules, guarded : BOOLEAN])
      /\ \A i \in 1 .. Len(running) : running[i].m \in Modules
      /\ \A m \in Modules :
           ended[m] = "running" <=> \E i \in 1 .. Len(running) : running[i].m = m
  BY AtWork
<1>2. Len(running) # 0
  BY <1>1, EmptySeq
<1> QED
  BY <1>1, <1>2 DEF Top

LEMMA ModuleIInv ==
  ASSUME RequireIInv, Module
  PROVE  RequireIInv'
<1>1. /\ running # <<>> /\ loaded' = [loaded EXCEPT ![Top.m] = "table"]
      /\ running' = running /\ ended' = ended
  BY DEF Module
<1>2. PICK m \in Modules : m = Top.m /\ ended[m] = "running"
  BY <1>1, TopChunk
<1>3. loaded' = [loaded EXCEPT ![m] = "table"]
  BY <1>1, <1>2
<1>4. RequireTypeOK /\ ModulesOnce /\ MarkedAtWork
  BY DEF RequireIInv
<1>5. loaded'[m] = "table" /\ \A k \in Modules : k # m => loaded'[k] = loaded[k]
  BY <1>3, <1>4 DEF RequireTypeOK
<1>6. RequireTypeOK'
  BY <1>1, <1>3, <1>4 DEF RequireTypeOK, Loaded
<1>7. ModulesOnce'
  <2>1. ASSUME NEW k \in Modules
        PROVE  /\ loaded'[k] = "sentinel" => ended[k] \in {"running", "failed"}
               /\ loaded'[k] \notin Truthy => ended[k] \in {"never", "well"}
               /\ ended[k] = "failed" => loaded'[k] \in {"sentinel", "table"}
    <3>1. CASE k = m
      BY <3>1, <1>2, <1>5 DEF Truthy, Loaded
    <3>2. CASE k # m
      BY <3>2, <1>4, <1>5 DEF ModulesOnce
    <3> QED
      BY <3>1, <3>2
  <2>2. \A i, j \in 1 .. Len(running) : running[i].m = running[j].m => i = j
    BY <1>4 DEF ModulesOnce
  <2>3. \A k \in Modules : (ended'[k] = "running") = ModuleInProgress(k)'
    BY <1>1, <1>4 DEF ModulesOnce, ModuleInProgress
  <2> QED
    BY <2>1, <2>2, <2>3, <1>1 DEF ModulesOnce
<1>8. MarkedAtWork'
  BY <1>1, <1>4, <1>5 DEF MarkedAtWork
<1> QED
  BY <1>6, <1>7, <1>8 DEF RequireIInv

LEMMA ReturnIInv ==
  ASSUME RequireIInv, NEW r \in {"nil", "returned", "false"}, ChunkReturns(r)
  PROVE  RequireIInv'
<1> DEFINE n == Len(running)
<1>1. /\ running # <<>>
      /\ loaded' = [loaded EXCEPT ![Top.m] = IF r # "nil" THEN r
                                               ELSE IF @ = "sentinel" THEN "true" ELSE @]
      /\ running' = SubSeq(running, 1, n - 1) /\ ended' = [ended EXCEPT ![Top.m] = "well"]
  BY DEF ChunkReturns
<1>2. n \in Nat \ {0}
  BY <1>1, TopChunk
<1>3. PICK m \in Modules : m = Top.m /\ ended[m] = "running" /\ m = running[n].m
  BY <1>1, TopChunk
<1>4. /\ loaded' = [loaded EXCEPT ![m] = IF r # "nil" THEN r
                                         ELSE IF @ = "sentinel" THEN "true" ELSE @]
      /\ ended' = [ended EXCEPT ![m] = "well"]
  BY <1>1, <1>3
<1>5. RequireTypeOK /\ ModulesOnce /\ MarkedAtWork
  BY DEF RequireIInv
<1>6. /\ loaded' \in [Modules -> Loaded] /\ loaded'[m] # "sentinel"
      /\ ended'[m] = "well"
      /\ \A k \in Modules : k # m => loaded'[k] = loaded[k] /\ ended'[k] = ended[k]
  BY <1>4, <1>5 DEF RequireTypeOK, Loaded
<1>7. n - 1 \in 0 .. n
  BY <1>2
<1>8. /\ running' \in Seq([m : Modules, guarded : BOOLEAN]) /\ Len(running') = n - 1
      /\ \A i \in 1 .. n - 1 : running'[i] = running[i]
  BY <1>1, <1>7, Below
<1>9. /\ \A i, j \in 1 .. n : running[i].m = running[j].m => i = j
      /\ \A k \in Modules : ended[k] = "running" <=> \E i \in 1 .. n : running[i].m = k
  BY AtWork
<1>10. RequireTypeOK'
  BY <1>4, <1>5, <1>6, <1>8 DEF RequireTypeOK
<1>11. \A i, j \in 1 .. n - 1 : running'[i].m = running'[j].m => i = j
  BY <1>2, <1>8, <1>9
<1>12. ASSUME NEW k \in Modules
       PROVE  (ended'[k] = "running") = \E i \in 1 .. n - 1 : running'[i].m = k
  <2>1. CASE k = m
    <3>1. \A i \in 1 .. n - 1 : running[i].m # m
      BY <1>2, <1>3, <1>9
    <3> QED
      BY <3>1, <2>1, <1>6, <1>8
  <2>2. CASE k # m
    <3>1. (\E i \in 1 .. n - 1 : running'[i].m = k) <=> \E i \in 1 .. n : running[i].m = k
      BY <2>2, <1>2, <1>3, <1>8
    <3>2. ended'[k] = ended[k]
      BY <2>2, <1>6
    <3>3. ended[k] = "running" <=> \E i \in 1 .. n : running[i].m = k
      BY <1>9
    <3> QED
      BY <3>1, <3>2, <3>3
  <2> QED
    BY <2>1, <2>2
<1>13. ModulesOnce'
  <2>1. \A k \in Modules : (ended'[k] = "running") = ModuleInProgress(k)'
    BY <1>8, <1>12 DEF ModuleInProgress
  <2> QED
    BY <2>1, <1>5, <1>6, <1>8, <1>11 DEF ModulesOnce
<1>14. MarkedAtWork'
  BY <1>5, <1>6 DEF MarkedAtWork
<1> QED
  BY <1>10, <1>13, <1>14 DEF RequireIInv

LEMMA RequireNextIInv ==
  ASSUME RequireIInv, [RequireNext]_requireVars
  PROVE  RequireIInv'
<1>1. ASSUME NEW m \in Modules, NEW guarded \in BOOLEAN, Refuse(m, guarded)
      PROVE  RequireIInv'
  <2>1. CASE guarded
    <3>1. loaded' = loaded /\ running' = running /\ ended' = ended
      BY <2>1, <1>1 DEF Refuse
    <3> QED
      BY <3>1 DEF RequireIInv, RequireTypeOK, ModulesOnce, MarkedAtWork, ModuleInProgress
  <2>2. CASE ~guarded
    BY <2>2, <1>1, UnwoundIInv DEF Refuse
  <2> QED
    BY <2>1, <2>2
<1>2. CASE ChunkFails
  BY <1>2, UnwoundIInv DEF ChunkFails
<1>3. CASE UNCHANGED requireVars
  BY <1>3 DEF requireVars, RequireIInv, RequireTypeOK, ModulesOnce, MarkedAtWork, ModuleInProgress
<1>4. ASSUME NEW m \in Modules, Again(m)
      PROVE  RequireIInv'
  BY <1>3, <1>4 DEF Again
<1> QED
  BY <1>1, <1>2, <1>3, <1>4, LoadIInv, ModuleIInv, ReturnIInv DEF RequireNext

(* No chunk runs inside itself, and a module that failed is not tried      *)
(* again (ll_require's sentinel, ll_module), whatever modules there are.   *)
THEOREM ModulesOnceAlways == RequireSpec => []ModulesOnce
<1>1. RequireInit => RequireIInv
  <2>1. <<>> \in Seq([m : Modules, guarded : BOOLEAN]) /\ Len(<<>>) = 0
    BY EmptySeq
  <2> SUFFICES ASSUME RequireInit
               PROVE  RequireIInv
    OBVIOUS
  <2>2. RequireTypeOK /\ MarkedAtWork
    BY <2>1 DEF RequireInit, RequireTypeOK, MarkedAtWork, Loaded
  <2>3. \A m \in Modules : ended[m] = "never" /\ loaded[m] = "nil"
    BY DEF RequireInit
  <2>4. \A i, j \in 1 .. Len(running) : running[i].m = running[j].m => i = j
    BY <2>1 DEF RequireInit
  <2>5. \A m \in Modules : (ended[m] = "running") = ModuleInProgress(m)
    <3>1. \A m \in Modules : ~ \E i \in 1 .. Len(running) : running[i].m = m
      <4>1. Len(running) = 0
        BY <2>1 DEF RequireInit
      <4> QED
        BY <4>1
    <3> QED
      BY <2>3, <3>1 DEF ModuleInProgress
  <2>6. \A m \in Modules :
          /\ loaded[m] = "sentinel" => ended[m] \in {"running", "failed"}
          /\ loaded[m] \notin Truthy => ended[m] \in {"never", "well"}
          /\ ended[m] = "failed" => loaded[m] \in {"sentinel", "table"}
    BY <2>3
  <2> QED
    BY <2>2, <2>4, <2>5, <2>6 DEF RequireIInv, ModulesOnce
<1>2. RequireIInv /\ [RequireNext]_requireVars => RequireIInv'
  BY RequireNextIInv
<1>3. RequireIInv => ModulesOnce
  BY DEF RequireIInv
<1> QED
  BY <1>1, <1>2, <1>3, PTL DEF RequireSpec

=============================================================================
