------------------------ MODULE TinkerObjectsProofs ------------------------
(***************************************************************************)
(* Proofs about the objects scripts own, for any number of objects and     *)
(* userdata, and about what a read of such an object finds, for any        *)
(* hierarchy of classes: the members of the class, else of its parent, ... *)
(***************************************************************************)
EXTENDS TinkerObjects, TinkerClass, SequenceTheorems, WellFoundedInduction, TLAPS

(* The invariant holds initially: there is nothing yet. *)
LEMMA InitInv == Init => IInv
  BY TinkerObjectsAssumption
  DEF Init, IInv, TypeOK, DeletedOnce, GcOwns, OwnerLeft, Made, Used, Users

(* Making a userdata with an owner of its own keeps the invariant. *)
LEMMA PushValueInv ==
  ASSUME IInv, NEW u \in Udata, NEW o \in Objects, PushValue(u, o)
  PROVE  IInv'
  <1> USE DEF IInv
  <1>1. /\ owner[o] = None /\ udata[u] = None /\ ~closing /\ registered \in BOOLEAN
        /\ owner' = [owner EXCEPT ![o] = IF registered THEN "script" ELSE "early"]
        /\ alive' = alive \cup {o}
        /\ udata' = [udata EXCEPT ![u] = [kind |-> "val", m_p |-> o, gc |-> registered]]
        /\ held' = held \cup {u} /\ UNCHANGED <<registered, tmudata, closing>>
    BY DEF PushValue, NewUser, TypeOK
  <1>2. Used' = Used \cup {u} /\ u \notin Used
    BY <1>1, TinkerObjectsAssumption DEF Used, TypeOK, Users
  <1>3. TypeOK'
    BY <1>1, <1>2 DEF TypeOK, Users
  <1>4. /\ udata'[u] = [kind |-> "val", m_p |-> o, gc |-> registered]
        /\ \A w \in Used : udata'[w] = udata[w] /\ w # u
    BY <1>1, <1>2 DEF TypeOK
  <1>5. \A w \in Used : udata[w].kind = "val" =>
          udata[w].m_p # o /\ owner'[udata[w].m_p] = owner[udata[w].m_p]
    <2> SUFFICES ASSUME NEW w \in Used, udata[w].kind = "val"
                 PROVE  udata[w].m_p # o /\ owner'[udata[w].m_p] = owner[udata[w].m_p]
      OBVIOUS
    <2>1. owner[udata[w].m_p] \in {"script", "early"}
      BY DEF DeletedOnce
    <2>2. udata[w].m_p # o
      BY <2>1, <1>1, TinkerObjectsAssumption
    <2> QED BY <2>2, <1>1 DEF TypeOK
  <1>6. DeletedOnce'
    BY <1>1, <1>2, <1>4, <1>5 DEF DeletedOnce, TypeOK
  <1>7. GcOwns'
    <2>1. \A w \in Used' : udata'[w].kind = "val" =>
            (udata'[w].gc <=> owner'[udata'[w].m_p] = "script")
      BY <1>1, <1>2, <1>4, <1>5 DEF GcOwns, TypeOK
    <2>2. \A w \in tmudata' : udata'[w].gc
      BY <1>1, <1>2, <1>4 DEF GcOwns, TypeOK
    <2> QED BY <2>1, <2>2 DEF GcOwns
  <1>8. OwnerLeft'
    <2> SUFFICES ASSUME NEW p \in alive', owner'[p] = "script"
                 PROVE  \E w \in Used' : Owns(w, p)' /\ (closing' => w \in tmudata')
      BY DEF OwnerLeft
    <2>1. CASE p = o
      <3>1. registered = TRUE
        BY <2>1, <1>1 DEF TypeOK
      <3>2. u \in Used' /\ Owns(u, p)' /\ ~closing'
        BY <3>1, <2>1, <1>1, <1>2, <1>4 DEF Owns
      <3> QED BY <3>2
    <2>2. CASE p # o
      <3>1. p \in alive /\ owner[p] = "script"
        BY <2>2, <1>1 DEF TypeOK
      <3>2. PICK w \in Used : Owns(w, p)
        BY <3>1 DEF OwnerLeft
      <3>3. w \in Used' /\ Owns(w, p)' /\ ~closing'
        BY <3>2, <1>1, <1>2, <1>4 DEF Owns
      <3> QED BY <3>3
    <2> QED BY <2>1, <2>2
  <1>9. Made'
    BY <1>1, TinkerObjectsAssumption DEF Made, TypeOK
  <1> QED BY <1>3, <1>6, <1>7, <1>8, <1>9

(* Finalizing deletes what the userdata owned, and nothing else. *)
LEMMA FinalizeInv ==
  ASSUME IInv, NEW u \in Udata, Finalize(u)
  PROVE  IInv'
  <1> USE DEF IInv
  <1>1. /\ u \in tmudata /\ u \in Used
        /\ alive' = IF udata[u].kind = "val" THEN alive \ {udata[u].m_p} ELSE alive
        /\ tmudata' = tmudata \ {u} /\ udata' = [udata EXCEPT ![u] = None]
        /\ UNCHANGED <<registered, owner, held, closing>>
    BY DEF Finalize, Destroyer, TypeOK
  <1>2. Used' = Used \ {u}
    BY <1>1 DEF Used, TypeOK
  <1>3. \A w \in Used' : udata'[w] = udata[w] /\ w \in Used
    BY <1>1, <1>2 DEF Used, TypeOK
  <1>4. TypeOK'
    BY <1>1, <1>2 DEF TypeOK
  <1>5. \A w \in Used' : udata[w].kind = "val" => udata[w].m_p \in alive'
    BY <1>1, <1>2, <1>3 DEF DeletedOnce
  <1>6. DeletedOnce'
    BY <1>1, <1>2, <1>3, <1>5 DEF DeletedOnce
  <1>7. GcOwns'
    <2>1. \A w \in Used' : udata'[w].kind = "val" =>
            (udata'[w].gc <=> owner'[udata'[w].m_p] = "script")
      BY <1>1, <1>3 DEF GcOwns
    <2>2. \A w \in tmudata' : udata'[w].gc
      BY <1>1, <1>2, <1>3 DEF GcOwns, TypeOK
    <2> QED BY <2>1, <2>2 DEF GcOwns
  <1>8. OwnerLeft'
    <2> SUFFICES ASSUME NEW p \in alive', owner'[p] = "script"
                 PROVE  \E w \in Used' : Owns(w, p)' /\ (closing' => w \in tmudata')
      BY DEF OwnerLeft
    <2>1. p \in alive /\ owner[p] = "script"
      BY <1>1
    <2>2. PICK w \in Used : Owns(w, p) /\ (closing => w \in tmudata)
      BY <2>1 DEF OwnerLeft
    <2>3. w # u
      BY <2>2, <1>1 DEF Owns
    <2>4. w \in Used' /\ Owns(w, p)' /\ (closing' => w \in tmudata')
      BY <2>2, <2>3, <1>1, <1>2, <1>3 DEF Owns
    <2> QED BY <2>4
  <1>9. Made'
    BY <1>1 DEF Made
  <1> QED BY <1>4, <1>6, <1>7, <1>8, <1>9

(* Separating keeps it: what has no __gc owns nothing of the script's. *)
LEMMA SeparateInv ==
  ASSUME IInv, NEW u \in Udata, Separate(u)
  PROVE  IInv'
  <1> USE DEF IInv
  <1>1. /\ ~closing /\ u \in Used /\ u \notin held \cup tmudata
        /\ UNCHANGED <<registered, owner, alive, held, closing>>
    BY DEF Separate
  <1>2. CASE udata[u].gc /\ tmudata' = tmudata \cup {u} /\ udata' = udata
    <2>1. Used' = Used
      BY <1>2 DEF Used
    <2>2. TypeOK'
      BY <1>1, <1>2, <2>1 DEF TypeOK
    <2>3. DeletedOnce'
      BY <1>1, <1>2, <2>1 DEF DeletedOnce
    <2>4. GcOwns'
      BY <1>1, <1>2, <2>1 DEF GcOwns
    <2>5. OwnerLeft'
      BY <1>1, <1>2, <2>1 DEF OwnerLeft, Owns
    <2>6. Made'
      BY <1>1 DEF Made
    <2> QED BY <2>2, <2>3, <2>4, <2>5, <2>6
  <1>3. CASE ~udata[u].gc /\ udata' = [udata EXCEPT ![u] = None] /\ tmudata' = tmudata
    <2>1. Used' = Used \ {u} /\ \A w \in Used' : udata'[w] = udata[w] /\ w \in Used
      BY <1>1, <1>3 DEF Used, TypeOK
    <2>2. TypeOK'
      BY <1>1, <1>3, <2>1 DEF TypeOK
    <2>3. DeletedOnce'
      BY <1>1, <1>3, <2>1 DEF DeletedOnce
    <2>4. GcOwns'
      <3>1. \A w \in Used' : udata'[w].kind = "val" =>
              (udata'[w].gc <=> owner'[udata'[w].m_p] = "script")
        BY <1>1, <2>1 DEF GcOwns
      <3>2. \A w \in tmudata' : udata'[w].gc
        BY <1>1, <1>3, <2>1 DEF GcOwns, TypeOK
      <3> QED BY <3>1, <3>2 DEF GcOwns
    <2>5. OwnerLeft'
      <3> SUFFICES ASSUME NEW p \in alive', owner'[p] = "script"
                   PROVE  \E w \in Used' : Owns(w, p)' /\ (closing' => w \in tmudata')
        BY DEF OwnerLeft
      <3>1. p \in alive /\ owner[p] = "script"
        BY <1>1
      <3>2. PICK w \in Used : Owns(w, p)
        BY <3>1 DEF OwnerLeft
      <3>3. w # u
        BY <3>2, <1>3 DEF Owns
      <3>4. w \in Used' /\ Owns(w, p)' /\ ~closing'
        BY <3>2, <3>3, <1>1, <2>1 DEF Owns
      <3> QED BY <3>4
    <2>6. Made'
      BY <1>1 DEF Made
    <2> QED BY <2>2, <2>3, <2>4, <2>5, <2>6
  <1> QED BY <1>2, <1>3 DEF Separate

(* So does lua_close, which separates whatever has __gc. *)
LEMMA CloseInv ==
  ASSUME IInv, Close
  PROVE  IInv'
  <1> USE DEF IInv
  <1>1. /\ closing' = TRUE /\ held' = {}
        /\ tmudata' = {u \in Used : udata[u].gc}
        /\ udata' = [u \in Udata |-> IF u \in tmudata' THEN udata[u] ELSE None]
        /\ UNCHANGED <<registered, owner, alive>>
    BY DEF Close
  <1>2. Used' = tmudata' /\ \A w \in Used' : udata'[w] = udata[w] /\ w \in Used
    BY <1>1 DEF Used, TypeOK
  <1>3. TypeOK'
    BY <1>1, <1>2 DEF TypeOK, Used
  <1>4. DeletedOnce'
    BY <1>1, <1>2 DEF DeletedOnce
  <1>5. GcOwns'
    <2>1. \A w \in Used' : udata'[w].kind = "val" =>
            (udata'[w].gc <=> owner'[udata'[w].m_p] = "script")
      BY <1>1, <1>2 DEF GcOwns
    <2>2. \A w \in tmudata' : udata'[w].gc
      BY <1>1, <1>2
    <2> QED BY <2>1, <2>2 DEF GcOwns
  <1>6. OwnerLeft'
    <2> SUFFICES ASSUME NEW p \in alive', owner'[p] = "script"
                 PROVE  \E w \in Used' : Owns(w, p)' /\ (closing' => w \in tmudata')
      BY DEF OwnerLeft
    <2>1. p \in alive /\ owner[p] = "script"
      BY <1>1
    <2>2. PICK w \in Used : Owns(w, p)
      BY <2>1 DEF OwnerLeft
    <2>3. w \in Used' /\ Owns(w, p)' /\ w \in tmudata'
      BY <2>2, <1>1, <1>2 DEF Owns
    <2> QED BY <2>3
  <1>7. Made'
    BY <1>1 DEF Made
  <1> QED BY <1>3, <1>4, <1>5, <1>6, <1>7

(* A pointer owns nothing. *)
LEMMA PushPointerInv ==
  ASSUME IInv, NEW u \in Udata, NEW o \in Objects, PushPointer(u, o)
  PROVE  IInv'
  <1> USE DEF IInv
  <1>1. PICK kind \in {"ptr", "ref"} :
          /\ udata[u] = None /\ registered \in BOOLEAN
          /\ udata' = [udata EXCEPT ![u] = [kind |-> kind, m_p |-> o, gc |-> registered]]
          /\ held' = held \cup {u} /\ UNCHANGED <<registered, tmudata, closing, owner, alive>>
    BY DEF PushPointer, NewUser, TypeOK
  <1>2. Used' = Used \cup {u} /\ u \notin Used
    BY <1>1, TinkerObjectsAssumption DEF Used, TypeOK, Users
  <1>3. TypeOK'
    BY <1>1, <1>2 DEF TypeOK, Users
  <1>4. /\ udata'[u].kind # "val"
        /\ \A w \in Used : udata'[w] = udata[w] /\ w # u
    BY <1>1, <1>2 DEF TypeOK
  <1>5. DeletedOnce'
    BY <1>1, <1>2, <1>4 DEF DeletedOnce
  <1>6. GcOwns'
    <2>1. \A w \in Used' : udata'[w].kind = "val" =>
            (udata'[w].gc <=> owner'[udata'[w].m_p] = "script")
      BY <1>1, <1>2, <1>4 DEF GcOwns
    <2>2. \A w \in tmudata' : udata'[w].gc
      BY <1>1, <1>4 DEF GcOwns, TypeOK
    <2> QED BY <2>1, <2>2 DEF GcOwns
  <1>7. OwnerLeft'
    <2> SUFFICES ASSUME NEW p \in alive', owner'[p] = "script"
                 PROVE  \E w \in Used' : Owns(w, p)' /\ (closing' => w \in tmudata')
      BY DEF OwnerLeft
    <2>1. p \in alive /\ owner[p] = "script"
      BY <1>1
    <2>2. PICK w \in Used : Owns(w, p) /\ (closing => w \in tmudata)
      BY <2>1 DEF OwnerLeft
    <2>3. w \in Used' /\ Owns(w, p)' /\ (closing' => w \in tmudata')
      BY <2>2, <1>1, <1>2, <1>4 DEF Owns
    <2> QED BY <2>3
  <1>8. Made'
    BY <1>1 DEF Made
  <1> QED BY <1>3, <1>5, <1>6, <1>7, <1>8

(* What the program does with its own objects touches nobody else's. *)
LEMMA ProgramInv ==
  ASSUME IInv, NEW o \in Objects, ProgramNew(o) \/ ProgramDelete(o)
  PROVE  IInv'
  <1> USE DEF IInv
  <1>1. /\ owner[o] \in {None, "program"}
        /\ owner' = [owner EXCEPT ![o] = "program"]
        /\ alive' \in {alive \cup {o}, alive \ {o}}
        /\ UNCHANGED <<registered, udata, held, tmudata, closing>>
    BY DEF ProgramNew, ProgramDelete, TypeOK
  <1>2. Used' = Used
    BY <1>1 DEF Used
  <1>3. TypeOK'
    BY <1>1, <1>2 DEF TypeOK
  <1>4. \A w \in Used : udata[w].kind = "val" =>
          /\ udata[w].m_p # o
          /\ owner'[udata[w].m_p] = owner[udata[w].m_p]
          /\ udata[w].m_p \in alive'
    <2> SUFFICES ASSUME NEW w \in Used, udata[w].kind = "val"
                 PROVE  /\ udata[w].m_p # o
                        /\ owner'[udata[w].m_p] = owner[udata[w].m_p]
                        /\ udata[w].m_p \in alive'
      OBVIOUS
    <2>1. udata[w].m_p \in alive /\ owner[udata[w].m_p] \in {"script", "early"}
      BY DEF DeletedOnce
    <2>2. udata[w].m_p # o
      BY <2>1, <1>1, TinkerObjectsAssumption
    <2> QED BY <2>1, <2>2, <1>1 DEF TypeOK
  <1>5. DeletedOnce'
    BY <1>1, <1>2, <1>4 DEF DeletedOnce
  <1>6. GcOwns'
    BY <1>1, <1>2, <1>4 DEF GcOwns
  <1>7. OwnerLeft'
    <2> SUFFICES ASSUME NEW p \in alive', owner'[p] = "script"
                 PROVE  \E w \in Used' : Owns(w, p)' /\ (closing' => w \in tmudata')
      BY DEF OwnerLeft
    <2>1. p \in alive /\ owner[p] = "script"
      BY <1>1 DEF TypeOK
    <2> QED BY <2>1, <1>1, <1>2 DEF OwnerLeft, Owns
  <1>8. Made'
    BY <1>1, TinkerObjectsAssumption DEF Made, TypeOK
  <1> QED BY <1>3, <1>5, <1>6, <1>7, <1>8

(* Nor do the registration of the class and the script's letting go. *)
LEMMA OtherInv ==
  ASSUME IInv,
         /\ registered' \in BOOLEAN /\ held' \subseteq held
         /\ UNCHANGED <<owner, alive, udata, tmudata, closing>>
  PROVE  IInv'
  <1> USE DEF IInv
  <1>1. Used' = Used
    BY DEF Used
  <1>2. TypeOK'
    BY <1>1 DEF TypeOK
  <1>3. DeletedOnce'
    BY <1>1 DEF DeletedOnce
  <1>4. GcOwns' /\ OwnerLeft' /\ Made'
    BY <1>1 DEF GcOwns, OwnerLeft, Owns, Made
  <1> QED BY <1>2, <1>3, <1>4

(* Every step keeps the invariant. *)
LEMMA StepInv == IInv /\ [Next]_vars => IInv'
  <1> SUFFICES ASSUME IInv, [Next]_vars PROVE IInv'
    OBVIOUS
  <1>1. ASSUME Register PROVE IInv'
    BY <1>1, OtherInv DEF Register
  <1>2. ASSUME NEW u \in Udata, Drop(u) PROVE IInv'
    <2>1. held' \subseteq held /\ UNCHANGED <<registered, owner, alive, udata, tmudata, closing>>
      BY <1>2 DEF Drop
    <2> QED BY <2>1, OtherInv DEF IInv, TypeOK
  <1>3. ASSUME UNCHANGED vars PROVE IInv'
    BY <1>3, OtherInv DEF vars, IInv, TypeOK
  <1>4. ASSUME NEW o \in Objects, ProgramNew(o) \/ ProgramDelete(o) PROVE IInv'
    BY <1>4, ProgramInv
  <1>5. ASSUME NEW u \in Udata, NEW o \in Objects, PushValue(u, o) PROVE IInv'
    BY <1>5, PushValueInv
  <1>6. ASSUME NEW u \in Udata, NEW o \in Objects, PushPointer(u, o) PROVE IInv'
    BY <1>6, PushPointerInv
  <1>7. ASSUME NEW u \in Udata, Separate(u) PROVE IInv'
    BY <1>7, SeparateInv
  <1>8. ASSUME NEW u \in Udata, Finalize(u) PROVE IInv'
    BY <1>8, FinalizeInv
  <1>9. ASSUME Close PROVE IInv'
    BY <1>9, CloseInv
  <1> QED BY <1>1, <1>2, <1>3, <1>4, <1>5, <1>6, <1>7, <1>8, <1>9 DEF Next

(* The objects of the script and the userdata that will delete them: the   *)
(* invariant of val2user, destroyer and lua_close.                         *)
THEOREM TinkerObjectsInvariant == Spec => []IInv
  BY InitInv, StepInv, PTL DEF Spec

(* No object is deleted twice, or by a userdata that does not own it.      *)
THEOREM DeletedOnceAlways == Spec => []DeletedOnce
  <1>1. IInv => DeletedOnce
    BY DEF IInv
  <1> QED BY <1>1, TinkerObjectsInvariant, PTL

(* An object the script made is there exactly as long as its userdata.     *)
THEOREM KeptWhileHeldAlways == Spec => []KeptWhileHeld
  <1>1. IInv => KeptWhileHeld
    <2> SUFFICES ASSUME IInv, NEW o \in Objects, owner[o] = "script", ~closing
                 PROVE  o \in alive <=> \E u \in Used : Owns(u, o)
      BY DEF KeptWhileHeld
    <2>1. o \in alive => \E u \in Used : Owns(u, o)
      BY DEF IInv, OwnerLeft
    <2>2. ASSUME NEW u \in Used, Owns(u, o) PROVE o \in alive
      BY <2>2 DEF IInv, DeletedOnce, Owns
    <2> QED BY <2>1, <2>2
  <1> QED BY <1>1, TinkerObjectsInvariant, PTL

(* lua_close leaves none of them behind.                                   *)
THEOREM NothingLeftAlways == Spec => []NothingLeft
  <1>1. IInv => NothingLeft
    <2> SUFFICES ASSUME IInv, closing, tmudata = {}, NEW o \in alive
                 PROVE  owner[o] \in {"program", "early"}
      BY DEF NothingLeft, Closed
    <2>1. owner[o] # "script"
      BY DEF IInv, OwnerLeft
    <2> QED BY <2>1 DEF IInv, TypeOK, Made
  <1> QED BY <1>1, TinkerObjectsInvariant, PTL

-----------------------------------------------------------------------------
(* The fields of objects.                                                  *)

(* What a class's table holds under a name. *)
Fields == {NilValue, Method, Variable, Stored} \cup {Data(v) : v \in FieldValues}

(* The parent of a class is its base class, or not there; what a script    *)
(* first gave a name is still there.                                       *)
ClassIInv ==
  /\ added \subseteq Classes
  /\ meta \in [Classes -> [Keys -> Fields]]
  /\ first \in [Classes -> [Keys -> Fields]]
  /\ parent \in [Classes -> Classes \cup {Nothing}]
  /\ \A c \in Classes : parent[c] \in {Nothing, Base[c]}
  /\ object \in [Instances -> Classes \cup {Nothing}]
  /\ nilmeta \in Classes \cup {Nothing}
  /\ FirstStays

LEMMA ParentIsAbove ==
  ASSUME ClassIInv, NEW c \in Classes, parent[c] # Nothing
  PROVE  parent[c] \in Classes /\ Depth[parent[c]] < Depth[c]
<1>1. parent[c] = Base[c]
  BY DEF ClassIInv
<1> QED
  BY <1>1, ClassParameters

(* The classes above c are its parent and those above that. *)
LEMMA AboveStep ==
  ASSUME ClassIInv, NEW c \in Classes
  PROVE  /\ parent[c] = Nothing => Above(c) = {}
         /\ parent[c] # Nothing => Above(c) = {parent[c]} \cup Above(parent[c])
<1> DEFINE Closed_(S, d) == ({parent[d]} \cup {parent[q] : q \in S}) \ {Nothing} \subseteq S
<1>1. ASSUME parent[c] = Nothing
      PROVE  Above(c) = {}
  <2>1. ({parent[c]} \cup {parent[q] : q \in {}}) \ {Nothing} \subseteq {}
    BY <1>1
  <2> QED
    BY <2>1 DEF Above
<1>2. ASSUME parent[c] # Nothing
      PROVE  Above(c) = {parent[c]} \cup Above(parent[c])
  <2> DEFINE b == parent[c]
             T == {b} \cup Above(b)
  <2>1. b \in Classes
    BY <1>2, ParentIsAbove
  <2>2. T \in SUBSET Classes
    BY <2>1 DEF Above
  <2>3. ASSUME NEW q \in T, parent[q] # Nothing
        PROVE  parent[q] \in T
    <3>1. parent[q] \in Classes
      BY <2>2, <2>3, ParentIsAbove
    <3>2. parent[q] \in Above(b)
      <4> SUFFICES ASSUME NEW S \in SUBSET Classes, Closed_(S, b)
                   PROVE  parent[q] \in S
        BY <3>1 DEF Above
      <4>1. CASE q = b
        BY <2>3, <4>1
      <4>2. CASE q \in Above(b)
        <5>1. q \in S
          BY <4>2 DEF Above
        <5> QED
          BY <2>3, <5>1
      <4> QED
        BY <4>1, <4>2
    <3> QED
      BY <3>2
  <2>4. Above(c) \subseteq T
    <3>1. Closed_(T, c)
      BY <2>3
    <3> QED
      BY <2>2, <3>1 DEF Above
  <2>5. ASSUME NEW p \in T
        PROVE  p \in Above(c)
    <3>1. p \in Classes
      BY <2>2
    <3> SUFFICES ASSUME NEW S \in SUBSET Classes, Closed_(S, c)
                 PROVE  p \in S
      BY <3>1 DEF Above
    <3>2. b \in S
      BY <1>2
    <3>3. Closed_(S, b)
      BY <3>2
    <3>4. Above(b) \subseteq S
      BY <3>3 DEF Above
    <3> QED
      BY <3>2, <3>4
  <2> QED
    BY <2>4, <2>5
<1> QED
  BY <1>1, <1>2

(* They are higher up. *)
LEMMA AboveIsHigher ==
  ASSUME ClassIInv, NEW c \in Classes, NEW p \in Above(c)
  PROVE  p \in Classes /\ Depth[p] < Depth[c]
<1> DEFINE S == {q \in Classes : Depth[q] < Depth[c]}
<1>1. ASSUME NEW q \in Classes, q = c \/ q \in S, parent[q] # Nothing
      PROVE  parent[q] \in S
  <2>1. parent[q] \in Classes /\ Depth[parent[q]] < Depth[q]
    BY <1>1, ParentIsAbove
  <2>2. Depth[q] \in Nat /\ Depth[c] \in Nat /\ Depth[parent[q]] \in Nat
    BY <2>1, ClassParameters
  <2>3. Depth[parent[q]] < Depth[c]
    BY <1>1, <2>1, <2>2
  <2> QED
    BY <2>1, <2>3
<1>2. ({parent[c]} \cup {parent[q] : q \in S}) \ {Nothing} \subseteq S
  BY <1>1
<1>3. p \in S
  BY <1>2 DEF Above
<1> QED
  BY <1>3

(* What c inherits is what its parent holds or, if it is nothing, inherits. *)
LEMMA InheritedStep ==
  ASSUME ClassIInv, NEW c \in Classes, NEW k \in Keys
  PROVE  Inherited(c, k) = IF parent[c] = Nothing THEN NilValue
                           ELSE IF meta[parent[c]][k] # NilValue THEN meta[parent[c]][k]
                           ELSE Inherited(parent[c], k)
<1> DEFINE has(d) == {p \in Above(d) : meta[p][k] # NilValue}
           least(T) == CHOOSE p \in T : \A q \in T : Depth[q] <= Depth[p]
<1>1. \A d : Inherited(d, k) = IF has(d) = {} THEN NilValue ELSE meta[least(has(d))][k]
  BY DEF Inherited
<1>2. CASE parent[c] = Nothing
  BY <1>1, <1>2, AboveStep
<1>3. CASE parent[c] # Nothing
  <2> DEFINE b == parent[c]
  <2>1. b \in Classes /\ Above(c) = {b} \cup Above(b)
    BY <1>3, AboveStep, ParentIsAbove
  <2>2. CASE meta[b][k] = NilValue
    <3>1. has(c) = has(b)
      BY <2>1, <2>2
    <3> QED
      BY <1>1, <1>3, <2>2, <3>1
  <2>3. CASE meta[b][k] # NilValue
    <3>1. b \in has(c)
      BY <2>1, <2>3
    <3>2. \A q \in has(c) : q = b \/ (q \in Classes /\ Depth[q] < Depth[b])
      BY <2>1, AboveIsHigher
    <3>3. \A q \in Classes : Depth[q] \in Nat
      BY ClassParameters
    <3>4. \A q \in has(c) : Depth[q] <= Depth[b]
      BY <2>1, <3>2, <3>3
    <3>5. ASSUME NEW p \in has(c), \A q \in has(c) : Depth[q] <= Depth[p]
          PROVE  p = b
      <4>1. Depth[b] <= Depth[p]
        BY <3>1, <3>5
      <4> QED
        BY <2>1, <3>2, <3>3, <4>1
    <3> HIDE DEF has
    <3>6. least(has(c)) = b
      BY <3>1, <3>4, <3>5
    <3>7. Inherited(c, k) = meta[b][k]
      BY <1>1, <3>1, <3>6
    <3> QED
      BY <1>3, <2>3, <3>7
  <2> QED
    BY <2>2, <2>3
<1> QED
  BY <1>2, <1>3

(* Of the two values on top, the lower one goes. *)
LEMMA RemovesLower ==
  ASSUME NEW X, NEW S \in Seq(X), NEW a \in X, NEW v \in X
  PROVE  RemoveSecond(Append(Append(S, a), v)) = Append(S, v)
<1> DEFINE R == Append(Append(S, a), v)
<1>1. /\ R \in Seq(X) /\ Len(R) = Len(S) + 2 /\ R[Len(S) + 2] = v
      /\ \A i \in 1 .. Len(S) : R[i] = S[i]
  OBVIOUS
<1> HIDE DEF R
<1>2. Len(S) \in Nat
  OBVIOUS
<1>3. SubSeq(R, 1, Len(R) - 2) = S
  <2>1. SubSeq(R, 1, Len(R) - 2) \in Seq(X) /\ Len(SubSeq(R, 1, Len(R) - 2)) = Len(S)
    BY <1>1, <1>2
  <2>2. \A i \in 1 .. Len(S) : SubSeq(R, 1, Len(R) - 2)[i] = S[i]
    BY <1>1, <1>2
  <2> QED
    BY <2>1, <2>2
<1>4. Top(R) = v
  BY <1>1 DEF Top
<1>5. RemoveSecond(R) = Append(S, v)
  BY <1>3, <1>4 DEF RemoveSecond
<1> QED
  BY <1>5 DEF R

LEMMA RemoveSecondOf ==
  ASSUME NEW X, NEW S \in Seq(X), NEW a \in X, NEW v \in X
  PROVE  /\ RemoveSecond(Append(Append(S, a), v)) = Append(S, v)
         /\ S \o <<a, v>> = Append(Append(S, a), v)
         /\ Append(S, v) \in Seq(X) /\ Len(Append(S, v)) = Len(S) + 1 /\ Top(Append(S, v)) = v
         /\ \A i \in 1 .. Len(S) : Append(S, v)[i] = S[i]
<1>1. RemoveSecond(Append(Append(S, a), v)) = Append(S, v)
  BY RemovesLower
<1>2. S \o <<a, v>> = Append(Append(S, a), v)
  OBVIOUS
<1>3. /\ Append(S, v) \in Seq(X) /\ Len(Append(S, v)) = Len(S) + 1 /\ Top(Append(S, v)) = v
      /\ \A i \in 1 .. Len(S) : Append(S, v)[i] = S[i]
  BY DEF Top
<1> QED
  BY <1>1, <1>2, <1>3

(* What a class inherits is a field or nothing. *)
LEMMA InheritedIsField ==
  ASSUME ClassIInv, NEW c \in Classes, NEW k \in Keys
  PROVE  Inherited(c, k) \in Fields
<1> DEFINE has == {p \in Above(c) : meta[p][k] # NilValue}
<1>1. CASE has = {}
  <2>1. NilValue \in Fields
    BY DEF Fields
  <2> QED
    BY <1>1, <2>1 DEF Inherited
<1>2. CASE has # {}
  <2> DEFINE T == {Depth[p] : p \in has}
             best == CHOOSE p \in has : \A q \in has : Depth[q] <= Depth[p]
  <2>1. \A p \in has : p \in Classes /\ Depth[p] \in Nat /\ Depth[c] \in Nat /\ Depth[p] < Depth[c]
    BY AboveIsHigher, ClassParameters
  <2>2. \E p \in has : \A q \in has : Depth[q] <= Depth[p]
    <3> DEFINE gap(p) == Depth[c] - Depth[p]
               G == {gap(p) : p \in has}
    <3>1. G \subseteq Nat /\ G # {}
      BY <1>2, <2>1
    <3>2. PICK n \in G : \A m \in G : ~(<<m, n>> \in OpToRel(<, Nat))
      BY <3>1, NatLessThanWellFounded, WFMin
    <3>3. PICK p \in has : n = gap(p)
      OBVIOUS
    <3>4. ASSUME NEW q \in has
          PROVE  Depth[q] <= Depth[p]
      <4>1. gap(q) \in G /\ gap(q) \in Nat /\ gap(p) \in Nat
        BY <2>1
      <4>2. ~ gap(q) < gap(p)
        BY <3>2, <3>3, <4>1 DEF OpToRel
      <4> QED
        BY <2>1, <4>2
    <3> QED
      BY <3>4
  <2> HIDE DEF has
  <2>3. best \in has
    BY <2>2
  <2>4. meta[best][k] \in Fields
    BY <2>1, <2>3 DEF ClassIInv
  <2>5. Inherited(c, k) = meta[best][k]
    BY <1>2 DEF Inherited, has
  <2> QED
    BY <2>4, <2>5
<1> QED
  BY <1>1, <1>2

LEMMA FieldsAreEntries ==
  /\ Fields \subseteq Entries
  /\ \A c \in Classes : Table(c) \in Entries /\ Table(c).t = "table" /\ Table(c).x = c
BY DEF Fields, Entries, Entry, NilValue, Method, Variable, Stored, Data, Table

LEMMA RemoveSecondEntry ==
  \A S \in Seq(Entries), a, v \in Entries :
    /\ RemoveSecond(Append(Append(S, a), v)) = Append(S, v)
    /\ RemoveSecond(S \o <<a, v>>) = Append(S, v)
<1> TAKE S \in Seq(Entries), a, v \in Entries
<1>1. RemoveSecond(Append(Append(S, a), v)) = Append(S, v)
  BY RemovesLower
<1>2. S \o <<a, v>> = Append(Append(S, a), v)
  OBVIOUS
<1> QED
  BY <1>1, <1>2

LEMMA OnStacks ==
  ASSUME NEW S \in Seq(Entries), Len(S) >= 3, S[2].x \in Keys,
         NEW c \in Classes, Top(S) = Table(c)
  PROVE  S \in Stacks /\ Top(S).x = c
BY FieldsAreEntries DEF Stacks

(* The recursion along the parents leaves one value on the stack, what the *)
(* class inherits.                                                         *)
LEMMA InvokesNearest ==
  ASSUME ClassIInv, NEW S \in Stacks
  PROVE  invoke_parent[S] = Append(S, Inherited(Top(S).x, S[2].x))
<1> DEFINE F(f) == [R \in Stacks |->
             IF parent[Top(R).x] = Nothing THEN Append(R, NilValue)
             ELSE IF meta[parent[Top(R).x]][R[2].x] # NilValue
                  THEN RemoveSecond(R \o <<Table(parent[Top(R).x]), meta[parent[Top(R).x]][R[2].x]>>)
                  ELSE RemoveSecond(f[Append(R, Table(parent[Top(R).x]))])]
           g == [R \in Stacks |-> Append(R, Inherited(Top(R).x, R[2].x))]
<1>1. ASSUME NEW R \in Stacks
      PROVE  R \in Seq(Entries) /\ R[2].x \in Keys /\ Top(R).x \in Classes
  BY DEF Stacks
<1>2. ASSUME NEW R \in Stacks, parent[Top(R).x] # Nothing
      PROVE  /\ Append(R, Table(parent[Top(R).x])) \in Stacks
             /\ Top(Append(R, Table(parent[Top(R).x]))).x = parent[Top(R).x]
             /\ Append(R, Table(parent[Top(R).x]))[2] = R[2]
  <2> DEFINE p == parent[Top(R).x]
  <2>1. p \in Classes
    BY <1>1, <1>2, ParentIsAbove
  <2>2. Table(p) \in Entries /\ Table(p).t = "table" /\ Table(p).x = p
    BY <2>1, FieldsAreEntries
  <2>3. Len(R) \in Nat /\ Len(R) >= 3 /\ 2 \in 1 .. Len(R)
    BY <1>1 DEF Stacks
  <2> DEFINE next == Append(R, Table(p))
  <2>4. /\ next \in Seq(Entries) /\ Len(next) = Len(R) + 1
        /\ Top(next) = Table(p) /\ next[2] = R[2]
    BY <1>1, <2>2, <2>3, RemoveSecondOf
  <2> HIDE DEF next, p
  <2>5. Len(next) >= 3 /\ next[2].x \in Keys
    BY <1>1, <2>3, <2>4
  <2>6. next \in Stacks /\ Top(next).x = p
    BY <2>1, <2>4, <2>5, OnStacks
  <2> QED
    BY <2>4, <2>6 DEF next, p
<1>3. ASSUME NEW R \in Stacks
      PROVE  g[R] = F(g)[R]
  <2> DEFINE c == Top(R).x
             p == parent[c]
             k == R[2].x
             next == Append(R, Table(p))
  <2>1. c \in Classes /\ k \in Keys /\ R \in Seq(Entries) /\ g[R] = Append(R, Inherited(c, k))
    BY <1>1
  <2>2. CASE p = Nothing
    BY <2>1, <2>2, InheritedStep
  <2>3. CASE p # Nothing
    <3>1. p \in Classes /\ Table(p) \in Entries
      BY <2>1, <2>3, ParentIsAbove, FieldsAreEntries
    <3>2. CASE meta[p][k] # NilValue
      <4>1. Inherited(c, k) = meta[p][k] /\ meta[p][k] \in Entries
        BY <2>1, <2>3, <3>1, <3>2, InheritedStep, FieldsAreEntries DEF ClassIInv
      <4>2. RemoveSecond(R \o <<Table(p), meta[p][k]>>) = Append(R, meta[p][k])
        BY <2>1, <3>1, <4>1, RemoveSecondEntry
      <4> QED
        BY <2>1, <2>3, <3>2, <4>1, <4>2
    <3>3. CASE meta[p][k] = NilValue
      <4>1. next \in Stacks /\ Top(next).x = p /\ next[2] = R[2]
        BY <1>2, <2>3
      <4>2. g[next] = Append(next, Inherited(p, k))
        BY <4>1
      <4>3. Inherited(c, k) = Inherited(p, k) /\ Inherited(p, k) \in Entries
        BY <2>1, <2>3, <3>1, <3>3, InheritedStep, InheritedIsField, FieldsAreEntries
      <4>4. RemoveSecond(Append(Append(R, Table(p)), Inherited(p, k))) = Append(R, Inherited(p, k))
        BY <2>1, <3>1, <4>3, RemoveSecondEntry
      <4>5. RemoveSecond(g[next]) = g[R]
        BY <2>1, <4>2, <4>3, <4>4
      <4>6. F(g)[R] = RemoveSecond(g[next])
        BY <2>3, <3>3
      <4> QED
        BY <4>5, <4>6
    <3> QED
      BY <3>2, <3>3
  <2> QED
    BY <2>2, <2>3
<1>4. g = F(g)
  BY <1>3
<1> DEFINE f == invoke_parent
<1>5. f = F(f)
  BY <1>4 DEF invoke_parent
<1> HIDE DEF g, f
<1> DEFINE depth(R) == Depth[Top(R).x]
           wrong == {R \in Stacks : f[R] # g[R]}
           T == {depth(R) : R \in wrong}
<1>6. wrong = {}
  <2> SUFFICES ASSUME wrong # {}
               PROVE  FALSE
    OBVIOUS
  <2>1. \A R \in Stacks : depth(R) \in Nat
    BY <1>1, ClassParameters
  <2>2. T \subseteq Nat /\ T # {}
    BY <2>1
  <2>3. PICK n \in T : \A m \in T : ~(<<m, n>> \in OpToRel(<, Nat))
    BY <2>2, NatLessThanWellFounded, WFMin
  <2>4. PICK R \in wrong : n = depth(R)
    OBVIOUS
  <2> DEFINE c == Top(R).x
             p == parent[c]
             next == Append(R, Table(p))
  <2>5. R \in Stacks /\ c \in Classes /\ f[R] # g[R]
    BY <1>1
  <2>6. p # Nothing /\ meta[p][R[2].x] = NilValue
    <3> SUFFICES ASSUME ~(p # Nothing /\ meta[p][R[2].x] = NilValue)
                 PROVE  f[R] = g[R]
      BY <2>5
    <3>1. F(f)[R] = F(g)[R]
      BY <2>5
    <3> QED
      BY <1>4, <1>5, <3>1
  <2>7. next \in Stacks /\ depth(next) < depth(R)
    <3>1. next \in Stacks /\ Top(next).x = p
      BY <1>2, <2>5, <2>6
    <3>2. Depth[p] < Depth[c]
      BY <2>5, <2>6, ParentIsAbove
    <3> QED
      BY <3>1, <3>2
  <2>8. f[next] = g[next]
    <3> SUFFICES ASSUME next \in wrong
                 PROVE  FALSE
      BY <2>7
    <3>1. depth(next) \in T
      OBVIOUS
    <3>2. <<depth(next), n>> \in OpToRel(<, Nat)
      BY <2>1, <2>4, <2>5, <2>7 DEF OpToRel
    <3> QED
      BY <2>3, <3>1, <3>2
  <2>9. F(f)[R] = RemoveSecond(f[next]) /\ F(g)[R] = RemoveSecond(g[next])
    BY <2>5, <2>6
  <2>10. f[R] = F(f)[R] /\ g[R] = F(g)[R]
    BY <1>4, <1>5
  <2> QED
    BY <2>5, <2>8, <2>9, <2>10
<1>7. f[S] = g[S]
  BY <1>6
<1> QED
  BY <1>7 DEF f, g

(* A read leaves one value, what the nearest class says. *)
LEMMA ReadsTheNearest == ClassIInv => ReadsNearest
<1> SUFFICES ASSUME ClassIInv, NEW o \in Instances \cup {Nothing}, NEW k \in Keys, ClassOf(o) # Nothing
             PROVE  LET S == meta_get(o, k)
                        u == meta[ClassOf(o)][k]
                    IN  /\ Len(S) = 3
                        /\ Top(S) = CASE u = NilValue -> Inherited(ClassOf(o), k)
                                      [] u = Variable -> get(u, o, k)
                                      [] u = Stored -> Wild
                                      [] u \notin {NilValue, Variable, Stored} -> u
  BY DEF ReadsNearest
<1> DEFINE c == ClassOf(o)
           B == <<Entry("object", o), Entry("key", k)>>
           S == <<Entry("object", o), Entry("key", k), Table(c)>>
           u == meta[c][k]
<1>1. c \in Classes
  BY DEF ClassIInv, ClassOf
<1>2. u \in Fields
  BY <1>1 DEF ClassIInv
<1>3. /\ B \in Seq(Entries) /\ Len(B) = 2 /\ S = Append(B, Table(c))
      /\ Table(c) \in Entries
  BY <1>1, FieldsAreEntries DEF Entries, Entry
<1>4. S \in Stacks /\ Top(S).x = c /\ S[2].x = k
  <2>1. S \in Seq(Entries) /\ Len(S) = 3 /\ S[3] = Table(c) /\ S[2] = Entry("key", k)
    BY <1>3
  <2>2. Top(S) = Table(c)
    BY <2>1 DEF Top
  <2>3. Entry("key", k).x = k
    BY DEF Entry
  <2> HIDE DEF S, c
  <2>4. S[2].x \in Keys /\ Len(S) >= 3
    BY <2>1, <2>3
  <2> QED
    BY <1>1, <2>1, <2>2, <2>3, <2>4, OnStacks
<1>5. ASSUME NEW w
      PROVE  Len(RemoveSecond(Append(S, w))) = 3 /\ Top(RemoveSecond(Append(S, w))) = w
  <2> DEFINE X == Entries \cup {w}
             a == Table(c)
  <2>1. B \in Seq(X) /\ a \in X /\ w \in X
    BY <1>3
  <2>2. Len(B) = 2 /\ S = Append(B, a)
    BY <1>3
  <2> HIDE DEF B, X, a, S
  <2>3. /\ RemoveSecond(Append(Append(B, a), w)) = Append(B, w)
        /\ Len(Append(B, w)) = Len(B) + 1 /\ Top(Append(B, w)) = w
    <3>1. RemoveSecond(Append(Append(B, a), w)) = Append(B, w)
      BY <2>1, RemovesLower
    <3>2. Len(Append(B, w)) = Len(B) + 1 /\ Top(Append(B, w)) = w
      BY <2>1 DEF Top
    <3> QED
      BY <3>1, <3>2
  <2>4. RemoveSecond(Append(S, w)) = Append(B, w)
    BY <2>2, <2>3
  <2> QED
    BY <2>2, <2>3, <2>4
<1>6. /\ NilValue.t = "nil" /\ Variable.t = "userdata" /\ Stored.t = "userdata" /\ Method.t = "method"
      /\ Variable # Stored
      /\ \A v : Data(v).t = "data"
  BY DEF NilValue, Variable, Stored, Method, Data, Entry
<1>7. meta_get(o, k) = CASE u.t = "userdata" -> RemoveSecond(Append(S, get(u, o, k)))
                         [] u.t = "nil"      -> RemoveSecond(invoke_parent[S])
                         [] u.t \notin {"userdata", "nil"} -> RemoveSecond(Append(S, u))
  BY DEF meta_get
<1>8. invoke_parent[S] = Append(S, Inherited(c, k))
  BY <1>4, InvokesNearest
<1> DEFINE w == CASE u = NilValue -> Inherited(c, k)
                  [] u = Variable -> get(u, o, k)
                  [] u = Stored -> Wild
                  [] u \notin {NilValue, Variable, Stored} -> u
<1> HIDE DEF S, c
<1>9. meta_get(o, k) = RemoveSecond(Append(S, w))
  <2>1. CASE u = NilValue
    BY <1>6, <1>7, <1>8, <2>1
  <2>2. CASE u = Variable
    BY <1>6, <1>7, <2>2
  <2>3. CASE u = Stored
    <3>1. get(u, o, k) = Wild
      BY <1>6, <2>3 DEF get
    <3> QED
      BY <1>6, <1>7, <2>3, <3>1
  <2>4. CASE u \notin {NilValue, Variable, Stored}
    <3>1. u.t \notin {"userdata", "nil"}
      BY <1>2, <1>6, <2>4 DEF Fields
    <3> QED
      BY <1>7, <2>4, <3>1
  <2> QED
    BY <2>1, <2>2, <2>3, <2>4
<1> QED
  BY <1>5, <1>9 DEF c

LEMMA ClassInitInv == ClassInit => ClassIInv
BY ClassParameters DEF ClassInit, ClassIInv, Fields, FirstStays

LEMMA ClassStepInv == ClassIInv /\ [ClassNext]_classVars => ClassIInv'
<1> SUFFICES ASSUME ClassIInv, [ClassNext]_classVars
             PROVE  ClassIInv'
  OBVIOUS
<1> USE DEF ClassIInv
<1>1. ASSUME NEW c \in Classes, class_add(c)
      PROVE  ClassIInv'
  BY <1>1 DEF class_add, FirstStays
<1>2. ASSUME NEW c \in Classes, class_inh(c)
      PROVE  ClassIInv'
  <2>1. Base[c] \in added => Base[c] \in Classes
    OBVIOUS
  <2> QED
    BY <1>2, <2>1 DEF class_inh, FirstStays
<1>3. ASSUME NEW c \in Classes, PushNull(c)
      PROVE  ClassIInv'
  BY <1>3 DEF PushNull, FirstStays
<1>4. ASSUME NEW c \in Classes, NEW k \in Keys, NEW u \in Fields, Enter(c, k, u)
      PROVE  ClassIInv'
  <2>1. NilValue \in Fields
    BY DEF Fields
  <2>2. meta' = [meta EXCEPT ![c][k] = u] /\ first' = [first EXCEPT ![c][k] = NilValue]
    BY <1>4 DEF Enter
  <2>3. meta' \in [Classes -> [Keys -> Fields]] /\ first' \in [Classes -> [Keys -> Fields]]
    BY <2>1, <2>2
  <2>4. FirstStays'
    BY <2>2 DEF FirstStays
  <2> QED
    BY <1>4, <2>3, <2>4 DEF Enter
<1>5. ASSUME NEW c \in Classes, NEW k \in Keys, class_def(c, k) \/ class_mem(c, k)
      PROVE  ClassIInv'
  <2>1. Method \in Fields /\ Variable \in Fields
    BY DEF Fields
  <2> QED
    BY <1>4, <1>5, <2>1 DEF class_def, class_mem
<1>6. ASSUME NEW o \in Instances, NEW c \in Classes, NEW v \in FieldValues, constructor(o, c, v)
      PROVE  ClassIInv'
  BY <1>6 DEF constructor, FirstStays
<1>7. ASSUME NEW o \in Instances \cup {Nothing}, NEW k \in Keys,
             NEW u \in {Data(v) : v \in FieldValues} \cup {Stored}, meta_set(o, k, u)
      PROVE  ClassIInv'
  <2> DEFINE c == ClassOf(o)
  <2>1. c \in Classes /\ UNCHANGED <<added, parent, object, nilmeta>>
    BY <1>7 DEF meta_set, ClassOf
  <2>2. u \in Fields
    BY DEF Fields
  <2> HIDE DEF c
  <2>3. CASE UNCHANGED <<meta, first>>
    BY <2>1, <2>3 DEF FirstStays
  <2>4. CASE meta' = [meta EXCEPT ![c][k] = u] /\ first' = [first EXCEPT ![c][k] = u]
    <3>1. meta' \in [Classes -> [Keys -> Fields]] /\ first' \in [Classes -> [Keys -> Fields]]
      BY <2>2, <2>4
    <3>2. FirstStays'
      BY <2>4 DEF FirstStays
    <3> QED
      BY <2>1, <3>1, <3>2
  <2> QED
    BY <1>7, <2>3, <2>4 DEF meta_set, c
<1>8. CASE UNCHANGED classVars
  BY <1>8 DEF classVars, FirstStays
<1> QED
  BY <1>1, <1>2, <1>3, <1>5, <1>6, <1>7, <1>8 DEF ClassNext

(* Whatever the classes, their order of registration and what scripts      *)
(* assign: a read of a field finds what the nearest class says and leaves  *)
(* one value on the stack, and the first value a script gave a name the    *)
(* class does not have stays.                                              *)
THEOREM FieldsAgreeAlways == ClassSpec => []FieldsAgree
<1>1. ClassIInv => FieldsAgree
  BY ReadsTheNearest DEF ClassIInv, FieldsAgree
<1> QED
  BY <1>1, ClassInitInv, ClassStepInv, PTL DEF ClassSpec

=============================================================================
