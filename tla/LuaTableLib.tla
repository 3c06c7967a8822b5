---------------------------- MODULE LuaTableLib ----------------------------
(***************************************************************************)
(* ltablib.c: insert and remove, which move the elements one by one, and   *)
(* sort, a quicksort in place that asks a script for each comparison.  The *)
(* script may answer inconsistently, look at the table it is sorting, or   *)
(* raise an error, so one comparison is one step.                          *)
(***************************************************************************)
EXTENDS Integers, Sequences, SequencesExt, FiniteSets

CONSTANTS
  Arrays,   \* the arrays to sort, sequences of numbers
  LuaNil    \* Lua's nil, what is read before and after an array

ASSUME SortParameters == Arrays \subseteq Seq(Int) /\ LuaNil \notin Int

VARIABLES
  array, given,   \* the table, as it is and as it was
  order,          \* "<", or "any" for a script that answers at will
  l, u, i, j, P,  \* auxsort's variables; P is the pivot
  calls,          \* <<l, u>> of the calls of auxsort that wait for this one
  pc              \* the comparison that comes next

sortVars == <<array, given, order, l, u, i, j, P, calls, pc>>

-----------------------------------------------------------------------------

(* Mutant of tinsert: the elements are moved up from the first one on. *)
tinsertUp(t, pos, v) ==
  LET n == Len(t)
      e == IF pos > n + 1 THEN pos ELSE n + 1
      moved == FoldLeft(LAMBDA r, k : [r EXCEPT ![pos + k] = r[pos + k - 1]],
                        t \o [k \in 1 .. e - n |-> LuaNil], [k \in 1 .. e - pos |-> k])
  IN  [moved EXCEPT ![pos] = v]

(* tinsert and tremove, on an array of n elements.  A position beyond the  *)
(* first empty one makes the array grow, with nil in between.              *)
tinsert(t, pos, v) ==
  LET n == Len(t)
      e == IF pos > n + 1 THEN pos ELSE n + 1
      moved == FoldLeft(LAMBDA r, k : [r EXCEPT ![e + 1 - k] = r[e - k]],
                        t \o [k \in 1 .. e - n |-> LuaNil], [k \in 1 .. e - pos |-> k])
  IN  [moved EXCEPT ![pos] = v]

(* The element removed, and the table with nil in the last place. *)
tremove(t, pos) ==
  IF pos \notin 1 .. Len(t) THEN <<LuaNil, t>>
  ELSE LET moved == FoldLeft(LAMBDA r, k : [r EXCEPT ![pos + k - 1] = r[pos + k]],
                             t, [k \in 1 .. Len(t) - pos |-> k])
       IN  <<t[pos], Front(moved)>>

-----------------------------------------------------------------------------
(* sort *)
Read(k) == IF k \in DOMAIN array THEN array[k] ELSE LuaNil
(* Mutant of set2: one of the two places is written. *)
set2Once(a, x, y) == [a EXCEPT ![x] = a[y]]

set2(a, x, y) == [a EXCEPT ![x] = a[y], ![y] = a[x]]

SortInit ==
  /\ given \in Arrays /\ array = given /\ order \in {"<", "any"}
  /\ l = 1 /\ u = Len(array) /\ i = 0 /\ j = 0 /\ P = LuaNil
  /\ calls = <<>> /\ pc = "first"

(* sort_comp: nil is an error of the script or of "<". *)
Answers(x, y) ==
  IF LuaNil \in {x, y} THEN {} ELSE IF order = "<" THEN {x < y} ELSE BOOLEAN

Return ==
  IF calls = <<>> THEN pc' = "done" /\ UNCHANGED <<l, u, calls>>
  ELSE /\ l' = Last(calls)[1] /\ u' = Last(calls)[2] /\ calls' = Front(calls) /\ pc' = "first"

(* The loop is done when the range has one element. *)
Single ==
  /\ pc = "first" /\ l >= u
  /\ Return
  /\ UNCHANGED <<array, given, order, i, j, P>>

(* a[u] < a[l]? *)
First ==
  /\ pc = "first" /\ l < u
  /\ \E lt \in Answers(array[u], array[l]) : array' = IF lt THEN set2(array, l, u) ELSE array
  /\ IF u - l = 1 THEN Return /\ UNCHANGED i
     ELSE i' = (l + u) \div 2 /\ pc' = "middle" /\ UNCHANGED <<l, u, calls>>
  /\ UNCHANGED <<given, order, j, P>>

(* The pivot goes to the place before the last. *)
Partition(a) ==
  IF u - l = 2 THEN Return /\ array' = a /\ UNCHANGED <<i, j, P>>
  ELSE /\ P' = a[i] /\ array' = set2(a, i, u - 1)
       /\ i' = l /\ j' = u - 1 /\ pc' = "up"
       /\ UNCHANGED <<l, u, calls>>

(* a[i] < a[l]? *)
Middle ==
  /\ pc = "middle"
  /\ \E lt \in Answers(array[i], array[l]) :
       IF lt THEN Partition(set2(array, i, l))
       ELSE pc' = "upper" /\ UNCHANGED <<array, l, u, i, j, P, calls>>
  /\ UNCHANGED <<given, order>>

(* a[u] < a[i]? *)
Upper ==
  /\ pc = "upper"
  /\ \E lt \in Answers(array[u], array[i]) :
       Partition(IF lt THEN set2(array, i, u) ELSE array)
  /\ UNCHANGED <<given, order>>

(* Mutant of Up: i stays where it is. *)
UpStay ==
  /\ pc = "up"
  /\ \E lt \in Answers(Read(i + 1), P) :
       /\ pc' = IF lt THEN "up" ELSE "down"
       /\ i' = IF lt THEN i ELSE i + 1
  /\ UNCHANGED <<array, given, order, l, u, j, P, calls>>

(* ++i until a[i] >= P. *)
Up ==
  /\ pc = "up"
  /\ i' = i + 1
  /\ \E lt \in Answers(Read(i + 1), P) :
       pc' = IF ~lt THEN "down" ELSE IF i + 1 > u THEN "error" ELSE "up"
  /\ UNCHANGED <<array, given, order, l, u, j, P, calls>>

(* The pivot comes back, and the smaller part is sorted first, by a call. *)
Split(k) ==
  LET lower  == <<l, k - 1>>
      higher == <<k + 1, u>>
      small  == IF k - l < u - k THEN lower ELSE higher
      large  == IF k - l < u - k THEN higher ELSE lower
  IN  /\ array' = set2(array, u - 1, k)
      /\ calls' = Append(calls, large)
      /\ l' = small[1] /\ u' = small[2] /\ pc' = "first"

(* --j until a[j] <= P; a pair out of order is swapped. *)
Down ==
  /\ pc = "down"
  /\ j' = j - 1
  /\ \E lt \in Answers(P, Read(j - 1)) :
       IF lt THEN pc' = (IF j - 1 < l THEN "error" ELSE "down") /\ UNCHANGED <<array, l, u, calls>>
       ELSE IF j - 1 < i THEN Split(i)
       ELSE array' = set2(array, i, j - 1) /\ pc' = "up" /\ UNCHANGED <<l, u, calls>>
  /\ UNCHANGED <<given, order, i, P>>

(* The script raises an error, or is given a nil and complains. *)
Raise ==
  /\ pc \notin {"done", "error"}
  /\ order = "any" \/ (pc = "up" /\ Read(i + 1) = LuaNil) \/ (pc = "down" /\ Read(j - 1) = LuaNil)
  /\ pc' = "error"
  /\ UNCHANGED <<array, given, order, l, u, i, j, P, calls>>

SortNext == Single \/ First \/ Middle \/ Upper \/ Up \/ Down \/ Raise

SortSpec == SortInit /\ [][SortNext]_sortVars /\ WF_sortVars(SortNext)

-----------------------------------------------------------------------------
LibTypeOK ==
  /\ DOMAIN array = DOMAIN given
  /\ l \in 1 .. Len(array) + 1 /\ u \in 0 .. Len(array)
  /\ i \in 0 .. Len(array) + 1 /\ j \in 0 .. Len(array)
  /\ pc \in {"first", "middle", "upper", "up", "down", "done", "error"}

(* Whatever the order function answers, and whenever it gives up, the      *)
(* table holds the elements that it had.                                   *)
NothingLost ==
  LET count(a) == [x \in ToSet(given) |-> Cardinality({k \in DOMAIN a : a[k] = x})]
  IN  ToSet(array) \subseteq ToSet(given) /\ count(array) = count(given)

(* With an order, sort ends without a complaint and the table is sorted. *)
Sorted ==
  order = "<" =>
    /\ pc # "error"
    /\ pc = "done" => \A k \in 2 .. Len(array) : array[k - 1] <= array[k]

(* The comment at sort, "assume array is smaller than 2^40", for the 40    *)
(* slots it asks for: the calls nest no deeper than the logarithm.         *)
twoto[n \in Nat] == IF n = 0 THEN 1 ELSE 2 * twoto[n - 1]
DepthIsLog == order = "<" /\ calls # <<>> => twoto[Len(calls) + 1] <= Len(array)

(* What sort promises of the table and of the stack. *)
ArraySorted == LibTypeOK /\ NothingLost /\ Sorted /\ DepthIsLog

(* With an order, sort ends.  (An order function that changes its mind can *)
(* keep it going for ever: a range may be split into itself.)              *)
SortEnds == order = "<" => <>(pc = "done")

(* insert puts the value where it is asked to, keeps every element in its *)
(* order around it, also when the array grows, and remove takes back what  *)
(* insert put.                                                             *)
InsertKeeps ==
  pc = "first" /\ array = given => \A pos \in 1 .. Len(array) + 3 :
    LET t == tinsert(array, pos, 0) IN
    /\ t[pos] = 0
    /\ SubSeq(t, 1, pos - 1) \o SubSeq(t, pos + 1, Len(t))
         = array \o [k \in 1 .. pos - 1 - Len(array) |-> LuaNil]
    /\ pos <= Len(array) + 1 => tremove(t, pos) = <<0, array>>

=============================================================================
