----------------------------- MODULE Coroutines -----------------------------
(***************************************************************************)
(* What a program may rely on: coroutines resume each other in a chain     *)
(* whose last member alone runs; a transfer hands over the values given to *)
(* it and no others, here the name of the thread that gives; nothing of a  *)
(* coroutine that does not run changes, so that it continues where it      *)
(* yielded; an error that it does not catch ends a coroutine for good and  *)
(* leaves its resumer to go on.                                            *)
(***************************************************************************)
EXTENDS Integers, Sequences

CONSTANTS Main, Co

VARIABLES
  chain,    \* who resumed whom, from the main program to the one that runs
  phase,    \* of each coroutine: "none", "fresh", "suspended", "active" or "dead"
  frames,   \* for each thread the variables of its functions in progress
  handed    \* for each thread what its last operation gave it

vars == <<chain, phase, frames, handed>>

States == {Main} \cup Co
Running == chain[Len(chain)]
Idle    == chain = <<>>
Resumer == SubSeq(chain, 1, Len(chain) - 1)
Keep(X) == \A t \in States \ X : frames'[t] = frames[t] /\ handed'[t] = handed[t]

Init ==
  /\ chain = <<>>
  /\ phase = [c \in Co |-> "none"]
  /\ frames = [t \in States |-> <<>>]
  /\ handed = [t \in States |-> <<>>]

Begin ==
  /\ Idle
  /\ chain' = <<Main>>
  /\ UNCHANGED phase
  /\ Keep({Main})

(* The program computes, calls, fails and catches what failed.             *)
Compute ==
  /\ ~Idle
  /\ UNCHANGED <<chain, phase>>
  /\ Keep({Running})

Create(c) ==
  /\ ~Idle
  /\ phase[c] = "none"
  /\ phase' = [phase EXCEPT ![c] = "fresh"]
  /\ UNCHANGED <<chain, frames>>
  /\ Keep({Running})

(* A fresh coroutine gets its values as arguments, a suspended one as what *)
(* its yield returns.                                                      *)
Start(c) ==
  /\ ~Idle
  /\ phase[c] = "fresh"
  /\ phase' = [phase EXCEPT ![c] = "active"]
  /\ chain' = Append(chain, c)
  /\ frames' = [frames EXCEPT ![c] = <<Running>>]
  /\ handed' = [handed EXCEPT ![c] = <<>>, ![Running] = <<>>]

Continue(c) ==
  /\ ~Idle
  /\ phase[c] = "suspended"
  /\ phase' = [phase EXCEPT ![c] = "active"]
  /\ chain' = Append(chain, c)
  /\ UNCHANGED frames
  /\ handed' = [handed EXCEPT ![c] = <<Running>>, ![Running] = <<>>]

(* resume says whether it succeeded, the function wrap made does not.      *)
Given == {<<Running>>, <<"true", Running>>}

Yield ==
  /\ Len(chain) > 1
  /\ phase' = [phase EXCEPT ![Running] = "suspended"]
  /\ chain' = Resumer
  /\ UNCHANGED frames
  /\ \E g \in Given : handed' = [handed EXCEPT ![Running] = <<>>, ![chain[Len(chain) - 1]] = g]

Finish ==
  /\ Len(chain) > 1
  /\ phase' = [phase EXCEPT ![Running] = "dead"]
  /\ chain' = Resumer
  /\ Len(frames[Running]) = 1
  /\ frames' = [frames EXCEPT ![Running] = <<>>]
  /\ \E g \in Given : handed' = [handed EXCEPT ![Running] = <<>>, ![chain[Len(chain) - 1]] = g]

(* An error ends every coroutine up to the first resumer that catches it;  *)
(* that one goes on, the main program may end.  A fresh coroutine whose    *)
(* resume was the error, for too many were nested, is lost.                *)
Die ==
  /\ ~Idle
  /\ \E n \in 0 .. Len(chain), lost \in {{}} \cup {{c} : c \in Co} :
       LET gone == {chain[i] : i \in n + 1 .. Len(chain)}
       IN  /\ \A c \in lost : phase[c] = "fresh"
           /\ chain' = SubSeq(chain, 1, n)
           /\ phase' = [c \in Co |-> IF c \in gone \cup lost THEN "dead" ELSE phase[c]]
           /\ Keep(gone \cup {chain[i] : i \in {n} \ {0}})

End ==
  /\ chain = <<Main>>
  /\ chain' = <<>>
  /\ UNCHANGED phase
  /\ Keep({Main})

(* The collector takes a coroutine that does not run.                      *)
Forget(c) ==
  /\ phase[c] \in {"fresh", "suspended", "dead"}
  /\ phase' = [phase EXCEPT ![c] = "none"]
  /\ UNCHANGED chain
  /\ frames' = [frames EXCEPT ![c] = <<>>]
  /\ handed' = [handed EXCEPT ![c] = <<>>]

Next ==
  \/ Compute \/ Begin \/ End \/ Yield \/ Finish
  \/ \E c \in Co : Create(c) \/ Start(c) \/ Continue(c) \/ Forget(c)
  \/ Die

Spec == Init /\ [][Next]_vars
=============================================================================
