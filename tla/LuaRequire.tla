----------------------------- MODULE LuaRequire -----------------------------
(***************************************************************************)
(* require and module (loadlib.c): the table of loaded modules, in which a *)
(* sentinel stands for a module while its chunk runs.  Chunks require      *)
(* other modules, make themselves known with module, return anything or    *)
(* nothing, and fail; a failure ends every chunk up to the next pcall.     *)
(***************************************************************************)
EXTENDS Integers, Sequences

CONSTANTS
  Modules,
  MaxRuns     \* how often the chunk of a module may run

(* What _LOADED holds for a module: nothing, the sentinel, the table that  *)
(* module made, what the chunk returned, or true for a chunk that returned *)
(* nothing.                                                                *)
Loaded == {"nil", "sentinel", "table", "returned", "false", "true"}
Truthy == Loaded \ {"nil", "false"}

VARIABLES
  loaded,    \* _LOADED
  running,   \* the chunks in progress, each [m, guarded]: required in a pcall
  runs,      \* how often each module's chunk was started: history
  ended      \* how the last run of a chunk ended: "never", "running", "well", "failed"

requireVars == <<loaded, running, runs, ended>>

ModuleInProgress(m) == \E i \in 1 .. Len(running) : running[i].m = m
Top == running[Len(running)]

RequireInit ==
  /\ loaded = [m \in Modules |-> "nil"]
  /\ running = <<>>
  /\ runs = [m \in Modules |-> 0]
  /\ ended = [m \in Modules |-> "never"]

(* An error: lua_call does not come back in the chunks up to the one       *)
(* required in a pcall, and what they left in _LOADED stays there.         *)
Unwound(chunks) ==
  LET guards == {i \in 1 .. Len(chunks) : chunks[i].guarded}
      keep   == IF guards = {} THEN 0 ELSE (CHOOSE i \in guards : \A j \in guards : j <= i) - 1
  IN  /\ running' = SubSeq(chunks, 1, keep)
      /\ ended' = [m \in Modules |-> IF \E i \in keep + 1 .. Len(chunks) : chunks[i].m = m THEN "failed" ELSE ended[m]]

(* ll_require of a module that is loaded: it answers what is there.        *)
Again(m) == loaded[m] \in Truthy \ {"sentinel"} /\ UNCHANGED requireVars

(* The sentinel is found, or no loader finds the module: an error, unless  *)
(* this call of require was itself in a pcall.                             *)
Refuse(m, guarded) ==
  /\ loaded[m] \notin Truthy \ {"sentinel"}
  /\ IF guarded THEN UNCHANGED <<running, ended>> ELSE Unwound(running)
  /\ UNCHANGED <<loaded, runs>>

(* Mutant of Load: the sentinel is set when the chunk has run. *)
LoadUnmarked(m, guarded) ==
  /\ loaded[m] \notin Truthy
  /\ runs[m] < MaxRuns
  /\ running' = Append(running, [m |-> m, guarded |-> guarded])
  /\ runs' = [runs EXCEPT ![m] = @ + 1]
  /\ ended' = [ended EXCEPT ![m] = "running"]
  /\ UNCHANGED loaded

(* A loader finds the module, the sentinel is set and its chunk starts.    *)
Load(m, guarded) ==
  /\ loaded[m] \notin Truthy
  /\ runs[m] < MaxRuns
  /\ loaded' = [loaded EXCEPT ![m] = "sentinel"]
  /\ running' = Append(running, [m |-> m, guarded |-> guarded])
  /\ runs' = [runs EXCEPT ![m] = @ + 1]
  /\ ended' = [ended EXCEPT ![m] = "running"]

(* ll_module, called by the chunk: the module's table takes the place of   *)
(* the sentinel.                                                           *)
Module ==
  /\ running # <<>>
  /\ loaded' = [loaded EXCEPT ![Top.m] = "table"]
  /\ UNCHANGED <<running, runs, ended>>

(* The chunk returns r: a value, or nil for none.                          *)
ChunkReturns(r) ==
  /\ running # <<>>
  /\ loaded' = [loaded EXCEPT ![Top.m] = IF r # "nil" THEN r ELSE IF @ = "sentinel" THEN "true" ELSE @]
  /\ running' = SubSeq(running, 1, Len(running) - 1)
  /\ ended' = [ended EXCEPT ![Top.m] = "well"]
  /\ UNCHANGED runs

ChunkFails ==
  /\ running # <<>>
  /\ Unwound(running)
  /\ UNCHANGED <<loaded, runs>>

RequireNext ==
  \/ \E m \in Modules : Again(m)
  \/ \E m \in Modules, guarded \in BOOLEAN : Refuse(m, guarded) \/ Load(m, guarded)
  \/ \E r \in {"nil", "returned", "false"} : ChunkReturns(r)
  \/ Module \/ ChunkFails

RequireSpec == RequireInit /\ [][RequireNext]_requireVars

-----------------------------------------------------------------------------
(* No chunk runs inside itself, however modules require each other, and a  *)
(* chunk is started again only when it returned false: a module that fails *)
(* is never tried again, and require refuses it for ever - unless it had   *)
(* called module, in which case it passes for loaded (ll_require).         *)
ModulesOnce ==
  /\ \A i, j \in 1 .. Len(running) : running[i].m = running[j].m => i = j
  /\ \A m \in Modules :
       /\ (ended[m] = "running") = ModuleInProgress(m)
       /\ loaded[m] = "sentinel" => ended[m] \in {"running", "failed"}
       /\ loaded[m] \notin Truthy => ended[m] \in {"never", "well"}
       /\ ended[m] = "failed" => loaded[m] \in {"sentinel", "table"}

(* The strengthening that is inductive: a chunk in progress finds its own  *)
(* module marked, by require or by module.                                 *)
RequireTypeOK ==
  /\ loaded \in [Modules -> Loaded]
  /\ running \in Seq([m : Modules, guarded : BOOLEAN])
  /\ ended \in [Modules -> {"never", "running", "well", "failed"}]

MarkedAtWork == \A m \in Modules : ended[m] = "running" => loaded[m] \in {"sentinel", "table"}

RequireIInv == RequireTypeOK /\ ModulesOnce /\ MarkedAtWork
=============================================================================
