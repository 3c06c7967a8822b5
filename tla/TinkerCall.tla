---------------------------- MODULE TinkerCall ----------------------------
(***************************************************************************)
(* lua_tinker's calls from C++ into scripts: call, dofile and dobuffer.    *)
(* Each pushes an error handler, runs the script in lua_pcall and takes    *)
(* its own slots off again.  Scripts call C++ functions back, these call   *)
(* scripts, and an error unwinds to the nearest lua_pcall.  All frames lie *)
(* on one array of slots: what a function leaves or takes too many belongs *)
(* to somebody.  The values handed to C++ are not table handles: those     *)
(* keep their slot, see TinkerTable.                                       *)
(***************************************************************************)
EXTENDS Integers, Sequences

CONSTANTS
  Values,     \* what C++ functions are passed and push
  Handler,    \* the closure of on_error
  Script,     \* a function of the script
  Native,     \* a C++ function
  LuaNil,     \* Lua's nil
  MaxFrames,  \* bound: frames at a time
  MaxHeld     \* bound: slots of one C++ frame

(* What is assumed of the parameters. *)
CallParameters == MaxFrames \in Nat \ {0} /\ MaxHeld \in Nat

Slots == Values \cup {Handler, Script, Native, LuaNil}

(* A C++ frame takes its function's slot and what it holds, a script its   *)
(* function's, and every call three slots while it prepares.               *)
StackSize == MaxFrames * (MaxHeld + 3) + 3

VARIABLES
  slots,   \* the array of the Lua stack
  top,     \* how many of its slots are in use
  frames   \* the CallInfos: odd ones are C++ functions, even ones scripts

callVars == <<slots, top, frames>>

CppFrames == {i \in 1 .. Len(frames) : i % 2 = 1}
Scripts   == {i \in 1 .. Len(frames) : i % 2 = 0}
Current   == frames[Len(frames)]
InCpp     == Len(frames) \in CppFrames
Caller    == Len(frames) - (IF InCpp THEN 2 ELSE 1)  \* the frame of the lua_pcall

CallInit ==
  /\ slots = [i \in 1 .. StackSize |-> LuaNil]
  /\ top = 1
  /\ frames = << [func |-> 1, by |-> "host", held |-> <<>>, fails |-> 0] >>

-----------------------------------------------------------------------------
(* The stack as the API leaves it: [slots, top]. *)
Stack == [slots |-> slots, top |-> top]

Push(s, v) == [slots |-> [s.slots EXCEPT ![s.top + 1] = v], top |-> s.top + 1]

PushAll(s, vs) ==
  [slots |-> [i \in 1 .. StackSize |-> IF i - s.top \in 1 .. Len(vs) THEN vs[i - s.top]
                                                                     ELSE s.slots[i]],
   top |-> s.top + Len(vs)]

Pop(s) == [s EXCEPT !.top = @ - 1]

(* lua_remove: the slots above move down, the last one keeps its value.    *)
lua_remove(s, idx) ==
  LET p == s.top + 1 + idx IN
  [slots |-> [i \in 1 .. StackSize |-> IF i \in p .. s.top - 1 THEN s.slots[i + 1]
                                                               ELSE s.slots[i]],
   top |-> s.top - 1]

(* The end of call: lua_remove(-2), the handler it says, and pop of the result. *)
CallFinish(s) == Pop(lua_remove(s, -2))

(* The end of dofile and dobuffer: the handler is popped. *)
LoadFinish(s) == Pop(s)

Finish(by, s) == IF by = "call" THEN CallFinish(s) ELSE LoadFinish(s)

Set(s) == slots' = s.slots /\ top' = s.top

-----------------------------------------------------------------------------
(* A C++ function calls a script, and lua_pcall enters it.  One that has   *)
(* lost its own slot too would go on in the slots of others: it stops here. *)
CallScript(by, args) ==
  /\ InCpp /\ Len(frames) < MaxFrames /\ top >= Current.func
  /\ Set(PushAll(Stack, <<Handler, Script>> \o args))
  /\ frames' = Append(frames, [func |-> top + 2, by |-> by, held |-> <<>>, fails |-> 0])

(* call with up to three arguments: one stands for them. *)
Call == \E v \in Values : CallScript("call", <<v>>)

(* dofile and dobuffer of a chunk that loads. *)
DoChunk == CallScript("chunk", <<>>)

(* call of a global that is no function: print_error reports, its own      *)
(* pushes undone, and the global's value is popped as the result.          *)
CallNoFunction ==
  /\ InCpp /\ top >= Current.func
  /\ \E v \in Values \cup {LuaNil} : Set(CallFinish(Push(Push(Stack, Handler), v)))
  /\ UNCHANGED frames

(* dofile and dobuffer of a chunk that does not load: the message and the  *)
(* handler are popped.                                                     *)
DoNoChunk ==
  /\ InCpp /\ top >= Current.func
  /\ \E v \in Values : Set(LoadFinish(Pop(Push(Push(Stack, Handler), v))))
  /\ UNCHANGED frames

(* A script calls a C++ function: invoke's arguments are its frame. *)
CallNative ==
  /\ ~InCpp /\ Len(frames) < MaxFrames
  /\ \E v \in Values : \E args \in {<<>>, <<v>>} :
       /\ Set(PushAll(Stack, <<Native>> \o args))
       /\ frames' = Append(frames, [func |-> top + 1, by |-> "script", held |-> args, fails |-> 0])

(* A C++ function pushes a value of its own, before its calls. *)
PushOwn ==
  /\ InCpp /\ Len(Current.held) < MaxHeld /\ Current.fails = 0
  /\ \E v \in Values :
       /\ Set(Push(Stack, v))
       /\ frames' = [frames EXCEPT ![Len(frames)].held = Append(@, v)]

(* A C++ function returns a value or none; the script takes it. *)
ReturnNative ==
  /\ InCpp /\ Len(frames) > 1
  /\ \E v \in Values \cup {LuaNil} :
       Set([slots |-> [slots EXCEPT ![Current.func] = v], top |-> Current.func - 1])
  /\ frames' = SubSeq(frames, 1, Len(frames) - 1)

(* The script ends: its result, if call asked for one, replaces the        *)
(* function, and call, dofile or dobuffer clears up.                       *)
ReturnScript ==
  /\ ~InCpp
  /\ LET below == [slots |-> slots, top |-> Current.func - 1] IN
     \E v \in Values \cup {LuaNil} :
       Set(IF Current.by = "call" THEN Finish("call", Push(below, v))
                                  ELSE Finish("chunk", below))
  /\ frames' = SubSeq(frames, 1, Len(frames) - 1)

(* Mutant of Fail: the error object is not popped. *)
FailKeepError ==
  /\ Len(frames) > 1
  /\ LET script == frames[Caller + 1]
         s == Push([slots |-> slots, top |-> script.func - 1], LuaNil)
     IN  /\ Set(Finish(script.by, s))
         /\ frames' = [SubSeq(frames, 1, Caller) EXCEPT ![Caller].fails =
                         IF script.by = "call" THEN @ + 1 ELSE @]

(* An error, of the script or of a C++ function it called: lua_pcall drops *)
(* the frames down to its caller's and leaves the object on_error returns, *)
(* nil, in the place of the function.  It is popped, and then comes what   *)
(* comes after a success.                                                  *)
Fail ==
  /\ Len(frames) > 1
  /\ LET script == frames[Caller + 1]
         s == Pop(Push([slots |-> slots, top |-> script.func - 1], LuaNil))
     IN  /\ Set(Finish(script.by, s))
         /\ frames' = [SubSeq(frames, 1, Caller) EXCEPT ![Caller].fails =
                         IF script.by = "call" THEN @ + 1 ELSE @]

CallNext ==
  \/ Call \/ DoChunk \/ CallNoFunction \/ DoNoChunk
  \/ CallNative \/ PushOwn \/ ReturnNative
  \/ ReturnScript \/ Fail

CallSpec == CallInit /\ [][CallNext]_callVars

-----------------------------------------------------------------------------
CallTypeOK ==
  /\ slots \in [1 .. StackSize -> Slots]
  /\ top \in 0 .. StackSize
  /\ frames \in Seq([func : 1 .. StackSize, by : {"host", "call", "chunk", "script"},
                     held : Seq(Values), fails : Nat])

(* What is left of a C++ frame's own slots. *)
Extent(i) == (IF i = Len(frames) THEN top ELSE frames[i + 1].func - 2) - frames[i].func
Content(i) == SubSeq(slots, frames[i].func + 1, frames[i].func + Extent(i))

(* A C++ function finds what it was passed and pushed as it left it, after *)
(* any calls into scripts that end well or fail, call each other, load or  *)
(* do not: except that each failed call has cost it one slot.              *)
OneSlotPerFailure ==
  \A i \in CppFrames :
    LET f == frames[i] IN
    /\ Extent(i) = Len(f.held) - f.fails
    /\ Content(i) = SubSeq(f.held, 1, Extent(i))

(* The frames below stay whole: a script in progress has its function and, *)
(* under it, the handler its lua_pcall names by index; a C++ function has  *)
(* its own slot until its calls failed more often than it had slots.       *)
FunctionsInPlace ==
  /\ \A i \in Scripts : slots[frames[i].func] = Script /\ slots[frames[i].func - 1] = Handler
  /\ \A i \in CppFrames : frames[i].fails <= Len(frames[i].held) =>
       slots[frames[i].func] = IF i = 1 THEN LuaNil ELSE Native

CallsLeaveStack == CallTypeOK /\ OneSlotPerFailure /\ FunctionsInPlace

(* What makes this inductive: the functions lie in the order of the calls, *)
(* no further apart than a frame is big, a C++ function directly above the *)
(* script that called it, and only the one that runs may have lost its own *)
(* slot; and FunctionsInPlace and OneSlotPerFailure frame by frame: frame  *)
(* i is f and has e slots of its own.                                      *)
FramesInOrder ==
  /\ Len(frames) \in 1 .. MaxFrames /\ frames[1].func = 1
  /\ \A i \in 1 .. Len(frames) :
       /\ frames[i].func <= (i - 1) * (MaxHeld + 3) + 1
       /\ \A j \in 1 .. i - 1 : frames[j].func < frames[i].func
       /\ Len(frames[i].held) <= MaxHeld + 1
  /\ \A i \in 2 .. Len(frames) :
       frames[i].func - frames[i - 1].func \in IF i \in CppFrames THEN 1 .. 2 ELSE Nat \ {0, 1}
  /\ top - Current.func \in IF InCpp THEN Nat \cup {-1} ELSE 0 .. 1

InPlace(i, f, e) ==
  IF i % 2 = 1
  THEN /\ e = Len(f.held) - f.fails
       /\ \A k \in 1 .. e : slots[f.func + k] = f.held[k]
       /\ f.fails <= Len(f.held) => slots[f.func] = IF i = 1 THEN LuaNil ELSE Native
  ELSE slots[f.func] = Script /\ slots[f.func - 1] = Handler

CallIInv ==
  /\ CallTypeOK /\ FramesInOrder
  /\ \A i \in 1 .. Len(frames) : InPlace(i, frames[i], Extent(i))

(* "Remove the error handling function from the stack" (the comment at     *)
(* call's lua_remove): a call leaves its caller's slots alone.             *)
CallerKept == \A i \in CppFrames : Content(i) = frames[i].held

=============================================================================
