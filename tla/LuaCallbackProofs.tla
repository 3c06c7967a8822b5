-------------------------- MODULE LuaCallbackProofs --------------------------
(***************************************************************************)
(* The callbacks into the script, when one thread makes them, for any      *)
(* frame size and any number of functions and failures.  That it is one    *)
(* thread is a hypothesis: with two, the frames get mixed up.              *)
(***************************************************************************)
EXTENDS LuaCallback, FiniteSetTheorems, TLAPS

LEMMA OneThread ==
  ASSUME NEW w, Threads = {w}
  PROVE  /\ StackSize = 6 + MaxFailures + FrameSize
         /\ StackSize \in Nat /\ MaxFailures \in Nat /\ FrameSize \in Nat /\ FrameSize >= 2
         /\ Frames = {1, 2}
         /\ w \in Threads
         /\ NArgs(w) \in {1, 2} /\ NArgs(w) <= FrameSize
         /\ \A i \in 1 .. NArgs(w) : i \in {1, 2} /\ Arg(w, i) \in Values
<1>1. Cardinality(Threads) = 1
  BY FS_Singleton
<1>2. \A i \in {1, 2} : <<w, i>> \in Threads \X {1, 2}
  OBVIOUS
<1> QED
  BY <1>1, <1>2, LuaCallbackAssumption DEF StackSize, Frames, NArgs, Arg, Values

LEMMA Constants ==
  /\ Ip \in Values /\ Port \in Values /\ ErrorObject \in Values /\ Nil \in Values
  /\ Functions \subseteq Values /\ Ip \notin Functions
BY LuaCallbackAssumption DEF Values

LEMMA InitIInv ==
  ASSUME NEW w, Threads = {w}, Init
  PROVE  IInv
<1> USE LuaCallbackAssumption DEF Init
<1>0. /\ StackSize \in Nat /\ StackSize >= 8 /\ MaxFailures \in Nat
      /\ Frames = {1, 2}
  BY OneThread
<1>1. TypeOK
  <2>1. DOMAIN stack = Slots /\ top \in 3 .. StackSize /\ base \in Slots /\ errfunc = 0
    BY <1>0 DEF Slots
  <2>2. DOMAIN cis = Frames /\ ci \in Frames
    BY <1>0
  <2>3. /\ pc \in [Threads -> {"idle", "push", "precall", "enter", "run", "raise"}]
        /\ status \in [Threads -> {LuaOk, LUA_ERRRUN, LUA_ERRERR}]
    OBVIOUS
  <2>4. failures \in 0 .. MaxFailures
    BY <1>0
  <2> QED
    BY <2>1, <2>2, <2>3, <2>4 DEF TypeOK
<1>2. LocalsOK
  <2>1. stack \in [Slots -> Values]
    BY Constants DEF Slots
  <2>2. cis \in [Frames -> [func : Int, base : Int, top : Int]] /\ cis[1].base = 2
    BY <1>0
  <2>3. saved \in [Threads -> [ci : Int, errfunc : Int, errorJmp : Threads \cup {NoThread}]]
    OBVIOUS
  <2> QED
    BY <2>1, <2>2, <2>3 DEF LocalsOK
<1>3. Bottom
  BY <1>0 DEF Bottom, Slots
<1>4. EveryErrorIsErrErr
  BY DEF EveryErrorIsErrErr
<1>5. \A t \in Threads : /\ pc[t] # "idle" => failures < MaxFailures
                         /\ AtIdle(t) /\ AtPush(t) /\ AtPrecall(t) /\ AtEnter(t) /\ AtRun(t) /\ AtRaise(t)
  BY DEF AtIdle, AtPush, AtPrecall, AtEnter, AtRun, AtRaise, InStartServer, Unguarded, Place
<1> QED
  BY <1>1, <1>2, <1>3, <1>4, <1>5 DEF IInv

LEMMA PushFunctionIInv ==
  ASSUME NEW w, Threads = {w}, IInv, PushFunction(w)
  PROVE  IInv'
<1> USE DEF PushFunction, PushValue, Place
<1>0. /\ StackSize = 6 + MaxFailures + FrameSize /\ MaxFailures \in Nat /\ FrameSize \in Nat
      /\ w \in Threads /\ NArgs(w) \in {1, 2} /\ failures \in Nat /\ failures < MaxFailures
      /\ InStartServer /\ Unguarded /\ top = 3 + failures
      /\ registered[w] \in Functions \cup {Nil}
  BY OneThread, LuaCallbackAssumption DEF IInv, TypeOK, AtIdle
<1>1. /\ DOMAIN stack = Slots /\ top + 1 \in Slots
      /\ \A s \in Slots : stack'[s] = IF s = 4 + failures THEN registered[w] ELSE stack[s]
      /\ stack' \in [Slots -> Values]
  BY <1>0, Constants DEF IInv, LocalsOK, Slots
<1>2. TypeOK'
  BY <1>0, <1>1 DEF IInv, TypeOK
<1>3. LocalsOK'
  BY <1>0, <1>1 DEF IInv, LocalsOK
<1>4. Bottom'
  BY <1>0, <1>1 DEF IInv, Bottom, Slots
<1>5. EveryErrorIsErrErr'
  BY DEF IInv, EveryErrorIsErrErr
<1>6. pc'[w] = "push" /\ pushed'[w] = 0 /\ fetched'[w] = registered[w]
  BY <1>0 DEF IInv, TypeOK, LocalsOK
<1>7. stack'[4 + failures] = registered[w]
  BY <1>0, <1>1
<1>8. AtPush(w)'
  BY <1>0, <1>6, <1>7 DEF AtPush, InStartServer, Unguarded, Prepared
<1>9. AtIdle(w)' /\ AtPrecall(w)' /\ AtEnter(w)' /\ AtRun(w)' /\ AtRaise(w)'
  BY <1>6 DEF AtIdle, AtPrecall, AtEnter, AtRun, AtRaise
<1> QED
  BY <1>0, <1>2, <1>3, <1>4, <1>5, <1>8, <1>9 DEF IInv

LEMMA PushArgumentIInv ==
  ASSUME NEW w, Threads = {w}, IInv, PushArgument(w)
  PROVE  IInv'
<1> USE DEF PushArgument, PushValue, Place
<1> DEFINE k == pushed[w]
<1>0. /\ StackSize = 6 + MaxFailures + FrameSize /\ MaxFailures \in Nat /\ FrameSize \in Nat
      /\ w \in Threads /\ NArgs(w) \in {1, 2} /\ NArgs(w) <= FrameSize
      /\ failures \in Nat /\ failures < MaxFailures
      /\ InStartServer /\ Unguarded /\ k \in Nat /\ k + 1 \in 1 .. NArgs(w) /\ top = 4 + failures + k
      /\ Prepared(w, k)
  BY OneThread, LuaCallbackAssumption DEF IInv, TypeOK, AtPush
<1>1. Arg(w, k + 1) \in Values
  BY <1>0, OneThread
<1>2. /\ \A s \in Slots : stack'[s] = IF s = 5 + failures + k THEN Arg(w, k + 1) ELSE stack[s]
      /\ stack' \in [Slots -> Values]
      /\ top + 1 \in Slots
  <2>1. top + 1 = 5 + failures + k /\ top + 1 \in Slots
    BY <1>0 DEF Slots
  <2>2. stack' = [stack EXCEPT ![top + 1] = Arg(w, k + 1)] /\ stack \in [Slots -> Values]
    BY DEF IInv, LocalsOK
  <2> QED
    BY <2>1, <2>2, <1>1
<1>3. TypeOK'
  BY <1>0, <1>2 DEF IInv, TypeOK
<1>4. LocalsOK'
  BY <1>0, <1>2 DEF IInv, LocalsOK
<1>5. Bottom'
  BY <1>0, <1>2 DEF IInv, Bottom, Slots
<1>6. EveryErrorIsErrErr'
  BY DEF IInv, EveryErrorIsErrErr
<1>7. pc'[w] = "push" /\ pushed'[w] = k + 1
  BY <1>0 DEF IInv, TypeOK, LocalsOK
<1>8. /\ stack'[4 + failures] = fetched[w]
      /\ \A i \in 1 .. k + 1 : stack'[4 + failures + i] = Arg(w, i)
  <2>1. stack'[4 + failures] = fetched[w]
    BY <1>0, <1>2 DEF Prepared, Slots
  <2>2. ASSUME NEW i \in 1 .. k + 1
        PROVE  stack'[4 + failures + i] = Arg(w, i)
    <3>1. 4 + failures + i \in Slots
      BY <1>0 DEF Slots
    <3> QED
      BY <3>1, <1>0, <1>2 DEF Prepared
  <2> QED
    BY <2>1, <2>2
<1>9. AtPush(w)'
  BY <1>0, <1>7, <1>8 DEF AtPush, InStartServer, Unguarded, Prepared, NArgs, Arg
<1>10. AtIdle(w)' /\ AtPrecall(w)' /\ AtEnter(w)' /\ AtRun(w)' /\ AtRaise(w)'
  BY <1>7 DEF AtIdle, AtPrecall, AtEnter, AtRun, AtRaise
<1> QED
  BY <1>0, <1>3, <1>4, <1>5, <1>6, <1>9, <1>10 DEF IInv

LEMMA PCallIInv ==
  ASSUME NEW w, Threads = {w}, IInv, PCall(w)
  PROVE  IInv'
<1> USE DEF PCall, Place
<1>0. /\ StackSize = 6 + MaxFailures + FrameSize /\ MaxFailures \in Nat /\ FrameSize \in Nat
      /\ w \in Threads /\ NArgs(w) \in {1, 2} /\ failures \in Nat /\ failures < MaxFailures
      /\ InStartServer /\ Unguarded /\ pushed[w] = NArgs(w) /\ top = 4 + failures + NArgs(w)
      /\ Prepared(w, NArgs(w))
  BY OneThread, LuaCallbackAssumption DEF IInv, TypeOK, AtPush
<1>1. /\ pc'[w] = "precall" /\ func'[w] = 4 + failures /\ errfunc' = 2 /\ errorJmp' = w
      /\ saved'[w] = [ci |-> 1, errfunc |-> 0, errorJmp |-> NoThread]
  BY <1>0 DEF IInv, TypeOK, LocalsOK, InStartServer, Unguarded
<1>2. TypeOK'
  BY <1>0, <1>1 DEF IInv, TypeOK, Slots
<1>3. LocalsOK'
  BY <1>0, <1>1 DEF IInv, LocalsOK, InStartServer, Unguarded
<1>4. Bottom' /\ EveryErrorIsErrErr'
  BY DEF IInv, Bottom, EveryErrorIsErrErr
<1>5. AtPrecall(w)'
  BY <1>0, <1>1 DEF AtPrecall, InStartServer, Guarded, Prepared
<1>6. AtIdle(w)' /\ AtPush(w)' /\ AtEnter(w)' /\ AtRun(w)' /\ AtRaise(w)'
  BY <1>1 DEF AtIdle, AtPush, AtEnter, AtRun, AtRaise
<1> QED
  BY <1>0, <1>2, <1>3, <1>4, <1>5, <1>6 DEF IInv

LEMMA PrecallIInv ==
  ASSUME NEW w, Threads = {w}, IInv, Precall(w)
  PROVE  IInv'
<1> USE DEF Precall, Place
<1>0. /\ w \in Threads /\ Frames = {1, 2} /\ failures < MaxFailures
      /\ InStartServer /\ Guarded(w) /\ top = 4 + failures + NArgs(w) /\ Prepared(w, NArgs(w))
      /\ func[w] = 4 + failures /\ failures \in Nat /\ fetched[w] = stack[func[w]]
  BY OneThread, LuaCallbackAssumption DEF IInv, TypeOK, AtPrecall, Guarded, Prepared
<1>1. Bottom' /\ EveryErrorIsErrErr'
  BY DEF IInv, Bottom, EveryErrorIsErrErr
<1>2. Guarded(w)' /\ Prepared(w, NArgs(w))'
  BY <1>0 DEF Guarded, Prepared, NArgs, Arg
<1>3. CASE stack[func[w]] \in Functions
  <2>1. /\ pc'[w] = "enter" /\ ci' = 2 /\ frame'[w] = 2
        /\ cis' = [cis EXCEPT ![2].func = 4 + failures]
    BY <1>0, <1>3 DEF IInv, TypeOK, LocalsOK, InStartServer
  <2>2. /\ cis' \in [Frames -> [func : Int, base : Int, top : Int]]
        /\ cis'[1] = cis[1] /\ cis'[2].func = 4 + failures
    BY <2>1, <1>0 DEF IInv, LocalsOK
  <2>3. TypeOK'
    BY <1>0, <1>3, <2>1, <2>2 DEF IInv, TypeOK
  <2>4. LocalsOK'
    BY <1>0, <1>3, <2>1, <2>2 DEF IInv, LocalsOK
  <2>5. AtEnter(w)'
    BY <1>0, <1>2, <1>3, <2>1, <2>2 DEF AtEnter, Called, NArgs
  <2>6. AtIdle(w)' /\ AtPush(w)' /\ AtPrecall(w)' /\ AtRun(w)' /\ AtRaise(w)'
    BY <2>1 DEF AtIdle, AtPush, AtPrecall, AtRun, AtRaise
  <2> QED
    BY <1>0, <1>1, <2>3, <2>4, <2>5, <2>6 DEF IInv
<1>4. CASE stack[func[w]] \notin Functions
  <2>1. pc'[w] = "raise" /\ UNCHANGED <<ci, frame, cis>>
    BY <1>0, <1>4 DEF IInv, TypeOK
  <2>2. TypeOK'
    BY <1>0, <2>1 DEF IInv, TypeOK
  <2>3. LocalsOK'
    BY <1>0, <2>1 DEF IInv, LocalsOK
  <2>4. AtIdle(w)' /\ AtPush(w)' /\ AtPrecall(w)' /\ AtEnter(w)' /\ AtRun(w)' /\ AtRaise(w)'
    BY <1>2, <2>1 DEF AtIdle, AtPush, AtPrecall, AtEnter, AtRun, AtRaise
  <2> QED
    BY <1>0, <1>1, <2>2, <2>3, <2>4 DEF IInv
<1> QED
  BY <1>3, <1>4

LEMMA EnterIInv ==
  ASSUME NEW w, Threads = {w}, IInv, Enter(w)
  PROVE  IInv'
<1> USE DEF Enter, Place
<1>0. /\ StackSize = 6 + MaxFailures + FrameSize /\ MaxFailures \in Nat /\ FrameSize \in Nat
      /\ w \in Threads /\ Frames = {1, 2}
      /\ NArgs(w) \in {1, 2} /\ NArgs(w) <= FrameSize /\ FrameSize >= 2
      /\ failures \in Nat /\ failures < MaxFailures
      /\ Called(w) /\ Guarded(w) /\ Prepared(w, NArgs(w)) /\ frame[w] = 2 /\ func[w] = 4 + failures
  BY OneThread, LuaCallbackAssumption DEF IInv, TypeOK, AtEnter, Called, Guarded
<1>a. func[w] + 1 = 5 + failures /\ w \in DOMAIN pc
  BY <1>0 DEF IInv, TypeOK
<1>1. /\ pc'[w] = "run" /\ base' = 5 + failures /\ top' = 4 + failures + FrameSize
  BY <1>0, <1>a
<1>b. cis' = [cis EXCEPT ![2].base = 5 + failures, ![2].top = 4 + failures + FrameSize]
  BY <1>0, <1>a
<1>c. \A s \in Slots : stack'[s] = IF s \in 5 + failures + NArgs(w) .. 4 + failures + FrameSize
                                    THEN Nil ELSE stack[s]
  BY <1>0, <1>a
<1>d. /\ stack' \in [Slots -> Values] /\ DOMAIN stack' = Slots
  <2>1. stack \in [Slots -> Values] /\ Nil \in Values
    BY Constants DEF IInv, LocalsOK
  <2> QED
    BY <2>1
<1>2. /\ cis' \in [Frames -> [func : Int, base : Int, top : Int]]
      /\ cis'[1] = cis[1] /\ cis'[2].base = 5 + failures /\ cis'[2].func = cis[2].func
  <2> HIDE DEF Enter
  <2>1. cis \in [{1, 2} -> [func : Int, base : Int, top : Int]] /\ 5 + failures \in Int /\ 4 + failures + FrameSize \in Int
    BY <1>0 DEF IInv, LocalsOK
  <2>2. PICK b \in Int, n \in Int : /\ b = 5 + failures
                                   /\ cis' = [cis EXCEPT ![2].base = b, ![2].top = n]
    BY <2>1, <1>b
  <2>3. cis'[1] = cis[1] /\ cis[1] \in [func : Int, base : Int, top : Int]
    BY <2>1, <2>2
  <2>4. cis'[2] = [cis[2] EXCEPT !.base = b, !.top = n] /\ cis[2] \in [func : Int, base : Int, top : Int]
    BY <2>1, <2>2
  <2>5. [cis[2] EXCEPT !.base = b, !.top = n].base = b /\ [cis[2] EXCEPT !.base = b, !.top = n].func = cis[2].func
    BY <2>4
  <2>6. [cis[2] EXCEPT !.base = b, !.top = n] \in [func : Int, base : Int, top : Int]
    BY <2>4
  <2>7. cis' = [f \in {1, 2} |-> cis'[f]]
    BY <2>1, <2>2
  <2>8. \A f \in {1, 2} : cis'[f] \in [func : Int, base : Int, top : Int]
    BY <2>3, <2>4, <2>6
  <2>9. cis' \in [{1, 2} -> [func : Int, base : Int, top : Int]]
    BY <2>7, <2>8
  <2> QED
    BY <2>2, <2>3, <2>4, <2>5, <2>9, <1>0
<1>3. \A s \in 1 .. 4 + failures + NArgs(w) : stack'[s] = stack[s]
  <2>1. ASSUME NEW s \in 1 .. 4 + failures + NArgs(w)
        PROVE  stack'[s] = stack[s]
    <3>1. s \in Slots /\ s \notin 5 + failures + NArgs(w) .. 4 + failures + FrameSize
      BY <1>0 DEF Slots
    <3> QED
      BY <3>1, <1>c
  <2> QED
    BY <2>1
<1>4. TypeOK'
  <2>1. top' \in 3 .. StackSize /\ base' \in Slots
    BY <1>0, <1>1 DEF Slots
  <2>2. DOMAIN cis' = Frames /\ pc' \in [Threads -> {"idle", "push", "precall", "enter", "run", "raise"}]
    BY <1>2 DEF IInv, TypeOK
  <2> QED
    BY <2>1, <2>2, <1>d DEF IInv, TypeOK, Frames, Slots
<1>5. LocalsOK'
  BY <1>0, <1>2, <1>d DEF IInv, LocalsOK
<1>6. Bottom'
  BY <1>0, <1>3 DEF IInv, Bottom
<1>7. EveryErrorIsErrErr'
  BY DEF IInv, EveryErrorIsErrErr
<1>8. /\ stack'[4 + failures] = fetched[w]
      /\ \A i \in 1 .. NArgs(w) : stack'[4 + failures + i] = Arg(w, i)
  BY <1>0, <1>3 DEF Prepared
<1>9. AtRun(w)'
  BY <1>0, <1>1, <1>2, <1>8 DEF AtRun, Called, Guarded, Prepared, NArgs, Arg
<1>10. AtIdle(w)' /\ AtPush(w)' /\ AtPrecall(w)' /\ AtEnter(w)' /\ AtRaise(w)'
  BY <1>1 DEF AtIdle, AtPush, AtPrecall, AtEnter, AtRaise
<1> QED
  BY <1>0, <1>4, <1>5, <1>6, <1>7, <1>9, <1>10 DEF IInv

LEMMA SetCallbackIInv ==
  ASSUME NEW w, Threads = {w}, IInv,
         NEW which \in {"main", "worker"}, NEW f \in Functions, SetCallback(w, which, f)
  PROVE  IInv'
<1> USE DEF SetCallback, luaState, locals
<1>1. TypeOK'
  BY DEF IInv, TypeOK
<1>2. LocalsOK' /\ Bottom' /\ EveryErrorIsErrErr'
  BY DEF IInv, LocalsOK, Bottom, EveryErrorIsErrErr
<1>3. \A t \in Threads : AtIdle(t)' /\ AtPush(t)' /\ AtPrecall(t)'
  BY DEF IInv, AtIdle, AtPush, AtPrecall, InStartServer, Unguarded, Guarded, Prepared, Place, NArgs, Arg
<1>4. \A t \in Threads : AtEnter(t)' /\ AtRun(t)' /\ AtRaise(t)'
  BY DEF IInv, AtEnter, AtRun, AtRaise, Guarded, Called, Prepared, Place, NArgs, Arg
<1> QED
  BY <1>1, <1>2, <1>3, <1>4 DEF IInv

LEMMA ReturnIInv ==
  ASSUME NEW w, Threads = {w}, IInv, Return(w)
  PROVE  IInv'
<1> USE DEF Return, Place
<1>0. /\ StackSize = 6 + MaxFailures + FrameSize /\ MaxFailures \in Nat /\ FrameSize \in Nat
      /\ w \in Threads /\ Frames = {1, 2}
      /\ failures \in Nat /\ failures < MaxFailures
      /\ Guarded(w) /\ ci = 2 /\ cis[2].func = 4 + failures /\ cis[1].base = 2
  BY OneThread, LuaCallbackAssumption DEF IInv, TypeOK, LocalsOK, AtRun, Called
<1>1. /\ pc'[w] = "idle" /\ ci' = 1 /\ base' = 2 /\ top' = 3 + failures
      /\ errfunc' = 0 /\ errorJmp' = NoThread /\ status' = [status EXCEPT ![w] = LuaOk]
  BY <1>0 DEF IInv, TypeOK, LocalsOK, Guarded
<1>2. TypeOK'
  BY <1>0, <1>1 DEF IInv, TypeOK, Slots
<1>3. LocalsOK' /\ Bottom'
  BY DEF IInv, LocalsOK, Bottom
<1>4. EveryErrorIsErrErr'
  BY <1>0, <1>1 DEF IInv, TypeOK, EveryErrorIsErrErr
<1>5. AtIdle(w)'
  BY <1>1, <1>0 DEF AtIdle, InStartServer, Unguarded
<1>6. AtPush(w)' /\ AtPrecall(w)' /\ AtEnter(w)' /\ AtRun(w)' /\ AtRaise(w)'
  BY <1>1 DEF AtPush, AtPrecall, AtEnter, AtRun, AtRaise
<1> QED
  BY <1>0, <1>1, <1>2, <1>3, <1>4, <1>5, <1>6 DEF IInv

LEMMA FailIInv ==
  ASSUME NEW w, Threads = {w}, IInv, Fail(w)
  PROVE  IInv'
<1> USE DEF Fail, luaState
<1>1. w \in Threads /\ pc'[w] = "raise" /\ Guarded(w) /\ failures < MaxFailures
  BY DEF IInv, TypeOK, AtRun, Called
<1>2. TypeOK'
  BY <1>1 DEF IInv, TypeOK
<1>3. LocalsOK' /\ Bottom' /\ EveryErrorIsErrErr'
  BY DEF IInv, LocalsOK, Bottom, EveryErrorIsErrErr
<1>4. AtRaise(w)'
  BY <1>1 DEF AtRaise, Guarded, Place
<1>5. AtIdle(w)' /\ AtPush(w)' /\ AtPrecall(w)' /\ AtEnter(w)' /\ AtRun(w)'
  BY <1>1 DEF AtIdle, AtPush, AtPrecall, AtEnter, AtRun
<1> QED
  BY <1>1, <1>2, <1>3, <1>4, <1>5 DEF IInv

LEMMA ThrowIInv ==
  ASSUME NEW w, Threads = {w}, IInv, Throw(w)
  PROVE  IInv'
<1> USE DEF Throw, Place
<1>0. /\ StackSize = 6 + MaxFailures + FrameSize /\ MaxFailures \in Nat /\ FrameSize \in Nat
      /\ w \in Threads /\ Frames = {1, 2}
      /\ failures \in Nat /\ failures < MaxFailures
      /\ Guarded(w) /\ func[w] = 4 + failures /\ cis[1].base = 2
  <2>1. w \in Threads /\ pc[w] = "raise"
    OBVIOUS
  <2>2. AtRaise(w) /\ failures < MaxFailures /\ cis[1].base = 2
    BY <2>1 DEF IInv, LocalsOK
  <2>3. failures \in 0 .. MaxFailures
    BY DEF IInv, TypeOK
  <2> QED
    BY <2>1, <2>2, <2>3, OneThread DEF AtRaise, Guarded
<1>1. ErrorStatus = LUA_ERRERR
  BY <1>0, Constants DEF ErrorStatus, Guarded, IInv, Bottom
<1>2. /\ pc'[w] = "idle" /\ ci' = 1 /\ base' = 2 /\ top' = 4 + failures
      /\ errfunc' = 0 /\ errorJmp' = NoThread /\ status' = [status EXCEPT ![w] = LUA_ERRERR]
      /\ failures' = failures + 1
  BY <1>0, <1>1 DEF IInv, TypeOK, LocalsOK, Guarded
<1>3. /\ stack' \in [Slots -> Values]
      /\ \A s \in Slots : stack'[s] = IF s = 4 + failures THEN ErrorObject ELSE stack[s]
  BY <1>0, Constants DEF IInv, LocalsOK
<1>4. TypeOK'
  BY <1>0, <1>2, <1>3 DEF IInv, TypeOK, Slots
<1>5. LocalsOK'
  BY <1>3 DEF IInv, LocalsOK
<1>6. Bottom'
  BY <1>0, <1>2, <1>3 DEF IInv, Bottom, Slots
<1>7. EveryErrorIsErrErr'
  BY <1>0, <1>2 DEF IInv, TypeOK, EveryErrorIsErrErr
<1>8. AtIdle(w)'
  BY <1>0, <1>2 DEF AtIdle, InStartServer, Unguarded
<1>9. AtPush(w)' /\ AtPrecall(w)' /\ AtEnter(w)' /\ AtRun(w)' /\ AtRaise(w)'
  BY <1>2 DEF AtPush, AtPrecall, AtEnter, AtRun, AtRaise
<1> QED
  BY <1>0, <1>2, <1>4, <1>5, <1>6, <1>7, <1>8, <1>9 DEF IInv

LEMMA StutterIInv ==
  ASSUME IInv, UNCHANGED vars
  PROVE  IInv'
<1> USE DEF vars, luaState, locals
<1>1. TypeOK'
  BY DEF IInv, TypeOK
<1>2. LocalsOK' /\ Bottom' /\ EveryErrorIsErrErr'
  BY DEF IInv, LocalsOK, Bottom, EveryErrorIsErrErr
<1>3. \A t \in Threads : AtIdle(t)' /\ AtPush(t)' /\ AtPrecall(t)'
  BY DEF IInv, AtIdle, AtPush, AtPrecall, InStartServer, Unguarded, Guarded, Prepared, Place, NArgs, Arg
<1>4. \A t \in Threads : AtEnter(t)' /\ AtRun(t)' /\ AtRaise(t)'
  BY DEF IInv, AtEnter, AtRun, AtRaise, Guarded, Called, Prepared, Place, NArgs, Arg
<1> QED
  BY <1>1, <1>2, <1>3, <1>4 DEF IInv

-----------------------------------------------------------------------------
(* The invariant of a thread that calls back alone: startServer's frame    *)
(* and what failures left lie at the bottom, over them the function, its   *)
(* arguments and the frame as far as the call has come, and the            *)
(* registers that lua_pcall restores say where that is.                    *)
THEOREM LuaCallbackInvariant ==
  ASSUME NEW w, Threads = {w}
  PROVE  Spec => []IInv
<1>1. Init => IInv
  BY InitIInv
<1>2. IInv /\ [Next]_vars => IInv'
  BY PushFunctionIInv, PushArgumentIInv, PCallIInv, PrecallIInv, EnterIInv, SetCallbackIInv,
     ReturnIInv, FailIInv, ThrowIInv, StutterIInv
     DEF Next
<1> QED
  BY <1>1, <1>2, PTL DEF Spec

(* Every lua_pcall gives the state back as it took it, apart from the one  *)
(* slot that a failure leaves, and a callback runs with the base of its    *)
(* own frame.                                                              *)
THEOREM FramesKeptAlways ==
  ASSUME NEW w, Threads = {w}
  PROVE  Spec => []FramesKept
<1>1. IInv => FramesKept
  <2> SUFFICES ASSUME IInv PROVE FramesKept
    OBVIOUS
  <2>1. w \in Threads
    OBVIOUS
  <2>2. FrameRestored
    BY <2>1 DEF IInv, FrameRestored, AtIdle, InStartServer, Unguarded, Bottom, TypeOK, Place
  <2>3. BaseIsFrameBase
    BY DEF IInv, BaseIsFrameBase, AtRun, Called, Guarded
  <2> QED
    BY <2>2, <2>3 DEF IInv, FramesKept
<1> QED
  BY <1>1, LuaCallbackInvariant, PTL

(* The function that runs is the one the reference stood for when it was   *)
(* fetched, with its own arguments, whatever the script registers meanwhile. *)
THEOREM RightCallAlways ==
  ASSUME NEW w, Threads = {w}
  PROVE  Spec => []RightCall
<1>1. IInv => RightCall
  <2> SUFFICES ASSUME IInv, NEW t \in Threads, pc[t] = "run"
               PROVE  /\ stack[func[t]] = fetched[t] /\ fetched[t] # Nil
                      /\ \A i \in 1 .. NArgs(t) : stack[base + i - 1] = Arg(t, i)
    BY DEF RightCall
  <2>1. Called(t) /\ base = Place + 1 /\ failures \in Int
    BY LuaCallbackAssumption DEF IInv, AtRun, TypeOK
  <2>2. \A i \in 1 .. NArgs(t) : base + i - 1 = Place + i
    BY <2>1 DEF Place
  <2> QED
    BY <2>1, <2>2, LuaCallbackAssumption DEF Called, Guarded, Prepared
<1> QED
  BY <1>1, LuaCallbackInvariant, PTL

(* A callback that fails reports an error in error handling, whatever went *)
(* wrong: the handler's index is that of startServer's ip.                 *)
THEOREM EveryErrorIsErrErrAlways ==
  ASSUME NEW w, Threads = {w}
  PROVE  Spec => []EveryErrorIsErrErr
<1>1. IInv => EveryErrorIsErrErr
  BY DEF IInv
<1> QED
  BY <1>1, LuaCallbackInvariant, PTL

=============================================================================
