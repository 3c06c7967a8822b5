# TLA+ models of luaEngine

luaEngine is a chat server in C++ on the muduo network library. The server's
behaviour is scripted: `LuaStart` opens a Lua 5.1.5 state (the interpreter is in
the repository, `lua515/`), exports C++ functions and classes to it with
`lua_tinker`, and runs `ServMain.lua`; the script starts the server and is called
back for every connection and every message.

This directory models the server, its binding to Lua and the parts of the Lua
runtime that scripts depend on, checks the models with TLC on small instances and
proves the most important properties with TLAPS for all instances.

* [The system](#the-system): components, their state, what can go wrong
* [The models](#the-models): module by module, with the code they stand for
* [The runs](#the-runs): what TLC checks, with which bounds, and why they suffice
* [The proofs](#the-proofs)
* [Disagreements with the code's own assertions](#disagreements)
* [What is not modelled](#what-is-not-modelled)
* [The plan](#the-plan)

## The system

### Components

| component | code | state | operations |
|---|---|---|---|
| message codec | `luaEngine/Codec.h` | the connection's input buffer (muduo's) | `onMessage`, `send` |
| server | `luaEngine/LuaServer.{h,cpp}` | `connections_`, `messageQueue_`, `mutex_`, globals `g_server`, `bHandleMsg` | `onConnection`, `onMessageQueue`, `onTimerMessage`, `hasMessge`, `distillMessageQueue`, `hanleMessageQueue` |
| start and callbacks | `luaEngine/LuaStart.cpp` | two registry references, the Lua stack | `startServer`, `setNewConnectionCallback`, `setMessageCallback`, `onMessage`, `onNewConnection`, `sysExit`, `LuaStart` |
| program | `luaEngine/Main.cpp` | `AppProgArgs` | `main` |
| client | `luaEngine/Client.cc` | `connection_`, `mutex_` | `connect`, `write`, `disconnect`, `onConnection` |
| binding | `lua_tinker/` | class tables in the globals, userdata, table handles with reference counts, the Lua stack | `def`, `set`, `get`, `call`, `class_add`, `class_inh`, `class_con`, `class_def`, `class_mem`, `meta_get`, `meta_set`, `table` |
| script | `luaScript/` | its module tables | `ServMain`, `ServStart`, `Utils` |
| Lua runtime | `lua515/` | `lua_State`, `global_State`, the heap | the C API, the interpreter, the collector, the compiler, the libraries |

### Interaction

`startServer` is a C function called from the script. It never returns: it starts
a worker thread running `hanleMessageQueue`, builds the server and enters muduo's
event loop. From then on two threads exist.

    peer --TCP--> input buffer --onMessage--> onMessageQueue --push_back--> messageQueue_
                                                                              |  swap
    script <--lua_pcall-- _onNewConnection <-- onConnection                   v
    script <--lua_pcall-- _onMessage       <-- hanleMessageQueue (worker) <-- local list

The queue is protected by `mutex_`, but `hasMessge` looks at it without. The Lua
state is protected by nothing: `onNewConnection` uses it on the event loop's
thread and `onMessage` on the worker.

### What is hard

* **Two threads and a queue.** The worker runs before the server exists; it reads
  `g_server` and the list without a lock and then takes the whole list under the
  lock; timer messages overtake the others.
* **A byte stream cut anywhere.** The codec must find frames that TCP splits and
  joins, refuse bad lengths, and leave nothing complete behind, since only further
  bytes wake it.
* **One Lua state, used from C.** Each callback pushes a function and its
  arguments on a stack shared with the frame of `startServer`, and a failing
  callback must leave that frame usable. Registered callbacks live in the registry
  under keys that `luaL_ref` recycles through the table itself.
* **The collector** runs between any two operations of the program that changes
  the graph it is marking. Weak tables, finalizers, open upvalues and the stacks
  of coroutines each have rules of their own.
* **Data that moves.** A new key moves a colliding one while a loop is going over
  the table; the string table is resized while it is swept; `sort` calls a script
  that may answer anything, or fail, in the middle of an exchange.
* **Code made in one pass.** The compiler emits jumps before it knows where they
  go and registers before it knows what they hold; the interpreter trusts what it
  made without further tests.
* **Several stacks.** Errors and yields leave the C stack, the value stacks and
  the CallInfos of several threads at once, and all must agree afterwards.

`PROJECT.json` lists every hazard with its line and the properties that cover it.

## The models

| module | code | state |
|---|---|---|
| `LuaRef` | `lauxlib.c`: `luaL_ref`, `luaL_unref` | a table's integer part |
| `FrameStream`, `Codec` | `Codec.h` | stream, input buffer |
| `MessagePipe`, `LuaServer` | `LuaServer.{h,cpp}` | two threads, queue, mutex |
| `LuaCallback` | `LuaStart.cpp`, `lapi.c`, `ldo.c` | one `lua_State`, the threads that use it |
| `ChatClient` | `Client.cc` | two threads, `connection_` |
| `TinkerTable`, `TinkerCall`, `TinkerObjects`, `TinkerClass` | `lua_tinker/` | the Lua stack, handles, userdata, class tables |
| `LuaGC` | `lgc.c`, `lgc.h`, `lfunc.c` | the heap and the collector's lists |
| `LuaTable` | `ltable.c` | array part, nodes, a loop in progress |
| `LuaString` | `lstring.c`, `lgc.c` | the string table |
| `LuaMatch` | `lstrlib.c` | subject, pattern, captures |
| `LuaTableLib` | `ltablib.c` | an array being sorted |
| `LuaChunk` | `ldump.c`, `lundump.c`, `lzio.c` | a chunk being written and read |
| `LuaValue`, `LuaCode`, `LuaParser`, `LuaCheck` | `lobject.c`, `lcode.c`, `lparser.c`, `ldebug.c`, `lopcodes.*` | (functions) |
| `LuaVM` | `lvm.c`, `ldo.c`, `lfunc.c`, `ltm.c` | a running program |
| `LuaSemantics`, `LuaPrograms` | (the reference for the four above) | |
| `Coroutines`, `LuaThread` | `ldo.c`, `lbaselib.c`, `lstate.c` | the C stack and the threads' stacks |
| `LuaRequire` | `loadlib.c` | the table of loaded modules |

A run with several independent parts has one MC module that puts them side by side
with a variable `part`: each behaviour is one of one part, the others rest in
their initial state. It extends the parts' modules, which therefore name their
behaviours apart (`CodecInit`, `ClientNext`, `TableSpec`), and checks the very
definitions the proofs are about.

### LuaRef: the reference store

`luaL_ref`/`luaL_unref` (`lua515/lauxlib.c`) keep a value in a table under an
integer key. Keys given back form a chain *in the same slots*: `t[0]` is the head
and `t[key]` the next one. `t` is the integer part of the table (for the engine:
of the registry). `luaL_ref` is two actions, `RefReuse` when the chain has a key
and `RefFresh` when it has none; `luaL_unref` is `Unref`. `luaL_ref(nil)`, which
returns `LUA_REFNIL` and changes nothing, is a stuttering step, and so is
`luaL_unref` of a negative key.

`lua_objlen` may answer *any* border of the table's array (`Borders`), which is
how `luaH_getn` is documented and behaves; that it nevertheless always yields an
unused key is a consequence of the invariant, not an assumption. `live`, `free`
and `peak` are history variables: what each client anchored, the keys given back
in order, the high-water mark. The client is assumed to give back only keys it
holds; the engine itself never gives one back.

### FrameStream and Codec: the length-header protocol

`Codec` is one connection: `Send` is `LengthHeaderCodec::send` at the peer,
`Receive` moves an arbitrary number of bytes from the wire to the input buffer
and enters `onMessage`, whose loop is the three actions `RejectLength`,
`TakeFrame` and `AwaitMore`, one per branch. The loop's rounds are separate
steps, so that `Send` and the stream interleave with them. Integers keep their
width: a header has four bytes, as in the code, but how many values a byte has
is the constant `Base`. `Header` writes a length's digits and `PeekInt32` reads
them back as a signed number, so that a length from half a `Word` on reads back
negative. A refused connection is only half closed (`shutdown`), so the model
keeps reading after it, and the refused header stays where it is.

`FrameStream` is the promise to the layer above: messages come out unchanged, in
order, once each, until the first one that is not acceptable; then nothing more.
`Codec` implements it with `outbox <- sent`, `inbox <- delivered`.

muduo's `Buffer` and `TcpConnection` are modelled from their use and marked
external in the map.

### MessagePipe and LuaServer: two threads and the queue

`LuaServer` has a program counter per thread, `main` and `worker`, and one step
per access to something the other thread can see:

| code | actions |
|---|---|
| `startServer` | `StartThread`, `ConstructServer`, `PublishServer` |
| `onConnection` | `Accept` (insert, call the script), `Announced` (the call returns), `Disconnect` |
| the codec's loop | `Read` (a read completes n frames), `Extract` (one frame), `Parsed` |
| `onMessageQueue`, `onTimerMessage` | `LockToPush`, `BeginPush` (the list as it is found), `EndPush` (the list as it is left) |
| the worker's loop test | `CheckServer` (`g_server`), `Look` (`hasMessge`) |
| `distillMessageQueue` | `LockToSwap`, `BeginSwap`, `EndSwap` |
| the worker's inner loop | `Handle`, `Handled`, `BatchDone` |

The push and the swap are each split into a read of the list and a write, so that
without the mutex they would corrupt it. `Look` reads the list without the mutex:
while the main thread is inside its critical section, the answer is
nondeterministic (`HasMessage`). A message is the number of its extraction; the
codec is the one of module `Codec`, reduced to the number of frames a read
completes. Timer messages are all alike.

`MessagePipe` is what the script sees: connections are announced before their
messages arrive, and messages are handled in order, once. `LuaServer` implements
it; its variables `announced`, `from` and `handled` are the pipe's.

### LuaCallback: calling the script

`LuaCallback` is the Lua state as `lua_State` keeps it (`stack`, `top`, the call
frames `cis`, `ci`, `base`, `errfunc`, `errorJmp`) and the threads that call back.
Indices are slot numbers; slot 1 is `startServer`, 2 and 3 its arguments. A
callback is cut where another thread could come between: `PushFunction`
(`lua_rawgeti`), `PushArgument` (`lua_pushstring`), `PCall` (`lua_pcall` and
`luaD_pcall` up to the call), `Precall` (`luaD_precall` up to `inc_ci`), `Enter`
(the rest of it), then `Return` (`luaD_poscall` and the end of `luaD_pcall`) or
`Fail`/`Throw` (`luaG_errormsg`, `luaD_throw`, the error path of `luaD_pcall`).
While it runs, the script may register other callbacks (`SetCallback`).

Stack growth, hooks, metamethods `__call`, vararg callbacks and memory errors are
left out; the callbacks of `ServStart.lua` are plain functions.

### ChatClient: a typing thread and an event loop

`Client.cc`'s `main` reads lines and calls `write`, which tests and uses
`connection_` under `mutex_` (`LockToWrite`, `Write`); the event loop's
`onConnection` sets or resets it under the same mutex (`LockToSet`,
`SetConnection`, `ResetConnection`). `send` from the typing thread only queues:
`SendInLoop` is muduo's half, which drops what arrives on a connection no longer
up. `retry` is on, so that a lost connection is followed by another one. At the
end of input `main` disconnects and sleeps a second (`EndOfInput`); the sleep is
no wait, so what follows may come at any time: the client is destroyed, without
its mutex (`Destroy`), and then the `EventLoopThread`, which tells the loop to
quit (`QuitLoop`) and waits for it (`Joined`). The loop runs its pending functors
until it sees the quit (`EndLoop`): lines queued after its last round are gone,
with the connection up. A connection that comes or goes while there is no client
any more runs `onConnection` on a destroyed object (`OnDestroyed`): undefined, and
not followed further.

### TinkerTable: table handles

A `table` shares a `table_obj`, which counts its handles, remembers an index into
the Lua stack and the table's address, and owns the slot: the last handle takes it
off. `New`, `FromName` and `Get` are the three constructors, `Copy` and `Release`
the copies and destructors, `Use` any `set` or `get`. `Slot` is `validate`: where
the table still is, or the first slot that has it, or none. `named` is a history
flag: `table(L, name)` forgets to count its first handle.

### TinkerCall: calls into scripts

`call`, `dofile` and `dobuffer` push an error handler, run the script in
`lua_pcall` and clean up; scripts call C++ functions, which call scripts. All
frames share one array of slots, and the model keeps what lies above `top` as
well, because a frame that takes a slot too many overwrites what is there.
`frames` alternates C++ functions and scripts; a C++ frame remembers what it was
passed and pushed (`held`), for the properties. `Fail` is an error anywhere above
a `lua_pcall`: the frames above it go and the caller of `lua_pcall` cleans up. An
`_ALERT` function, which `print_error` calls unprotected, is left out.

### TinkerObjects: who deletes what

A userdata holds a `val2user`, which owns its object, or a `ptr2user` or
`ref2user`, which only points to one. `PushValue` is a push by value or the
constructor a script calls, `PushPointer` a push by pointer or reference; `Drop`,
`Separate` and `Finalize` are the collector as `lgc.c` does it for userdata
(unreachable, moved to `tmudata`, `__gc` called), `Close` is `lua_close`. Which
userdata the collector separates, and when, is left open. `Register` is
`class_add`, before which a pushed userdata gets no `__gc`.

### TinkerClass: fields of objects

`meta_get` works on the Lua stack, so the model gives it an explicit one:
`meta_get(o, k)` is the whole stack a read leaves, three slots of which the last
is the answer, and `invoke_parent` climbs the classes by pushing and removing as
the code does, to a base of any height. `class_add`, `class_inh`, `class_def` and
`class_mem` may come in any order and again at any time, as scripts may be loaded
between them. `first` is a history variable. A read of a userdata that a script
stored in a class calls `get` on something that is no `var_base`: undefined, `Wild`.

### LuaGC: the collector and the program

One action per thing either does: `Step` is one `singlestep` (mark one gray
object, the whole of `atomic`, sweep one object, call one finalizer), `FullStart`
and `FullStep` are `luaC_fullgc`; the others are the program: new objects, table
and upvalue assignments, moves between stack slots, closures, switching between
coroutines, calling `setmetatable` and `setfenv`. The barriers are part of the
assignments that have them in the code, and missing from those that do not (the
stack). A table has one entry and a weakness, a closure one upvalue. When a step
comes is left open, which covers every pacing. The main thread's slots stand for
all roots. The lists through `next` (`rootgc`, `sweepgc`, `tmudata`) are sets, so
that objects are swept and finalized in any order; those through `gclist` are
sequences, since an object on two of them would break both. A state of the model
is a state of a program with at most three small objects besides the main thread;
`MCLuaGC` gives six such programs, so that every pair of features whose rules
interact meets: weak keys or values with finalizers, full collections with partly
swept lists, upvalues with threads that die before them. `atomic` is one step, in
parts: `Ending` up to where what the program reaches is marked, `Keeping` with
`marktmu` for the userdata that wait, `Cleared` for the weak tables.

### LuaTable: tables

`t` has the array part, the vector of nodes with their chains, and `lastfree`.
`Set` is `luaH_set` with what it may call: `newkey`, which moves a colliding node
out of its main position or takes a free one, and `rehash` (`computesizes`,
`numusearray`, `resize`) when there is none. `removeentry` is the collector's,
which leaves dead keys behind that `findindex` must still find. `Begin`, `Step`
and `End` are a loop with `next` during which existing fields change and the
collector runs. Hash functions are arbitrary (constants). `map` is the finite map
the table is to be.

### LuaString: interned strings

`luaS_newlstr` finds or makes a string; it may find one that the sweep has not
reached but will free, and revives it. `SweepString` sweeps one bucket;
`checkSizes` and `newlstr` resize the table, not during a sweep. Strings are
identities with a content, and a bucket is the set of its strings: their order
only decides which of them a search meets first, and the one it looks for is there
once. `luaC_fullgc` starts a sweep with nothing marked anew; the program may go on
between its steps, which in the code it does not.

### LuaMatch: patterns

The matcher (`match` and its helpers) is a set of recursive operators that thread
the record of captures through, as the code changes it in place: a failed attempt
leaves its captures there unless the code undoes them. The reference, `MatchAt`,
has no backtracking: it enumerates all assignments of widths to the items and
takes the preferred one. `str_find`, `gmatch_aux` (one action per match),
`str_gsub` and `lmemfind` are there; classes such as `%a` are the sets they stand
for.

### LuaTableLib: sort, insert, remove

`auxsort` with one comparison per step, because each calls a script: `First`,
`Middle`, `Upper` order three elements, `Up` and `Down` are the two scans, `Raise`
an error of the order function. `order` says whether the answers are those of `<`
or arbitrary. `tinsert` and `tremove` are functions.

### LuaChunk: binary chunks

`luaU_dump` is the sequence of blocks the writer gets, one per `DumpBlock`, which
may fail having taken any beginning of its block; the reader hands what there is
over in pieces of 1, 2 or 5 bytes (`Reopen`), so that the stream may end inside an
int, a vector or a string and blocks lie across pieces, and `Undump` is
`luaU_undump`. An `int`, a size, an instruction or a number is two bytes (`Word`);
the byte order is not modelled.

### LuaParser, LuaCode, LuaCheck, LuaVM: from text to result

`LuaParser` and `LuaCode` are the one-pass compiler as operators that take and
return the `FuncState` (named after the C functions): `luaY_parser(text)` gives
the prototype, an error, and the set of the source's assertions that failed. Text
is a sequence of tokens. `LuaCheck` is `luaG_checkcode`. `LuaVM` runs the result,
one action per instruction (`OP_MOVE` ... `OP_VARARG`), with stack slots,
CallInfos, open upvalues, metatables and their `flags`; a metamethod written in
Lua runs as a frame whose result the step `Continue` puts where the interrupted
instruction wanted it. Three C functions stand for all: `pass` (returns its
arguments), `rawset` and `setmetatable`.

`LuaSemantics` is the specification: an evaluator of trees with cells and no
registers, which also prints the tree as tokens. `LuaPrograms` has 1,600 programs:
every condition with up to two operators from a small grammar, as value, branch
and loop end at once, and programs written for what is difficult (closures in
loops, assignments that depend on their targets, open calls, vararg functions,
constructors across `SETLIST` batches, each metamethod, constants beyond an
operand's reach, each error, each limit). Numbers are whole numbers and NaN, and
the programs only divide where the quotient is whole. Limits (`MAXSTACK`,
`MAXARG_C`, `LFIELDS_PER_FLUSH`...) are constants, small enough that the programs
meet them.

### Coroutines and LuaThread: several stacks

`LuaThread` has the C stack, `C`, as a sequence of activations (each a `luaD_call`
or `lua_resume` in progress, with what `luaD_pcall` saved), and for each thread
its values, CallInfos, `nCcalls`, `baseCcalls`, `errfunc`, `status` and open
upvalues. An action is an operation of the running Lua function: `Call`,
`CallBack` (a C function that calls Lua), `PCall`, `XPCall`, `Error`, `Capture`,
`Return`, `Create`, `Resume` (`coroutine.resume` or a wrapped function), `Yield`,
and `Program` and `Collect` from outside. Each models the whole path, whatever it
runs into: `luaD_throw` unwinds `C` to the innermost protected activation, calls
error handlers where the error is, and fails again when a limit on C calls or
CallInfos is exceeded during that. Functions have one parameter and pass their
thread's name, so that a value's origin can be told.

`Coroutines` is the promise: a chain of coroutines that resumed each other,
transfers that hand over exactly the values given, coroutines that stay as they
were while they do not run, errors that end the coroutines that do not catch them
and no others. `LuaThread` implements it; chain, phases, variables and transfers
are computed from the stacks (`ChainOf`, `PhaseOf`, `VariablesOf`, `HandedTo`).

### LuaRequire: modules

`loaded` is `package.loaded`, in which a sentinel stands for a module while its
chunk runs. Chunks require each other, with or without a `pcall` around it, call
`module` for their own name, return a value, `false` or nothing, and fail; an
error ends every chunk up to the nearest `pcall` (`Unwound`). Whether a loader
finds a module is a choice.

## The runs

| run | instance | states | shows |
|---|---|---|---|
| `network` | *server*: 2 connections, 3 messages in bursts of at most 2, 2 timer messages; *codec*: 1-bit bytes, 4-byte headers (lengths -8..7), limit 4, 3 frames from 5 messages; *client*: 3 lines, 3 connections | 163,874 | no loss, duplication or overtaking, no use before construction, `MessagePipe` with its liveness; no complete frame left behind, `FrameStream` with its liveness; a line goes in order to the connection that is up or is dropped because none is, and one typed while a connection is up is sent on it unless that is lost or the loop ends first |
| `client_destroyed` | the same | | violated: see below |
| `luacallback_shared` | both threads | | violated: see below |
| `luacallback_room` | one thread, 20 failures | | violated: see below |
| `luacallback_code` | one thread, 3 failures | | violated: see below |
| `tinker` | *objects*: 2 objects, 3 userdata; *table*: 3 handles, 2 tables, 1 name, 4 slots; *call*: 4 frames with up to 1 argument and 1 more slot; *class*: 3 classes in a line, an object and nil, 1 name, 2 values | 928,321 | objects owned by scripts are deleted once, with their userdata, at the latest by `lua_close`; a slot for every handle's object, which is never lost and goes with the last handle; calls leave a C++ function its slots but for one per failed call; a field is the nearest class's, and a script's first assignment stays |
| `tinkertable_name` | the same, 5 slots | | violated: see below |
| `tinkercall_caller` | the same | | violated: see below |
| `luagc` | 6 programs with up to 3 objects besides the main thread | 992,971 | nothing reachable is freed; each list once and each colour as the assertions want; a full collection keeps only what was reached when the marks ended; finalizers run once, before their object goes, and finalized values are not in weak tables |
| `luadata` | *table*: keys 1..4 and two objects, 2 hash functions; *string*: 3 contents, 4 strings; *match*: 360 patterns of up to 7 items on 16 subjects; *sort*: all arrays of up to 5 of 3 numbers, two of 7; *insert*: positions up to 3 past the end; *chunk*: 36 functions nested up to 3, broken off at any byte | 1,027,266 | a table is the map that was assigned, its array more than half used, a loop over it complete; one object per string; the preferred match; sort keeps all elements, sorts and ends; insert moves elements and loses none; a chunk is read as written or refused |
| `luavm` | 1,602 programs | 18,466 | each computes what its text means; the compiler's assertions and the checker hold; top, upvalues and flags are consistent before each instruction |
| `luascript` | *references*: 4 keys; values: a function, and the integer 2 that looks like a link; *callbacks*: the worker alone, 2 functions, 3 failures; *threads*: 2 coroutines (symmetric), 3 C calls and 2 more for errors, 5 CallInfos, 1 open upvalue per thread, 8 frames; *modules*: 3 modules, each run at most twice | 411,002 | a held key keeps its value and is never handed out again, and the invariant of its proof; right function, right arguments, frame restored but for one error object per failure; stacks, counters, upvalues and C stack agree; `Coroutines` is implemented; a module runs once |

Why the bounds are enough.

* `network`: with three messages a push falls before, inside and after a swap, two
  timers may both precede and both follow them, and each connection can come
  first; a connection that drops is another one when it returns. Four binary
  digits give accepted, too long and negative lengths; the messages are the
  empty one, one that parses as a header of itself, the longest accepted, one
  above it, and one whose length reads back negative; three frames let one read
  end in the third while the first is being taken. Three connections let one go
  up while a line typed on the first is still queued for the loop, and a third
  follow.
* `tinker`: an owner, a pointer to the same object and one unrelated userdata;
  three handles for one to take over another's slot while a third lies above, two
  for one table while the second table is apart; four frames are a call nested in
  a call, and frames with no, one and two slots fail until their own slot is gone;
  three classes in a line let the field be in the class, its parent or its
  grandparent.
* `luagc`: a barrier needs a black and a white object and a third that holds the
  white one; a cycle of a coroutine, its closure and the upvalue is three objects.
* `luadata`: four integers grow the array part to four and shrink it; with six
  keys the nodes go to eight; three keys share a main position. Contents 0, 1, 4
  share a bucket until the string table has eight. Seven elements are partitioned
  twice. `MAX_INT` is 7, so that a table with every key up to it sends
  `unbound_search` to its linear search. Every byte of every chunk is a place where
  the writer may fail.
* `luavm`: `LUAI_MAXCCALLS` is 10, CallInfos grow from 4 to at most 15, and the
  programs of `Refused`, `Loops` and `Overflows` meet each of the limits; the
  conditions are complete up to two operators, which is every way to combine two
  jump lists.
* `luascript`: three keys are needed for a chain with a first, a middle and a last
  link next to a held key, four leave room to grow; three failures put several
  error objects below the next callback. With three C calls a `pcall` in a
  coroutine meets the limit, and with the two more a handler goes on above it and
  meets the last one; growing CallInfos is refused once and allowed for the handler.
  `MAXFRAMES` stops calls, not errors, returns or yields; it counts the functions
  of coroutines that died by an error too, as these keep their stacks.

Only the bounds of `Max...` names, of `MAXOPEN` and of the sets of objects are the
model's own; the others are limits of the code at small values. `CHECK_DEADLOCK
FALSE` is set where the bounds stop the environment, or where the part ends (a
sorted array, a loaded chunk).

### Fairness

*Codec*: TCP delivers what was sent while the connection is there, and the event
loop ends a handler it began. *Server*: weak fairness for each thread. Both
threads are real threads that the system schedules, and callbacks are assumed to
return (a callback that does not return stops its thread in the code as well).
Weak fairness of the thread is all that is assumed of the mutex: the number of
messages is bounded, so that no thread can be kept from it forever by the other.
*Client*: the same for the typing thread and the event loop, once they have begun
something; the loop keeps running until `main` has told it to quit, and no promise
holds after that (`EveryLineSettled` names the end of the loop as a way out). *Sort*: the steps of a sort follow each other, it is one C function.
Connections, reads and timers have no fairness: the environment may stop. The
other models have no liveness: what a script does next is up to the script.

### Mutants

Each property of a passing run has a mutant in the module, placed before the
definition it replaces: the code with a dropped test, a missing lock, a swapped
order or an off-by-one. They are not part of the specifications and are there to
show that each property can fail.

## The proofs

| module | theorem | statement |
|---|---|---|
| `LuaLibProofs` | `LuaRefInvariant` | `RefSpec => []RefIInv` |
| | `LiveIntactAlways`, `NeverReissuedAlways` | the references' properties in `luascript` |
| | `CompactAlways` | the keys in use and the free ones are exactly `1..peak` |
| | `ArraySortedInvariant` | sort's invariant in `luadata` |
| `NetworkProofs` | `CodecInvariant` | `Spec => []IInv` |
| | `NoFrameLeftBehindAlways` | the codec's safety property in `network` |
| | `StreamRefinement` | `Spec => FS!Init /\ [][FS!Next]_(FS!vars)` |
| | `ChatClientInvariant`, `LinesKeptAlways` | the client: `Spec => []IInv`, and its safety property in `network` |
| `LuaServerProofs` | `LuaServerInvariant` | `Spec => []IInv` |
| | `NothingLostAlways`, `NoEarlyUseAlways` | the server's safety properties in `network` |
| | `SwapFindsMessagesAlways` | the swap finds what the unlocked look saw |
| | `PipeRefinement` | `Spec => MP!Init /\ [][MP!Next]_(MP!vars)` |
| `LuaCallbackProofs` | `LuaCallbackInvariant` | one thread: `Spec => []IInv` |
| | `FramesKeptAlways`, `RightCallAlways` | one thread: the callbacks' properties in `luascript` |
| | `EveryErrorIsErrErrAlways` | one thread: what a failed callback reports instead of what `luacallback_code` looks for |
| `TinkerObjectsProofs` | `TinkerObjectsInvariant` | `Spec => []IInv` |
| | `DeletedOnceAlways`, `KeptWhileHeldAlways`, `NothingLeftAlways` | the objects' properties in `tinker` |
| | `FieldsAgreeAlways` | the classes' property in `tinker` |
| `TinkerStackProofs` | `SlotPerObjectAlways`, `HandlesKeepAlways` | the table handles' properties in `tinker`, the second an action property |
| | `CallsLeaveStackAlways` | the calls' property in `tinker` |
| `LuaStateProofs` | `StringInvariant`, `StringsUniqueAlways` | `LuaString`: `Spec => []IInv`, and its property in `luadata` |
| | `ModulesOnceAlways` | `LuaRequire`: its property in `luascript` |
| `LuaGCProofs` | `CollectorInvariant` | `Spec => []IInv` |
| | `NothingDanglesAlways`, `ListsAndColoursAlways` | the invariants of `luagc` |
| | `FullCollectsAlways`, `FinalizersAlways` | its action properties |

They hold for every value of the constants that satisfies the modules'
assumptions, and these ask no more than what the constants stand for. An `ASSUME`
of the module itself (`LuaRef`, `LuaServer`, `LuaCallback`, `TinkerObjects`,
`TinkerClass`, `LuaTableLib`, `LuaGC`) or a definition (the others) names them; TLC
evaluates the first when it loads the module, the second as an `ASSUME` of the MC
module. `TinkerClass` asks that no class is above
itself (`Depth` grows downwards), as in C++; `LuaTableLib` that arrays are finite
and hold whole numbers, and that `nil` is none; `LuaGC` that there are finitely many
addresses and that the heap a program starts with is one: references lead to
objects of the right kinds, and nothing was finalized before.

| module | its definition demands |
|---|---|
| `Codec` (`CodecParameters`) | bytes have at least two values; the limit is a length `int32_t` can hold; a message's size fits into 32 bits unsigned (`static_cast<int32_t>`) |
| `ChatClient` (`ClientParameters`) | the bounds are numbers and `None` is none of them |
| `TinkerTable` (`TableParameters`) | finitely many handles; `Nil` is no table, `NoObj` no object |
| `TinkerCall` (`CallParameters`) | at least one frame, a number of slots per frame; that values, handler, script and `nil` differ is not assumed |
| `LuaString` (`StringParameters`) | hashes are natural numbers, objects finitely many, the first table not empty; its size need not be a power of two |
| `LuaRequire` | nothing |

The theorems on callbacks have one more hypothesis, `Threads = {w}`: either
thread, but only one of them. With both they are false, which the run
`luacallback_shared` shows.

**LuaRef.** `LiveIntact` alone is not inductive: that a held slot is not
overwritten depends on the chain not running through it. `Chain` says that the
chain read from the table is the list of keys given back, without repetition and
apart from the held ones; `Compact` and `NothingAbovePeak` together leave the
table exactly one border when the chain is empty, which is what makes `lua_objlen`
answer a fresh key.

**Codec.** `StreamAt(pos)` is the idea: the bytes onMessage has not taken,
`buf \o wire`, are the frames of the messages not yet delivered, the k-th of them
at `pos[k]`. Where TCP cuts the stream moves bytes from one half of this sequence
to the other and leaves the whole as it is. A frame is found complete when the
buffer reaches `pos[k + 1]`, and then what is cut out of it is the k-th message
(`TakeFrame`); the arithmetic under it is that four digits in base `Base`,
written by `Header` and read back by `PeekInt32`, are the same number if it is
below half a `Word`, and otherwise a negative one, which is refused. `ShutAtBad`
keeps a connection that was shut at the message it refused.

**LuaServer.** The heart is `NothingLost`, stated with `Holds(q, lo, hi)`: `q`
ends with the messages after the lo-th up to the hi-th, in order, and everything
before them is a timer message. The lemmas `HoldsAppend`, `HoldsTimer`,
`HoldsHead`, `HoldsNone` say what the list operations do to it. To be inductive it
needs the mutex (`LockOwner`), that a list does not change under the owner
(`ListStable`), that the worker swaps with an empty list of its own
(`BatchEmpty`), that the message in hand is the last extracted (`InHand`), and for
the unlocked look `SeenStaysTrue`: once the worker has seen messages, only the
worker itself can take them away. The refinement follows step by step: `Announced`
is `Announce`, `Extract` is `Arrive` (by `AnnouncedFirst`), `Handle` of a message
is the pipe's `Handle` (by `NothingLost`, the message is the next one), everything
else stutters.

**LuaCallback.** The properties speak of callbacks that run or are over. The
invariant has one part for each place in between (`AtPush`, `AtPrecall`,
`AtEnter`, `AtRun`, `AtRaise`), which says what is on the stack by then and what
`lua_pcall` has saved, and `Bottom`: under it all lie the arguments of
`startServer` and one error object for each failure, so that a callback's place
on the stack is known from `failures` alone.

**ChatClient.** That a line goes out on the connection of its moment depends on
three queues in a row: the lines typed, the functors of the loop, what was sent.
`PendingInOrder` says that the second continues the third, and `DoneKept` that
while a connection is up nothing typed on it is missing from both. `ConnOfState`
and `Owner` tie `connection_` and the mutex to where the loop is in its handler;
`LineInHand` covers the typing thread between its test and its use of the pointer.
Of the end, `DisconnectLast` says all that is needed: the loop ends, or runs into a
client destroyed, only when there is none any more (`Gone`), and by then the last
line is out of `main`'s hands.

**TinkerObjects.** That an object is deleted once says nothing of what happens to
it when its userdata is separated, or when the state is closed half-way through a
collection. `GcOwns` ties ownership to the metatable: a userdata without `__gc`,
which the collector frees unasked, owns nothing of the script's. `OwnerLeft` then
follows each such object to the userdata that will delete it, which from
`lua_close` on is in `tmudata`; with `tmudata` empty none can be left.

**TinkerTable.** A handle may find its table in a slot another object was given,
because `validate` takes the first that fits; so the invariant does not say which
slot is whose, it counts: each table is in as many slots as it has objects
(`SlotPerObject`). The lemmas `PlacesAppend` and `PlacesRemoveAt` are the counting
(one slot more, one less, the others shifted), and `CountIsHandles` tells the last
handle from the others.

**TinkerCall.** Both halves of `CallsLeaveStack` look at one frame at a time; what
makes them inductive is where the frames lie (`FramesInOrder`). No frame begins
below the one under it, so what runs on top cannot reach the slots of the rest; a
script lies at least two slots above its caller, the handler between them; and
only the function that runs may have lost its own slot, to calls that failed.
No frame is larger than its share of the array, so the model's `StackSize` cuts
nothing off. `CallOf` and `BackTo` are the two ways the current
frame changes, with the frames below it as they were (`LowFramesKept`).

**TinkerClass.** `invoke_parent` recurs along the parents; `FieldsAgree` says what
that finds without saying how: of the classes above (`Above`, the least set closed
under `parent`) that have the field, the lowest. `InvokesNearest` shows the two
equal, on any stack and for any hierarchy: where they differed first, at the class
of least depth, one step up they would still agree. The invariant (`ClassIInv`)
gives the depth: a class's parent is its base or nothing.
As the prover does not know that a recursive function exists, the lemma first
exhibits one, the answer itself, which satisfies the equation.

**LuaTableLib.** `Keeps` needs no order: a swap puts as many copies of each value
into the array as there were (`SwapCounts`, by a bijection), so nothing is lost
even if the order function lies or fails. With `<`, sortedness follows from
`InOrder`: two places out of order lie together in a range that is still to be
sorted, this one or a waiting caller's, and no two of these ranges meet (`Apart`).
When the last is done none is left. `ScanOK` is the comment of the source,
"invariant: a[l..i] <= P <= a[j..u]", with what holds between two comparisons; it
shows why the scans stop inside the range and "invalid order function" is not
raised. `Halves` bounds the depth: the k-th waiting call has at most a 2^k-th of
the array.

**LuaString.** Uniqueness needs `InBucket`, that a string is nowhere but in the
bucket a search for its content looks into, also while the sweep is half through
and after `luaS_resize`. `NoDead` says why `luaC_fullgc` and a second sweep do no
harm: what was swept holds no dead string, and what the program holds is dead at
no time, not even found in a bucket the sweep has yet to reach.

**LuaGC.** `RefersToAlive`, that what is not dead refers to nothing dead, is what
the program relies on, and `ReachedAlive` carries it along every path. In the
mark phase nothing is dead and it says nothing; that it holds again when the
whites change is the work of the marking, and of the invariant `Tricolour`: what
is black, or gray and on none of the lists, refers only to what is marked. The
weak tables are its exception, with entries `cleartable` will look at, and so are
the threads and the upvalues they hold open, gray until the atomic step. `Loose`
are the marked objects that still refer to unmarked ones and are on neither
`gray` nor `weak`; marking never adds to them (`Grows`), so `atomic` only has to
look at those it starts with: open upvalues, whose values `remarkupvals` marks,
and what is in `grayagain`. None is left in the end (`EndingMarks`,
`KeepingMarks`). `Shape` is where gray objects are: each on one of the lists and
once. `Swept` says the same of the sweep, that what it has passed has the current
white, or is a userdata that waits. `Grows` is the relation between the
collector's records before and after a step of the marking, which every operator
of it keeps, so that `propagateall` does too: by induction over its turns, with
an inductive set in place of the rule. `Finished` ties `called`, `fin` and
`tmudata` together. Each action of the program has a lemma of its own (`NewStep`,
`SetTableStep`, ...), most of them from `Rewritten`: one object changes, and if
it was black the barrier has marked what it now holds or listed it again.

What the marking leaves out has two proofs of its own. `FullCollects` rests on
`FullMarks`, that in the second half of a full collection only what can be
reached from the threads and the waiting userdata is marked: that set is closed
under what `propagatemark` follows (`ReachClosed`), so marking stays `Within` it.
For `NoFinalizedValue`, a weak table on `weak` is `Stale` while something it holds
strongly is unmarked. Marking makes no more of these, blackens no weak table and
lists no table in `grayagain` (`Adds`); `WeakAgain` empties `weak` to traverse what
was on it again, so that from there on none is stale, and `GrayAgain` leaves no table in
`grayagain`. So when `cleartable` runs, a weak table the program can reach is on
`weak`, and loses the value that was finalized (`ReachedCleared`); unless it was
black, traversed before it was made weak.

**LuaRequire.** `MarkedAtWork`: a chunk in progress finds its own module marked,
with the sentinel or the table that `module` made. So `require` of it is answered
or refused, but does not start it again.

Proofs about the index that a `CHOOSE` or a search returns use that a set of
natural numbers has a least element (`WFMin`); induction as a rule is out of
reach, because the library states it for an operator.

Only model-checked:

* the liveness halves of the two refinements, and that of the client and of sort:
  TLAPS does not reason about fairness here;
* `LuaMatch`, `LuaChunk`, `LuaThread`, the compiler and the machine it
  feeds: they follow recursive C functions with recursive operators, which the
  prover cannot use;
* `LuaTable`, whose properties say what a loop (chains, `rehash`) has computed,
  and the moves of `tinsert` and `tremove`.

## Disagreements

* **`luacallback_shared`.** With both threads, TLC finds a run in which the event
  loop's thread enters `luaD_precall` while the worker is inside it, and the
  function that then runs does not run on the base the state has. `lvm.c:403`
  asserts `base == L->base && L->base == L->ci->base` before each instruction.
* **`luacallback_room`.** `onMessage` and `onNewConnection` never pop the error
  object a failed `lua_pcall` leaves. `api_incr_top` (`lapi.c:45`) asserts `L->top
  < L->ci->top`; after 20 failures at most, the pushes go beyond what the frame of
  `startServer` was given (`LUA_MINSTACK`).
* **`tinkertable_name`.** `table(L, name)` makes its object without a reference.
  The first copy that is destroyed brings the count to zero and deletes the object
  under the original. The same slip in `table(L)` is corrected, with a comment
  saying so (`lua_tinker.cpp:720`). Without copies the object is never deleted.
* **`tinkercall_caller`.** `call`'s comment (`lua_tinker.h:836`) says the handler
  is removed from the stack. After a failed `lua_pcall` the error object is popped
  first, so that `lua_remove(L, -2)` removes the slot *under* the handler: the
  caller's last argument or, when it has none left, its function's own slot.

* **`luacallback_code`.** `LuaStart.cpp:47` and `:54` call `lua_pcall`'s fourth
  argument, 1, the code returned when an error occurs (`ErrorCode`). It is the
  index of a handler; index 1 is the string `ip`, and every error becomes
  `LUA_ERRERR`, 5, with its message lost. With one thread that is all a failed
  callback ever reports (`EveryErrorIsErrErrAlways`).
* **`client_destroyed`.** `Client.cc:102` sleeps a second to "wait for
  disconnect", but awaits nothing: `disconnect` does not stop a connection from
  being established later, nor does it hurry the peer, and when `main` then
  destroys the client the loop still has `onConnection` to call on it. In the run
  TLC finds, the input ends before there is a connection; one is established
  during the sleep and goes down after the client.

Read off the code, without a run of its own: `lua_tinker.h:703` promises that
lifetimes are right whatever is passed to Lua; a `ptr2user` or `ref2user` keeps
nothing alive.

### Observations

What the models brought to light and no document contradicts:

* **sort.** An order function that changes its mind can keep `auxsort` going for
  ever: a range is split into itself. (Read off the code: the scans test their
  bounds after the comparison, so that a function that accepts nil is called with
  elements past the range. In the model, comparing nil is an error.)
* **Patterns.** A back-reference to a position capture never matches.
* **Collector.** A userdata that waits for its `__gc` is black while its objects
  are swept and finalized. `debug.setfenv` on it in that time reaches the barrier,
  whose assertion `gcstate != GCSfinalize` (`lgc.c:664`) does not hold then;
  without assertions the barrier does no harm.
* **Weak tables.** A full collection leaves garbage behind: a table whose weak entry is
  cleared in the atomic step was marked from that entry's key or value, and stays
  until the next one, with all it leads to. (`FullCollects` was first stated of all that
  is left and passed with the one entry that fits two slots; the proof attempt
  showed that it fails with three.)
* **Coroutines.** A new coroutine whose first resume fails with "C stack overflow"
  is dead without having run (`lost` in `Coroutines`). A coroutine is refused at
  the limit of C calls, but one started just below it can pass the limit: only the
  count that *equals* it raises the error, later ones go on to the reserve for
  error handling.
* **Modules.** A module that called `module` and then fails passes for loaded; one
  that failed before is refused for ever as a loop; one that returns `false` is
  run again at each `require` (`ModulesOnce`).
* **lua_tinker's classes.** A field that a script assigns to an object is the
  class's, for all objects; the first assignment stays and later ones are dropped
  without an error. An inherited member variable reads as the userdata that stands
  for it, not as its value, and is shadowed by an assignment. Pushing a null
  pointer gives nil, everywhere, the class's metatable (`FieldsAgree`).

## What is not modelled

* muduo, except as the environment of the codec, the server and the client.
* `onStringMessage` of the server, which nothing calls.
* The text of messages and times. `hanleMessageQueue` passes a pointer into a
  temporary string as the time (`LuaServer.cpp:50`), so what the script reads
  there is undefined, and `lua_pushstring` cuts a message at its first zero byte.
* The end of the server: `bHandleMsg` is never cleared and the event loop never
  quits, so `thr.join` and what follows are unreachable.
* Start-up (`Main.cpp`, `LuaStart`, the exit path of `ServMain.lua`) and the
  script utilities (`deepCopy`, `printTable`): in the plan.
* Of the compiler, the lexer, and the names and lines of the debug information; of
  the interpreter, hooks, the movement of a growing stack, fractions; of
  `lua_tinker`, the conversion of arguments and its 64-bit integers, and `_ALERT`.
* Of the collector, the pacing: a step may come at any time. Memory errors are
  left out everywhere.
* Growing buffers (`luaL_Buffer`, `luaZ_` buffers), and the libraries `io`, `os`,
  `math`, `string.format` and `debug`: conversions and calls into the system.
* The search of files and shared libraries in `loadlib.c`, which is a choice.
* `lua.c`, `luac.c`, `print.c`, the sample: outside the server.

## The plan

Done: every module of the table under [The models](#the-models), with proofs for
the reference store, the codec, the server, the callbacks, the client, the
ownership of objects and their fields, table handles, calls into scripts, strings,
modules, sort and the collector.

Next, in this order:

| module | code | theorems / properties |
|---|---|---|
| `Startup` | `Main.cpp`, `LuaStart.cpp`, `ServMain.lua` | the state is closed once and not used after it; composed with `LuaRef` for callbacks registered again |
| `Utils` | `luaScript/` | `deepCopy` ends and keeps the shape of a finite graph |
