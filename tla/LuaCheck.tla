------------------------------ MODULE LuaCheck ------------------------------
(***************************************************************************)
(* The checker of ldebug.c: code that is to run must keep to its registers, *)
(* constants, upvalues and jumps, and only certain instructions may follow *)
(* one that leaves an open number of values on the stack.  The parser      *)
(* asserts that what it made passes, and a binary chunk has to pass before *)
(* it is run.  Tracing (symbexec with a register, for the names in error   *)
(* messages) is left out.                                                  *)
(***************************************************************************)
EXTENDS LuaCode

(* lopcodes.c: what the operands B and C of an instruction are. *)
JumpOps    == {"JMP", "FORLOOP", "FORPREP"}
BRegister  == {"MOVE", "LOADNIL", "GETTABLE", "SELF", "UNM", "NOT", "LEN", "CONCAT", "TEST", "TESTSET"}
BConstant  == {"SETTABLE", "ADD", "SUB", "MUL", "DIV", "MOD", "POW", "EQ", "LT", "LE"}
BUnused    == {"TFORLOOP", "CLOSE"}
CRegister  == {"CONCAT"}
CConstant  == {"GETTABLE", "SETTABLE", "SELF", "ADD", "SUB", "MUL", "DIV", "MOD", "POW", "EQ", "LT", "LE"}
CUsed      == {"LOADBOOL", "NEWTABLE", "TEST", "TESTSET", "CALL", "TAILCALL", "TFORLOOP", "SETLIST"}

IsReg(pt, r)      == r < pt.maxstacksize
IsRK(pt, r)       == IF ISK(r) THEN INDEXK(r) < Len(pt.k) ELSE IsReg(pt, r)
Instruction(pt, pc) == pt.code[pc + 1]

precheck(pt) ==
  LET HasArg == IF "HASARG" \in pt.is_vararg THEN 1 ELSE 0
  IN /\ pt.maxstacksize <= MAXSTACK
     /\ pt.numparams + HasArg <= pt.maxstacksize
     /\ "NEEDSARG" \in pt.is_vararg => "HASARG" \in pt.is_vararg
     /\ pt.code # <<>> /\ pt.code[Len(pt.code)].op = "RETURN"

luaG_checkopenop(i) == i.op \in {"CALL", "TAILCALL", "RETURN", "SETLIST"} /\ i.b = 0

checkArgMode(pt, i) ==
  /\ i.op \in BRegister => IsReg(pt, i.b)
  /\ i.op \in BConstant => IsRK(pt, i.b)
  /\ i.op \in BUnused => i.b = 0
  /\ i.op \in {"LOADK", "GETGLOBAL", "SETGLOBAL"} => i.b < Len(pt.k)
  /\ i.op \in CRegister => IsReg(pt, i.c)
  /\ i.op \in CConstant => IsRK(pt, i.c)
  /\ i.op \notin CRegister \cup CConstant \cup CUsed => i.c = 0

(* A jump stays in the code and does not reach the count of a SETLIST. *)
checkjump(pt, pc, i) ==
  LET dest == pc + 1 + i.b
  IN i.op \in JumpOps => /\ dest \in 0 .. Len(pt.code) - 1
                         /\ Instruction(pt, dest).op # "COUNT"

(* What symbexec asks of one instruction. *)
checkinstruction(pt, pc) ==
  LET i == Instruction(pt, pc)
      size == Len(pt.code)
      open == luaG_checkopenop(Instruction(pt, pc + 1))
      nup == Len(pt.p[i.b + 1].upvalues)
  IN /\ IsReg(pt, i.a) \/ i.op = "COUNT"
     /\ checkArgMode(pt, i)
     /\ checkjump(pt, pc, i)
     /\ i.op \in TestOps => pc + 2 < size /\ Instruction(pt, pc + 1).op = "JMP"
     /\ CASE i.op = "LOADBOOL" -> i.c = 1 => /\ pc + 2 < size
                                             /\ ~(Instruction(pt, pc + 1).op = "SETLIST" /\ Instruction(pt, pc + 1).c = 0)
          [] i.op \in {"GETUPVAL", "SETUPVAL"} -> i.b < Len(pt.upvalues)
          [] i.op \in {"GETGLOBAL", "SETGLOBAL"} -> pt.k[i.b + 1].t = "string"
          [] i.op = "SELF" -> IsReg(pt, i.a + 1)
          [] i.op = "CONCAT" -> i.b < i.c
          [] i.op = "TFORLOOP" -> i.c >= 1 /\ IsReg(pt, i.a + 2 + i.c)
          [] i.op \in {"FORLOOP", "FORPREP"} -> IsReg(pt, i.a + 3)
          [] i.op \in {"CALL", "TAILCALL"} ->
               /\ i.b # 0 => IsReg(pt, i.a + i.b - 1)
               /\ IF i.c = 0 THEN open ELSE i.c > 1 => IsReg(pt, i.a + i.c - 2)
          [] i.op = "RETURN" -> i.b > 1 => IsReg(pt, i.a + i.b - 2)
          [] i.op = "SETLIST" -> /\ i.b > 0 => IsReg(pt, i.a + i.b)
                                 /\ i.c = 0 => pc + 1 < size - 1
          [] i.op = "CLOSURE" -> /\ i.b < Len(pt.p)
                                 /\ pc + nup < size
                                 /\ \A j \in 1 .. nup : Instruction(pt, pc + j).op \in {"GETUPVAL", "MOVE"}
          [] i.op = "VARARG" -> /\ "ISVARARG" \in pt.is_vararg /\ "NEEDSARG" \notin pt.is_vararg
                                /\ i.b = 0 => open
                                /\ IsReg(pt, i.a + i.b - 2)
          [] OTHER -> TRUE

luaG_checkcode(pt) == precheck(pt) /\ \A pc \in 0 .. Len(pt.code) - 1 : checkinstruction(pt, pc)
=============================================================================
