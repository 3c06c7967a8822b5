CONSTANTS
  MAXSTACK = 14
  BITRK = 16
  MAXARG_C = 3
  MAXARG_Bx = 40
  MAXARG_sBx = 80
  LFIELDS_PER_FLUSH = 2
  LUAI_MAXVARS = 10
  LUAI_MAXUPVALUES = 5
  LUAI_MAXCCALLS = 10
  STACKSIZE = 60
  BASIC_CI_SIZE = 4
  LUAI_MAXCALLS = 15
  MAXTAGLOOP = 5
  Collation <- MCCollation
  CFunctions <- MCCFunctions
  Loaded <- MCLoaded
  Expected <- MCExpected
SPECIFICATION Spec
INVARIANTS Computes CodeChecked MachineConsistent
