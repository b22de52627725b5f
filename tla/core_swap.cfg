SPECIFICATION MCSpec
CONSTANTS
  IbufDepth = 2
  Program <- SwapProgram
  FaultPcs = {}
  Mtvec = 12
  DebugExecPc = 1000
  ExecTriggers = {}
  DataTriggers = {}
  DebugWords <- MCDebugWords
  DmCommands = {}
  DmWrites = {"NONE"}
INVARIANTS SwapIsAtomic
