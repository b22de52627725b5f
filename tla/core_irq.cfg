SPECIFICATION MCOnPathSpec
CONSTANTS
  IbufDepth = 2
  Program <- IrqProgram
  FaultPcs = {16}
  Mtvec = 24
  DebugExecPc = 1000
  ExecTriggers = {}
  DataTriggers = {}
  DebugWords <- MCDebugWords
  DmCommands = {}
  DmWrites = {"NONE", "HALT", "RESUME"}
INVARIANTS TypeOK ResumePcIsOldest
PROPERTY ExecutesInOrder
