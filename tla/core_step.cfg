SPECIFICATION MCSpec
CONSTANTS
  IbufDepth = 2
  Program <- DebugProgram
  FaultPcs = {}
  Mtvec = 100
  DebugExecPc = 1000
  ExecTriggers = {}
  DataTriggers = {}
  DebugWords <- MCDebugWords
  DmCommands = {"STEP"}
  DmWrites = {"NONE", "HALT", "RESUME", "CLEAR"}
INVARIANTS StepIsOneInstruction
