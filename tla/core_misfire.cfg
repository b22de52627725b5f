SPECIFICATION MCSpec
CONSTANTS
  IbufDepth = 2
  Program <- DebugProgram
  FaultPcs = {}
  Mtvec = 100
  DebugExecPc = 1000
  ExecTriggers = {8}
  DataTriggers = {}
  DebugWords <- MCDebugWords
  DmCommands = {"TRIGGERS"}
  DmWrites = {"NONE", "HALT", "RESUME", "CLEAR"}
INVARIANTS DpcIsResumePc
