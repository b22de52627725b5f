SPECIFICATION MCOnPathSpec
CONSTANTS
  IbufDepth = 2
  Program <- ShortProgram
  FaultPcs = {}
  Mtvec = 100
  DebugExecPc = 1000
  ExecTriggers = {8}
  DataTriggers = {0}
  DebugWords <- MCDebugWords
  DmCommands = {"GPR", "MEM", "EXEC", "STEP", "TRIGGERS"}
  DmWrites = {"NONE", "HALT", "RESUME", "CLEAR"}
INVARIANTS InFlightIsSequential ResumePcIsOldest DebugWorkIsHalted DataResponseIsOwned StepIsBounded
PROPERTIES HartFollowsDiagrams ExecutesInOrder
