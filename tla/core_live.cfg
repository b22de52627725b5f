SPECIFICATION MCFairSpec
CONSTANTS
  IbufDepth = 2
  Program <- LoopProgram
  FaultPcs = {}
  Mtvec = 100
  DebugExecPc = 1000
  ExecTriggers = {}
  DataTriggers = {}
  DebugWords <- MCDebugWords
  DmCommands = {"STEP", "MEM"}
  DmWrites = {"NONE", "HALT", "RESUME", "CLEAR"}
PROPERTIES HaltIsAnswered ResumeIsAnswered StepEnds
