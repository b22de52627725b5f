------------------------------ MODULE CoreDebug -------------------------------
(***************************************************************************)
(* The core's side of Debug Mode: the FSM of core/rtl/core_debug_ctrl.sv,  *)
(* the resume PC, and the three channels a halted core serves              *)
(* (core_int_datapath.sv), each with the one operation the Debug Module    *)
(* has in flight on it (debug/rtl: debug_reg_access, debug_abstract_cmd,   *)
(* debug_progbuf_exec).  trigger, retire and the like are wires from Core. *)
(***************************************************************************)
EXTENDS Naturals

VARIABLES
  dbgState,    \* core_debug_ctrl state_q
  nextPc,      \* debug_next_pc_q
  dpc,         \* debug_dpc_q
  execActive,  \* debug_exec_active_q: an injected word is in the pipeline
  memOut,      \* debug_mem_req_outstanding_q
  rspValid,    \* the channels whose response is held for the Debug Module
  dm,          \* the Debug Module's operation, and the word EXEC injects
  step,        \* dcsr_step_q
  triggersOn   \* the debugger has its triggers enabled

debugVars == <<dbgState, nextPc, dpc, execActive, memOut, rspValid, dm, step,
               triggersOn>>

Channels == {"GPR", "MEM", "EXEC"}
DbgStates == {"RUNNING", "HALT_PENDING", "HALTED", "STEP_RUNNING"}

DebugTypeOK(Word) ==
  /\ dbgState \in DbgStates
  /\ nextPc \in Nat /\ dpc \in Nat
  /\ execActive \in BOOLEAN /\ memOut \in BOOLEAN
  /\ rspValid \subseteq Channels
  /\ dm \in [op : Channels \union {"NONE"}, phase : {"REQ", "WAIT"}, instr : Word]
  /\ step \in BOOLEAN /\ triggersOn \in BOOLEAN

NoOp(word) == [op |-> "NONE", phase |-> "REQ", instr |-> word]

DebugInit(word) ==
  /\ dbgState = "RUNNING"
  /\ nextPc = 0 /\ dpc = 0
  /\ execActive = FALSE /\ memOut = FALSE /\ rspValid = {}
  /\ dm = NoOp(word)
  /\ step = FALSE /\ triggersOn = FALSE

-------------------------------------------------------------------------------
Halted == dbgState = "HALTED"
Running == dbgState \in {"RUNNING", "STEP_RUNNING"}

\* Requests on the channels; a response still held blocks the next ones.
Requests(op) == Halted /\ dm.op = op /\ dm.phase = "REQ"
GprFires == Requests("GPR") /\ ~execActive /\ rspValid \intersect {"GPR", "EXEC"} = {}
MemActive ==
  Requests("MEM") /\ ~execActive /\ ~memOut /\ rspValid \intersect {"MEM", "EXEC"} = {}
InjectValid == Requests("EXEC") /\ ~execActive /\ ~memOut /\ rspValid = {}

\* Mutant: an injected word in the pipeline does not count.
Busy_NotExecuting ==
  rspValid # {} \/ GprFires \/ MemActive \/ memOut \/ Requests("EXEC")

Busy == rspValid # {} \/ GprFires \/ MemActive \/ memOut \/ Requests("EXEC") \/ execActive

\* Mutant: fetch goes on while the pipeline is to drain.
StopFetch_NotPending(halt, trigger) == halt \/ trigger \/ Halted

StopFetch(halt, trigger) ==
  halt \/ trigger \/ dbgState \in {"HALT_PENDING", "HALTED"}

\* The hart leaves Debug Mode at the PC in dpc.
ResumeRedirect(halt, resume) == Halted /\ resume /\ ~halt /\ ~Busy

\* Mutant: a step does not end with the instruction stepped.
DbgStateClock_NoStepEnd(halt, resume, trigger, idle, retire) ==
  dbgState' =
    CASE dbgState \in {"RUNNING", "STEP_RUNNING"} ->
           IF ~halt /\ ~trigger THEN dbgState
           ELSE IF idle /\ ~Busy THEN "HALTED" ELSE "HALT_PENDING"
      [] dbgState = "HALT_PENDING" ->
           IF ~halt /\ resume THEN "RUNNING"
           ELSE IF idle /\ ~Busy THEN "HALTED" ELSE "HALT_PENDING"
      [] dbgState = "HALTED" ->
           IF halt \/ ~resume \/ Busy THEN "HALTED"
           ELSE IF step THEN "STEP_RUNNING" ELSE "RUNNING"

DbgStateClock(halt, resume, trigger, idle, retire) ==
  dbgState' =
    CASE dbgState = "RUNNING" ->
           IF ~halt /\ ~trigger THEN "RUNNING"
           ELSE IF idle /\ ~Busy THEN "HALTED" ELSE "HALT_PENDING"
      [] dbgState = "HALT_PENDING" ->
           IF ~halt /\ resume THEN "RUNNING"
           ELSE IF idle /\ ~Busy THEN "HALTED" ELSE "HALT_PENDING"
      [] dbgState = "HALTED" ->
           IF halt \/ ~resume \/ Busy THEN "HALTED"
           ELSE IF step THEN "STEP_RUNNING" ELSE "RUNNING"
      [] dbgState = "STEP_RUNNING" ->
           IF ~halt /\ ~trigger /\ ~retire THEN "STEP_RUNNING"
           ELSE IF idle THEN "HALTED" ELSE "HALT_PENDING"

\* The resume PC is seeded by the first instruction accepted into an empty
\* pipeline, follows retirement, and is copied to dpc until the hart is halted.
NextPcClock(trigger, triggerPc, retire, retireNext, seed, seedPc) ==
  nextPc' = IF trigger THEN triggerPc
            ELSE IF retire THEN retireNext
            ELSE IF seed THEN seedPc ELSE nextPc

\* Mutant: dpc is captured an edge after the hart is halted.
DpcClock_Late(halt, trigger, idle) == dpc' = IF Halted THEN nextPc ELSE dpc

DpcClock(halt, trigger, idle) ==
  dpc' = IF Halted \/ (StopFetch(halt, trigger) /\ idle /\ ~Busy) THEN nextPc ELSE dpc

\* Mutant: a response is not cleared when it is consumed.
ChannelClock_Sticky(memFires, memAnswers, execFires, execDone) ==
  /\ execActive' = (~execDone /\ (execFires \/ execActive))
  /\ memOut' = (~memAnswers /\ (memFires \/ memOut))
  /\ rspValid' = rspValid \union (IF GprFires THEN {"GPR"} ELSE {})
                          \union (IF memAnswers THEN {"MEM"} ELSE {})
                          \union (IF execDone THEN {"EXEC"} ELSE {})

\* The registered responses: one per accepted request, held until consumed.
ChannelClock(memFires, memAnswers, execFires, execDone) ==
  /\ execActive' = (~execDone /\ (execFires \/ execActive))
  /\ memOut' = (~memAnswers /\ (memFires \/ memOut))
  /\ rspValid' =
       (rspValid \ {c \in rspValid : dm.op = c /\ dm.phase = "WAIT"})
         \union (IF GprFires THEN {"GPR"} ELSE {})
         \union (IF memAnswers THEN {"MEM"} ELSE {})
         \union (IF execDone THEN {"EXEC"} ELSE {})

\* The Debug Module starts an operation only while it sees the hart halted, and
\* gives it up when it no longer does.  fires: the core accepts the request.
DmClock(command, fires) ==
  dm' = CASE ~Halted                            -> NoOp(dm.instr)
          [] Halted /\ dm.op = "NONE"           ->
               IF command.op \in Channels THEN command ELSE dm
          [] Halted /\ dm.op # "NONE" /\ dm.phase = "REQ" ->
               IF fires THEN [dm EXCEPT !.phase = "WAIT"] ELSE dm
          [] OTHER -> IF dm.op \in rspValid THEN NoOp(dm.instr) ELSE dm

\* dcsr.step and the triggers are written by abstract commands, so only while
\* the hart is halted and no other command is in progress.
CommandClock(command) ==
  /\ step' = (step # (command.op = "STEP"))
  /\ triggersOn' = (triggersOn # (command.op = "TRIGGERS"))
===============================================================================
