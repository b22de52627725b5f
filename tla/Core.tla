--------------------------------- MODULE Core ---------------------------------
(***************************************************************************)
(* The hart: frontend, pipeline, debug control and halt controller, wired  *)
(* as in core/rtl/core_int_datapath.sv, tile/rtl/tile.sv and               *)
(* debug/rtl/debug.sv.  One clock drives them all, so a step is one edge,  *)
(* Clock(in), in which every block moves on from the values before it.  in *)
(* holds what the hart does not decide: when the caches answer, interrupts,*)
(* whether a branch is taken, and what the debugger does.                  *)
(***************************************************************************)
EXTENDS Frontend, CorePipe, CoreDebug, HaltCtrl

CONSTANTS
  ExecTriggers,   \* PCs with an execute trigger
  DataTriggers,   \* PCs of loads and stores to an address with a data trigger
  DebugWords,     \* the instructions a debugger injects
  DmCommands,     \* the abstract commands it uses
  DmWrites        \* the dmcontrol writes it makes

ASSUME DebuggerAssumption ==
  /\ ExecTriggers \subseteq Nat /\ DataTriggers \subseteq Nat
  /\ DebugWords \subseteq Instruction
  /\ DmCommands \subseteq Channels \union {"STEP", "TRIGGERS"}
  /\ DmWrites \subseteq DmcontrolWrites /\ "NONE" \in DmWrites

vars == <<frontendVars, pipeVars, debugVars, haltVars>>

TypeOK ==
  /\ FrontendTypeOK /\ PipeTypeOK /\ HaltTypeOK
  /\ DebugTypeOK(Instruction)

Init == FrontendInit /\ PipeInit /\ DebugInit(Nop) /\ HaltInit

-------------------------------------------------------------------------------
(* Inputs, FALSE or NONE where nothing would look at them.                 *)

If(relevant) == IF relevant THEN BOOLEAN ELSE {FALSE}

\* A cache answers a request in a later cycle than the one it accepts it in.
DataWanted == (MemOp /\ ~lsuOutstanding) \/ MemActive
DataPending == lsuOutstanding \/ memOut

CommandPossible(c) ==
  /\ c.op = "NONE" \/ (Halted /\ dm.op = "NONE")
  /\ IF c.op = "EXEC" THEN c.instr \in DebugWords ELSE c.instr = Nop
Commands ==
  {c \in [op : {"NONE"} \union DmCommands, phase : {"REQ"},
          instr : {Nop} \union DebugWords] : CommandPossible(c)}

\* Of two writes with the same effect, one.
Writes == {w \in DmWrites : /\ w = "HALT" => ~haltreq
                            /\ w = "RESUME" => ~resumereq
                            /\ w = "CLEAR" => haltreq}

Inputs ==
  [imemReady : If(fetchState = "IDLE"),
   imemRsp   : If(fetchState = "WAIT"),
   dmemReady : If(DataWanted),
   dmemRsp   : IF DataPending THEN {"NONE", "OK", "ERR"} ELSE {"NONE"},
   irq       : If(mie),
   taken     : If(Ex({"BRANCH"})),
   write     : Writes,
   command   : Commands]

-------------------------------------------------------------------------------
(* Wires of core_int_datapath.                                             *)

\* Mutant: a trigger may match an instruction whose access is under way.
CanTrigger_InFlight == triggersOn /\ ~Halted /\ ~HaltReq

CanTrigger == triggersOn /\ ~Halted /\ ~HaltReq /\ ~lsuOutstanding
DataTrigger == CanTrigger /\ MemOp /\ ex.pc \in DataTriggers

\* Mutant: a load or store in EX is not issued under a halt request.
LsuFires_NotHalting(in) ==
  MemOp /\ ~lsuOutstanding /\ ~MemActive /\ ~DataTrigger /\ ~HaltReq /\ in.dmemReady

LsuFires(in) == MemOp /\ ~lsuOutstanding /\ ~MemActive /\ ~DataTrigger /\ in.dmemReady
LsuAnswered(in) == in.dmemRsp # "NONE" /\ lsuOutstanding
LsuWait(in) == MemOp /\ ~DataTrigger /\ ~LsuAnswered(in)
Retires(in) == ex.valid /\ ~DataTrigger /\ ~LsuWait(in)
HartRetires(in) == Retires(in) /\ ~ex.debug

\* The instruction in ID, when the one in EX does not hold it up.
ExecTrigger(in) ==
  /\ CanTrigger /\ id.valid /\ id.pc \in ExecTriggers
  /\ ~ex.valid \/ Retires(in)
Trigger(in) == DataTrigger \/ ExecTrigger(in)
TriggerPc == IF DataTrigger THEN ex.pc ELSE id.pc

TrapRedirect(in) == HartRetires(in) /\ (MretTaken \/ TrapEntered(in.irq))
BranchRedirect(in) == HartRetires(in) /\ BranchTaken(in.taken)
TrapTarget == IF MretTaken THEN mepc ELSE Mtvec

Resumes == ResumeRedirect(HaltReq, ResumeReq)
Redirect(in) == TrapRedirect(in) \/ BranchRedirect(in) \/ Resumes \/ Trigger(in)
RedirectPc(in) ==
  IF TrapRedirect(in) THEN TrapTarget
  ELSE IF BranchRedirect(in) THEN ex.instr.target
  ELSE IF Trigger(in) THEN TriggerPc ELSE dpc

\* Mutant: the resume PC ignores jumps and traps.
RetireNextPc_Linear(in) == ex.pc + 4

RetireNextPc(in) ==
  IF TrapRedirect(in) THEN TrapTarget
  ELSE IF BranchRedirect(in) THEN ex.instr.target ELSE ex.pc + 4

\* A load-use stall ends with the load: it is in EX one cycle longer than ID.
LoadUseStall(in) ==
  LoadUse(~TrapRedirect(in) /\ in.dmemRsp # "ERR")

Frozen == Halted /\ ~execActive
DecodeStall(in) == LoadUseStall(in) \/ LsuWait(in) \/ Frozen
Accepts(in) ==
  /\ ~StopFetch(HaltReq, Trigger(in)) /\ ~DecodeStall(in)
  /\ ~Redirect(in) /\ ~InjectValid
Inject(in) == InjectValid /\ ~id.valid /\ ~ex.valid /\ ~Redirect(in)
InstrFires(in) == Accepts(in) /\ PopValid(Redirect(in))

ExecDone(in) == Retires(in) /\ ex.debug
MemFires(in) == MemActive /\ in.dmemReady
MemAnswered(in) == in.dmemRsp # "NONE" /\ memOut

-------------------------------------------------------------------------------
Datapath(in) ==
  /\ PipeClock(Redirect(in), Inject(in), LoadUseStall(in) /\ ~LsuWait(in) /\ ~Frozen,
               ~DecodeStall(in), InstrFires(in), dm.instr, Fetched(Head(ibuf)))
  /\ LsuClock(LsuFires(in), LsuAnswered(in))
  /\ CsrClock(HartRetires(in) /\ TrapEntered(in.irq), HartRetires(in) /\ MretTaken,
              Retires(in) /\ ~TrapRedirect(in))

DebugControl(in) ==
  /\ DbgStateClock(HaltReq, ResumeReq, Trigger(in), PipeIdle, Retires(in))
  /\ NextPcClock(Trigger(in), TriggerPc, HartRetires(in), RetireNextPc(in),
                 InstrFires(in) /\ PipeIdle, Head(ibuf))
  /\ DpcClock(HaltReq, Trigger(in), PipeIdle)
  /\ ChannelClock(MemFires(in), MemAnswered(in), Inject(in), ExecDone(in))

DebugModule(in) ==
  /\ HaltClock(in.write, Halted, Running)
  /\ DmClock(in.command, CASE dm.op = "GPR" -> GprFires
                           [] dm.op = "MEM" -> MemFires(in)
                           [] OTHER         -> Inject(in))
  /\ CommandClock(in.command)

Clock(in) ==
  /\ FrontendClock(Redirect(in), RedirectPc(in), InstrFires(in), in.imemReady,
                   in.imemRsp)
  /\ Datapath(in)
  /\ DebugControl(in)
  /\ DebugModule(in)

Next == \E in \in Inputs : Clock(in)

Spec == Init /\ [][Next]_vars

\* A trigger that matches in ID, on the edge that discards what is in ID because
\* the instruction before it jumps or traps.  What the core promises, it
\* promises to a debugger whose triggers never do that (see the README).
Misfire(in) == ExecTrigger(in) /\ (TrapRedirect(in) \/ BranchRedirect(in))

OnPathNext == \E in \in Inputs : Clock(in) /\ ~Misfire(in)
OnPathSpec == Init /\ [][OnPathNext]_vars

-------------------------------------------------------------------------------
(* Properties.                                                             *)

If1(valid, p) == IF valid THEN <<p>> ELSE <<>>
Own(slot) == slot.valid /\ ~slot.debug

\* What the hart is about to execute, oldest first: the slots, the buffer, the
\* fetch under way, and the PC to be fetched next.
InFlight ==
  If1(Own(ex), ex.pc) \o If1(Own(id), id.pc) \o ibuf
    \o If1(fetchState = "WAIT" /\ ~kill, fetchPc) \o <<pc>>
OldestPc == Head(InFlight)

\* Between two redirects the PCs in flight are consecutive: no fetch, flush or
\* stall loses an instruction, repeats it, or lets a stale response through.
InFlightIsSequential ==
  \A i \in 1 .. Len(InFlight) - 1 : InFlight[i + 1] = InFlight[i] + 4

\* The resume PC always is the PC of the oldest instruction, whichever of the
\* accepted fetch, retirement, trap and trigger updated it last; and the DPC a
\* debugger reads from a halted hart is that PC.
ResumePcIsOldest ==
  /\ nextPc = OldestPc
  /\ Halted => dpc = OldestPc

\* A halted hart holds no instruction of its own, and what the debugger has it
\* do it does only while halted: it never resumes under an injected word, an
\* access, or a response that has not been collected.
DebugWorkIsHalted ==
  IF Halted
  THEN /\ ~Own(id) /\ ~Own(ex)
       /\ execActive <=> id.valid \/ ex.valid
       /\ lsuOutstanding => ex.valid
  ELSE /\ ~(id.valid /\ id.debug) /\ ~(ex.valid /\ ex.debug)
       /\ ~execActive /\ ~memOut /\ rspValid = {}

\* A data response belongs to one request: the load or store in EX, or the
\* debugger's access, never to both or to an instruction that was flushed.
DataResponseIsOwned ==
  /\ ~(lsuOutstanding /\ memOut)
  /\ lsuOutstanding => MemOp
  /\ memOut => dm.op = "MEM" /\ dm.phase = "WAIT"

\* The core implements the sequential machine of Hart: pipeline, prefetch,
\* stalls and debug entry do not show.
Sequential ==
  INSTANCE Hart WITH
    Faulted <- LAMBDA p : p \in FaultPcs,
    mode <- IF Halted THEN "DEBUG" ELSE "RUN",
    apc <- IF Halted THEN dpc ELSE OldestPc,
    accessed <- lsuOutstanding /\ ~ex.debug
ExecutesInOrder == Sequential!Spec
===============================================================================
