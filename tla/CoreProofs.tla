------------------------------ MODULE CoreProofs ------------------------------
(***************************************************************************)
(* What is proved about the hart for every program, every buffer depth and *)
(* every debugger.                                                         *)
(***************************************************************************)
EXTENDS Core, SequenceTheorems, TLAPS

-------------------------------------------------------------------------------
(* Each block keeps the types of its own registers.                        *)

\* The buffer is pushed only below its depth, and popped only when not empty.
LEMMA IbufTypeStep ==
  ASSUME FrontendTypeOK, NEW flush, NEW pop, NEW rsp, pop => ibuf # <<>>,
         IbufClock(flush, pop, rsp)
  PROVE  ibuf' \in Seq(Nat) /\ Len(ibuf') <= IbufDepth
<1> USE IbufAssumption DEF IbufAssumption
<1>1. Popped(pop) \in Seq(Nat) /\ Len(Popped(pop)) <= Len(ibuf)
  BY DEF Popped, FrontendTypeOK
<1>2. CASE flush
  BY <1>2 DEF IbufClock
<1>3. CASE ~flush /\ Pushes(flush, rsp)
  <2>1. Len(ibuf) < IbufDepth
    BY <1>3 DEF Pushes, PushReady
  <2> DEFINE x == IF fetchState = "IDLE" THEN pc ELSE fetchPc
  <2>2. ibuf' = Append(Popped(pop), x)
    BY <1>3 DEF IbufClock
  <2>3. x \in Nat
    BY DEF FrontendTypeOK
  <2> HIDE DEF x
  <2>4. QED
    BY <1>1, <2>1, <2>2, <2>3 DEF FrontendTypeOK
<1>4. CASE ~flush /\ ~Pushes(flush, rsp)
  BY <1>1, <1>4 DEF IbufClock, FrontendTypeOK
<1>5. QED
  BY <1>2, <1>3, <1>4

LEMMA FrontendTypeStep ==
  ASSUME FrontendTypeOK, NEW flush, NEW target \in Nat, NEW pop, NEW ready,
         NEW rsp, pop => ibuf # <<>>,
         FrontendClock(flush, target, pop, ready, rsp)
  PROVE  FrontendTypeOK'
<1>1. ibuf' \in Seq(Nat) /\ Len(ibuf') <= IbufDepth
  BY IbufTypeStep DEF FrontendClock
<1>2. pcValid' \in BOOLEAN /\ pc' \in Nat
  BY DEF FrontendClock, PcClock, FrontendTypeOK
<1>3. fetchState' \in {"IDLE", "WAIT"} /\ fetchPc' \in Nat /\ kill' \in BOOLEAN
  BY DEF FrontendClock, FetchClock, FrontendTypeOK
<1>4. QED
  BY <1>1, <1>2, <1>3 DEF FrontendTypeOK

LEMMA PipeTypeStep ==
  ASSUME PipeTypeOK, NEW redirect, NEW inject, NEW bubble, NEW advance,
         NEW accept, NEW instr \in Instruction, NEW fetched,
         accept => fetched \in Slot,
         PipeClock(redirect, inject, bubble, advance, accept, instr, fetched)
  PROVE  id' \in Slot /\ ex' \in Slot
<1>1. Bubble \in Slot
  BY DEF Bubble, Slot, Instruction, Kinds, Nop
<1>2. Injected(instr) \in Slot
  BY ProgramAssumption DEF ProgramAssumption, Injected, Slot
<1>3. QED
  BY <1>1, <1>2 DEF PipeClock, PipeTypeOK

LEMMA CsrTypeStep ==
  ASSUME PipeTypeOK, NEW trap, NEW mret, NEW writesReg,
         CsrClock(trap, mret, writesReg)
  PROVE  /\ mie' \in BOOLEAN /\ mpie' \in BOOLEAN /\ mepc' \in Nat
         /\ reg' \in {"A", "B"} /\ scratch' \in {"A", "B"}
  BY DEF PipeTypeOK, CsrClock, Slot, Instruction

LEMMA DebugTypeStep ==
  ASSUME DebugTypeOK(Instruction), NEW in \in Inputs, DebugControl(in),
         DebugModule(in), TriggerPc \in Nat, RetireNextPc(in) \in Nat,
         InstrFires(in) => Head(ibuf) \in Nat
  PROVE  DebugTypeOK(Instruction)'
<1>1. dbgState' \in DbgStates
  BY DEF DebugControl, DbgStateClock, DbgStates, DebugTypeOK
<1>2. nextPc' \in Nat /\ dpc' \in Nat
  BY DEF DebugControl, NextPcClock, DpcClock, DebugTypeOK
<1>3. execActive' \in BOOLEAN /\ memOut' \in BOOLEAN /\ rspValid' \subseteq Channels
  BY DEF DebugControl, ChannelClock, DebugTypeOK, Channels
<1>4. dm' \in [op : Channels \union {"NONE"}, phase : {"REQ", "WAIT"},
              instr : Instruction]
  <2>1. in.command \in Commands
    BY DEF Inputs
  <2>2. in.command.op \in Channels =>
          in.command \in [op : Channels \union {"NONE"}, phase : {"REQ", "WAIT"},
                          instr : Instruction]
    <3>1. Nop \in Instruction
      BY DEF Nop, Instruction, Kinds
    <3>2. QED
      BY <2>1, <3>1, DebuggerAssumption DEF DebuggerAssumption, Commands
  <2>3. PICK fires : DmClock(in.command, fires)
    BY DEF DebugModule
  <2>4. QED
    BY <2>2, <2>3 DEF DmClock, NoOp, DebugTypeOK
<1>5. step' \in BOOLEAN /\ triggersOn' \in BOOLEAN
  BY DEF DebugModule, CommandClock, DebugTypeOK
<1>6. QED
  BY <1>1, <1>2, <1>3, <1>4, <1>5 DEF DebugTypeOK

LEMMA HaltTypeStep ==
  ASSUME HaltTypeOK, NEW write, NEW halted, NEW running,
         HaltClock(write, halted, running)
  PROVE  HaltTypeOK'
  BY DEF HaltTypeOK, HaltClock, DmcontrolClock, HaltCtrlClock

LEMMA WiresTyped ==
  ASSUME TypeOK, NEW in
  PROVE  /\ TriggerPc \in Nat /\ RetireNextPc(in) \in Nat /\ RedirectPc(in) \in Nat
         /\ InstrFires(in) => /\ ibuf # <<>> /\ Head(ibuf) \in Nat
                              /\ Fetched(Head(ibuf)) \in Slot
         /\ dm.instr \in Instruction
<1>1. TriggerPc \in Nat
  BY DEF TypeOK, PipeTypeOK, Slot, TriggerPc
<1>2. TrapTarget \in Nat
  BY ProgramAssumption DEF ProgramAssumption, TypeOK, PipeTypeOK, TrapTarget
<1>3. ex.instr.target \in Nat /\ ex.pc \in Nat
  BY DEF TypeOK, PipeTypeOK, Slot, Instruction
<1>4. RetireNextPc(in) \in Nat
  BY <1>2, <1>3 DEF RetireNextPc
<1>5. RedirectPc(in) \in Nat
  BY <1>1, <1>2, <1>3 DEF RedirectPc, TypeOK, DebugTypeOK
<1>6. InstrFires(in) => ibuf # <<>> /\ Head(ibuf) \in Nat
  BY DEF InstrFires, PopValid, TypeOK, FrontendTypeOK
<1>7. ASSUME NEW p \in Nat
      PROVE  Fetched(p) \in Slot
  <2>1. InstrAt(p) \in Instruction
    BY ProgramAssumption
    DEF ProgramAssumption, InstrAt, Illegal, Instruction, Kinds
  <2>2. QED
    BY <2>1 DEF Fetched, Slot
<1>8. dm.instr \in Instruction
  BY DEF TypeOK, DebugTypeOK
<1>9. QED
  BY <1>1, <1>4, <1>5, <1>6, <1>7, <1>8

LEMMA TypeInit == Init => TypeOK
<1> SUFFICES ASSUME Init PROVE TypeOK
  OBVIOUS
<1>1. FrontendTypeOK
  <2>1. ibuf \in Seq(Nat) /\ Len(ibuf) = 0
    BY DEF Init, FrontendInit
  <2>2. Len(ibuf) <= IbufDepth
    BY <2>1, IbufAssumption DEF IbufAssumption
  <2>3. /\ pcValid \in BOOLEAN /\ pc \in Nat /\ fetchState \in {"IDLE", "WAIT"}
        /\ fetchPc \in Nat /\ kill \in BOOLEAN
    BY DEF Init, FrontendInit, BootPc
  <2>4. QED
    BY <2>1, <2>2, <2>3 DEF FrontendTypeOK
<1>2. Nop \in Instruction
  BY DEF Nop, Instruction, Kinds
<1>3. PipeTypeOK
  BY <1>2 DEF Init, PipeInit, PipeTypeOK, Bubble, Slot
<1>4. DebugTypeOK(Instruction)
  BY <1>2 DEF Init, DebugInit, DebugTypeOK, NoOp, DbgStates
<1>5. HaltTypeOK
  BY DEF Init, HaltInit, HaltTypeOK
<1>6. QED
  BY <1>1, <1>3, <1>4, <1>5 DEF TypeOK

LEMMA TypeStep ==
  ASSUME TypeOK, NEW in \in Inputs, Clock(in)
  PROVE  TypeOK'
<1>1. FrontendTypeOK'
  BY WiresTyped, FrontendTypeStep DEF TypeOK, Clock
<1>2. id' \in Slot /\ ex' \in Slot
  BY WiresTyped, PipeTypeStep DEF TypeOK, Clock, Datapath
<1>3. lsuOutstanding' \in BOOLEAN
  BY DEF Clock, Datapath, LsuClock
<1>4. PipeTypeOK'
  BY <1>2, <1>3, CsrTypeStep DEF TypeOK, Clock, Datapath, PipeTypeOK
<1>5. DebugTypeOK(Instruction)'
  BY WiresTyped, DebugTypeStep DEF TypeOK, Clock
<1>6. HaltTypeOK'
  BY HaltTypeStep DEF TypeOK, Clock, DebugModule
<1>7. QED
  BY <1>1, <1>4, <1>5, <1>6 DEF TypeOK

\* Every register of the hart keeps its type: in particular the instruction
\* buffer never exceeds its depth and is never popped empty.
THEOREM TypeCorrect == Spec => []TypeOK
<1>1. TypeOK /\ [Next]_vars => TypeOK'
  <2> SUFFICES ASSUME TypeOK, [Next]_vars PROVE TypeOK'
    OBVIOUS
  <2>1. CASE Next
    BY <2>1, TypeStep DEF Next
  <2>2. CASE UNCHANGED vars
    BY <2>2 DEF vars, frontendVars, pipeVars, csrVars, debugVars, haltVars, TypeOK,
                FrontendTypeOK, PipeTypeOK, DebugTypeOK, HaltTypeOK
  <2>3. QED
    BY <2>1, <2>2
<1>2. QED
  BY <1>1, TypeInit, PTL DEF Spec

-------------------------------------------------------------------------------
(* Debug Mode.  The two properties are inductive together with what the    *)
(* Debug Module's one operation says of the channels, and with an injected *)
(* word being in one slot only.                                            *)

ChannelsOwned ==
  /\ execActive => dm.op = "EXEC" /\ dm.phase = "WAIT" /\ "EXEC" \notin rspValid
  /\ memOut => "MEM" \notin rspValid
  /\ \A c \in rspValid : dm.op = c /\ dm.phase = "WAIT"

OneWord == Halted => ~(id.valid /\ ex.valid)

DebugInv == DebugWorkIsHalted /\ DataResponseIsOwned /\ ChannelsOwned /\ OneWord

\* A hart that resumes has nothing left to do for the debugger.
LEMMA ResumesIdle ==
  ASSUME DebugInv, Resumes
  PROVE  /\ Halted /\ ~id.valid /\ ~ex.valid
         /\ ~execActive /\ ~memOut /\ rspValid = {}
         /\ ~GprFires /\ ~MemActive /\ ~InjectValid
  BY DEF DebugInv, DebugWorkIsHalted, Resumes, ResumeRedirect, Busy, InjectValid

\* An access that is issued or stays outstanding stays with its instruction.
LEMMA AccessKeepsEx ==
  ASSUME DebugInv, NEW in, Clock(in), lsuOutstanding'
  PROVE  MemOp /\ LsuWait(in) /\ ~Redirect(in) /\ ex' = ex
<1>1. ~LsuAnswered(in) /\ (LsuFires(in) \/ lsuOutstanding)
  BY DEF Clock, Datapath, LsuClock
<1>2. MemOp /\ ex.valid /\ ~DataTrigger
  BY <1>1 DEF DebugInv, DataResponseIsOwned, LsuFires, DataTrigger, CanTrigger, MemOp, Ex
<1>3. LsuWait(in) /\ ~Retires(in)
  BY <1>1, <1>2 DEF LsuWait, Retires
<1>4. ~Redirect(in)
  <2>1. ~Resumes
    BY <1>2, ResumesIdle
  <2>2. QED
    BY <1>2, <1>3, <2>1
    DEF Redirect, TrapRedirect, BranchRedirect, HartRetires, Trigger, ExecTrigger
<1>5. ex' = ex
  BY <1>2, <1>3, <1>4 DEF Clock, Datapath, PipeClock, Inject, DecodeStall
<1>6. QED
  BY <1>2, <1>3, <1>4, <1>5

LEMMA DataResponseStep ==
  ASSUME DebugInv, NEW in, Clock(in)
  PROVE  DataResponseIsOwned'
<1>1. lsuOutstanding' => MemOp /\ MemOp'
  BY AccessKeepsEx DEF MemOp, Ex, FetchFault
<1>2. memOut' => Halted /\ dm.op = "MEM" /\ (memOut \/ MemFires(in))
  BY DEF Clock, DebugControl, ChannelClock, MemFires, MemActive, Requests,
         DebugInv, DebugWorkIsHalted, DataResponseIsOwned
<1>3. memOut' => dm'.op = "MEM" /\ dm'.phase = "WAIT"
  <2> SUFFICES ASSUME memOut' PROVE dm'.op = "MEM" /\ dm'.phase = "WAIT"
    OBVIOUS
  <2>1. CASE memOut
    <3>1. dm.phase = "WAIT" /\ "MEM" \notin rspValid
      BY <2>1 DEF DebugInv, DataResponseIsOwned, ChannelsOwned
    <3>2. dm' = dm
      BY <1>2, <3>1 DEF Clock, DebugModule, DmClock
    <3>3. QED
      BY <1>2, <3>1, <3>2
  <2>2. CASE MemFires(in)
    <3>1. dm.phase = "REQ"
      BY <2>2 DEF MemFires, MemActive, Requests
    <3>2. dm' = [dm EXCEPT !.phase = "WAIT"]
      BY <1>2, <2>2, <3>1 DEF Clock, DebugModule, DmClock
    <3>3. QED
      BY <1>2, <3>2
  <2>3. QED
    BY <1>2, <2>1, <2>2
<1>4. ~(lsuOutstanding' /\ memOut')
  BY <1>1, <1>2 DEF MemOp, Ex, DebugInv, DebugWorkIsHalted, ChannelsOwned
<1>5. QED
  BY <1>1, <1>3, <1>4 DEF DataResponseIsOwned

LEMMA ChannelsStep ==
  ASSUME TypeOK, DebugInv, NEW in, Clock(in)
  PROVE  ChannelsOwned'
<1> USE DEF DebugInv, DebugWorkIsHalted, DataResponseIsOwned, ChannelsOwned
<1>1. /\ execActive' <=> ~ExecDone(in) /\ (Inject(in) \/ execActive)
      /\ memOut' <=> ~MemAnswered(in) /\ (MemFires(in) \/ memOut)
      /\ rspValid' = (rspValid \ {c \in rspValid : dm.op = c /\ dm.phase = "WAIT"})
                       \union (IF GprFires THEN {"GPR"} ELSE {})
                       \union (IF MemAnswered(in) THEN {"MEM"} ELSE {})
                       \union (IF ExecDone(in) THEN {"EXEC"} ELSE {})
  BY DEF Clock, DebugControl, ChannelClock
<1>2. \A c \in rspValid' : \/ c = "GPR" /\ GprFires
                           \/ c = "MEM" /\ MemAnswered(in)
                           \/ c = "EXEC" /\ ExecDone(in)
  BY <1>1
<1>3. ExecDone(in) => Halted /\ execActive
  BY DEF ExecDone, Retires
\* A request that is accepted, and an operation that is still under way.
<1>4. ASSUME NEW c \in Channels, Halted, dm.op = c, dm.phase = "REQ",
             \/ c = "GPR" /\ GprFires
             \/ c = "MEM" /\ MemFires(in)
             \/ c = "EXEC" /\ Inject(in)
      PROVE  dm'.op = c /\ dm'.phase = "WAIT"
  <2>1. c # "NONE"
    BY DEF Channels
  <2>2. dm' = [dm EXCEPT !.phase = "WAIT"]
    BY <1>4, <2>1 DEF Clock, DebugModule, DmClock
  <2>3. QED
    BY <1>4, <2>2 DEF TypeOK, DebugTypeOK
<1>5. ASSUME NEW c \in Channels, Halted, dm.op = c, dm.phase = "WAIT", c \notin rspValid
      PROVE  dm'.op = c /\ dm'.phase = "WAIT"
  <2>1. c # "NONE"
    BY DEF Channels
  <2>2. dm' = dm
    BY <1>5, <2>1 DEF Clock, DebugModule, DmClock
  <2>3. QED
    BY <1>5, <2>2
<1>6. GprFires => dm'.op = "GPR" /\ dm'.phase = "WAIT"
  BY <1>4 DEF GprFires, Requests, Channels
<1>7. MemAnswered(in) => dm'.op = "MEM" /\ dm'.phase = "WAIT"
  BY <1>5 DEF MemAnswered, Channels
<1>8. execActive \/ ExecDone(in) => dm'.op = "EXEC" /\ dm'.phase = "WAIT"
  BY <1>3, <1>5 DEF Channels
<1>9. Inject(in) => dm'.op = "EXEC" /\ dm'.phase = "WAIT"
  BY <1>4 DEF Inject, InjectValid, Requests, Channels
<1>10. QED
  <2>1. \A c \in rspValid' : dm'.op = c /\ dm'.phase = "WAIT"
    BY <1>2, <1>6, <1>7, <1>8
  <2>2. execActive' => dm'.op = "EXEC" /\ dm'.phase = "WAIT" /\ "EXEC" \notin rspValid'
    BY <1>1, <1>2, <1>8, <1>9
  <2>3. memOut' => "MEM" \notin rspValid'
    BY <1>1, <1>2
  <2>4. QED
    BY <2>1, <2>2, <2>3

\* What the slots can hold after an edge.
LEMMA SlotsStep ==
  ASSUME NEW in, Clock(in)
  PROVE  /\ Redirect(in) => ~id'.valid /\ ~ex'.valid
         /\ ~Redirect(in) /\ Inject(in) => id'.valid /\ id'.debug /\ ~ex'.valid
         /\ ~Redirect(in) /\ ~Inject(in) /\ ~Accepts(in) =>
              IF DecodeStall(in)
              THEN /\ id' = id
                   /\ ex' = ex \/ ~ex'.valid
                   /\ LsuWait(in) \/ Frozen => ex' = ex
              ELSE ex' = id /\ ~id'.valid
         /\ ~Inject(in) => ~id'.valid \/ id' = id \/ ~id'.debug
         /\ ~ex'.valid \/ ex' = id \/ ex' = ex
<1>1. /\ ~Bubble.valid
      /\ Injected(dm.instr).valid /\ Injected(dm.instr).debug
      /\ ~Fetched(Head(ibuf)).debug
  BY DEF Bubble, Injected, Fetched
<1>2. /\ id' = IF Redirect(in) THEN Bubble
               ELSE IF Inject(in) THEN Injected(dm.instr)
               ELSE IF InstrFires(in) THEN Fetched(Head(ibuf))
               ELSE IF ~DecodeStall(in) THEN Bubble ELSE id
      /\ ex' = IF Redirect(in) \/ Inject(in) \/ (LoadUseStall(in) /\ ~LsuWait(in) /\ ~Frozen)
               THEN Bubble
               ELSE IF ~DecodeStall(in) THEN id ELSE ex
  BY DEF Clock, Datapath, PipeClock
<1>3. InstrFires(in) => Accepts(in)
  BY DEF InstrFires
<1>4. LoadUseStall(in) => DecodeStall(in)
  BY DEF DecodeStall
<1> HIDE DEF Bubble
<1>5. QED
  BY <1>1, <1>2, <1>3, <1>4

\* A hart halts when its pipeline has drained and fetch is stopped.
LEMMA HaltsIdle ==
  ASSUME TypeOK, DebugInv, NEW in, Clock(in), ~Halted, Halted'
  PROVE  PipeIdle /\ ~Retires(in) /\ ~Busy /\ StopFetch(HaltReq, Trigger(in))
<1>1. dbgState \in {"RUNNING", "HALT_PENDING", "STEP_RUNNING"}
  BY DEF TypeOK, DebugTypeOK, DbgStates, Halted
<1>2. PipeIdle => ~Retires(in)
  BY DEF PipeIdle, Retires
<1>3. ~Busy
  BY DEF Busy, GprFires, MemActive, Requests, DebugInv, DebugWorkIsHalted
<1>4. QED
  BY <1>1, <1>2, <1>3 DEF Clock, DebugControl, DbgStateClock, Halted, StopFetch

LEMMA HaltedStep ==
  ASSUME TypeOK, DebugInv, NEW in, Clock(in)
  PROVE  DebugWorkIsHalted' /\ OneWord'
<1> USE SlotsStep DEF DebugInv, DebugWorkIsHalted, OneWord, Own
<1>1. lsuOutstanding' => ex'.valid
  BY AccessKeepsEx DEF MemOp, Ex
<1>2. execActive' <=> ~ExecDone(in) /\ (Inject(in) \/ execActive)
  BY DEF Clock, DebugControl, ChannelClock
<1>3. Inject(in) => InjectValid /\ Halted
  BY DEF Inject, InjectValid, Requests
<1>4. Accepts(in) => ~StopFetch(HaltReq, Trigger(in))
  BY DEF Accepts
<1>5. CASE Halted /\ Halted'
  <2>1. ~Redirect(in)
    <3>1. ~Resumes
      BY <1>5, ResumesIdle DEF Clock, DebugControl, DbgStateClock, Halted, Resumes, ResumeRedirect
    <3>2. QED
      BY <1>5, <3>1
      DEF Redirect, TrapRedirect, BranchRedirect, HartRetires, Retires, Trigger,
          ExecTrigger, DataTrigger, CanTrigger
  <2>2. ~Accepts(in)
    BY <1>4, <1>5 DEF StopFetch, Halted
  <2>3. CASE Inject(in)
    BY <1>1, <1>2, <1>5, <2>1, <2>3 DEF ExecDone, Retires, Inject
  <2>4. CASE ~Inject(in) /\ ~execActive
    BY <1>1, <1>2, <1>5, <2>1, <2>2, <2>4 DEF Frozen, DecodeStall
  <2>5. CASE ~Inject(in) /\ execActive /\ id.valid
    <3>1. ~DecodeStall(in) /\ ~ExecDone(in)
      BY <1>5, <2>5 DEF DecodeStall, LoadUseStall, LoadUse, LsuWait, MemOp, Ex, Frozen,
                        ExecDone, Retires
    <3>2. QED
      BY <1>1, <1>2, <1>5, <2>1, <2>2, <2>5, <3>1
  <2>6. CASE ~Inject(in) /\ execActive /\ ~id.valid
    <3>1. DecodeStall(in) <=> LsuWait(in)
      BY <1>5, <2>6 DEF DecodeStall, LoadUseStall, LoadUse, Frozen
    <3>2. ExecDone(in) <=> ~LsuWait(in)
      BY <1>5, <2>6 DEF ExecDone, Retires, DataTrigger, CanTrigger
    <3>3. QED
      BY <1>1, <1>2, <1>5, <2>1, <2>2, <2>6, <3>1, <3>2
  <2>7. QED
    BY <2>3, <2>4, <2>5, <2>6
<1>6. CASE ~Halted /\ Halted'
  <2>1. PipeIdle /\ StopFetch(HaltReq, Trigger(in))
    BY <1>6, HaltsIdle
  <2>2. ~Accepts(in) /\ ~Inject(in)
    BY <1>3, <1>4, <1>6, <2>1
  <2>3. ~id'.valid /\ ~ex'.valid
    BY <2>1, <2>2 DEF PipeIdle
  <2>4. QED
    BY <1>1, <1>2, <1>6, <2>2, <2>3
<1>7. CASE Halted /\ ~Halted'
  <2>1. Resumes
    BY <1>7 DEF Clock, DebugControl, DbgStateClock, Halted, Resumes, ResumeRedirect
  <2>2. Redirect(in) /\ ~Inject(in)
    BY <1>3, <2>1, ResumesIdle DEF Redirect
  <2>3. ~execActive' /\ ~memOut' /\ rspValid' = {}
    BY <2>1, <2>2, ResumesIdle
    DEF Clock, DebugControl, ChannelClock, MemFires, MemAnswered, ExecDone, Retires
  <2>4. QED
    BY <1>7, <2>2, <2>3
<1>8. CASE ~Halted /\ ~Halted'
  <2>1. ~Inject(in) /\ ~ExecDone(in) /\ ~GprFires /\ ~MemFires(in) /\ ~MemAnswered(in)
    BY <1>3, <1>8
    DEF ExecDone, Retires, GprFires, MemFires, MemActive, Requests, MemAnswered
  <2>2. ~execActive' /\ ~memOut' /\ rspValid' = {}
    BY <1>8, <2>1 DEF Clock, DebugControl, ChannelClock
  <2>3. QED
    BY <1>8, <2>1, <2>2
<1>9. QED
  BY <1>5, <1>6, <1>7, <1>8

LEMMA DebugInit0 == Init => DebugInv
  BY DEF Init, PipeInit, DebugInit, Bubble, NoOp, DebugInv, DebugWorkIsHalted,
         DataResponseIsOwned, ChannelsOwned, OneWord, Own, Halted

LEMMA DebugStep ==
  ASSUME TypeOK, DebugInv, NEW in \in Inputs, Clock(in)
  PROVE  DebugInv'
  BY DataResponseStep, ChannelsStep, HaltedStep DEF DebugInv

-------------------------------------------------------------------------------
(* The PCs in flight.                                                      *)

Consecutive(s) == \A i \in 1 .. Len(s) - 1 : s[i + 1] = s[i] + 4

\* The PC the frontend pushes next, and the one the pipeline accepts next.
NextFetch == IF fetchState = "WAIT" /\ ~kill THEN fetchPc ELSE pc
FirstOf(s, next) == IF s = <<>> THEN next ELSE s[1]
Follows(s, next) == Consecutive(s) /\ (s # <<>> => next = s[Len(s)] + 4)

FetchSequenced == fetchState = "WAIT" /\ ~kill => pc = fetchPc + 4
SlotsSequenced(front) ==
  /\ Own(id) => front = id.pc + 4
  /\ Own(ex) => (IF Own(id) THEN id.pc ELSE front) = ex.pc + 4
Sequenced ==
  /\ FetchSequenced
  /\ Follows(ibuf, NextFetch)
  /\ SlotsSequenced(FirstOf(ibuf, NextFetch))

LEMMA Concatenated ==
  ASSUME NEW s \in Seq(Nat), NEW t \in Seq(Nat), Consecutive(s), Consecutive(t),
         s # <<>> /\ t # <<>> => t[1] = s[Len(s)] + 4
  PROVE  /\ s \o t \in Seq(Nat) /\ Consecutive(s \o t)
         /\ s \o t = <<>> <=> s = <<>> /\ t = <<>>
         /\ s \o t # <<>> => /\ (s \o t)[1] = IF s = <<>> THEN t[1] ELSE s[1]
                             /\ (s \o t)[Len(s \o t)] =
                                  IF t = <<>> THEN s[Len(s)] ELSE t[Len(t)]
<1> DEFINE u == s \o t
           m == Len(s)
           n == Len(t)
<1>1. /\ m \in Nat /\ \A i \in 1 .. m : s[i] \in Nat
      /\ n \in Nat /\ \A i \in 1 .. n : t[i] \in Nat
  BY ElementOfSeq, LenProperties
<1>2. /\ u \in Seq(Nat) /\ Len(u) = m + n
      /\ \A i \in 1 .. m + n : u[i] = IF i <= m THEN s[i] ELSE t[i - m]
  BY ConcatProperties
<1>3. /\ s = <<>> <=> m = 0
      /\ t = <<>> <=> n = 0
      /\ u = <<>> <=> s = <<>> /\ t = <<>>
  BY EmptySeq, ConcatEqualIffEmpty
<1>4. Consecutive(s) /\ Consecutive(t) /\ (m # 0 /\ n # 0 => t[1] = s[m] + 4)
  BY <1>3
<1> HIDE DEF u, m, n
<1>5. \A i \in 1 .. m : u[i] = s[i]
  <2> TAKE i \in 1 .. m
  <2>1. i \in 1 .. m + n /\ i <= m
    BY <1>1
  <2>2. QED
    BY <1>2, <2>1
<1>6. \A j \in 1 .. n : u[m + j] = t[j]
  <2> TAKE j \in 1 .. n
  <2>1. m + j \in 1 .. m + n /\ ~(m + j <= m) /\ (m + j) - m = j
    BY <1>1
  <2>2. QED
    BY <1>2, <2>1
<1>7. ASSUME NEW i \in 1 .. Len(u) - 1
      PROVE  u[i + 1] = u[i] + 4
  <2>1. i \in 1 .. m + n - 1
    <3>1. Len(u) = m + n /\ m \in Nat /\ n \in Nat
      BY <1>1, <1>2
    <3>2. QED
      BY <3>1
  <2>2. CASE i < m
    <3>1. i \in 1 .. m - 1 /\ i \in 1 .. m /\ i + 1 \in 1 .. m
      BY <1>1, <2>1, <2>2
    <3>2. s[i + 1] = s[i] + 4
      BY <1>4, <3>1 DEF Consecutive, m
    <3>3. QED
      BY <1>5, <3>1, <3>2
  <2>3. CASE i = m
    <3>1. i \in 1 .. m /\ 1 \in 1 .. n /\ m # 0 /\ n # 0
      BY <1>1, <2>1, <2>3
    <3>2. QED
      BY <1>4, <1>5, <1>6, <2>3, <3>1
  <2>4. CASE i > m
    <3>1. PICK j \in 1 .. n - 1 : i = m + j
      <4>1. i - m \in 1 .. n - 1 /\ i = m + (i - m)
        BY <1>1, <2>1, <2>4
      <4>2. QED
        BY <4>1
    <3>2. j \in 1 .. n /\ j + 1 \in 1 .. n /\ i + 1 = m + (j + 1)
      BY <1>1, <3>1
    <3>3. t[j + 1] = t[j] + 4
      BY <1>4, <3>1 DEF Consecutive, n
    <3>4. QED
      BY <1>6, <3>1, <3>2, <3>3
  <2>5. QED
    BY <1>1, <2>1, <2>2, <2>3, <2>4
<1>8. m = 0 /\ n # 0 => u[1] = t[1]
  <2>1. m = 0 /\ n # 0 => 1 \in 1 .. n /\ m + 1 = 1
    BY <1>1
  <2>2. QED
    BY <1>6, <2>1
<1>9. ASSUME u # <<>>
      PROVE  /\ u[1] = IF m = 0 THEN t[1] ELSE s[1]
             /\ u[Len(u)] = IF n = 0 THEN s[m] ELSE t[n]
  <2>1. m # 0 => 1 \in 1 .. m /\ m \in 1 .. m
    BY <1>1
  <2>2. n # 0 => 1 \in 1 .. n /\ n \in 1 .. n
    BY <1>1
  <2>3. m # 0 \/ n # 0
    BY <1>3, <1>9
  <2>4. n = 0 => Len(u) = m
    BY <1>1, <1>2
  <2>5. QED
    BY <1>2, <1>5, <1>6, <1>8, <2>1, <2>2, <2>3, <2>4
<1>10. QED
  BY <1>2, <1>3, <1>7, <1>9 DEF Consecutive, u, m, n

LEMMA Popping ==
  ASSUME NEW s \in Seq(Nat), s # <<>>, NEW next, Follows(s, next)
  PROVE  Follows(Tail(s), next) /\ FirstOf(Tail(s), next) = s[1] + 4
<1> DEFINE u == Tail(s)
<1>1. /\ u \in Seq(Nat) /\ Len(u) = Len(s) - 1 /\ Len(s) \in Nat \ {0}
      /\ \A i \in 1 .. Len(u) : u[i] = s[i + 1]
  BY HeadTailProperties, EmptySeq
<1>2. u = <<>> <=> Len(u) = 0
  BY <1>1, EmptySeq
<1> HIDE DEF u
<1>3. Consecutive(u)
  <2> SUFFICES ASSUME NEW i \in 1 .. Len(u) - 1
               PROVE  u[i + 1] = u[i] + 4
    BY DEF Consecutive
  <2>1. u[i] = s[i + 1] /\ u[i + 1] = s[(i + 1) + 1]
    BY <1>1
  <2>2. i + 1 \in 1 .. Len(s) - 1
    BY <1>1
  <2>3. QED
    BY <2>1, <2>2 DEF Follows, Consecutive
<1>4. CASE u = <<>>
  BY <1>1, <1>2, <1>3, <1>4 DEF Follows, FirstOf, u
<1>5. CASE u # <<>>
  <2>1. u[1] = s[2] /\ u[Len(u)] = s[Len(s)] /\ s[2] = s[1] + 4
    BY <1>1, <1>2, <1>5 DEF Follows, Consecutive
  <2>2. QED
    BY <1>3, <1>5, <2>1 DEF Follows, FirstOf, u
<1>6. QED
  BY <1>4, <1>5

LEMMA Pushing ==
  ASSUME NEW s \in Seq(Nat), NEW next \in Nat, Follows(s, next)
  PROVE  /\ Follows(Append(s, next), next + 4)
         /\ FirstOf(Append(s, next), next + 4) = FirstOf(s, next)
<1> DEFINE u == Append(s, next)
<1>1. /\ Len(s) \in Nat /\ Len(u) = Len(s) + 1 /\ u # <<>>
      /\ \A i \in 1 .. Len(s) : u[i] = s[i]
      /\ u[Len(s) + 1] = next
  BY AppendProperties, LenProperties
<1>2. s = <<>> <=> Len(s) = 0
  BY EmptySeq
<1> HIDE DEF u
<1>3. Consecutive(u)
  <2> SUFFICES ASSUME NEW i \in 1 .. Len(s)
               PROVE  u[i + 1] = u[i] + 4
    BY <1>1 DEF Consecutive
  <2>1. CASE i < Len(s)
    <3>1. u[i] = s[i] /\ u[i + 1] = s[i + 1] /\ i \in 1 .. Len(s) - 1
      BY <1>1, <2>1
    <3>2. QED
      BY <3>1 DEF Follows, Consecutive
  <2>2. CASE i = Len(s)
    <3>1. u[i] = s[Len(s)] /\ u[i + 1] = next /\ s # <<>>
      BY <1>1, <1>2, <2>2
    <3>2. QED
      BY <3>1 DEF Follows
  <2>3. QED
    BY <1>1, <2>1, <2>2
<1>4. FirstOf(u, next + 4) = FirstOf(s, next)
  BY <1>1, <1>2 DEF FirstOf
<1>5. QED
  BY <1>1, <1>3, <1>4 DEF Follows, u

\* What an edge without a redirect does to the fetch under way.
LEMMA FetchStep ==
  ASSUME FrontendTypeOK, FetchSequenced, NEW target, NEW pop, NEW ready, NEW rsp,
         FrontendClock(FALSE, target, pop, ready, rsp)
  PROVE  /\ FetchSequenced'
         /\ Pushes(FALSE, rsp) =>
              /\ (IF fetchState = "IDLE" THEN pc ELSE fetchPc) = NextFetch
              /\ NextFetch' = NextFetch + 4
         /\ ~Pushes(FALSE, rsp) => NextFetch' = NextFetch
<1> USE DEF FrontendTypeOK, FetchSequenced, FrontendClock, PcClock, FetchClock, NextFetch,
            Pushes, RequestFires, RspFires, PcAdvances, MisalignRsp, RspLive
<1>1. CASE fetchState = "IDLE"
  BY <1>1
<1>2. CASE fetchState = "WAIT"
  BY <1>2
<1>3. QED
  BY <1>1, <1>2

\* The buffer keeps following on itself, and what it pops is its front.
LEMMA BufferStep ==
  ASSUME FrontendTypeOK, FetchSequenced, Follows(ibuf, NextFetch),
         NEW target, NEW pop \in BOOLEAN, NEW ready, NEW rsp, pop => ibuf # <<>>,
         FrontendClock(FALSE, target, pop, ready, rsp)
  PROVE  /\ Follows(ibuf', NextFetch')
         /\ pop => FirstOf(ibuf', NextFetch') = Head(ibuf) + 4
         /\ ~pop => FirstOf(ibuf', NextFetch') = FirstOf(ibuf, NextFetch)
<1> DEFINE s == Popped(pop)
           x == IF fetchState = "IDLE" THEN pc ELSE fetchPc
<1>1. ibuf \in Seq(Nat) /\ NextFetch \in Nat
  BY DEF FrontendTypeOK, NextFetch
<1>2. s \in Seq(Nat) /\ Follows(s, NextFetch)
      /\ FirstOf(s, NextFetch) = IF pop THEN Head(ibuf) + 4 ELSE FirstOf(ibuf, NextFetch)
  <2>1. CASE pop
    BY <1>1, <2>1, Popping, HeadTailProperties DEF Popped
  <2>2. CASE ~pop
    BY <1>1, <2>2 DEF Popped
  <2>3. QED
    BY <2>1, <2>2
<1>3. ibuf' = IF Pushes(FALSE, rsp) THEN Append(s, x) ELSE s
  BY DEF FrontendClock, IbufClock
<1> HIDE DEF s, x
<1>4. CASE Pushes(FALSE, rsp)
  <2>1. x = NextFetch /\ NextFetch' = NextFetch + 4
    BY <1>4, FetchStep DEF x
  <2>2. QED
    BY <1>1, <1>2, <1>3, <1>4, <2>1, Pushing
<1>5. CASE ~Pushes(FALSE, rsp)
  <2>1. NextFetch' = NextFetch
    BY <1>5, FetchStep
  <2>2. QED
    BY <1>2, <1>3, <1>5, <2>1
<1>6. QED
  BY <1>4, <1>5

\* A redirect leaves nothing in flight but its target.
LEMMA RedirectStep ==
  ASSUME TypeOK, NEW in, Clock(in), Redirect(in)
  PROVE  /\ Sequenced'
         /\ ~Own(id)' /\ ~Own(ex)' /\ ibuf' = <<>> /\ NextFetch' = RedirectPc(in)
<1>1. ~id'.valid /\ ~ex'.valid
  BY SlotsStep
<1>2. ibuf' = <<>> /\ pc' = RedirectPc(in) /\ ~(fetchState' = "WAIT" /\ ~kill')
  BY DEF Clock, FrontendClock, IbufClock, PcClock, FetchClock, RequestFires, TypeOK,
         FrontendTypeOK
<1>3. Follows(<<>>, NextFetch')
  BY DEF Follows, Consecutive
<1>4. QED
  BY <1>1, <1>2, <1>3 DEF Sequenced, FetchSequenced, SlotsSequenced, Own, NextFetch

\* The PC of the oldest instruction, front being the next one to be accepted.
Oldest(front) == IF Own(ex) THEN ex.pc ELSE IF Own(id) THEN id.pc ELSE front

\* Without a redirect the slots follow on each other, and the oldest PC moves
\* on when, and only when, an instruction of the hart retires.
LEMMA StraightStep ==
  ASSUME TypeOK, DebugInv, Sequenced, NEW in, Clock(in), ~Redirect(in)
  PROVE  /\ Sequenced'
         /\ Oldest(FirstOf(ibuf, NextFetch))' =
              IF HartRetires(in) THEN ex.pc + 4 ELSE Oldest(FirstOf(ibuf, NextFetch))
<1> DEFINE front == FirstOf(ibuf, NextFetch)
<1>1. FrontendClock(FALSE, RedirectPc(in), InstrFires(in), in.imemReady, in.imemRsp)
  BY DEF Clock, FrontendClock, PcClock, FetchClock, IbufClock, Pushes, RequestFires,
         RspFires, PcAdvances, MisalignRsp, RspLive, PushReady
<1>2. InstrFires(in) => ibuf # <<>> /\ Head(ibuf) = front
  BY DEF InstrFires, PopValid, FirstOf
<1>3. /\ FetchSequenced' /\ Follows(ibuf', NextFetch')
      /\ front' = IF InstrFires(in) THEN front + 4 ELSE front
  <2>1. FrontendTypeOK /\ FetchSequenced /\ Follows(ibuf, NextFetch)
    BY DEF TypeOK, Sequenced
  <2>2. FetchSequenced'
    BY <1>1, <2>1, FetchStep
  <2>3. /\ Follows(ibuf', NextFetch')
        /\ InstrFires(in) => FirstOf(ibuf', NextFetch') = Head(ibuf) + 4
        /\ ~InstrFires(in) => FirstOf(ibuf', NextFetch') = FirstOf(ibuf, NextFetch)
    <3>1. InstrFires(in) \in BOOLEAN
      BY DEF InstrFires, Accepts
    <3>2. InstrFires(in) => ibuf # <<>>
      BY <1>2
    <3>3. QED
      BY <1>1, <2>1, <3>1, <3>2, BufferStep
  <2>4. FirstOf(ibuf, NextFetch)' = FirstOf(ibuf', NextFetch')
    BY DEF FirstOf
  <2>5. QED
    BY <1>2, <2>2, <2>3, <2>4
<1> HIDE DEF front
<1>4. SlotsSequenced(front)
  BY DEF Sequenced, front
<1>5. ~DataTrigger
  BY DEF Redirect, Trigger
<1>6. SlotsSequenced(front)' /\ Oldest(front)' = IF HartRetires(in) THEN ex.pc + 4 ELSE Oldest(front)
  <2> USE DEF Own, Oldest, SlotsSequenced
  <2>1. CASE Inject(in)
    <3>1. ~id.valid /\ ~ex.valid /\ ~InstrFires(in) /\ ~HartRetires(in)
      BY <2>1 DEF Inject, InstrFires, Accepts, HartRetires, Retires
    <3>2. ~Own(id') /\ ~Own(ex')
      BY <2>1, SlotsStep
    <3>3. QED
      BY <1>3, <3>1, <3>2
  <2>2. CASE ~Inject(in) /\ ~DecodeStall(in)
    <3>1. HartRetires(in) <=> Own(ex)
      BY <1>5, <2>2 DEF HartRetires, Retires, DecodeStall
    <3>2. /\ ex' = id
          /\ id' = IF InstrFires(in) THEN Fetched(Head(ibuf)) ELSE Bubble
      BY <2>2 DEF Clock, Datapath, PipeClock, DecodeStall
    <3>3. CASE InstrFires(in)
      <4>1. id'.valid /\ ~id'.debug /\ id'.pc = front
        BY <1>2, <3>2, <3>3 DEF Fetched, front
      <4>2. QED
        BY <1>3, <1>4, <3>1, <3>2, <3>3, <4>1
    <3>4. CASE ~InstrFires(in)
      <4>1. ~id'.valid
        BY <3>2, <3>4 DEF Bubble
      <4>2. QED
        BY <1>3, <1>4, <3>1, <3>2, <3>4, <4>1
    <3>5. QED
      BY <3>3, <3>4
  <2>3. CASE ~Inject(in) /\ DecodeStall(in)
    <3>1. ~InstrFires(in) /\ id' = id
      BY <2>3 DEF Clock, Datapath, PipeClock, InstrFires, Accepts
    <3>2. CASE LoadUseStall(in) /\ ~LsuWait(in) /\ ~Frozen
      <4>1. HartRetires(in) <=> Own(ex)
        BY <1>5, <3>2 DEF HartRetires, Retires
      <4>2. ~ex'.valid
        BY <3>2 DEF Clock, Datapath, PipeClock, Bubble
      <4>3. QED
        BY <1>3, <1>4, <3>1, <4>1, <4>2
    <3>3. CASE ~(LoadUseStall(in) /\ ~LsuWait(in) /\ ~Frozen)
      <4>1. ~HartRetires(in)
        BY <2>3, <3>3
        DEF HartRetires, Retires, DecodeStall, Frozen, DebugInv, DebugWorkIsHalted
      <4>2. ex' = ex
        BY <2>3, <3>3 DEF Clock, Datapath, PipeClock
      <4>3. QED
        BY <1>3, <1>4, <3>1, <4>1, <4>2
    <3>4. QED
      BY <3>2, <3>3
  <2>4. QED
    BY <2>1, <2>2, <2>3
<1>7. QED
  BY <1>3, <1>6 DEF Sequenced, front

LEMMA SequencedInit == Init => Sequenced
<1> SUFFICES ASSUME Init PROVE Sequenced
  OBVIOUS
<1>1. ibuf = <<>> /\ ~Own(id) /\ ~Own(ex) /\ fetchState = "IDLE"
  BY DEF Init, FrontendInit, PipeInit, Bubble, Own
<1>2. Follows(<<>>, NextFetch)
  BY DEF Follows, Consecutive
<1>3. QED
  BY <1>1, <1>2 DEF Sequenced, FetchSequenced, SlotsSequenced

CoreInv == TypeOK /\ DebugInv /\ Sequenced

LEMMA CoreStep ==
  ASSUME CoreInv, [Next]_vars
  PROVE  CoreInv'
<1>1. CASE Next
  <2>1. PICK in \in Inputs : Clock(in)
    BY <1>1 DEF Next
  <2>2. Sequenced'
    BY <2>1, RedirectStep, StraightStep DEF CoreInv
  <2>3. QED
    BY <2>1, <2>2, TypeStep, DebugStep DEF CoreInv
<1>2. CASE UNCHANGED vars
  <2>1. TypeOK'
    BY <1>2 DEF CoreInv, vars, frontendVars, pipeVars, csrVars, debugVars, haltVars,
       TypeOK, FrontendTypeOK, PipeTypeOK, DebugTypeOK, HaltTypeOK
  <2>2. DebugInv'
    BY <1>2 DEF CoreInv, vars, pipeVars, debugVars, DebugInv, DebugWorkIsHalted,
       DataResponseIsOwned, ChannelsOwned, OneWord, Own, Halted, MemOp, Ex, FetchFault
  <2>3. Sequenced'
    BY <1>2 DEF CoreInv, vars, frontendVars, pipeVars, Sequenced, FetchSequenced,
       SlotsSequenced, Follows, FirstOf, NextFetch, Own, Consecutive
  <2>4. QED
    BY <2>1, <2>2, <2>3 DEF CoreInv
<1>3. QED
  BY <1>1, <1>2

LEMMA CoreInvariant == Spec => []CoreInv
<1>1. Init => CoreInv
  BY TypeInit, DebugInit0, SequencedInit DEF CoreInv
<1>2. QED
  BY <1>1, CoreStep, PTL DEF Spec

\* Debug Mode and the hart's own instructions exclude each other, in every
\* program and for every debugger: what core_int_datapath.sv relies on when it
\* shares pipeline and data port between them.
THEOREM DebugWorkHalted == Spec => []DebugWorkIsHalted
<1>1. CoreInv => DebugWorkIsHalted
  BY DEF CoreInv, DebugInv
<1>2. QED
  BY <1>1, CoreInvariant, PTL

\* Every response of the D-cache has exactly one taker.
THEOREM DataResponsesOwned == Spec => []DataResponseIsOwned
<1>1. CoreInv => DataResponseIsOwned
  BY DEF CoreInv, DebugInv
<1>2. QED
  BY <1>1, CoreInvariant, PTL

\* InFlight in the terms of Sequenced.
LEMMA InFlightFacts ==
  ASSUME TypeOK, Sequenced
  PROVE  InFlightIsSequential /\ OldestPc = Oldest(FirstOf(ibuf, NextFetch))
<1> DEFINE a == If1(Own(ex), ex.pc)
           b == If1(Own(id), id.pc)
           c == If1(fetchState = "WAIT" /\ ~kill, fetchPc)
           d == <<pc>>
           ab == a \o b
           abi == ab \o ibuf
           abic == abi \o c
<1>1. ASSUME NEW valid, NEW p \in Nat
      PROVE  /\ If1(valid, p) \in Seq(Nat) /\ Consecutive(If1(valid, p))
             /\ If1(valid, p) = <<>> <=> ~valid
             /\ valid => If1(valid, p)[1] = p /\ If1(valid, p)[Len(If1(valid, p))] = p
  BY DEF If1, Consecutive
<1>2. /\ ex.pc \in Nat /\ id.pc \in Nat /\ fetchPc \in Nat /\ pc \in Nat
      /\ ibuf \in Seq(Nat)
  BY DEF TypeOK, PipeTypeOK, FrontendTypeOK, Slot
<1>3. /\ a \in Seq(Nat) /\ Consecutive(a) /\ (a = <<>> <=> ~Own(ex))
      /\ Own(ex) => a[1] = ex.pc /\ a[Len(a)] = ex.pc
  BY <1>1, <1>2
<1>4. /\ b \in Seq(Nat) /\ Consecutive(b) /\ (b = <<>> <=> ~Own(id))
      /\ Own(id) => b[1] = id.pc /\ b[Len(b)] = id.pc
  BY <1>1, <1>2
<1>5. /\ c \in Seq(Nat) /\ Consecutive(c) /\ (c = <<>> <=> ~(fetchState = "WAIT" /\ ~kill))
      /\ c # <<>> => c[1] = fetchPc /\ c[Len(c)] = fetchPc
  BY <1>1, <1>2
<1>6. d \in Seq(Nat) /\ Consecutive(d) /\ d # <<>> /\ d[1] = pc
  BY <1>2 DEF Consecutive
<1>7. InFlight = abic \o d
  BY DEF InFlight
<1> HIDE DEF a, b, c, d
<1> DEFINE front == FirstOf(ibuf, NextFetch)
<1>8. /\ b # <<>> => front = b[Len(b)] + 4
      /\ a # <<>> => IF b = <<>> THEN front = a[Len(a)] + 4 ELSE b[1] = a[Len(a)] + 4
  BY <1>3, <1>4 DEF Sequenced, SlotsSequenced
<1>9. /\ ibuf # <<>> => front = ibuf[1] /\ NextFetch = ibuf[Len(ibuf)] + 4
      /\ ibuf = <<>> => front = NextFetch
      /\ Consecutive(ibuf)
  BY DEF Sequenced, Follows, FirstOf
<1>10. /\ c # <<>> => NextFetch = c[1] /\ pc = c[Len(c)] + 4
       /\ c = <<>> => NextFetch = pc
  BY <1>5 DEF Sequenced, FetchSequenced, NextFetch
<1> HIDE DEF front
<1>11. /\ ab \in Seq(Nat) /\ Consecutive(ab) /\ (ab = <<>> <=> a = <<>> /\ b = <<>>)
       /\ ab # <<>> => /\ ab[1] = IF a = <<>> THEN b[1] ELSE a[1]
                       /\ front = ab[Len(ab)] + 4
  BY <1>3, <1>4, <1>8, Concatenated
<1> HIDE DEF ab
<1>12. /\ abi \in Seq(Nat) /\ Consecutive(abi) /\ (abi = <<>> <=> ab = <<>> /\ ibuf = <<>>)
       /\ abi # <<>> => /\ abi[1] = IF ab = <<>> THEN ibuf[1] ELSE ab[1]
                        /\ NextFetch = abi[Len(abi)] + 4
  BY <1>2, <1>9, <1>11, Concatenated
<1> HIDE DEF abi
<1>13. /\ abic \in Seq(Nat) /\ Consecutive(abic) /\ (abic = <<>> <=> abi = <<>> /\ c = <<>>)
       /\ abic # <<>> => /\ abic[1] = IF abi = <<>> THEN c[1] ELSE abi[1]
                         /\ pc = abic[Len(abic)] + 4
  BY <1>5, <1>10, <1>12, Concatenated
<1> HIDE DEF abic
<1>14. Consecutive(InFlight) /\ InFlight # <<>> /\ InFlight \in Seq(Nat)
       /\ InFlight[1] = IF abic = <<>> THEN pc ELSE abic[1]
  BY <1>6, <1>7, <1>13, Concatenated
<1>15. InFlightIsSequential
  BY <1>14 DEF InFlightIsSequential, Consecutive
<1>16. OldestPc = InFlight[1]
  BY <1>14 DEF OldestPc
<1>17. QED
  BY <1>3, <1>4, <1>5, <1>9, <1>10, <1>11, <1>12, <1>13, <1>14, <1>15, <1>16
  DEF Oldest, front

\* Between two redirects no instruction is lost, repeated or fetched from a
\* stale response: for every program, buffer depth and cache timing.
THEOREM InFlightSequential == Spec => []InFlightIsSequential
<1>1. CoreInv => InFlightIsSequential
  BY InFlightFacts DEF CoreInv
<1>2. QED
  BY <1>1, CoreInvariant, PTL

-------------------------------------------------------------------------------
(* The resume PC.                                                          *)

LEMMA ResumePcRedirect ==
  ASSUME TypeOK, DebugInv, Sequenced, ResumePcIsOldest, NEW in, Clock(in),
         ~Misfire(in), Redirect(in)
  PROVE  nextPc' = RedirectPc(in) /\ ~Halted'
<1>1. nextPc' = IF Trigger(in) THEN TriggerPc
                ELSE IF HartRetires(in) THEN RetireNextPc(in)
                ELSE IF InstrFires(in) /\ PipeIdle THEN Head(ibuf) ELSE nextPc
  BY DEF Clock, DebugControl, NextPcClock
<1>2. CASE TrapRedirect(in) \/ BranchRedirect(in)
  <2>1. HartRetires(in) /\ Own(ex) /\ ~Trigger(in)
    BY <1>2 DEF Misfire, Trigger, TrapRedirect, BranchRedirect, HartRetires, Retires, Own
  <2>2. RetireNextPc(in) = RedirectPc(in)
    BY <1>2 DEF RetireNextPc, RedirectPc
  <2>3. ~Halted
    BY <2>1 DEF DebugInv, DebugWorkIsHalted
  <2>4. ~PipeIdle
    BY <2>1 DEF PipeIdle, Own
  <2>5. QED
    BY <1>1, <2>1, <2>2, <2>3, <2>4, HaltsIdle
<1>3. CASE ~TrapRedirect(in) /\ ~BranchRedirect(in) /\ Trigger(in)
  <2>1. ~Halted /\ ~PipeIdle
    BY <1>3 DEF Trigger, ExecTrigger, DataTrigger, CanTrigger, MemOp, Ex, PipeIdle
  <2>2. RedirectPc(in) = TriggerPc
    BY <1>3 DEF RedirectPc
  <2>3. QED
    BY <1>1, <1>3, <2>1, <2>2, HaltsIdle
<1>4. CASE ~TrapRedirect(in) /\ ~BranchRedirect(in) /\ ~Trigger(in)
  <2>1. Resumes
    BY <1>4 DEF Redirect
  <2>2. Halted /\ ~HartRetires(in) /\ ~InstrFires(in)
    BY <2>1, ResumesIdle DEF HartRetires, Retires, InstrFires, Accepts, StopFetch, Halted
  <2>3. RedirectPc(in) = dpc /\ dpc = nextPc
    BY <1>4, <2>2 DEF RedirectPc, ResumePcIsOldest
  <2>4. dbgState' # "HALTED"
    BY <2>1, <2>2
    DEF Clock, DebugControl, DbgStateClock, Halted, Resumes, ResumeRedirect
  <2>5. QED
    BY <1>1, <1>4, <2>2, <2>3, <2>4 DEF Halted
<1>5. QED
  BY <1>2, <1>3, <1>4

OldestIsFirst == OldestPc = Oldest(FirstOf(ibuf, NextFetch))

LEMMA InFlightNow == CoreInv => OldestIsFirst
  BY InFlightFacts DEF CoreInv, OldestIsFirst

LEMMA InFlightNext == CoreInv' => OldestIsFirst'
  BY InFlightNow, PTL

LEMMA ResumePcStep ==
  ASSUME CoreInv, CoreInv', ResumePcIsOldest, NEW in, Clock(in), ~Misfire(in)
  PROVE  ResumePcIsOldest'
<1> DEFINE front == FirstOf(ibuf, NextFetch)
<1>1. OldestPc = Oldest(front) /\ OldestPc' = Oldest(front)'
  BY InFlightNow, InFlightNext DEF OldestIsFirst
<1>2. CASE Redirect(in)
  <2>1. nextPc' = RedirectPc(in) /\ ~Halted'
    BY <1>2, ResumePcRedirect DEF CoreInv
  <2>2. Oldest(front)' = RedirectPc(in)
    BY <1>2, RedirectStep DEF CoreInv, Oldest, FirstOf
  <2>3. QED
    BY <1>1, <2>1, <2>2 DEF ResumePcIsOldest
<1>3. CASE ~Redirect(in)
  <2>1. Oldest(front)' = IF HartRetires(in) THEN ex.pc + 4 ELSE Oldest(front)
    BY <1>3, StraightStep DEF CoreInv
  <2>2. nextPc' = Oldest(front)'
    <3>1. CASE HartRetires(in)
      BY <1>3, <2>1, <3>1
      DEF Clock, DebugControl, NextPcClock, RetireNextPc, Redirect
    <3>2. CASE ~HartRetires(in) /\ InstrFires(in) /\ PipeIdle
      <4>1. nextPc' = Head(ibuf)
        BY <1>3, <3>2 DEF Clock, DebugControl, NextPcClock, Redirect
      <4>2. Oldest(front) = Head(ibuf)
        BY <3>2 DEF Oldest, Own, PipeIdle, InstrFires, PopValid, FirstOf
      <4>3. QED
        BY <2>1, <3>2, <4>1, <4>2
    <3>3. CASE ~HartRetires(in) /\ ~(InstrFires(in) /\ PipeIdle)
      <4>1. nextPc' = nextPc
        BY <1>3, <3>3 DEF Clock, DebugControl, NextPcClock, Redirect
      <4>2. QED
        BY <1>1, <2>1, <3>3, <4>1 DEF ResumePcIsOldest
    <3>4. QED
      BY <3>1, <3>2, <3>3
  <2>3. ASSUME Halted'
        PROVE  dpc' = Oldest(front)'
    <3>1. ~HartRetires(in)
      BY <2>3, HaltsIdle
      DEF CoreInv, DebugInv, DebugWorkIsHalted, HartRetires, Retires, Own
    <3>2. dpc' = nextPc
      BY <2>3, HaltsIdle DEF CoreInv, Clock, DebugControl, DpcClock
    <3>3. QED
      BY <1>1, <2>1, <3>1, <3>2 DEF ResumePcIsOldest
  <2>4. QED
    BY <1>1, <2>2, <2>3 DEF ResumePcIsOldest
<1>4. QED
  BY <1>2, <1>3

LEMMA HartStarts == Init => CoreInv /\ ResumePcIsOldest
<1> SUFFICES ASSUME Init PROVE CoreInv /\ ResumePcIsOldest
  OBVIOUS
<1>1. CoreInv
  BY TypeInit, DebugInit0, SequencedInit DEF CoreInv
<1>2. OldestPc = 0 /\ nextPc = 0 /\ ~Halted
  BY <1>1, InFlightFacts
  DEF CoreInv, Oldest, FirstOf, NextFetch, Init, FrontendInit, PipeInit, DebugInit,
      Bubble, Own, BootPc, Halted
<1>3. QED
  BY <1>1, <1>2 DEF ResumePcIsOldest

\* As long as no trigger matches an instruction that is being discarded, the
\* resume PC and the DPC of a halted hart are those of the oldest instruction:
\* a debugger loses and repeats no instruction by halting and resuming.
THEOREM ResumePcOldest == OnPathSpec => []ResumePcIsOldest
<1>1. CoreInv /\ ResumePcIsOldest /\ [OnPathNext]_vars => CoreInv' /\ ResumePcIsOldest'
  <2> SUFFICES ASSUME CoreInv, ResumePcIsOldest, [OnPathNext]_vars
               PROVE  CoreInv' /\ ResumePcIsOldest'
    OBVIOUS
  <2>1. CASE OnPathNext
    <3>1. PICK in \in Inputs : Clock(in) /\ ~Misfire(in)
      BY <2>1 DEF OnPathNext
    <3>2. CoreInv'
      BY <3>1, CoreStep DEF Next
    <3>3. QED
      BY <3>1, <3>2, ResumePcStep
  <2>2. CASE UNCHANGED vars
    <3>1. CoreInv'
      BY <2>2, CoreStep
    <3>2. ResumePcIsOldest'
      BY <2>2 DEF ResumePcIsOldest, OldestPc, InFlight, If1, Own, Halted, vars,
         frontendVars, pipeVars, debugVars
    <3>3. QED
      BY <3>1, <3>2
  <2>3. QED
    BY <2>1, <2>2
<1>2. QED
  BY <1>1, HartStarts, PTL DEF OnPathSpec

-------------------------------------------------------------------------------
(* The hart implements Hart: for every program, buffer depth and debugger  *)
(* that never discards a matched instruction, pipeline, prefetch, stalls   *)
(* and debug entry do not show.                                            *)

\* A slot of the hart's own holds the instruction of its PC.
SlotsAreGenuine ==
  /\ Own(id) => id.instr = InstrAt(id.pc)
  /\ Own(ex) => ex.instr = InstrAt(ex.pc)

LEMMA GenuineStep ==
  ASSUME SlotsAreGenuine, NEW in, Clock(in)
  PROVE  SlotsAreGenuine'
<1>1. /\ id' \in {Bubble, Injected(dm.instr), Fetched(Head(ibuf)), id}
      /\ ex' \in {Bubble, id, ex}
  BY DEF Clock, Datapath, PipeClock
<1>2. ~Own(Bubble) /\ ~Own(Injected(dm.instr))
  BY DEF Own, Bubble, Injected
<1>3. LET f == Fetched(Head(ibuf)) IN f.instr = InstrAt(f.pc)
  BY DEF Fetched
<1> HIDE DEF Bubble
<1>4. QED
  BY <1>1, <1>2, <1>3 DEF SlotsAreGenuine

HartInv == CoreInv /\ ResumePcIsOldest /\ SlotsAreGenuine

-------------------------------------------------------------------------------
(* The abstract PC is the resume PC.                                       *)

AbstractPc == IF Halted THEN dpc ELSE OldestPc

LEMMA AbstractPcNow == HartInv => AbstractPc = nextPc
BY DEF HartInv, ResumePcIsOldest, AbstractPc

LEMMA AbstractPcNext == HartInv' => (AbstractPc = nextPc)'
BY AbstractPcNow, PTL

\* The oldest instruction is the one in EX, else the one in ID, else the next
\* one to be accepted.
LEMMA OldestIs ==
  ASSUME HartInv, ~Halted
  PROVE  /\ ex.valid => nextPc = ex.pc
         /\ ~ex.valid /\ id.valid => nextPc = id.pc
         /\ ~ex.valid /\ ~id.valid /\ ibuf # <<>> => nextPc = Head(ibuf)
         /\ ex.valid /\ id.valid => id.pc = ex.pc + 4
         /\ ~(ex.valid /\ ex.debug) /\ ~(id.valid /\ id.debug)
BY InFlightNow DEF HartInv, ResumePcIsOldest, OldestIsFirst, Oldest, FirstOf, Own,
   CoreInv, DebugInv, DebugWorkIsHalted, Sequenced, SlotsSequenced

\* How the resume PC moves.
LEMMA NextPcMoves ==
  ASSUME HartInv, NEW in, Clock(in), ~Misfire(in)
  PROVE  /\ ~HartRetires(in) => nextPc' = nextPc
         /\ HartRetires(in) =>
              nextPc' = IF TrapRedirect(in) THEN TrapTarget
                        ELSE IF BranchRedirect(in) THEN ex.instr.target ELSE ex.pc + 4
<1>1. nextPc' = IF Trigger(in) THEN TriggerPc
                ELSE IF HartRetires(in) THEN RetireNextPc(in)
                ELSE IF InstrFires(in) /\ PipeIdle THEN Head(ibuf) ELSE nextPc
  BY DEF Clock, DebugControl, NextPcClock
<1>2. Trigger(in) \/ InstrFires(in) \/ HartRetires(in) => ~Halted
  BY DEF Trigger, ExecTrigger, DataTrigger, CanTrigger, InstrFires, Accepts, StopFetch,
     Halted, HartRetires, Retires, HartInv, CoreInv, DebugInv, DebugWorkIsHalted, Own
<1>3. CASE Trigger(in)
  <2>1. ~TrapRedirect(in) /\ ~BranchRedirect(in)
    BY <1>3 DEF Misfire, Trigger, TrapRedirect, BranchRedirect, HartRetires, Retires
  <2>2. CASE DataTrigger
    <3>1. ~HartRetires(in) /\ ex.valid
      BY <2>2 DEF HartRetires, Retires, DataTrigger, MemOp, Ex
    <3>2. QED
      BY <1>1, <1>2, <1>3, <2>2, <3>1, OldestIs DEF TriggerPc
  <2>3. CASE ~DataTrigger
    <3>1. id.valid /\ (~ex.valid \/ Retires(in))
      BY <1>3, <2>3 DEF Trigger, ExecTrigger
    <3>2. ~HartRetires(in) => ~ex.valid
      BY <1>2, <1>3, <3>1, OldestIs DEF HartRetires
    <3>3. HartRetires(in) => ex.valid
      BY DEF HartRetires, Retires
    <3>4. nextPc' = id.pc
      BY <1>1, <1>3, <2>3 DEF TriggerPc
    <3>5. QED
      BY <1>2, <1>3, <2>1, <3>1, <3>2, <3>3, <3>4, OldestIs
  <2>4. QED
    BY <2>2, <2>3
<1>4. CASE ~Trigger(in)
  <2>1. InstrFires(in) => ibuf # <<>>
    BY DEF InstrFires, PopValid
  <2>2. PipeIdle => ~ex.valid /\ ~id.valid
    BY DEF PipeIdle
  <2>3. QED
    BY <1>1, <1>2, <1>4, <2>1, <2>2, OldestIs DEF RetireNextPc
<1>5. QED
  BY <1>3, <1>4

-------------------------------------------------------------------------------
(* One edge.                                                               *)

\* The CSRs outside a retirement: only the debugger's words write them.
LEMMA CsrsKept ==
  ASSUME HartInv, NEW in, Clock(in), ~HartRetires(in)
  PROVE  /\ mpie' = mpie /\ mie' \in {mie, TRUE}
         /\ ~Halted \/ ~ex.valid => UNCHANGED <<mie, mepc>>
<1>1. /\ mie' = (mie \/ CsrWrite("EI"))
      /\ mpie' = mpie
      /\ mepc' = IF CsrWrite("EPC") THEN ex.instr.target ELSE mepc
      /\ mie \in BOOLEAN /\ mpie \in BOOLEAN
  BY DEF Clock, Datapath, CsrClock, HartInv, CoreInv, TypeOK, PipeTypeOK
<1>2. ASSUME NEW kind \in {"EI", "EPC"}, CsrWrite(kind)
      PROVE  Halted /\ ex.valid
  <2>1. ex.valid /\ ~MemOp
    BY <1>2 DEF CsrWrite, Ex, MemOp
  <2>2. Retires(in)
    BY <2>1 DEF Retires, DataTrigger, LsuWait
  <2>3. QED
    BY <2>1, <2>2, OldestIs DEF HartRetires
<1>3. QED
  BY <1>1, <1>2

Accessed == lsuOutstanding /\ ~ex.debug

\* The access under way is that of the instruction in EX.
LEMMA AccessedMeans ==
  ASSUME HartInv
  PROVE  /\ Accessed \in BOOLEAN
         /\ Halted => ~Accessed
         /\ ~Halted => (Accessed <=> lsuOutstanding)
         /\ lsuOutstanding => MemOp
BY DEF HartInv, CoreInv, DebugInv, DebugWorkIsHalted, DataResponseIsOwned, Accessed,
   MemOp, Ex, Own

LEMMA AccessedMeansNext ==
  ASSUME HartInv'
  PROVE  /\ Accessed' \in BOOLEAN
         /\ Halted' => ~Accessed'
         /\ ~Halted' => (Accessed' <=> lsuOutstanding')
BY DEF HartInv, CoreInv, DebugInv, DebugWorkIsHalted, DataResponseIsOwned, Accessed,
   MemOp, Ex, Own

\* What the abstract machine sees of the instruction in EX.
LEMMA ExIsCurrent ==
  ASSUME HartInv, ~Halted, ex.valid
  PROVE  /\ AbstractPc = ex.pc
         /\ Sequential!Kind = ex.instr.kind
         /\ InstrAt(AbstractPc) = ex.instr
         /\ \A kind : Sequential!Does(kind) <=> ex.instr.kind = kind /\ ~FetchFault(ex)
         /\ Sequential!HasAccess <=> MemOp
<1>1. AbstractPc = ex.pc /\ ~ex.debug
  BY AbstractPcNow, OldestIs
<1>2. InstrAt(ex.pc) = ex.instr
  BY <1>1 DEF HartInv, SlotsAreGenuine, Own
<1>3. Sequential!Kind = ex.instr.kind
  BY <1>1, <1>2 DEF Sequential!Kind, AbstractPc
<1>4. \A kind : Sequential!Does(kind) <=> ex.instr.kind = kind /\ ~FetchFault(ex)
  BY <1>1, <1>3 DEF Sequential!Does, AbstractPc, FetchFault
<1>5. Sequential!HasAccess <=> MemOp
  BY <1>4 DEF Sequential!HasAccess, MemOp, Ex
<1>6. QED
  BY <1>1, <1>2, <1>3, <1>4, <1>5

\* Retirement is one of the abstract machine's completions.
LEMMA RetirementRefines ==
  ASSUME HartInv, HartInv', NEW in \in Inputs, Clock(in), ~Misfire(in), HartRetires(in)
  PROVE  Sequential!Next
<1>1. ex.valid /\ ~DataTrigger /\ ~LsuWait(in) /\ ~ex.debug /\ ~Halted /\ ~Halted'
  <2>1. ex.valid /\ ~DataTrigger /\ ~LsuWait(in) /\ ~ex.debug
    BY DEF HartRetires, Retires
  <2>2. ~Halted
    BY <2>1 DEF HartInv, CoreInv, DebugInv, DebugWorkIsHalted, Own
  <2>3. ~Halted'
    BY <2>1, <2>2, HaltsIdle DEF HartInv, CoreInv, PipeIdle
  <2>4. QED
    BY <2>1, <2>2, <2>3
<1>2. Accessed <=> MemOp
  BY <1>1, AccessedMeans DEF LsuWait, LsuAnswered
<1>3. ~Accessed'
  BY <1>1, AccessKeepsEx, AccessedMeansNext DEF HartInv, CoreInv, Accessed
<1>4. Sequential!Completes
  <2>1. Accessed = Sequential!HasAccess
    <3>1. Accessed <=> Sequential!HasAccess
      BY <1>1, <1>2, ExIsCurrent
    <3>2. Accessed \in BOOLEAN /\ Sequential!HasAccess \in BOOLEAN
      BY DEF Accessed, Sequential!HasAccess
    <3>3. QED
      BY <3>1, <3>2
  <2>2. Accessed' = FALSE
    BY <1>3, AccessedMeansNext
  <2>3. QED
    BY <1>1, <2>1, <2>2 DEF Sequential!Completes, Accessed
<1>5. /\ mie' = IF TrapEntered(in.irq) THEN FALSE
                ELSE IF MretTaken THEN mpie ELSE mie \/ CsrWrite("EI")
      /\ mpie' = IF TrapEntered(in.irq) THEN mie ELSE mpie \/ MretTaken
      /\ mepc' = IF TrapEntered(in.irq) THEN ex.pc
                 ELSE IF CsrWrite("EPC") THEN ex.instr.target ELSE mepc
  BY DEF Clock, Datapath, CsrClock
<1>6. AbstractPc' = IF TrapRedirect(in) THEN TrapTarget
                    ELSE IF BranchRedirect(in) THEN ex.instr.target ELSE ex.pc + 4
  BY AbstractPcNext, NextPcMoves
<1>7. /\ TrapRedirect(in) <=> MretTaken \/ TrapEntered(in.irq)
      /\ BranchRedirect(in) <=> BranchTaken(in.taken)
  BY DEF TrapRedirect, BranchRedirect
<1>8. /\ AbstractPc = ex.pc /\ Sequential!Kind = ex.instr.kind
      /\ InstrAt(AbstractPc) = ex.instr
      /\ \A kind : Sequential!Does(kind) <=> ex.instr.kind = kind /\ ~FetchFault(ex)
  BY <1>1, ExIsCurrent
<1>9. mpie \in BOOLEAN /\ mie \in BOOLEAN
  BY DEF HartInv, CoreInv, TypeOK, PipeTypeOK
<1>10. CASE TrapEntered(in.irq)
  <2>1. ~MretTaken /\ (SyncTrap \/ (Interrupted(in.irq) /\ mie))
    BY <1>10 DEF TrapEntered, SyncTrap, MretTaken, Interrupted, Ex
  <2>2. AbstractPc' = Mtvec
    BY <1>6, <1>7, <1>10, <2>1 DEF TrapTarget
  <2>3. Sequential!Trap
    BY <1>1, <1>5, <1>8, <1>10, <2>2 DEF Sequential!Trap, AbstractPc
  <2>4. CASE SyncTrap
    BY <1>4, <1>8, <2>3, <2>4 DEF Sequential!Next, Sequential!Except, SyncTrap, Ex
  <2>5. CASE Interrupted(in.irq) /\ mie
    BY <1>1, <1>4, <1>8, <2>3, <2>5
    DEF Sequential!Next, Sequential!Interrupt, Interrupted, SyncTrap, MretTaken, Ex
  <2>6. QED
    BY <2>1, <2>4, <2>5
<1>11. CASE MretTaken /\ ~TrapEntered(in.irq)
  <2>1. AbstractPc' = mepc /\ mie' = mpie /\ mpie' = TRUE /\ mepc' = mepc
    BY <1>5, <1>6, <1>7, <1>9, <1>11 DEF TrapTarget, CsrWrite, MretTaken, Ex
  <2>2. QED
    BY <1>1, <1>4, <1>8, <1>11, <2>1
    DEF Sequential!Next, Sequential!Return, MretTaken, Ex, AbstractPc
<1>12. CASE ~MretTaken /\ ~TrapEntered(in.irq)
  <2>1. Sequential!Kind \notin {"TRAP", "MRET"}
    BY <1>1, <1>8, <1>12 DEF TrapEntered, SyncTrap, MretTaken, Ex
  <2>2. /\ mie' = (mie \/ Sequential!Does("EI")) /\ mpie' = mpie
        /\ mepc' = IF Sequential!Does("EPC") THEN InstrAt(AbstractPc).target ELSE mepc
    BY <1>1, <1>5, <1>8, <1>9, <1>12 DEF CsrWrite, Ex
  <2>3. \/ AbstractPc' = AbstractPc + 4 /\ ~Sequential!Does("JUMP")
        \/ /\ AbstractPc' = InstrAt(AbstractPc).target
           /\ Sequential!Does("JUMP") \/ Sequential!Does("BRANCH")
    BY <1>1, <1>6, <1>7, <1>8, <1>12 DEF BranchTaken, Ex
  <2>4. QED
    BY <1>1, <1>4, <2>1, <2>2, <2>3 DEF Sequential!Next, Sequential!Execute, AbstractPc
<1>13. QED
  BY <1>10, <1>11, <1>12

\* Every other edge issues an access, enters or leaves Debug Mode, works for the
\* debugger, or does not show.
LEMMA OtherEdgeRefines ==
  ASSUME HartInv, HartInv', NEW in \in Inputs, Clock(in), ~Misfire(in), ~HartRetires(in)
  PROVE  [Sequential!Next]_Sequential!vars
<1>1. AbstractPc' = AbstractPc
  BY AbstractPcNow, AbstractPcNext, NextPcMoves
<1>2. /\ mpie' = mpie /\ mie' \in {mie, TRUE} /\ mepc' \in Nat
      /\ ~Halted \/ ~ex.valid => UNCHANGED <<mie, mepc>>
  BY CsrsKept DEF HartInv, CoreInv, TypeOK, PipeTypeOK
<1>3. ~ex.valid => ~Accessed /\ ~Accessed'
  BY AccessKeepsEx, AccessedMeans DEF HartInv, CoreInv, Accessed, MemOp, Ex
<1> USE AccessedMeans, AccessedMeansNext
<1>4. CASE Halted /\ Halted'
  BY <1>1, <1>2, <1>4 DEF Sequential!Next, Sequential!DebugExecutes, AbstractPc, Accessed
<1>5. CASE Halted /\ ~Halted'
  <2>1. Resumes
    BY <1>5 DEF Clock, DebugControl, DbgStateClock, Resumes, ResumeRedirect, Halted
  <2>2. ~ex.valid
    BY <2>1, ResumesIdle DEF HartInv, CoreInv
  <2>3. QED
    BY <1>1, <1>2, <1>3, <1>5, <2>2 DEF Sequential!Next, Sequential!LeaveDebug, AbstractPc, Accessed
<1>6. CASE ~Halted /\ Halted'
  <2>1. ~ex.valid
    BY <1>6, HaltsIdle DEF HartInv, CoreInv, PipeIdle
  <2>2. QED
    BY <1>1, <1>2, <1>3, <1>6, <2>1 DEF Sequential!Next, Sequential!EnterDebug, AbstractPc, Accessed
<1>7. CASE ~Halted /\ ~Halted'
  <2>1. CASE Accessed = Accessed'
    BY <1>1, <1>2, <1>7, <2>1 DEF Sequential!vars, AbstractPc, Accessed
  <2>2. CASE ~Accessed /\ Accessed'
    <3>1. MemOp /\ ex.valid
      BY <2>2, AccessKeepsEx DEF HartInv, CoreInv, Accessed, MemOp, Ex
    <3>2. Sequential!HasAccess
      BY <1>7, <3>1, ExIsCurrent
    <3>3. QED
      BY <1>1, <1>2, <1>7, <2>2, <3>2 DEF Sequential!Next, Sequential!Access, AbstractPc, Accessed
  <2>3. CASE Accessed /\ ~Accessed'
    <3>1. lsuOutstanding /\ ~lsuOutstanding' /\ ex.valid /\ ~ex.debug
      BY <1>7, <2>3 DEF Accessed, MemOp, Ex
    <3>2. LsuAnswered(in)
      BY <3>1 DEF Clock, Datapath, LsuClock
    <3>3. HartRetires(in)
      BY <3>1, <3>2 DEF HartRetires, Retires, LsuWait, DataTrigger, CanTrigger
    <3>4. QED
      BY <3>3
  <2>4. QED
    BY <2>1, <2>2, <2>3
<1>8. QED
  BY <1>4, <1>5, <1>6, <1>7

LEMMA StartsInOrder == Init => HartInv /\ Sequential!Init
<1> SUFFICES ASSUME Init PROVE HartInv /\ Sequential!Init
  OBVIOUS
<1>1. CoreInv /\ ResumePcIsOldest
  BY HartStarts
<1>2. SlotsAreGenuine
  BY DEF Init, PipeInit, Bubble, Own, SlotsAreGenuine
<1>3. HartInv
  BY <1>1, <1>2 DEF HartInv
<1>4. AbstractPc = 0
  BY <1>3, AbstractPcNow DEF Init, DebugInit
<1>5. QED
  BY <1>3, <1>4
  DEF Sequential!Init, AbstractPc, Init, PipeInit, DebugInit, Halted

LEMMA HartStep ==
  ASSUME HartInv, [OnPathNext]_vars
  PROVE  HartInv' /\ [Sequential!Next]_Sequential!vars
<1>1. CASE OnPathNext
  <2>1. PICK in \in Inputs : Clock(in) /\ ~Misfire(in)
    BY <1>1 DEF OnPathNext
  <2>2. CoreInv'
    BY <2>1, CoreStep DEF HartInv, Next
  <2>3. HartInv'
    BY <2>1, <2>2, ResumePcStep, GenuineStep DEF HartInv
  <2>4. QED
    BY <2>1, <2>3, RetirementRefines, OtherEdgeRefines
<1>2. CASE UNCHANGED vars
  <2>1. CoreInv'
    BY <1>2, CoreStep DEF HartInv
  <2>2. OldestPc' = OldestPc /\ (Halted' <=> Halted)
    BY <1>2 DEF OldestPc, InFlight, If1, Own, Halted, vars, frontendVars, pipeVars, debugVars
  <2>3. ResumePcIsOldest' /\ SlotsAreGenuine'
    BY <1>2, <2>2 DEF HartInv, ResumePcIsOldest, SlotsAreGenuine, Own, vars, pipeVars, debugVars
  <2>4. Sequential!vars' = Sequential!vars
    BY <1>2, <2>2 DEF Sequential!vars, vars, pipeVars, csrVars, debugVars
  <2>5. QED
    BY <2>1, <2>3, <2>4 DEF HartInv
<1>3. QED
  BY <1>1, <1>2

\* Pipeline, prefetch, stalls and debug entry do not show: a program runs as if
\* one instruction were executed after the other, whatever the caches and the
\* debugger do.
THEOREM HartExecutesInOrder == OnPathSpec => ExecutesInOrder
<1>1. QED
  BY StartsInOrder, HartStep, PTL DEF OnPathSpec, ExecutesInOrder, Sequential!Spec
===============================================================================
