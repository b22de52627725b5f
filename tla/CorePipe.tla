------------------------------- MODULE CorePipe -------------------------------
(***************************************************************************)
(* The two pipeline slots of core/rtl/core_pipe.sv, the owner of the one   *)
(* data access (core_int_datapath.sv), and the machine CSRs that traps use *)
(* (core_trap.sv, core_csr.sv).  An instruction is its kind, the target of *)
(* a jump, and whether it reads the register that loads write.  Values are *)
(* abstracted, but for one register and mscratch, which SWAP exchanges.    *)
(***************************************************************************)
EXTENDS Naturals

CONSTANTS
  Program,      \* the instruction at each PC that memory holds
  FaultPcs,     \* PCs whose fetch is answered with an error
  Mtvec,        \* trap handler
  DebugExecPc   \* PC of a word injected by the debugger

\* TRAP stands for every synchronous exception; EI sets mstatus.MIE, EPC writes
\* its target to mepc, SWAP is csrrw r, mscratch, r.
CsrKinds == {"EI", "EPC", "SWAP"}
Kinds == {"ALU", "LOAD", "STORE", "BRANCH", "JUMP", "TRAP", "MRET"} \union CsrKinds
Instruction == [kind : Kinds, target : Nat, dep : BOOLEAN]

ASSUME ProgramAssumption ==
  /\ DOMAIN Program \subseteq {p \in Nat : p % 4 = 0}
  /\ \A p \in DOMAIN Program : Program[p] \in Instruction
  /\ FaultPcs \subseteq Nat
  /\ Mtvec \in Nat /\ DebugExecPc \in Nat

VARIABLES
  id,              \* the IF/ID slot
  ex,              \* the EX/WB slot
  lsuOutstanding,  \* lsu_req_outstanding_q
  mie, mpie,       \* mstatus.MIE and MPIE
  mepc,
  reg, scratch     \* the register SWAP names, and mscratch

csrVars == <<mie, mpie, mepc, reg, scratch>>
pipeVars == <<id, ex, lsuOutstanding, csrVars>>

Nop == [kind |-> "ALU", target |-> 0, dep |-> FALSE]
Illegal == [kind |-> "TRAP", target |-> 0, dep |-> FALSE]
Slot == [valid : BOOLEAN, pc : Nat, instr : Instruction, debug : BOOLEAN]
Bubble == [valid |-> FALSE, pc |-> 0, instr |-> Nop, debug |-> FALSE]

\* Nothing is mapped outside the program: such a fetch returns a zero word, as
\* one of a misaligned PC does.
InstrAt(p) == IF p \in DOMAIN Program THEN Program[p] ELSE Illegal
Fetched(p) == [valid |-> TRUE, pc |-> p, instr |-> InstrAt(p), debug |-> FALSE]
Injected(i) == [valid |-> TRUE, pc |-> DebugExecPc, instr |-> i, debug |-> TRUE]
FetchFault(s) == ~s.debug /\ s.pc \in FaultPcs

PipeTypeOK ==
  /\ id \in Slot /\ ex \in Slot
  /\ lsuOutstanding \in BOOLEAN
  /\ mie \in BOOLEAN /\ mpie \in BOOLEAN /\ mepc \in Nat
  /\ reg \in {"A", "B"} /\ scratch \in {"A", "B"}

PipeInit ==
  /\ id = Bubble /\ ex = Bubble
  /\ lsuOutstanding = FALSE
  /\ mie = FALSE /\ mpie = FALSE /\ mepc = 0
  /\ reg = "A" /\ scratch = "B"

-------------------------------------------------------------------------------
Ex(kinds) == ex.valid /\ ex.instr.kind \in kinds

\* A faulted fetch makes neither an access nor a CSR write nor a jump; it traps
\* only if the word that came with the error is illegal.
MemOp == Ex({"LOAD", "STORE"}) /\ ~FetchFault(ex)
CsrWrite(kind) == Ex({kind}) /\ ~FetchFault(ex)

PipeIdle == ~id.valid /\ ~ex.valid /\ ~lsuOutstanding

\* core_hazard: the instruction in ID waits for a load that will write.
LoadUse(writes) ==
  /\ id.valid /\ ~FetchFault(id) /\ id.instr.dep
  /\ Ex({"LOAD"}) /\ ~FetchFault(ex) /\ writes

\* core_trap, for a retirement that is not the debugger's.
SyncTrap == Ex({"TRAP"})
MretTaken == Ex({"MRET"})
Interrupted(irq) == ~SyncTrap /\ ~MretTaken /\ mie /\ irq
TrapEntered(irq) == SyncTrap \/ Interrupted(irq)

BranchTaken(taken) ==
  /\ Ex({"JUMP"}) \/ (Ex({"BRANCH"}) /\ taken)
  /\ ~FetchFault(ex)

\* Mutant: a redirect does not empty ID.
PipeClock_KeepsId(redirect, inject, bubble, advance, accept, instr, fetched) ==
  /\ id' = IF inject THEN Injected(instr)
           ELSE IF accept THEN fetched
           ELSE IF advance /\ ~redirect THEN Bubble ELSE id
  /\ ex' = IF redirect \/ inject \/ bubble THEN Bubble
           ELSE IF advance THEN id ELSE ex

\* core_pipe: a redirect empties both slots, an injected word owns an empty
\* pipeline, and otherwise the slots advance.
PipeClock(redirect, inject, bubble, advance, accept, instr, fetched) ==
  /\ id' = IF redirect THEN Bubble
           ELSE IF inject THEN Injected(instr)
           ELSE IF accept THEN fetched
           ELSE IF advance THEN Bubble ELSE id
  /\ ex' = IF redirect \/ inject \/ bubble THEN Bubble
           ELSE IF advance THEN id ELSE ex

LsuClock(reqFires, rspFires) ==
  lsuOutstanding' = (~rspFires /\ (reqFires \/ lsuOutstanding))

\* Mutant: MEPC is the PC of the next instruction.
CsrClock_NextPc(trap, mret, writesReg) ==
  /\ mie' = IF trap THEN FALSE ELSE IF mret THEN mpie ELSE mie \/ CsrWrite("EI")
  /\ mpie' = IF trap THEN mie ELSE mpie \/ mret
  /\ mepc' = IF trap THEN ex.pc + 4
             ELSE IF CsrWrite("EPC") THEN ex.instr.target ELSE mepc
  /\ UNCHANGED <<scratch, reg>>

\* core_csr and the register write of SWAP.  A CSR instruction writes its CSR
\* also when an interrupt is taken on it, but then not its register.
CsrClock(trap, mret, writesReg) ==
  /\ mie' = IF trap THEN FALSE ELSE IF mret THEN mpie ELSE mie \/ CsrWrite("EI")
  /\ mpie' = IF trap THEN mie ELSE mpie \/ mret
  /\ mepc' = IF trap THEN ex.pc
             ELSE IF CsrWrite("EPC") THEN ex.instr.target ELSE mepc
  /\ scratch' = IF CsrWrite("SWAP") THEN reg ELSE scratch
  /\ reg' = IF CsrWrite("SWAP") /\ writesReg THEN scratch ELSE reg
===============================================================================
