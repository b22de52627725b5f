--------------------------------- MODULE Hart ---------------------------------
(***************************************************************************)
(* What the core promises: it executes one instruction after the other,    *)
(* each at the PC the one before it left, accesses memory only for the     *)
(* instruction it executes, once, and enters and leaves Debug Mode between *)
(* instructions.  An interrupt is taken on an instruction, which then is   *)
(* to be executed anew - after its access, when it has one.                *)
(***************************************************************************)
EXTENDS Naturals

CONSTANTS
  InstrAt(_),  \* the instruction at a PC
  Faulted(_),  \* fetching it fails
  Mtvec        \* the trap handler

VARIABLES
  mode,        \* "RUN" or "DEBUG"
  apc,         \* PC of the instruction to execute next
  accessed,    \* that instruction has its access under way
  mie, mpie,   \* mstatus
  mepc

vars == <<mode, apc, accessed, mie, mpie, mepc>>

Init ==
  /\ mode = "RUN" /\ apc = 0 /\ accessed = FALSE
  /\ mie = FALSE /\ mpie = FALSE /\ mepc = 0

Kind == InstrAt(apc).kind
Does(kind) == Kind = kind /\ ~Faulted(apc)
HasAccess == Does("LOAD") \/ Does("STORE")

\* The instruction's load or store is issued.
Access ==
  /\ mode = "RUN" /\ HasAccess /\ ~accessed
  /\ accessed' = TRUE
  /\ UNCHANGED <<mode, apc, mie, mpie, mepc>>

Completes == mode = "RUN" /\ accessed = HasAccess /\ accessed' = FALSE

Trap ==
  /\ mpie' = mie /\ mie' = FALSE
  /\ mepc' = apc
  /\ apc' = Mtvec
  /\ UNCHANGED mode

Except == Completes /\ Kind = "TRAP" /\ Trap

Interrupt == Completes /\ mie /\ Kind \notin {"TRAP", "MRET"} /\ Trap

Return ==
  /\ Completes /\ Kind = "MRET"
  /\ mie' = mpie /\ mpie' = TRUE
  /\ apc' = mepc
  /\ UNCHANGED <<mode, mepc>>

Execute ==
  /\ Completes /\ Kind \notin {"TRAP", "MRET"}
  /\ mie' = (mie \/ Does("EI"))
  /\ mepc' = IF Does("EPC") THEN InstrAt(apc).target ELSE mepc
  /\ \/ apc' = apc + 4 /\ ~Does("JUMP")
     \/ apc' = InstrAt(apc).target /\ (Does("JUMP") \/ Does("BRANCH"))
  /\ UNCHANGED <<mode, mpie>>

EnterDebug ==
  /\ mode = "RUN" /\ ~accessed
  /\ mode' = "DEBUG"
  /\ UNCHANGED <<apc, accessed, mie, mpie, mepc>>

LeaveDebug ==
  /\ mode = "DEBUG"
  /\ mode' = "RUN"
  /\ UNCHANGED <<apc, accessed, mie, mpie, mepc>>

\* The debugger's instructions may write CSRs, but never move the PC.
DebugExecutes ==
  /\ mode = "DEBUG"
  /\ mie' \in {mie, TRUE} /\ mepc' \in Nat
  /\ UNCHANGED <<mode, apc, accessed, mpie>>

Next ==
  \/ Access \/ Except \/ Interrupt \/ Return \/ Execute
  \/ EnterDebug \/ LeaveDebug \/ DebugExecutes

Spec == Init /\ [][Next]_vars
===============================================================================
