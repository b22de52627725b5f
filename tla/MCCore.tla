-------------------------------- MODULE MCCore --------------------------------
(***************************************************************************)
(* Small programs for Core, and the caches' promise to answer.  stepped    *)
(* counts the instructions a single step has retired, until the hart is    *)
(* halted again; it is NotStepping otherwise.                              *)
(***************************************************************************)
EXTENDS HartDiagrams

VARIABLE stepped

mcVars == <<vars, stepped>>

I(kind, target, dep) == [kind |-> kind, target |-> target, dep |-> dep]
Op(kind) == I(kind, 0, FALSE)

\* Interrupts over a load, a store, a branch, and a jump (16) whose fetch fails,
\* so that it is passed over; the handler is at 24.
IrqProgram ==
  [p \in {0, 4, 8, 12, 16, 20, 24} |->
     CASE p = 0  -> Op("EI")
       [] p = 4  -> Op("LOAD")
       [] p = 8  -> I("BRANCH", 4, TRUE)
       [] p = 12 -> Op("STORE")
       [] p = 16 -> I("JUMP", 8, FALSE)
       [] p = 20 -> I("JUMP", 4, FALSE)
       [] p = 24 -> Op("MRET")]

\* A loop with a load, a branch and a store, for the debugger.
DebugProgram ==
  [p \in {0, 4, 8, 12} |->
     CASE p = 0  -> Op("LOAD")
       [] p = 4  -> I("BRANCH", 12, FALSE)
       [] p = 8  -> Op("STORE")
       [] p = 12 -> I("JUMP", 0, FALSE)]

\* A shorter one, for all that the debugger may do at once: a load, a branch on
\* what it loads, and the jump the branch skips.
ShortProgram ==
  [p \in {0, 4, 8} |->
     CASE p = 0 -> Op("LOAD")
       [] p = 4 -> I("BRANCH", 0, TRUE)
       [] p = 8 -> I("JUMP", 0, FALSE)]

\* The smallest loop with an access.
LoopProgram ==
  [p \in {0, 4} |-> IF p = 0 THEN Op("STORE") ELSE I("JUMP", 0, FALSE)]

\* A CSR exchange under interrupts.
SwapProgram ==
  [p \in {0, 4, 8, 12} |->
     CASE p = 0  -> Op("EI")
       [] p = 4  -> Op("SWAP")
       [] p = 8  -> I("JUMP", 4, FALSE)
       [] p = 12 -> Op("MRET")]

MCDebugWords == {Op("STORE"), I("JUMP", 4, FALSE)}

-------------------------------------------------------------------------------
NotStepping == 99
MaxStepped == 3    \* no need to count further

RecordStep(in) ==
  stepped' = IF dbgState = "HALTED"
             THEN IF dbgState' = "STEP_RUNNING" THEN 0 ELSE NotStepping
             ELSE IF stepped < MaxStepped /\ HartRetires(in) THEN stepped + 1
             ELSE IF dbgState' = "RUNNING" THEN NotStepping
             ELSE stepped

MCInit == Init /\ stepped = NotStepping
MCStep(in) == Clock(in) /\ RecordStep(in)
OnPathStep(in) == MCStep(in) /\ ~Misfire(in)
MCNext == \E in \in Inputs : MCStep(in)
MCOnPathNext == \E in \in Inputs : OnPathStep(in)

MCSpec == MCInit /\ [][MCNext]_mcVars
MCOnPathSpec == MCInit /\ [][MCOnPathNext]_mcVars

\* A cache that has a request to take or to answer does so eventually, in a
\* cycle in which the debugger, which is slower than the clock, does nothing.
IcacheMoves(in) == IF fetchState = "IDLE" THEN in.imemReady ELSE in.imemRsp
DcacheMoves(in) == IF DataPending THEN in.dmemRsp # "NONE" ELSE DataWanted => in.dmemReady
Quiet(in) == in.write = "NONE" /\ in.command.op = "NONE"
MCFairSpec ==
  /\ MCOnPathSpec
  /\ WF_mcVars(\E in \in Inputs : IcacheMoves(in) /\ Quiet(in) /\ OnPathStep(in))
  /\ WF_mcVars(\E in \in Inputs : DcacheMoves(in) /\ Quiet(in) /\ OnPathStep(in))

-------------------------------------------------------------------------------
\* A single step retires no more than two instructions: the one stepped, and
\* the one accepted as it retires.
StepIsBounded == Halted /\ stepped # NotStepping => stepped <= 2

\* What core_debug_ctrl_spec.md promises of a step.
StepIsOneInstruction == Halted /\ stepped # NotStepping => stepped <= 1

\* What core_int_datapath_spec.md promises of an execute trigger: the matched
\* instruction does not get to retire, unless a halt is under way anyway.
BreakpointStops ==
  triggersOn /\ Own(ex) /\ ex.pc \in ExecTriggers
    => HaltReq \/ dbgState = "HALT_PENDING"

\* A trigger's DPC is where the program is to be resumed.
DpcIsResumePc == Halted => dpc = OldestPc

\* What core_int_datapath_design_spec.md says of a CSR instruction: the register
\* gets the old value, the CSR the new one.
SwapIsAtomic == reg # scratch

\* A halt request is answered, by the hart halting, unless it is withdrawn.
HaltIsAnswered == (haltState = "HALT_WAIT") ~> (haltState # "HALT_WAIT")

\* A resume request is answered, however busy the debugger keeps the hart.
ResumeIsAnswered == (haltState = "RESUME_WAIT") ~> (haltState # "RESUME_WAIT")

\* A single step ends in Debug Mode, or with a halt request or a resume.
StepEnds == (dbgState = "STEP_RUNNING") ~> (dbgState # "STEP_RUNNING")
===============================================================================
