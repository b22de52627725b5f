------------------------------- MODULE HaltCtrl -------------------------------
(***************************************************************************)
(* Halt and resume requests on their way from the debugger to the hart:    *)
(* the two dmcontrol bits of debug/rtl/debug_dmi_regs.sv and the           *)
(* transaction FSM of debug/rtl/debug_halt_ctrl.sv.  dmactive stays set.   *)
(* The core's status is passed in by the module that composes them.        *)
(***************************************************************************)
EXTENDS Naturals

VARIABLES
  haltreq,     \* haltreq_q of dmcontrol
  resumereq,   \* resumereq_q of dmcontrol
  haltState,   \* debug_halt_ctrl state_q
  resumeack    \* resumeack_q, sticky

haltVars == <<haltreq, resumereq, haltState, resumeack>>

HaltTypeOK ==
  /\ haltreq \in BOOLEAN /\ resumereq \in BOOLEAN /\ resumeack \in BOOLEAN
  /\ haltState \in {"IDLE", "HALT_WAIT", "RESUME_WAIT"}

HaltInit ==
  /\ haltreq = FALSE /\ resumereq = FALSE
  /\ haltState = "IDLE" /\ resumeack = FALSE

\* What the core sees.
HaltReq == haltState = "HALT_WAIT"
ResumeReq == haltState = "RESUME_WAIT"

\* A debugger's write to dmcontrol, if there is one: haltreq has priority, and
\* CLEAR writes neither bit.
DmcontrolWrites == {"NONE", "HALT", "RESUME", "CLEAR"}
DmcontrolClock(write) ==
  /\ haltreq' = IF write = "NONE" THEN haltreq ELSE write = "HALT"
  /\ resumereq' = CASE write = "HALT"   -> FALSE
                    [] write = "RESUME" -> TRUE
                    [] OTHER            -> resumereq /\ ~resumeack

HaltCtrlClock(halted, running) ==
  /\ haltState' =
       CASE haltState = "IDLE" ->
              IF haltreq THEN (IF halted THEN "IDLE" ELSE "HALT_WAIT")
              ELSE IF resumereq /\ ~running THEN "RESUME_WAIT" ELSE "IDLE"
         [] haltState = "HALT_WAIT" ->
              IF ~haltreq \/ halted THEN "IDLE" ELSE "HALT_WAIT"
         [] haltState = "RESUME_WAIT" ->
              IF haltreq THEN (IF halted THEN "IDLE" ELSE "HALT_WAIT")
              ELSE IF running THEN "IDLE" ELSE "RESUME_WAIT"
  /\ resumeack' =
       \/ ~haltreq /\ running /\ (resumereq \/ haltState = "RESUME_WAIT")
       \/ resumeack /\ ~(resumereq /\ haltState # "RESUME_WAIT")

HaltClock(write, halted, running) ==
  DmcontrolClock(write) /\ HaltCtrlClock(halted, running)
===============================================================================
