---------------------------- MODULE OtpProgramming ----------------------------
(***************************************************************************)
(* Programming the OTP over the debugger's channel B: the host tool, the   *)
(* serial line with its faults, the loader on the target and the OTP.      *)
(* A job starts on a quiet line, as one process starts long after the      *)
(* other has ended and opening the port drops what was received; but the   *)
(* loader may still be waiting for the rest of a frame.                    *)
(***************************************************************************)
EXTENDS OtpHost, OtpLoader

CONSTANTS
  Mishaps   \* bound, for each build of the loader: the tokens lost or spoilt,
            \* early timeouts and resets of the target, taken together

ASSUME MishapsAssumption == Mishaps \in [Devices -> Nat]

ASSUME JobsAssumption ==
  \A j \in Jobs :
    /\ j.operation \in
         {"probe", "status", "read", "verify", "program", "lock", "raw"}
    /\ j.offset \in Nat /\ j.image \in Seq(SUBSET Bits)
    /\ {j.verify, j.confirmed} \subseteq BOOLEAN /\ j.skew \in 0 .. 3
    /\ j.raw.command \in Commands /\ j.raw.address \in Nat
    /\ j.raw.payload \in
         Seq(IF j.raw.command = "PROGRAM"
               THEN [word : SUBSET Bits] ELSE [length : Nat])
    /\ Len(j.raw.payload) <= MaxPayload

VARIABLES
  mishaps,  \* what has gone wrong so far
  harm,     \* the worst that befell this job: "none", "cut" or "fatal"
  cut       \* the target was reset during this job

targetVars == <<otp, device, loaderVars>>
mishapVars == <<mishaps, harm, cut>>
vars == <<hostVars, line, targetVars, mishapVars>>

Init ==
  /\ HostInit /\ LineInit /\ LoaderInit
  /\ mishaps = 0 /\ harm = "none" /\ cut = FALSE

\* The loader waits for bytes and has none.
TargetQuiet ==
  /\ toTarget = << >>
  /\ lphase \in {"seek", "half", "header", "body"}
  /\ ~(lphase = "body" /\ BodyRead)

\* No byte is under way and none will come before the host sends one.
Quiet == TargetQuiet /\ toHost = << >>

\* Opening the port drops what an earlier job left in the driver.
Start ==
  /\ TargetQuiet
  /\ toTarget' = << >> /\ toHost' = << >>
  /\ StartJob
  /\ harm' = IF lphase = "seek" THEN "none" ELSE "fatal"
  /\ cut' = FALSE
  /\ UNCHANGED <<targetVars, mishaps>>

Host == HostStep /\ UNCHANGED <<targetVars, mishapVars>>

Loader == LoaderStep /\ UNCHANGED <<hostVars, mishapVars>>

DeadTimeOut ==
  /\ Quiet /\ TimeOut
  /\ UNCHANGED <<line, targetVars, mishapVars>>

Mishap(worst) ==
  /\ mishaps < Mishaps[device]
  /\ mishaps' = mishaps + 1
  /\ harm' = IF harm = "fatal" THEN "fatal" ELSE worst

LateTimeOut ==
  /\ ~Quiet /\ TimeOut
  /\ Mishap("fatal")
  /\ UNCHANGED <<line, targetVars, cut>>

\* An answer that loses its magic, an item or its CRC is cut short: what is
\* left of it is skipped, or waited for in vain.  But without its header, or
\* with a word in it that looks like the magic it has lost, what is left is
\* taken for another frame.
Misread(queue) ==
  \/ Head(queue).t = "header"
  \/ Head(queue) = Magic /\ \E i \in 2 .. Len(queue) : LooksLikeMagic(queue[i])

LoseAnswer ==
  /\ Running
  /\ toHost # << >>
  /\ toHost' = Lost(toHost)
  /\ Mishap(IF Misread(toHost) THEN "fatal" ELSE "cut")
  /\ UNCHANGED <<hostVars, toTarget, targetVars, cut>>

SpoilAnswer ==
  /\ Running
  /\ toHost # << >> /\ Head(toHost) # Noise
  /\ toHost' = Spoilt(toHost)
  /\ Mishap("fatal")
  /\ UNCHANGED <<hostVars, toTarget, targetVars, cut>>

HarmRequest ==
  /\ Running
  /\ toTarget # << >> /\ Head(toTarget) # Noise
  /\ toTarget' \in {Lost(toTarget), Spoilt(toTarget)}
  /\ Mishap("fatal")
  /\ UNCHANGED <<hostVars, toHost, targetVars, cut>>

ResetTarget ==
  /\ ResetLoader
  /\ Mishap("fatal")
  /\ cut' = TRUE
  /\ UNCHANGED hostVars

Next ==
  \/ Start \/ Host \/ Loader \/ DeadTimeOut \/ LateTimeOut
  \/ LoseAnswer \/ SpoilAnswer \/ HarmRequest \/ ResetTarget

Spec == Init /\ [][Next]_vars
\* Both programs run on, the OTP is clocked and a deadline passes.
FairSpec ==
  Spec /\ WF_vars(Host) /\ WF_vars(Loader) /\ WF_vars(DeadTimeOut)
-------------------------------------------------------------------------------
\* The words a command line asks to be burnt, and to which values.
AskedBy(j) ==
  LET pairs ==
        CASE j.operation = "program" /\ j.confirmed ->
               {<<j.offset + i - 1, j.image[i]>> : i \in 1 .. Len(j.image)}
          [] j.operation = "raw" /\ j.raw.command = "PROGRAM" ->
               {<<j.raw.address + i - 1, j.raw.payload[i].word>> :
                  i \in 1 .. Len(j.raw.payload)}
          [] OTHER -> {}
  IN  pairs \cap (Addresses \X SUBSET Bits)

\* The command lines that no fault-free target has a reason to refuse.
Legitimate ==
  /\ job.confirmed
  /\ device.version = Version
  /\ job.operation \notin {"raw", "status"} =>
       device.max \in 1 .. MaxPayload /\ Permitted(device)
  /\ job.operation = "program" =>
       /\ ~otp.locked
       /\ \A i \in 1 .. Total : job.image[i] \subseteq otp.words[job.offset + i - 1]
  /\ job.operation = "verify" =>
       \A i \in 1 .. Total : job.image[i] = otp.words[job.offset + i - 1]
  /\ job.operation # "raw"

TypeOK ==
  /\ otp \in OtpState
  /\ device \in Devices
  /\ job \in Jobs
  /\ outcome \in {"none", "running", "ok", "error"}
  /\ stage \in Stages
  /\ pos \in 0 .. Total
  /\ tries \in 0 .. Retries
  /\ sequence \in 0 .. SequenceModulus - 1
  /\ hphase \in {"send", "seek", "header", "body"}
  /\ Len(hbody) <= hheader.length + 1
  /\ hheader.length <= MaxPayload
  /\ lphase \in LoaderPhases
  /\ Len(lbody) <= lheader.length + 1
  /\ lheader.length <= MaxPayload
  /\ lpos \in 0 .. lheader.length
  /\ mishaps \in 0 .. Mishaps[device]

\* What the host has read is in the OTP, what it has had acknowledged is burnt
\* and, when the tool reports success, so is the whole image (read or not), or
\* the lock is set unless the target was reset (client.py:122-204).  A stale
\* answer taken for a fresh one would break it.
OtpWord(i) == otp.words[job.offset + i - 1]
HostBelievesTrue ==
  /\ \A i \in 1 .. Len(got) : got[i] = OtpWord(i)
  /\ stage \in {"burn", "check"} /\ job.operation = "program" =>
       \A i \in 1 .. (IF stage = "burn" THEN pos ELSE Total) :
         OtpWord(i) = job.image[i]
  /\ outcome = "ok" /\ job.operation \in {"program", "verify"} =>
       \A i \in 1 .. Total : OtpWord(i) = job.image[i]
  /\ outcome = "ok" /\ job.operation = "lock" /\ ~cut => otp.locked

\* However a program job is interrupted, the same command line may be given
\* again: no word has lost a bit the image needs.  And the key is revoked
\* whenever no pulse is under way (uart_otp_loader.c:55).
InterruptionIsHarmless ==
  /\ otp.unlocked => lphase = "pulse"
  /\ job.operation = "program" /\ stage \in {"burn", "check"} =>
       \A i \in 1 .. Total : job.image[i] \subseteq OtpWord(i)

\* A job that nothing speaks against fails only for a reason: a fault that is
\* not a cut answer, an early timeout, a reset, or more cut answers than there
\* are retries.  In particular lost answers are made up for, although the
\* target carries the request out again (serial_transport.py:87).
ErrorsHaveACause ==
  outcome = "error" /\ Legitimate => harm = "fatal" \/ mishaps > Retries

\* A PROGRAM frame one of whose words may not be burnt burns none of them
\* (wasp1_uart_otp_protocol.c:226).
IllegalFramesBurnNothing ==
  [][otp'.words # otp.words =>
       \A i \in 1 .. lheader.length :
         RequestWord(i) \subseteq otp.words[Request.address + i - 1]]_vars

\* Whatever the line, the tool and the resets do, the OTP is burnt as
\* AbstractOtp promises: only to values the current command line asks for.
Abstract == INSTANCE AbstractOtp WITH
  words <- otp.words, locked <- otp.locked, asked <- AskedBy(job)
ImplementsAbstractOtp == Abstract!AbstractSpec

\* Every command line ends, with a loader that never times out on the other
\* side (serial_transport.py:55, uart_otp_loader.c:101).
JobEnds == Running ~> ~Running
===============================================================================
