-------------------------------- MODULE AhbOtp --------------------------------
(***************************************************************************)
(* The OTP and its programming registers (otp/rtl/ahb_otp.sv over          *)
(* otp/rtl/wasp1_otp_macro.sv), one operator per register access.  hready  *)
(* is always 1, so an access is one step of the program that makes it.     *)
(***************************************************************************)
EXTENDS Naturals

CONSTANTS
  Bits,   \* the bits of a word
  Depth   \* DATA_WORDS

ASSUME DepthAssumption == Depth \in Nat \ {0}

Addresses == 0 .. Depth - 1

OtpState ==
  [words : [Addresses -> SUBSET Bits], addr : Nat, wdata : SUBSET Bits,
   unlocked : BOOLEAN, locked : BOOLEAN, busy : BOOLEAN, done : BOOLEAN,
   error : BOOLEAN]

\* The reset block: every register, the lock among them, but not the array.
ResetOtp(words) ==
  [words |-> words, addr |-> 0, wdata |-> {}, unlocked |-> FALSE,
   locked |-> FALSE, busy |-> FALSE, done |-> FALSE, error |-> FALSE]

WriteAddr(otp, addr) == [otp EXCEPT !.addr = addr]
WriteWdata(otp, value) == [otp EXCEPT !.wdata = value]
WriteKey(otp, match) == [otp EXCEPT !.unlocked = match]
WriteLock(otp) == [otp EXCEPT !.locked = TRUE, !.unlocked = FALSE]
WriteClear(otp) == [otp EXCEPT !.done = FALSE, !.error = FALSE]

\* RDATA shows the word ADDR selects, 0 beyond the array.
Rdata(otp) == IF otp.addr < Depth THEN otp.words[otp.addr] ELSE {}

\* otp_program_legal: only 1 -> 0, only unlocked, never locked.
Legal(otp) ==
  /\ ~otp.locked
  /\ otp.unlocked
  /\ otp.addr < Depth
  /\ otp.wdata \subseteq Rdata(otp)

\* The macro: an accepted pulse clears the bits WDATA has at 0.
Pulse(otp) ==
  IF Legal(otp)
    THEN [otp.words EXCEPT ![otp.addr] = @ \cap otp.wdata]
    ELSE otp.words

\* A write of PROG_EN and START to CTRL.
WriteStart(otp) ==
  [otp EXCEPT !.words = Pulse(otp), !.busy = TRUE,
              !.done = Legal(otp), !.error = ~Legal(otp)]

\* busy_q is cleared on every edge that does not start a pulse.
OtpClock(otp) == [otp EXCEPT !.busy = FALSE]
===============================================================================
