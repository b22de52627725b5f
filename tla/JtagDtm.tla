------------------------------- MODULE JtagDtm -------------------------------
(***************************************************************************)
(* The JTAG debug transport (debug_jtag_dtm.sv) and the end of the Debug   *)
(* Module it talks to (debug_dmi_regs.sv).  The TAP and its scan registers *)
(* run on TCK, the request/response channel on the system clock; a toggle  *)
(* each way, through two flip-flops, hands one request and one response    *)
(* over.  An operator here is one clock edge and sets what that clock      *)
(* drives; edges of both clocks at the same time read the values before.   *)
(* Bits are sequences, lowest first.  Of dmcontrol and dmstatus only what  *)
(* the transport needs is kept: one bit each, and dmstatus's identity.     *)
(***************************************************************************)
EXTENDS Integers, Sequences

CONSTANTS
  AddrBits,   \* DMI_ADDR_WIDTH
  DataBits,   \* the bits of a DMI data word
  Idcode,     \* IDCODE_VALUE
  DtmcsId,    \* version and abits of DTMCS
  Dmcontrol,  \* DMI_ADDR_DMCONTROL
  Dmstatus    \* DMI_ADDR_DMSTATUS

Bits(n) == [1 .. n -> {0, 1}]

ASSUME DtmAssumption ==
  /\ AddrBits \in Nat \ {0} /\ DataBits \in Nat \ {0, 1}
  /\ Dmcontrol \in Bits(AddrBits) /\ Dmstatus \in Bits(AddrBits)
  /\ Dmcontrol # Dmstatus
  /\ Idcode \in Seq({0, 1}) \ {<< >>} /\ DtmcsId \in Seq({0, 1})

VARIABLES
  tap,      \* tap_state_q
  ir,       \* ir_q, by the register it selects
  irShift,  \* ir_shift_q
  drShift,  \* dr_shift_q, as far as the selected register reaches
  tdo,      \* tdo_o
  dtm,      \* the registers of the TCK side
  dmi,      \* the registers of the system clock side
  dm        \* the Debug Module: dmactive_q and the response slot

scanVars == <<tap, ir, irShift, drShift>>
dtmVars == <<scanVars, tdo, dtm, dmi, dm>>

Zeros(n) == [i \in 1 .. n |-> 0]

\* Opcodes and responses share the low bits of the scan register.
Nop == <<0, 0>>
Read == <<1, 0>>
Write == <<0, 1>>
Success == <<0, 0>>
Failed == <<0, 1>>
Busy == <<1, 1>>

IrBits == [IDCODE |-> <<1, 0, 0, 0, 0>>, DTMCS |-> <<0, 0, 0, 0, 1>>,
           DMI |-> <<1, 0, 0, 0, 1>>, BYPASS |-> <<1, 1, 1, 1, 1>>]

\* active_ir: an instruction that is not known selects BYPASS.
Selected(bits) ==
  IF \E r \in DOMAIN IrBits : IrBits[r] = bits
    THEN CHOOSE r \in DOMAIN IrBits : IrBits[r] = bits
    ELSE "BYPASS"

DtmReset ==
  [busy |-> FALSE, stickyBusy |-> FALSE, stickyError |-> FALSE,
   addr |-> Zeros(AddrBits), data |-> Zeros(DataBits), resp |-> Success,
   reqOp |-> Nop, reqAddr |-> Zeros(AddrBits), reqData |-> Zeros(DataBits),
   reqToggle |-> 0, meta |-> 0, sync |-> 0, seen |-> 0]

DmiReset ==
  [valid |-> FALSE, wait |-> FALSE,
   op |-> Nop, addr |-> Zeros(AddrBits), data |-> Zeros(DataBits),
   rspAddr |-> Zeros(AddrBits), rspData |-> Zeros(DataBits),
   rspResp |-> Success, rspToggle |-> 0, meta |-> 0, sync |-> 0, seen |-> 0]

DmReset == [active |-> FALSE, valid |-> FALSE, resp |-> Success,
            data |-> Zeros(DataBits)]

DtmInit ==
  /\ tap = "TEST_LOGIC_RESET" /\ ir = "IDCODE"
  /\ irShift = Zeros(5) /\ drShift = <<0>> /\ tdo = 0
  /\ dtm = DtmReset /\ dmi = DmiReset /\ dm = DmReset

-------------------------------------------------------------------------------
(* The TAP controller: <<next with TMS low, next with TMS high>>.          *)

TapNext ==
  [TEST_LOGIC_RESET |-> <<"RUN_TEST_IDLE", "TEST_LOGIC_RESET">>,
   RUN_TEST_IDLE |-> <<"RUN_TEST_IDLE", "SELECT_DR_SCAN">>,
   SELECT_DR_SCAN |-> <<"CAPTURE_DR", "SELECT_IR_SCAN">>,
   CAPTURE_DR |-> <<"SHIFT_DR", "EXIT1_DR">>,
   SHIFT_DR |-> <<"SHIFT_DR", "EXIT1_DR">>,
   EXIT1_DR |-> <<"PAUSE_DR", "UPDATE_DR">>,
   PAUSE_DR |-> <<"PAUSE_DR", "EXIT2_DR">>,
   EXIT2_DR |-> <<"SHIFT_DR", "UPDATE_DR">>,
   UPDATE_DR |-> <<"RUN_TEST_IDLE", "SELECT_DR_SCAN">>,
   SELECT_IR_SCAN |-> <<"CAPTURE_IR", "TEST_LOGIC_RESET">>,
   CAPTURE_IR |-> <<"SHIFT_IR", "EXIT1_IR">>,
   SHIFT_IR |-> <<"SHIFT_IR", "EXIT1_IR">>,
   EXIT1_IR |-> <<"PAUSE_IR", "UPDATE_IR">>,
   PAUSE_IR |-> <<"PAUSE_IR", "EXIT2_IR">>,
   EXIT2_IR |-> <<"SHIFT_IR", "UPDATE_IR">>,
   UPDATE_IR |-> <<"RUN_TEST_IDLE", "SELECT_DR_SCAN">>]

\* dtmcs_value: dmistat, and the two bits that only matter when written.
Dtmcs ==
  DtmcsId \o (IF dtm.stickyBusy THEN Busy
              ELSE IF dtm.stickyError THEN Failed ELSE Success) \o <<0, 0>>

Captured ==
  CASE ir = "IDCODE" -> Idcode
    [] ir = "DTMCS" -> Dtmcs
    [] ir = "DMI" ->
         (IF dtm.busy THEN Busy ELSE dtm.resp) \o dtm.data \o dtm.addr
    [] OTHER -> <<0>>

Shifted(register, tdi) == Append(Tail(register), tdi)

-------------------------------------------------------------------------------
(* TCK.                                                                    *)

\* The synchronizer, and a response that has come across.
Listened ==
  LET moved == [dtm EXCEPT !.meta = dmi.rspToggle, !.sync = dtm.meta]
  IN  IF dtm.sync = dtm.seen THEN moved
      ELSE [moved EXCEPT !.seen = dtm.sync, !.busy = FALSE,
                         !.addr = dmi.rspAddr, !.data = dmi.rspData,
                         !.resp = dmi.rspResp,
                         !.stickyError = @ \/ dmi.rspResp = Failed]

Cleared(d) ==
  [d EXCEPT !.stickyBusy = FALSE, !.stickyError = FALSE, !.resp = Success]

\* UPDATE_DR of DMI: a request is handed over, or refused while one is under way.
Requested(d) ==
  LET op == SubSeq(drShift, 1, 2)
  IN  IF op = Nop THEN d
      ELSE IF dtm.busy THEN [d EXCEPT !.stickyBusy = TRUE, !.resp = Busy]
      ELSE [d EXCEPT !.busy = TRUE, !.reqToggle = 1 - @, !.reqOp = op,
                     !.reqData = SubSeq(drShift, 3, DataBits + 2),
                     !.reqAddr = SubSeq(drShift, DataBits + 3,
                                        DataBits + AddrBits + 2)]

TckRise(tms, tdi) ==
  /\ tap' = TapNext[tap][tms + 1]
  /\ ir' = CASE tap = "TEST_LOGIC_RESET" -> "IDCODE"
             [] tap = "UPDATE_IR" -> Selected(irShift)
             [] OTHER -> ir
  /\ irShift' = CASE tap = "CAPTURE_IR" -> <<1, 0, 0, 0, 0>>
                  [] tap = "SHIFT_IR" -> Shifted(irShift, tdi)
                  [] OTHER -> irShift
  /\ drShift' = CASE tap = "CAPTURE_DR" -> Captured
                  [] tap = "SHIFT_DR" -> Shifted(drShift, tdi)
                  [] OTHER -> drShift
  /\ dtm' = CASE tap = "TEST_LOGIC_RESET" -> Cleared(Listened)
              [] tap = "UPDATE_DR" /\ ir = "DMI" -> Requested(Listened)
              [] /\ tap = "UPDATE_DR" /\ ir = "DTMCS"
                 /\ \E i \in {1, 2} : drShift[Len(DtmcsId) + 2 + i] = 1 ->
                   Cleared(Listened)
              [] OTHER -> Listened

TckFall ==
  tdo' = CASE tap = "SHIFT_IR" -> irShift[1]
           [] tap = "SHIFT_DR" -> drShift[1]
           [] OTHER -> 0

-------------------------------------------------------------------------------
(* The system clock.                                                       *)

RequestTaken == dmi.valid /\ (~dm.valid \/ dmi.wait)
ResponseTaken == dmi.wait /\ dm.valid

\* Mutant: a request is not marked as seen, and is taken again.
DmiClock_Unseen ==
  LET moved == [dmi EXCEPT !.meta = dtm.reqToggle, !.sync = dmi.meta]
  IN  dmi' =
        IF RequestTaken THEN [moved EXCEPT !.valid = FALSE, !.wait = TRUE]
        ELSE IF ResponseTaken
          THEN [moved EXCEPT !.wait = FALSE, !.rspAddr = dmi.addr,
                             !.rspData = dm.data, !.rspResp = dm.resp,
                             !.rspToggle = 1 - @]
        ELSE IF dmi.sync # dmi.seen /\ ~dmi.valid /\ ~dmi.wait
          THEN [moved EXCEPT !.valid = TRUE, !.op = dtm.reqOp, !.addr = dtm.reqAddr,
                             !.data = dtm.reqData]
        ELSE moved
\* A request is presented once its toggle has come across and the one before is
\* done; the response goes back with a toggle of its own.
DmiClock ==
  LET moved == [dmi EXCEPT !.meta = dtm.reqToggle, !.sync = dmi.meta]
  IN  dmi' =
        IF RequestTaken THEN [moved EXCEPT !.valid = FALSE, !.wait = TRUE]
        ELSE IF ResponseTaken
          THEN [moved EXCEPT !.wait = FALSE, !.rspAddr = dmi.addr,
                             !.rspData = dm.data, !.rspResp = dm.resp,
                             !.rspToggle = 1 - @]
        ELSE IF dmi.sync # dmi.seen /\ ~dmi.valid /\ ~dmi.wait
          THEN [moved EXCEPT !.seen = dmi.sync, !.valid = TRUE,
                             !.op = dtm.reqOp, !.addr = dtm.reqAddr,
                             !.data = dtm.reqData]
        ELSE moved

\* What a read returns: dmactive, or the identity and the hart being running
\* or halted, which is only shown while the module is active.
ReadData ==
  LET active == IF dm.active THEN 1 ELSE 0
  IN  IF dmi.addr = Dmcontrol THEN <<active>> \o Zeros(DataBits - 1)
      ELSE <<1, active>> \o Zeros(DataBits - 2)

Supported ==
  dmi.op \in {Read, Write} /\ dmi.addr \in {Dmcontrol, Dmstatus}

DmClock ==
  dm' = IF RequestTaken
          THEN [active |-> IF Supported /\ dmi.op = Write /\ dmi.addr = Dmcontrol
                             THEN dmi.data[1] = 1 ELSE dm.active,
                valid |-> TRUE,
                resp |-> IF Supported THEN Success ELSE Failed,
                data |-> IF Supported /\ dmi.op = Read THEN ReadData
                         ELSE Zeros(DataBits)]
          ELSE [dm EXCEPT !.valid = @ /\ ~dmi.wait]

ClkRise == DmiClock /\ DmClock
===============================================================================
