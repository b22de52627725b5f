--------------------------------- MODULE Dma ----------------------------------
(***************************************************************************)
(* The single-channel DMA engine (dma/rtl/ahb_dma.sv): a register slave    *)
(* and a bus master that copies LEN words, one read and one write at a     *)
(* time.  The register write path and the copy FSM act on the same clock   *)
(* edge; where both assign a register the FSM, which comes last in the     *)
(* always_ff block, wins.                                                  *)
(***************************************************************************)
EXTENDS Naturals

VARIABLES
  dmaState,   \* state_q
  src, dst, len, irqEn,        \* programmed registers
  done, error,                 \* sticky status
  curSrc, curDst, remaining,   \* the running transfer
  buffer,     \* data_q: the word between its read and its write
  dmaReq,     \* req_valid_q, req_write_q, req_err_q, req_offset_q
  dmaRsp      \* s_hrdata_o, s_hresp_o

dmaVars == <<dmaState, src, dst, len, irqEn, done, error, curSrc, curDst,
             remaining, buffer, dmaReq, dmaRsp>>

\* Byte offsets of the registers.
SRC == 0
DST == 4
LEN == 8
CTRL == 12
STATUS == 16
KnownReg == {SRC, DST, LEN, CTRL, STATUS}

Bit(w, k) == (w \div k) % 2 = 1     \* k is the weight of the bit: 1, 2, 4
Weigh(b, k) == IF b THEN k ELSE 0

NoAccess == [valid |-> FALSE, write |-> FALSE, off |-> 0, err |-> FALSE]

DmaTypeOK ==
  /\ dmaState \in {"IDLE", "READ_ADDR", "READ_WAIT", "WRITE_ADDR",
                   "WRITE_RESP", "FINISH"}
  /\ src \in Nat /\ dst \in Nat /\ len \in Nat
  /\ irqEn \in BOOLEAN /\ done \in BOOLEAN /\ error \in BOOLEAN
  /\ curSrc \in Nat /\ curDst \in Nat /\ remaining \in Nat /\ buffer \in Nat
  /\ dmaReq \in [valid : BOOLEAN, write : BOOLEAN, off : Nat, err : BOOLEAN]
  /\ dmaRsp \in [data : Nat, err : BOOLEAN]

DmaInit ==
  /\ dmaState = "IDLE"
  /\ src = 0 /\ dst = 0 /\ len = 0
  /\ irqEn = FALSE /\ done = FALSE /\ error = FALSE
  /\ curSrc = 0 /\ curDst = 0 /\ remaining = 0 /\ buffer = 0
  /\ dmaReq = NoAccess
  /\ dmaRsp = [data |-> 0, err |-> FALSE]

DmaIrq == irqEn /\ (done \/ error)
Busy == dmaState # "IDLE"

-------------------------------------------------------------------------------
(* The register slave: the access captured on the last edge takes effect.  *)

Writes(off) == dmaReq.valid /\ dmaReq.write /\ ~dmaReq.err /\ dmaReq.off = off
Reads       == dmaReq.valid /\ ~dmaReq.write /\ ~dmaReq.err

Clear(wdata)    == Writes(CTRL) /\ Bit(wdata, 4)
StartReq(wdata) == Writes(CTRL) /\ Bit(wdata, 1)
\* Mutant: a transfer of no words is started.
StartOk_Empty(wdata) ==
  StartReq(wdata) /\ dmaState = "IDLE" /\ src % 4 = 0 /\ dst % 4 = 0

\* Mutant: a START in mid-transfer passes for a good one.
StartOk_Busy(wdata) ==
  StartReq(wdata) /\ len # 0 /\ src % 4 = 0 /\ dst % 4 = 0

StartOk(wdata)  ==
  /\ StartReq(wdata)
  /\ dmaState = "IDLE"
  /\ len # 0
  /\ src % 4 = 0
  /\ dst % 4 = 0
StartRejected(wdata) == StartReq(wdata) /\ ~StartOk(wdata)

RegValue ==
  CASE dmaReq.off = SRC    -> src
    [] dmaReq.off = DST    -> dst
    [] dmaReq.off = LEN    -> len
    [] dmaReq.off = CTRL   -> Weigh(irqEn, 2)
    [] dmaReq.off = STATUS -> Weigh(Busy, 1) + Weigh(done, 2) + Weigh(error, 4)
    [] OTHER               -> 0

\* A write of STATUS, an unknown register and a malformed access get ERROR.
RegError ==
  \/ dmaReq.err
  \/ dmaReq.valid /\ (dmaReq.off \notin KnownReg \/ Writes(STATUS))

RegisterClock(access, wdata) ==
  /\ src' = IF Writes(SRC) THEN wdata ELSE src
  /\ dst' = IF Writes(DST) THEN wdata ELSE dst
  /\ len' = IF Writes(LEN) THEN wdata ELSE len
  /\ irqEn' = IF Writes(CTRL) THEN Bit(wdata, 2) ELSE irqEn
  /\ dmaRsp' = [data |-> IF Reads THEN RegValue ELSE 0, err |-> RegError]
  /\ dmaReq' = access

-------------------------------------------------------------------------------
(* The bus master.  hready and rsp are what the arbiter shows it.          *)

DmaRequests == dmaState \in {"READ_ADDR", "WRITE_ADDR"}

\* Mutant: every word is read from the first one's address.
DmaOut_FirstWord ==
  [addr  |-> IF dmaState = "READ_ADDR" THEN src
             ELSE IF dmaState = "WRITE_ADDR" THEN curDst ELSE 0,
   write |-> dmaState = "WRITE_ADDR", data |-> buffer, word |-> TRUE]

\* Address, direction and write data driven on the bus.
DmaOut ==
  [addr  |-> CASE dmaState = "READ_ADDR"  -> curSrc
               [] dmaState = "WRITE_ADDR" -> curDst
               [] OTHER                   -> 0,
   write |-> dmaState = "WRITE_ADDR",
   data  |-> buffer,
   word  |-> TRUE]

Transfer == <<curSrc, curDst, remaining>>

Start(wdata) ==
  /\ dmaState = "IDLE"
  /\ StartOk(wdata)
  /\ dmaState' = "READ_ADDR"
  /\ curSrc' = src /\ curDst' = dst /\ remaining' = len
  /\ UNCHANGED buffer

Idle(wdata) ==
  /\ dmaState = "IDLE"
  /\ ~StartOk(wdata)
  /\ UNCHANGED <<dmaState, Transfer, buffer>>

ReadAddress(hready) ==
  /\ dmaState = "READ_ADDR"
  /\ dmaState' = IF hready THEN "READ_WAIT" ELSE "READ_ADDR"
  /\ UNCHANGED <<Transfer, buffer>>

ReadData(hready, rsp) ==
  /\ dmaState = "READ_WAIT"
  /\ dmaState' = IF ~hready THEN "READ_WAIT"
                 ELSE IF rsp.err THEN "FINISH" ELSE "WRITE_ADDR"
  /\ buffer' = IF hready /\ ~rsp.err THEN rsp.data ELSE buffer
  /\ UNCHANGED Transfer

WriteAddress(hready) ==
  /\ dmaState = "WRITE_ADDR"
  /\ dmaState' = IF hready THEN "WRITE_RESP" ELSE "WRITE_ADDR"
  /\ UNCHANGED <<Transfer, buffer>>

\* Mutant: a write that failed is tried again.
WriteResponse_Retry(hready, rsp) ==
  /\ dmaState = "WRITE_RESP"
  /\ IF hready /\ ~rsp.err /\ remaining # 1
     THEN /\ dmaState' = "READ_ADDR"
          /\ remaining' = remaining - 1
          /\ curSrc' = curSrc + 4 /\ curDst' = curDst + 4
     ELSE /\ dmaState' = IF ~hready THEN "WRITE_RESP"
                         ELSE IF rsp.err THEN "WRITE_ADDR" ELSE "FINISH"
          /\ UNCHANGED Transfer
  /\ UNCHANGED buffer

WriteResponse(hready, rsp) ==
  /\ dmaState = "WRITE_RESP"
  /\ IF hready /\ ~rsp.err /\ remaining # 1
     THEN /\ dmaState' = "READ_ADDR"
          /\ remaining' = remaining - 1
          /\ curSrc' = curSrc + 4 /\ curDst' = curDst + 4
     ELSE /\ dmaState' = IF hready THEN "FINISH" ELSE "WRITE_RESP"
          /\ UNCHANGED Transfer
  /\ UNCHANGED buffer

Finish ==
  /\ dmaState = "FINISH"
  /\ dmaState' = "IDLE"
  /\ UNCHANGED <<Transfer, buffer>>

\* Terminal events of the FSM, which override the register path.
LastWord(hready, rsp) ==
  dmaState = "WRITE_RESP" /\ hready /\ ~rsp.err /\ remaining = 1
BusFault(hready, rsp) ==
  dmaState \in {"READ_WAIT", "WRITE_RESP"} /\ hready /\ rsp.err

StatusClock(wdata, hready, rsp) ==
  /\ done'  = \/ LastWord(hready, rsp)
              \/ done /\ ~Clear(wdata) /\ ~StartReq(wdata)
  /\ error' = \/ BusFault(hready, rsp)
              \/ StartRejected(wdata)
              \/ error /\ ~Clear(wdata) /\ ~StartOk(wdata)

(***************************************************************************)
(* One clock edge: access is the register access the slave captures, wdata *)
(* the write data of the one captured an edge ago.                         *)
(***************************************************************************)
DmaClock(access, wdata, hready, rsp) ==
  /\ RegisterClock(access, wdata)
  /\ StatusClock(wdata, hready, rsp)
  /\ \/ Start(wdata)
     \/ Idle(wdata)
     \/ ReadAddress(hready)
     \/ ReadData(hready, rsp)
     \/ WriteAddress(hready)
     \/ WriteResponse(hready, rsp)
     \/ Finish
===============================================================================
