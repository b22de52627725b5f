-------------------------------- MODULE CoreBus -------------------------------
(***************************************************************************)
(* The memory path of wasp1 (wasp1/rtl/wasp1.sv): the downstream ports of  *)
(* the two caches, the core bridge, the DMA engine, the arbiter, the       *)
(* fabric that routes a transfer to a slave and back                       *)
(* (bus/rtl/ahb_fabric_2m.sv), the SRAM, the DMA register slave and the    *)
(* default slave.  All of it is clocked by hclk, so a step of the system   *)
(* is one edge, Clock, in which every block takes its own step from the    *)
(* values before the edge.  What is nondeterministic is when a cache       *)
(* starts an operation, and which.                                         *)
(***************************************************************************)
EXTENDS AhbArbiter, CoreBridge, Dma

CONSTANTS
  MemAddrs,     \* byte addresses of the SRAM words
  DmaBase,      \* byte address of the DMA registers
  Ops,          \* Ops[p]: the operations the cache on port p may start
  InitialMem    \* contents of the SRAM when the system starts

DmaWindow == DmaBase .. DmaBase + 31

ASSUME MapAssumption ==
  /\ DmaBase \in Nat
  /\ MemAddrs \subseteq {a \in Nat : a % 4 = 0}
  /\ MemAddrs \intersect DmaWindow = {}
  /\ InitialMem \in [MemAddrs -> Nat]

\* An operation is a run of beats + 1 accesses to consecutive words.
Operation == [addr : Nat, write : BOOLEAN, data : Nat, word : BOOLEAN,
              beats : Nat]

\* Only whole words are stored in the SRAM; see the README for byte lanes.
ASSUME OpsAssumption ==
  /\ Ops \in [Ports -> SUBSET Operation]
  /\ \A p \in Ports : \A o \in Ops[p] :
       o.addr \in MemAddrs => o.word

VARIABLES
  leaf,      \* leaf[p]: the downstream FSM of the cache on port p
  dataSel,   \* data_hsel_q: the slave of the data phase
  memReq,    \* the SRAM's captured access
  memRsp,    \* the SRAM's hrdata_o, hresp_o
  mem        \* mem_q

fabricVars == <<dataSel, memReq, memRsp, mem>>
vars == <<arbVars, brVars, dmaVars, leaf, fabricVars>>

Leaf == [phase : {"IDLE", "REQ", "WAIT", "DONE"}, op : Operation]
NoOperation == [addr |-> 0, write |-> FALSE, data |-> 0, word |-> TRUE,
                beats |-> 0]
NoMemAccess == [valid |-> FALSE, write |-> FALSE, addr |-> 0]

TypeOK ==
  /\ ArbTypeOK /\ BridgeTypeOK /\ DmaTypeOK
  /\ leaf \in [Ports -> Leaf]
  /\ dataSel \in {"NONE", "MEM", "DMA", "DEFAULT"}
  /\ memReq \in [valid : BOOLEAN, write : BOOLEAN, addr : Nat]
  /\ memReq.valid => memReq.addr \in MemAddrs
  /\ memRsp \in Response
  /\ mem \in [MemAddrs -> Nat]

Init ==
  /\ ArbInit /\ BridgeInit /\ DmaInit
  /\ leaf = [p \in Ports |-> [phase |-> "IDLE", op |-> NoOperation]]
  /\ dataSel = "NONE"
  /\ memReq = NoMemAccess
  /\ memRsp = NoResponse
  /\ mem = InitialMem

-------------------------------------------------------------------------------
(* Wires between the blocks.                                               *)

Req == [m \in Masters |-> IF m = 0 THEN BridgeRequests ELSE DmaRequests]

\* The shared address bus follows the owner's outputs.
BusReq == IF owner = 0 THEN brReq ELSE DmaOut

Decode(a) ==
  IF a \in MemAddrs THEN "MEM" ELSE IF a \in DmaWindow THEN "DMA" ELSE "DEFAULT"

AddressActive == arbState = "ADDR"
Selects(s) == AddressActive /\ Decode(BusReq.addr) = s

\* Every slave of the SoC drives HREADY high.
HReady == TRUE

\* The response of the slave selected for the data phase.
MuxRsp ==
  CASE dataSel = "MEM"     -> memRsp
    [] dataSel = "DMA"     -> dmaRsp
    [] dataSel = "DEFAULT" -> [data |-> 0, err |-> TRUE]
    [] OTHER               -> NoResponse

Ready(m) == MasterReady(m, Req, HReady)
Rsp(m)   == MasterRsp(m, MuxRsp)

\* Mutant: write data is driven only with the address.
HWData_WithAddress == IF arbState = "ADDR" THEN BusReq.data ELSE 0

\* Write data is driven for the owner in ADDR and WAIT.
HWData == IF arbState \in {"ADDR", "WAIT"} THEN BusReq.data ELSE 0

-------------------------------------------------------------------------------
(* The caches' downstream FSMs (refill, store, uncached): hold a request   *)
(* until it is taken, then wait for the answer, word after word.           *)

Wants == [p \in Ports |-> leaf[p].phase = "REQ"]
Takes == [p \in Ports |-> leaf[p].phase = "WAIT"]
ReqOf == [p \in Ports |-> [addr |-> leaf[p].op.addr, write |-> leaf[p].op.write,
                           data |-> leaf[p].op.data, word |-> leaf[p].op.word]]

\* Mutant: a line fill does not count its words.
LeafNext_Endless(p) ==
  LET op == leaf[p].op
      At(s) == [phase |-> s, op |-> op]
  IN
  CASE leaf[p].phase = "IDLE" ->
         {At("IDLE")} \union {[phase |-> "REQ", op |-> o] : o \in Ops[p]}
    [] leaf[p].phase = "REQ" -> {At(IF Granted(p, Wants) THEN "WAIT" ELSE "REQ")}
    [] leaf[p].phase = "WAIT" -> {At(IF Answers(p) THEN "REQ" ELSE "WAIT")}
    [] leaf[p].phase = "DONE" -> {[phase |-> "IDLE", op |-> NoOperation]}

\* What the FSM of port p can be after the edge.
LeafNext(p) ==
  LET op == leaf[p].op
      At(s) == [phase |-> s, op |-> op]
  IN
  CASE leaf[p].phase = "IDLE" ->
         {At("IDLE")} \union {[phase |-> "REQ", op |-> o] : o \in Ops[p]}
    [] leaf[p].phase = "REQ" ->
         {At(IF Granted(p, Wants) THEN "WAIT" ELSE "REQ")}
    [] leaf[p].phase = "WAIT" ->
         IF ~Answers(p) THEN {At("WAIT")}
         ELSE IF op.beats = 0 THEN {At("DONE")}
         ELSE {[phase |-> "REQ",
                op |-> [op EXCEPT !.addr = @ + 4, !.beats = @ - 1]]}
    [] leaf[p].phase = "DONE" ->
         {[phase |-> "IDLE", op |-> NoOperation]}

LeafClock ==
  \E i \in LeafNext("I"), d \in LeafNext("D") :
    leaf' = [p \in Ports |-> IF p = "I" THEN i ELSE d]

-------------------------------------------------------------------------------
(* The fabric and the SRAM.                                                *)

\* Mutant: the data-phase select follows the address bus.
FabricClock_Transparent == dataSel' = Decode(BusReq.addr)

\* The data-phase select is captured on the address phase and then held.
FabricClock ==
  dataSel' = IF AddressActive THEN Decode(BusReq.addr) ELSE dataSel

\* Capture the address phase; an edge later read or write the array.
MemClock ==
  /\ memReq' = IF Selects("MEM")
               THEN [valid |-> TRUE, write |-> BusReq.write,
                     addr |-> BusReq.addr]
               ELSE NoMemAccess
  /\ memRsp' = [data |-> IF memReq.valid /\ ~memReq.write
                         THEN mem[memReq.addr] ELSE 0,
                err  |-> FALSE]
  /\ mem' = IF memReq.valid /\ memReq.write
            THEN [mem EXCEPT ![memReq.addr] = HWData] ELSE mem

\* The register access the DMA slave captures on this edge.
DmaAccess ==
  IF Selects("DMA")
  THEN [valid |-> TRUE, write |-> BusReq.write,
        off |-> BusReq.addr - DmaBase, err |-> ~BusReq.word]
  ELSE NoAccess

Clock ==
  /\ LeafClock
  /\ BridgeClock(Wants, ReqOf, Takes, Ready(0), Rsp(0))
  /\ DmaClock(DmaAccess, HWData, Ready(1), Rsp(1))
  /\ ArbClock(Req, HReady)
  /\ FabricClock
  /\ MemClock

Next == Clock

Spec == Init /\ [][Next]_vars

\* The clock keeps running while something is outstanding.
Outstanding == Busy \/ \E p \in Ports : leaf[p].phase # "IDLE"
FairSpec == Spec /\ WF_vars(Outstanding /\ Clock)

-------------------------------------------------------------------------------
(* What must hold.                                                         *)

\* The client of the outstanding transfer and of its response are one: the
\* bridge waits for data exactly while the arbiter works for master 0, the DMA
\* engine exactly while it works for master 1, and a cache waits exactly while
\* the bridge carries its request.  HREADY alone, which a master that does not
\* request always sees high, would let either take a response not its own.
ResponsesAreOwned ==
  /\ brState = "DATA_WAIT" <=> owner = 0 /\ arbState \in {"WAIT", "RESP"}
  /\ dmaState \in {"READ_WAIT", "WRITE_RESP"}
       <=> owner = 1 /\ arbState \in {"WAIT", "RESP"}
  /\ \A p \in Ports : leaf[p].phase = "WAIT" <=> brState # "IDLE" /\ brSel = p

\* The address of the transfer in its data phase, as its owner knows it.
DataAddr == IF owner = 0 THEN brReq.addr
            ELSE IF dmaState = "READ_WAIT" THEN curSrc ELSE curDst
DataWrite == IF owner = 0 THEN brReq.write ELSE dmaState = "WRITE_RESP"

\* When the arbiter shows a master a response, it is that of the slave its
\* address decodes to, and a read of the SRAM shows what the SRAM then holds:
\* nothing is written between the read of the array and the answer.
ResponsesAreCurrent ==
  arbState = "RESP" =>
    /\ dataSel = Decode(DataAddr)
    /\ dataSel = "MEM" /\ ~DataWrite
         => MuxRsp = [data |-> mem[DataAddr], err |-> FALSE]

\* Every access a cache asks for is answered, whatever the other cache and the
\* DMA engine do: D-cache-first arbitration in the bridge does not starve
\* instruction fetch and a DMA transfer does not starve the core.
EveryAccessAnswered ==
  \A p \in Ports : leaf[p].phase = "REQ" ~> leaf[p].phase = "DONE"

\* A DMA transfer ends, whatever software writes to its registers meanwhile.
DmaTransferEnds == Busy ~> ~Busy

-------------------------------------------------------------------------------
(* The memory path implements AtomicBus.  A request is pending until the   *)
(* data phase has been taken by the slave, and done until its client has   *)
(* collected the answer.                                                   *)

Done(req, rsp) == [phase |-> "done", addr |-> req.addr, write |-> req.write,
                   data |-> rsp.data, err |-> rsp.err]
Pending(req) == [phase |-> "pending", addr |-> req.addr, write |-> req.write,
                 wdata |-> req.data]

PortOp(p) ==
  CASE leaf[p].phase = "REQ" -> Pending(ReqOf[p])
    [] leaf[p].phase = "WAIT" ->
         IF brState = "RSP_HOLD" THEN Done(brReq, brRsp)
         ELSE IF brState = "DATA_WAIT" /\ arbState = "RESP"
         THEN Done(brReq, MuxRsp)
         ELSE Pending(brReq)
    [] OTHER -> [phase |-> "idle"]

DmaOp ==
  LET access == [addr |-> IF dmaState \in {"READ_ADDR", "READ_WAIT"}
                          THEN curSrc ELSE curDst,
                 write |-> dmaState \in {"WRITE_ADDR", "WRITE_RESP"},
                 data |-> buffer]
  IN
  CASE DmaRequests -> Pending(access)
    [] dmaState \in {"READ_WAIT", "WRITE_RESP"} ->
         IF arbState = "RESP" THEN Done(access, MuxRsp) ELSE Pending(access)
    [] OTHER -> [phase |-> "idle"]

ClientOp == [c \in Ports \union {"M"} |-> IF c = "M" THEN DmaOp ELSE PortOp(c)]

Atomic == INSTANCE AtomicBus WITH Devices <- DmaWindow, op <- ClientOp

\* The three clients see one memory, one access at a time.
AccessesAreAtomic == Atomic!Spec
===============================================================================
