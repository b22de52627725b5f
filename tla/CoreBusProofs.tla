----------------------------- MODULE CoreBusProofs ----------------------------
(***************************************************************************)
(* What is proved about the memory path for every memory map, every set of *)
(* cache operations and every initial memory: its types, whose responses   *)
(* are and that they are right, and that the path implements AtomicBus.    *)
(***************************************************************************)
EXTENDS CoreBus, TLAPS

\* A transfer in flight has a word left to copy, so remaining never wraps.
TransferInFlight ==
  dmaState \notin {"IDLE", "FINISH"} => remaining >= 1

TypeInv == TypeOK /\ TransferInFlight

-------------------------------------------------------------------------------
(* Each block keeps the types of its own registers.                        *)

LEMMA ArbTypeStep ==
  ASSUME ArbTypeOK, NEW req, NEW hready, ArbClock(req, hready)
  PROVE  ArbTypeOK'
BY DEF ArbTypeOK, ArbClock, Grant, NoRequest, AddressPhase, DataPhase,
       ResponsePhase, ChooseIdx, arbVars, Masters

\* What the bridge is handed by the caches and the arbiter is well formed.
LEMMA WiresTyped ==
  ASSUME TypeOK
  PROVE  /\ ReqOf \in [Ports -> Request]
         /\ BusReq \in Request
         /\ MuxRsp \in Response
         /\ \A m \in Masters : Rsp(m) \in Response
         /\ HWData \in Nat
         /\ DmaAccess \in [valid : BOOLEAN, write : BOOLEAN, off : Nat,
                           err : BOOLEAN]
<1> USE DEF TypeOK, BridgeTypeOK, DmaTypeOK, Request, Response
<1>1. ReqOf \in [Ports -> Request]
  BY DEF ReqOf, Leaf, Operation
<1>2. DmaOut \in Request
  BY DEF DmaOut
<1>3. BusReq \in Request
  BY <1>2 DEF BusReq
<1>4. MuxRsp \in Response
  BY DEF MuxRsp, NoResponse
<1>5. \A m \in Masters : Rsp(m) \in Response
  BY <1>4 DEF Rsp, MasterRsp
<1>6. HWData \in Nat
  BY <1>3 DEF HWData
<1>7. DmaAccess \in [valid : BOOLEAN, write : BOOLEAN, off : Nat, err : BOOLEAN]
  BY <1>3, MapAssumption DEF MapAssumption, DmaAccess, Selects, Decode, DmaWindow, NoAccess
<1>8. QED
  BY <1>1, <1>3, <1>4, <1>5, <1>6, <1>7

LEMMA BridgeTypeStep ==
  ASSUME BridgeTypeOK,
         NEW wants, NEW takes, NEW hready,
         NEW reqOf \in [Ports -> Request], NEW rsp \in Response,
         BridgeClock(wants, reqOf, takes, hready, rsp)
  PROVE  BridgeTypeOK'
<1> USE DEF BridgeTypeOK, brVars
<1>1. CASE Accept(wants, reqOf)
  BY <1>1 DEF Accept
<1>2. CASE NothingToAccept(wants)
  BY <1>2 DEF NothingToAccept
<1>3. CASE PresentAddress(hready)
  BY <1>3 DEF PresentAddress
<1>4. CASE AwaitData(hready, rsp)
  BY <1>4 DEF AwaitData
<1>5. CASE HoldResponse(takes)
  BY <1>5 DEF HoldResponse
<1>6. QED
  BY <1>1, <1>2, <1>3, <1>4, <1>5 DEF BridgeClock

\* remaining is decremented only when another word is left, so it stays in Nat.
LEMMA DmaTypeStep ==
  ASSUME DmaTypeOK, TransferInFlight,
         NEW wdata \in Nat, NEW hready, NEW rsp \in Response,
         NEW access \in [valid : BOOLEAN, write : BOOLEAN, off : Nat,
                         err : BOOLEAN],
         DmaClock(access, wdata, hready, rsp)
  PROVE  DmaTypeOK' /\ TransferInFlight'
<1>1. RegValue \in Nat
  BY DEF RegValue, DmaTypeOK, Weigh
<1>2. /\ src' \in Nat /\ dst' \in Nat /\ len' \in Nat
      /\ irqEn' \in BOOLEAN
      /\ dmaReq' \in [valid : BOOLEAN, write : BOOLEAN, off : Nat, err : BOOLEAN]
      /\ dmaRsp' \in [data : Nat, err : BOOLEAN]
  <2>1. RegError \in BOOLEAN
    BY DEF RegError, DmaTypeOK, Writes
  <2>2. QED
    BY <1>1, <2>1 DEF DmaClock, RegisterClock, DmaTypeOK, Bit, Reads
<1>3. done' \in BOOLEAN /\ error' \in BOOLEAN
  BY DEF DmaClock, StatusClock
<1> USE DEF DmaTypeOK, TransferInFlight, Transfer
<1>4. CASE Start(wdata)
  BY <1>2, <1>3, <1>4 DEF Start, StartOk
<1>5. CASE Idle(wdata)
  BY <1>2, <1>3, <1>5 DEF Idle
<1>6. CASE ReadAddress(hready)
  BY <1>2, <1>3, <1>6 DEF ReadAddress
<1>7. CASE ReadData(hready, rsp)
  BY <1>2, <1>3, <1>7 DEF ReadData, Response
<1>8. CASE WriteAddress(hready)
  BY <1>2, <1>3, <1>8 DEF WriteAddress
<1>9. CASE WriteResponse(hready, rsp)
  BY <1>2, <1>3, <1>9 DEF WriteResponse, Response
<1>10. CASE Finish
  BY <1>2, <1>3, <1>10 DEF Finish
<1>11. QED
  BY <1>4, <1>5, <1>6, <1>7, <1>8, <1>9, <1>10 DEF DmaClock

LEMMA LeafTypeStep ==
  ASSUME TypeOK, LeafClock
  PROVE  leaf' \in [Ports -> Leaf]
<1>1. ASSUME NEW p \in Ports, NEW l \in LeafNext(p)
      PROVE  l \in Leaf
  <2> DEFINE op == leaf[p].op
  <2>1. op \in Operation /\ leaf[p].phase \in {"IDLE", "REQ", "WAIT", "DONE"}
    BY DEF TypeOK, Leaf
  <2>2. CASE leaf[p].phase = "IDLE"
    BY <1>1, <2>1, <2>2, OpsAssumption DEF OpsAssumption, LeafNext, Leaf
  <2>3. CASE leaf[p].phase = "REQ"
    <3>1. \E s \in {"WAIT", "REQ"} : l = [phase |-> s, op |-> op]
      BY <1>1, <2>3 DEF LeafNext
    <3>2. QED
      BY <2>1, <3>1 DEF Leaf
  <2>4. CASE leaf[p].phase = "WAIT"
    <3>1. \/ \E s \in {"WAIT", "DONE"} : l = [phase |-> s, op |-> op]
          \/ /\ op.beats # 0
             /\ l = [phase |-> "REQ",
                     op |-> [op EXCEPT !.addr = @ + 4, !.beats = @ - 1]]
      BY <1>1, <2>4 DEF LeafNext
    <3>2. CASE op.beats # 0
      <4> DEFINE moved == [op EXCEPT !.addr = @ + 4]
      <4>1. moved \in Operation /\ moved.beats = op.beats /\ op.beats - 1 \in Nat
        BY <2>1, <3>2 DEF Operation
      <4>2. [moved EXCEPT !.beats = op.beats - 1] \in Operation
        <5> HIDE DEF moved
        <5>1. QED BY <4>1 DEF Operation
      <4>3. [op EXCEPT !.addr = @ + 4, !.beats = @ - 1] \in Operation
        BY <4>2
      <4>4. QED
        BY <2>1, <3>1, <4>3 DEF Leaf
    <3>3. QED
      BY <2>1, <3>1, <3>2 DEF Leaf
  <2>5. CASE leaf[p].phase = "DONE"
    <3>1. l = [phase |-> "IDLE", op |-> NoOperation]
      BY <1>1, <2>5 DEF LeafNext
    <3>2. NoOperation \in Operation
      BY DEF NoOperation, Operation
    <3>3. QED
      BY <3>1, <3>2 DEF Leaf
  <2>6. QED
    BY <2>1, <2>2, <2>3, <2>4, <2>5
<1>2. PICK i \in LeafNext("I"), d \in LeafNext("D") :
        leaf' = [p \in Ports |-> IF p = "I" THEN i ELSE d]
  BY DEF LeafClock
<1>3. i \in Leaf /\ d \in Leaf
  BY <1>1 DEF Ports
<1>4. QED
  BY <1>2, <1>3

LEMMA FabricTypeStep ==
  ASSUME TypeOK, FabricClock, MemClock
  PROVE  /\ dataSel' \in {"NONE", "MEM", "DMA", "DEFAULT"}
         /\ memReq' \in [valid : BOOLEAN, write : BOOLEAN, addr : Nat]
         /\ memReq'.valid => memReq'.addr \in MemAddrs
         /\ memRsp' \in Response
         /\ mem' \in [MemAddrs -> Nat]
<1>1. dataSel' \in {"NONE", "MEM", "DMA", "DEFAULT"}
  BY DEF TypeOK, FabricClock, Decode
<1>2. /\ memReq' \in [valid : BOOLEAN, write : BOOLEAN, addr : Nat]
      /\ memReq'.valid => memReq'.addr \in MemAddrs
  BY WiresTyped DEF MemClock, Selects, Decode, NoMemAccess, Request
<1>3. memRsp' \in Response
  BY DEF MemClock, TypeOK, Response
<1>4. mem' \in [MemAddrs -> Nat]
  BY WiresTyped DEF MemClock, TypeOK
<1>5. QED
  BY <1>1, <1>2, <1>3, <1>4

LEMMA InitTyped == Init => TypeInv
<1> SUFFICES ASSUME Init PROVE TypeInv
  OBVIOUS
<1>1. ArbTypeOK /\ BridgeTypeOK
  BY DEF Init, ArbInit, ArbTypeOK, BridgeInit, BridgeTypeOK, NoRequestLatched,
         NoResponse, Request, Response, Masters, Ports
<1>2. DmaTypeOK /\ TransferInFlight
  BY DEF Init, DmaInit, DmaTypeOK, TransferInFlight, NoAccess
<1>3. NoOperation \in Operation
  BY DEF NoOperation, Operation
<1>4. leaf \in [Ports -> Leaf]
  BY <1>3 DEF Init, Leaf
<1>5. QED
  BY <1>1, <1>2, <1>4, MapAssumption
  DEF MapAssumption, Init, TypeInv, TypeOK, NoMemAccess, NoResponse, Response

LEMMA ClockTyped ==
  ASSUME TypeInv, Clock
  PROVE  TypeInv'
<1>1. ArbTypeOK'
  BY ArbTypeStep DEF Clock, TypeInv, TypeOK
<1>2. BridgeTypeOK'
  BY BridgeTypeStep, WiresTyped DEF Clock, TypeInv, TypeOK, Masters
<1>3. DmaTypeOK' /\ TransferInFlight'
  BY DmaTypeStep, WiresTyped DEF Clock, TypeInv, TypeOK, Masters
<1>4. QED
  BY <1>1, <1>2, <1>3, LeafTypeStep, FabricTypeStep DEF Clock, TypeInv, TypeOK

LEMMA StutterTyped ==
  ASSUME TypeInv, UNCHANGED vars
  PROVE  TypeInv'
BY DEF vars, arbVars, brVars, dmaVars, fabricVars, TypeInv, TypeOK,
       ArbTypeOK, BridgeTypeOK, DmaTypeOK, TransferInFlight

\* The registers of the whole memory path keep their types, and in particular
\* the DMA's word count never runs below zero.
THEOREM TypeCorrect == Spec => []TypeOK
<1>1. TypeInv /\ [Next]_vars => TypeInv'
  BY ClockTyped, StutterTyped DEF Next
<1>2. TypeInv => TypeOK
  BY DEF TypeInv
<1>3. QED
  BY InitTyped, <1>1, <1>2, PTL DEF Spec

-------------------------------------------------------------------------------
(* Responses.                                                              *)

\* The data phase, as the arbiter, the fabric and the SRAM each remember it,
\* belongs to the transfer its owner is waiting for.
DataPhaseOK ==
  /\ arbState = "ADDR" => Req[owner]
  /\ memReq.valid => arbState = "WAIT"
  /\ arbState \in {"WAIT", "RESP"} => dataSel = Decode(DataAddr)
  /\ arbState = "WAIT" /\ dataSel = "MEM" =>
       memReq = [valid |-> TRUE, write |-> DataWrite, addr |-> DataAddr]
  /\ arbState = "RESP" /\ dataSel = "MEM" /\ ~DataWrite =>
       memRsp = [data |-> mem[DataAddr], err |-> FALSE]

BusInv == TypeInv /\ ResponsesAreOwned /\ DataPhaseOK

\* A master that presents an address is ready exactly when its own address
\* phase is on the bus, one that waits exactly when its own response is.
LEMMA ReadyMeans ==
  ASSUME BusInv
  PROVE  /\ brState = "ADDR" => (Ready(0) <=> arbState = "ADDR" /\ owner = 0)
         /\ brState = "DATA_WAIT" => (Ready(0) <=> arbState = "RESP")
         /\ DmaRequests => (Ready(1) <=> arbState = "ADDR" /\ owner = 1)
         /\ dmaState \in {"READ_WAIT", "WRITE_RESP"} =>
              (Ready(1) <=> arbState = "RESP")
<1>1. (Req[0] <=> BridgeRequests) /\ (Req[1] <=> DmaRequests)
  BY DEF Req, Masters
<1>2. /\ Ready(0) <=> IF owner = 0 /\ arbState # "IDLE"
                      THEN arbState \in {"ADDR", "RESP"} ELSE ~BridgeRequests
      /\ Ready(1) <=> IF owner = 1 /\ arbState # "IDLE"
                      THEN arbState \in {"ADDR", "RESP"} ELSE ~DmaRequests
  BY <1>1 DEF Ready, MasterReady, HReady
<1>3. /\ brState = "DATA_WAIT" <=> owner = 0 /\ arbState \in {"WAIT", "RESP"}
      /\ dmaState \in {"READ_WAIT", "WRITE_RESP"}
           <=> owner = 1 /\ arbState \in {"WAIT", "RESP"}
  BY DEF BusInv, ResponsesAreOwned
<1>4. QED
  BY <1>2, <1>3 DEF BridgeRequests, DmaRequests

\* The arbiter's owner carries its transfer from ADDR to WAIT to RESP.
LEMMA ArbNext ==
  ASSUME BusInv, Clock
  PROVE  /\ arbState' \in {"WAIT", "RESP"} <=> arbState \in {"ADDR", "WAIT"}
         /\ arbState # "IDLE" => owner' = owner
         /\ arbState' = "WAIT" <=> arbState = "ADDR"
         /\ arbState' = "RESP" <=> arbState = "WAIT"
         /\ arbState' = "ADDR" => arbState = "IDLE" /\ Req[owner']
<1> USE DEF HReady, arbVars
<1>1. ArbTypeOK
  BY DEF BusInv, TypeInv, TypeOK
<1>2. CASE Grant(Req)
  <2>1. Req[owner'] /\ owner' \in Masters
    BY <1>1, <1>2 DEF Grant, ChooseIdx, ArbTypeOK, Masters
  <2>2. QED
    BY <1>2, <2>1 DEF Grant
<1>3. CASE NoRequest(Req)
  BY <1>3 DEF NoRequest
<1>4. CASE AddressPhase
  BY <1>4 DEF AddressPhase
<1>5. CASE DataPhase(HReady)
  BY <1>5 DEF DataPhase
<1>6. CASE ResponsePhase(HReady)
  BY <1>6 DEF ResponsePhase
<1>7. QED
  BY <1>2, <1>3, <1>4, <1>5, <1>6 DEF Clock, ArbClock

\* The bridge enters DATA_WAIT with its address phase and leaves it with its
\* response; while it holds a request of a port, that port waits.
LEMMA BridgeNext ==
  ASSUME BusInv, Clock
  PROVE  /\ brState' = "DATA_WAIT" <=>
              \/ arbState = "ADDR" /\ owner = 0
              \/ arbState = "WAIT" /\ owner = 0
         /\ brState = "ADDR" /\ ~(arbState = "ADDR" /\ owner = 0) =>
              brState' = "ADDR"
         /\ brState # "IDLE" => brReq' = brReq /\ brSel' = brSel
<1> USE ReadyMeans DEF BusInv, ResponsesAreOwned
<1>1. BridgeClock(Wants, ReqOf, Takes, Ready(0), Rsp(0))
  BY DEF Clock
<1>2. arbState = "ADDR" /\ owner = 0 => brState = "ADDR"
  BY DEF DataPhaseOK, Req, Masters, BridgeRequests
<1>3. CASE brState = "IDLE"
  BY <1>1, <1>2, <1>3 DEF BridgeClock, Accept, NothingToAccept, PresentAddress,
     AwaitData, HoldResponse, brVars
<1>4. CASE brState = "ADDR"
  BY <1>1, <1>4 DEF BridgeClock, Accept, NothingToAccept, PresentAddress,
     AwaitData, HoldResponse, brVars, Granted
<1>5. CASE brState = "DATA_WAIT"
  BY <1>1, <1>2, <1>5 DEF BridgeClock, Accept, NothingToAccept, PresentAddress,
     AwaitData, HoldResponse, brVars, Granted
<1>6. CASE brState = "RSP_HOLD"
  BY <1>1, <1>2, <1>6 DEF BridgeClock, Accept, NothingToAccept, PresentAddress,
     AwaitData, HoldResponse, brVars, Granted
<1>7. QED
  BY <1>3, <1>4, <1>5, <1>6 DEF TypeInv, TypeOK, BridgeTypeOK

\* The DMA engine waits for data exactly over its own data phases, and keeps
\* the address of the transfer it waits for.
LEMMA DmaNext ==
  ASSUME BusInv, Clock
  PROVE  /\ dmaState' = "READ_WAIT" <=>
              \/ dmaState = "READ_ADDR" /\ arbState = "ADDR" /\ owner = 1
              \/ dmaState = "READ_WAIT" /\ arbState # "RESP"
         /\ dmaState' = "WRITE_RESP" <=>
              \/ dmaState = "WRITE_ADDR" /\ arbState = "ADDR" /\ owner = 1
              \/ dmaState = "WRITE_RESP" /\ arbState # "RESP"
         /\ DmaRequests /\ ~(arbState = "ADDR" /\ owner = 1) =>
              dmaState' = dmaState
         /\ dmaState' \in {"READ_WAIT", "WRITE_RESP"} =>
              curSrc' = curSrc /\ curDst' = curDst
<1> USE ReadyMeans DEF BusInv, ResponsesAreOwned, Transfer
<1>1. DmaClock(DmaAccess, HWData, Ready(1), Rsp(1))
  BY DEF Clock
<1>2. \/ Start(HWData)
      \/ Idle(HWData)
      \/ ReadAddress(Ready(1))
      \/ ReadData(Ready(1), Rsp(1))
      \/ WriteAddress(Ready(1))
      \/ WriteResponse(Ready(1), Rsp(1))
      \/ Finish
  BY <1>1 DEF DmaClock
<1>3. CASE Start(HWData)
  BY <1>3 DEF Start, DmaRequests
<1>4. CASE Idle(HWData)
  BY <1>4 DEF Idle, DmaRequests
<1>5. CASE ReadAddress(Ready(1))
  BY <1>5 DEF ReadAddress, DmaRequests
<1>6. CASE ReadData(Ready(1), Rsp(1))
  BY <1>6 DEF ReadData, DmaRequests
<1>7. CASE WriteAddress(Ready(1))
  BY <1>7 DEF WriteAddress, DmaRequests
<1>8. CASE WriteResponse(Ready(1), Rsp(1))
  BY <1>8 DEF WriteResponse, DmaRequests
<1>9. CASE Finish
  BY <1>9 DEF Finish, DmaRequests
<1>10. QED
  BY <1>2, <1>3, <1>4, <1>5, <1>6, <1>7, <1>8, <1>9

\* A cache enters WAIT when the bridge takes its request and leaves it when the
\* bridge gives up the request, so the two stay in step.
LEMMA LeafNextOwned ==
  ASSUME BusInv, Clock, NEW p \in Ports
  PROVE  leaf'[p].phase = "WAIT" <=> brState' # "IDLE" /\ brSel' = p
<1>1. /\ leaf \in [Ports -> Leaf]
      /\ brState \in {"IDLE", "ADDR", "DATA_WAIT", "RSP_HOLD"}
      /\ brSel \in Ports
      /\ leaf[p].phase = "WAIT" <=> brState # "IDLE" /\ brSel = p
  BY DEF BusInv, TypeInv, TypeOK, BridgeTypeOK, ResponsesAreOwned
<1>2. leaf'[p] \in LeafNext(p)
  BY DEF Clock, LeafClock, Ports
<1>3. BridgeClock(Wants, ReqOf, Takes, Ready(0), Rsp(0))
  BY DEF Clock
<1>4. CASE leaf[p].phase = "IDLE"
  <2>1. leaf'[p].phase \in {"IDLE", "REQ"} /\ ~Wants[p]
    <3>1. \/ leaf'[p] = [phase |-> "IDLE", op |-> leaf[p].op]
          \/ \E o \in Ops[p] : leaf'[p] = [phase |-> "REQ", op |-> o]
      BY <1>2, <1>4 DEF LeafNext
    <3>2. leaf'[p].phase \in {"IDLE", "REQ"}
      <4>1. CASE leaf'[p] = [phase |-> "IDLE", op |-> leaf[p].op]
        BY <4>1
      <4>2. CASE \E o \in Ops[p] : leaf'[p] = [phase |-> "REQ", op |-> o]
        <5>1. PICK o \in Ops[p] : leaf'[p] = [phase |-> "REQ", op |-> o]
          BY <4>2
        <5>2. QED BY <5>1
      <4>3. QED
        BY <3>1, <4>1, <4>2
    <3>3. ~Wants[p]
      BY <1>4 DEF Wants
    <3>4. QED
      BY <3>2, <3>3
  <2>2. ~(brState' # "IDLE" /\ brSel' = p)
    BY <1>1, <1>3, <1>4, <2>1 DEF BridgeClock, Accept, NothingToAccept,
       PresentAddress, AwaitData, HoldResponse, brVars, Granted
  <2>3. QED
    BY <2>1, <2>2
<1>5. CASE leaf[p].phase = "REQ"
  <2>1. leaf'[p].phase = IF Granted(p, Wants) THEN "WAIT" ELSE "REQ"
    BY <1>2, <1>5 DEF LeafNext
  <2>2. Granted(p, Wants) <=> brState' # "IDLE" /\ brSel' = p
    BY <1>1, <1>3, <1>5 DEF BridgeClock, Accept, NothingToAccept,
       PresentAddress, AwaitData, HoldResponse, brVars, Granted, Ports
  <2>3. QED
    BY <2>1, <2>2
<1>6. CASE leaf[p].phase = "WAIT"
  <2>1. leaf'[p].phase = "WAIT" <=> ~Answers(p)
    BY <1>2, <1>6 DEF LeafNext
  <2>2. Takes[p]
    BY <1>6 DEF Takes
  <2>3. ~Answers(p) <=> brState' # "IDLE" /\ brSel' = p
    BY <1>1, <1>3, <1>6, <2>2 DEF BridgeClock, Accept, NothingToAccept,
       PresentAddress, AwaitData, HoldResponse, brVars, Granted, Answers
  <2>4. QED
    BY <2>1, <2>3
<1>7. CASE leaf[p].phase = "DONE"
  <2>1. leaf'[p].phase = "IDLE" /\ ~Wants[p]
    <3>1. leaf'[p] = [phase |-> "IDLE", op |-> NoOperation]
      BY <1>2, <1>7 DEF LeafNext
    <3>2. ~Wants[p]
      BY <1>7 DEF Wants
    <3>3. QED
      BY <3>1, <3>2
  <2>2. ~(brState' # "IDLE" /\ brSel' = p)
    BY <1>1, <1>3, <1>7, <2>1 DEF BridgeClock, Accept, NothingToAccept,
       PresentAddress, AwaitData, HoldResponse, brVars, Granted
  <2>3. QED
    BY <2>1, <2>2
<1>8. QED
  BY <1>1, <1>4, <1>5, <1>6, <1>7 DEF Leaf

LEMMA OwnedStep ==
  ASSUME BusInv, Clock
  PROVE  ResponsesAreOwned'
<1>1. owner \in Masters /\ owner' \in Masters
  BY ArbTypeStep DEF BusInv, TypeInv, TypeOK, ArbTypeOK, Clock
<1>2. (arbState = "ADDR" => Req[owner]) /\ (Req[1] <=> DmaRequests)
  BY DEF BusInv, DataPhaseOK, Req, Masters
<1>3. brState' = "DATA_WAIT" <=> owner' = 0 /\ arbState' \in {"WAIT", "RESP"}
  BY ArbNext, BridgeNext
<1>4. dmaState' \in {"READ_WAIT", "WRITE_RESP"}
        <=> owner' = 1 /\ arbState' \in {"WAIT", "RESP"}
  <2>1. dmaState \in {"READ_WAIT", "WRITE_RESP"}
          <=> owner = 1 /\ arbState \in {"WAIT", "RESP"}
    BY DEF BusInv, ResponsesAreOwned
  <2>2. QED
    BY <1>2, <2>1, ArbNext, DmaNext DEF DmaRequests
<1>5. QED
  BY <1>3, <1>4, LeafNextOwned DEF ResponsesAreOwned

\* The address and direction of a transfer are those of its address phase all
\* through its data phase.
LEMMA DataAddrStep ==
  ASSUME BusInv, Clock
  PROVE  /\ arbState = "ADDR" =>
              DataAddr' = BusReq.addr /\ DataWrite' = BusReq.write
         /\ arbState = "WAIT" => DataAddr' = DataAddr /\ DataWrite' = DataWrite
<1>1. owner \in Masters
  BY DEF BusInv, TypeInv, TypeOK, ArbTypeOK
<1>2. arbState \in {"ADDR", "WAIT"} => owner' = owner
  BY ArbNext
<1>3. CASE owner = 0
  <2>1. arbState \in {"ADDR", "WAIT"} => brState # "IDLE"
    BY <1>3 DEF BusInv, DataPhaseOK, ResponsesAreOwned, Req, Masters, BridgeRequests
  <2>2. QED
    BY <1>2, <1>3, <2>1, BridgeNext DEF DataAddr, DataWrite, BusReq
<1>4. CASE owner = 1
  <2>1. arbState = "ADDR" => DmaRequests
    BY <1>4 DEF BusInv, DataPhaseOK, Req, Masters
  <2>2. arbState = "WAIT" => dmaState \in {"READ_WAIT", "WRITE_RESP"}
    BY <1>4 DEF BusInv, ResponsesAreOwned
  <2>3. CASE arbState = "ADDR"
    BY <1>2, <1>4, <2>1, <2>3, DmaNext
    DEF DataAddr, DataWrite, BusReq, DmaOut, DmaRequests
  <2>4. CASE arbState = "WAIT"
    BY <1>2, <1>4, <2>2, <2>4, DmaNext DEF DataAddr, DataWrite
  <2>5. QED
    BY <2>3, <2>4
<1>5. QED
  BY <1>1, <1>3, <1>4 DEF Masters

LEMMA DataPhaseStep ==
  ASSUME BusInv, Clock
  PROVE  DataPhaseOK'
<1> USE DEF BusInv, DataPhaseOK
<1>1. FabricClock /\ MemClock
  BY DEF Clock
<1>2. (arbState = "ADDR" => Req[owner])'
  <2>1. CASE arbState' = "ADDR"
    <3>1. arbState = "IDLE" /\ Req[owner'] /\ owner' \in Masters
      BY <2>1, ArbNext, ArbTypeStep DEF TypeInv, TypeOK, ArbTypeOK, Clock
    <3>2. CASE owner' = 0
      <4>1. brState = "ADDR"
        BY <3>1, <3>2 DEF Req, Masters, BridgeRequests
      <4>2. brState' = "ADDR"
        BY <3>1, <4>1, BridgeNext
      <4>3. QED
        BY <3>2, <4>2 DEF Req, Masters, BridgeRequests
    <3>3. CASE owner' = 1
      <4>1. DmaRequests
        BY <3>1, <3>3 DEF Req, Masters
      <4>2. DmaRequests'
        BY <3>1, <4>1, DmaNext DEF DmaRequests
      <4>3. QED
        BY <3>3, <4>2 DEF Req, Masters
    <3>4. QED
      BY <3>1, <3>2, <3>3 DEF Masters
  <2>2. QED
    BY <2>1
<1>3. (memReq.valid => arbState = "WAIT")'
  BY <1>1, ArbNext DEF MemClock, Selects, AddressActive, NoMemAccess
<1>4. (arbState \in {"WAIT", "RESP"} => dataSel = Decode(DataAddr))'
  BY <1>1, ArbNext, DataAddrStep DEF FabricClock, AddressActive, Decode
<1>5. (arbState = "WAIT" /\ dataSel = "MEM" =>
         memReq = [valid |-> TRUE, write |-> DataWrite, addr |-> DataAddr])'
  BY <1>1, ArbNext, DataAddrStep
  DEF FabricClock, MemClock, Selects, AddressActive
<1>6. (arbState = "RESP" /\ dataSel = "MEM" /\ ~DataWrite =>
         memRsp = [data |-> mem[DataAddr], err |-> FALSE])'
  <2> SUFFICES ASSUME arbState' = "RESP", dataSel' = "MEM", ~DataWrite'
               PROVE  memRsp' = [data |-> mem'[DataAddr'], err |-> FALSE]
    OBVIOUS
  <2>1. arbState = "WAIT"
    BY ArbNext
  <2>2. dataSel = "MEM" /\ DataAddr' = DataAddr /\ ~DataWrite
    BY <1>1, <2>1, DataAddrStep DEF FabricClock, AddressActive
  <2>3. memReq = [valid |-> TRUE, write |-> DataWrite, addr |-> DataAddr]
    BY <2>1, <2>2
  <2>4. QED
    BY <1>1, <2>2, <2>3 DEF MemClock
<1>7. QED
  BY <1>2, <1>3, <1>4, <1>5, <1>6

LEMMA BusInvariant == Spec => []BusInv
<1>1. Init => BusInv
  <2> SUFFICES ASSUME Init PROVE BusInv
    OBVIOUS
  <2>1. TypeInv
    BY InitTyped
  <2>2. ResponsesAreOwned
    BY DEF Init, ArbInit, BridgeInit, DmaInit, ResponsesAreOwned, Ports
  <2>3. DataPhaseOK
    BY DEF Init, ArbInit, DataPhaseOK, NoMemAccess
  <2>4. QED
    BY <2>1, <2>2, <2>3 DEF BusInv
<1>2. BusInv /\ [Next]_vars => BusInv'
  <2> SUFFICES ASSUME BusInv, [Next]_vars PROVE BusInv'
    OBVIOUS
  <2>1. CASE Clock
    BY <2>1, ClockTyped, OwnedStep, DataPhaseStep DEF BusInv
  <2>2. CASE UNCHANGED vars
    <3>1. TypeInv'
      BY <2>2, StutterTyped DEF BusInv
    <3>2. ResponsesAreOwned' /\ DataPhaseOK'
      BY <2>2 DEF vars, arbVars, brVars, dmaVars, fabricVars, BusInv, DataPhaseOK,
         ResponsesAreOwned, DataAddr, DataWrite, Req, BridgeRequests, DmaRequests,
         Decode
    <3>3. QED
      BY <3>1, <3>2 DEF BusInv
  <2>3. QED
    BY <2>1, <2>2 DEF Next
<1>3. QED
  BY <1>1, <1>2, PTL DEF Spec

\* No master and no cache ever takes a response that is not its own.
THEOREM ResponsesOwned == Spec => []ResponsesAreOwned
BY BusInvariant, PTL DEF BusInv

\* A master is answered by the slave its address selects, and reads of the SRAM
\* return what it holds when they are answered.
THEOREM ResponsesCurrent == Spec => []ResponsesAreCurrent
<1>1. BusInv => ResponsesAreCurrent
  BY DEF BusInv, DataPhaseOK, ResponsesAreCurrent, MuxRsp
<1>2. QED
  BY <1>1, BusInvariant, PTL

-------------------------------------------------------------------------------
(* The memory path implements AtomicBus: the three clients see one memory  *)
(* and one access at a time.                                               *)

\* The SRAM has an access in hand only while it is selected.
SramSelected == memReq.valid => dataSel = "MEM"

\* Whose access the bus carries out on this edge.
Carries(c) ==
  /\ arbState = "WAIT"
  /\ IF c = "M" THEN owner = 1 ELSE owner = 0 /\ brSel = c

LEMMA SramSelectedStep ==
  ASSUME Clock
  PROVE  SramSelected'
BY DEF Clock, FabricClock, MemClock, Selects, SramSelected, NoMemAccess

-------------------------------------------------------------------------------
(* What the owner of the data phase is answered.                           *)

LEMMA AnswerIsRight ==
  ASSUME BusInv, BusInv', Clock, arbState = "WAIT",
         NEW o, o.addr = DataAddr, o.write = DataWrite
  PROVE  Atomic!IsAnswer(o, MuxRsp'.data, MuxRsp'.err)
<1>1. arbState' = "RESP"
  BY ArbNext
<1>2. /\ DataAddr' = DataAddr /\ DataWrite' = DataWrite
      /\ dataSel' = Decode(DataAddr)
  BY <1>1, DataAddrStep DEF BusInv, DataPhaseOK, Decode
<1>3. CASE DataAddr \in MemAddrs
  <2>1. dataSel = "MEM" /\ dataSel' = "MEM"
    BY <1>2, <1>3 DEF BusInv, DataPhaseOK, Decode
  <2>2. memReq = [valid |-> TRUE, write |-> DataWrite, addr |-> DataAddr]
    BY <2>1 DEF BusInv, DataPhaseOK
  <2>3. MuxRsp' = memRsp'
    BY <2>1 DEF MuxRsp
  <2>4. memRsp' = [data |-> IF DataWrite THEN 0 ELSE mem[DataAddr], err |-> FALSE]
    BY <2>2 DEF Clock, MemClock
  <2>5. QED
    BY <1>3, <2>3, <2>4 DEF Atomic!IsAnswer
<1>4. CASE DataAddr \in DmaWindow
  BY <1>4 DEF Atomic!IsAnswer
<1>5. CASE DataAddr \notin MemAddrs \union DmaWindow
  <2>1. MuxRsp' = [data |-> 0, err |-> TRUE]
    BY <1>2, <1>5 DEF Decode, MuxRsp
  <2>2. QED
    BY <1>5, <2>1 DEF Atomic!IsAnswer
<1>6. QED
  BY <1>3, <1>4, <1>5

-------------------------------------------------------------------------------
(* One edge, for each client.                                              *)

\* What one client does on an edge; only the owner of the data phase has its
\* access carried out.
ClientStep(c) ==
  /\ \/ Atomic!Issues(c) \/ Atomic!Collects(c) \/ Atomic!Stays(c)
     \/ Atomic!Performs(c)
  /\ Carries(c) => Atomic!Performs(c)
  /\ Atomic!Performs(c) => Carries(c)

\* The operation a port shows, by the phase of its FSM.
PortShows(p) ==
  /\ Wants[p] <=> leaf[p].phase = "REQ"
  /\ Takes[p] <=> leaf[p].phase = "WAIT"
  /\ leaf[p].phase \in {"IDLE", "DONE"} => ClientOp[p] = [phase |-> "idle"]
  /\ leaf[p].phase = "REQ" => ClientOp[p] = Pending(ReqOf[p])
  /\ leaf[p].phase = "WAIT" =>
       ClientOp[p] = IF brState = "RSP_HOLD" THEN Done(brReq, brRsp)
                     ELSE IF brState = "DATA_WAIT" /\ arbState = "RESP"
                     THEN Done(brReq, MuxRsp)
                     ELSE Pending(brReq)

LEMMA PortWires == BusInv => \A p \in Ports : PortShows(p)
<1> SUFFICES ASSUME BusInv, NEW p \in Ports
             PROVE  PortShows(p)
  OBVIOUS
<1>1. ClientOp[p] = PortOp(p)
  BY DEF ClientOp, Ports
<1>2. (Wants[p] <=> leaf[p].phase = "REQ") /\ (Takes[p] <=> leaf[p].phase = "WAIT")
  BY DEF Wants, Takes
<1>3. QED
  BY <1>1, <1>2 DEF PortOp, PortShows

LEMMA PortWiresAfter == BusInv' => (\A p \in Ports : PortShows(p))'
BY PortWires, PTL

LEMMA PortIdleStep ==
  ASSUME BusInv, BusInv', Clock, NEW p \in Ports, leaf[p].phase \in {"IDLE", "DONE"}
  PROVE  ClientStep(p)
<1>1. leaf'[p].phase \in {"IDLE", "REQ"}
  <2>1. leaf'[p] \in LeafNext(p)
    BY DEF Clock, LeafClock, Ports
  <2>2. CASE leaf[p].phase = "IDLE"
    <3>1. \/ leaf'[p] = [phase |-> "IDLE", op |-> leaf[p].op]
          \/ \E o \in Ops[p] : leaf'[p] = [phase |-> "REQ", op |-> o]
      BY <2>1, <2>2 DEF LeafNext
    <3>2. CASE leaf'[p] = [phase |-> "IDLE", op |-> leaf[p].op]
      BY <3>2
    <3>3. CASE \E o \in Ops[p] : leaf'[p] = [phase |-> "REQ", op |-> o]
      <4>1. PICK o \in Ops[p] : leaf'[p] = [phase |-> "REQ", op |-> o]
        BY <3>3
      <4>2. QED
        BY <4>1
    <3>4. QED
      BY <3>1, <3>2, <3>3
  <2>3. CASE leaf[p].phase = "DONE"
    <3>1. leaf'[p] = [phase |-> "IDLE", op |-> NoOperation]
      BY <2>1, <2>3 DEF LeafNext
    <3>2. QED
      BY <3>1
  <2>4. QED
    BY <2>2, <2>3
<1>2. ClientOp[p] = [phase |-> "idle"]
  BY PortWires DEF PortShows
<1>3. ~Carries(p)
  BY DEF Carries, BusInv, ResponsesAreOwned, Ports
<1>4. CASE leaf'[p].phase = "IDLE"
  <2>1. ClientOp'[p] = [phase |-> "idle"]
    BY <1>4, PortWiresAfter DEF PortShows
  <2>2. QED
    BY <1>2, <1>3, <2>1 DEF ClientStep, Atomic!Stays, Atomic!Performs
<1>5. CASE leaf'[p].phase = "REQ"
  <2>1. ClientOp'[p] = Pending(ReqOf'[p])
    BY <1>5, PortWiresAfter DEF PortShows
  <2>2. QED
    BY <1>2, <1>3, <2>1 DEF ClientStep, Pending, Atomic!Issues, Atomic!Performs
<1>6. QED
  BY <1>1, <1>4, <1>5

LEMMA PortRequestStep ==
  ASSUME BusInv, BusInv', Clock, NEW p \in Ports, leaf[p].phase = "REQ"
  PROVE  ClientStep(p)
<1>1. leaf'[p] = [phase |-> IF Granted(p, Wants) THEN "WAIT" ELSE "REQ", op |-> leaf[p].op]
  BY DEF Clock, LeafClock, LeafNext, Ports
<1>2. ClientOp[p] = Pending(ReqOf[p])
  BY PortWires DEF PortShows
<1>3. ~Carries(p)
  BY DEF Carries, BusInv, ResponsesAreOwned, Ports
<1>4. ReqOf'[p] = ReqOf[p]
  BY <1>1 DEF ReqOf
<1>5. CASE ~Granted(p, Wants)
  BY <1>1, <1>2, <1>3, <1>4, <1>5, PortWiresAfter
  DEF PortShows, Pending, ClientStep, Atomic!Stays, Atomic!Performs
<1>6. CASE Granted(p, Wants)
  <2>1. brState' = "ADDR" /\ brReq' = ReqOf[p]
    BY <1>6 DEF Clock, BridgeClock, Accept, NothingToAccept, PresentAddress, AwaitData,
       HoldResponse, Granted, Ports
  <2>2. leaf'[p].phase = "WAIT"
    BY <1>1, <1>6
  <2>3. ClientOp'[p] = ClientOp[p]
    BY <1>2, <2>1, <2>2, PortWiresAfter DEF PortShows, Pending
  <2>4. QED
    BY <1>2, <1>3, <2>3 DEF ClientStep, Pending, Atomic!Stays, Atomic!Performs
<1>7. QED
  BY <1>5, <1>6

LEMMA PortWaitStep ==
  ASSUME BusInv, BusInv', Clock, NEW p \in Ports, leaf[p].phase = "WAIT"
  PROVE  ClientStep(p)
<1>1. brState # "IDLE" /\ brSel = p /\ brReq' = brReq /\ brSel' = p
  BY BridgeNext DEF BusInv, ResponsesAreOwned
<1>2. BridgeClock(Wants, ReqOf, Takes, Ready(0), Rsp(0))
  BY DEF Clock
<1>3. leaf'[p].phase = "WAIT" <=> brState' # "IDLE"
  BY <1>1 DEF BusInv, ResponsesAreOwned
<1>4. leaf'[p].phase \in {"WAIT", "REQ", "DONE"}
  <2>1. leaf'[p] \in LeafNext(p)
    BY DEF Clock, LeafClock, Ports
  <2>2. QED
    BY <2>1 DEF LeafNext
<1>5. CASE brState = "ADDR"
  <2>1. ClientOp[p] = Pending(brReq) /\ ~Carries(p)
    BY <1>1, <1>5, PortWires
    DEF PortShows, Carries, BusInv, ResponsesAreOwned, Ports
  <2>2. \/ brState' = "ADDR"
        \/ brState' = "DATA_WAIT" /\ arbState' = "WAIT"
    BY <1>2, <1>5, ReadyMeans, ArbNext DEF BridgeClock, Accept, NothingToAccept,
       PresentAddress, AwaitData, HoldResponse
  <2>3. ClientOp'[p] = Pending(brReq)
    BY <1>1, <1>3, <2>2, PortWiresAfter DEF PortShows
  <2>4. QED
    BY <2>1, <2>3 DEF ClientStep, Pending, Atomic!Stays, Atomic!Performs
<1>6. CASE brState = "DATA_WAIT" /\ arbState = "WAIT"
  <2>1. owner = 0 /\ Carries(p) /\ DataAddr = brReq.addr /\ DataWrite = brReq.write
    BY <1>1, <1>6 DEF BusInv, ResponsesAreOwned, Carries, DataAddr, DataWrite, Ports
  <2>2. ClientOp[p] = Pending(brReq)
    BY <1>1, <1>6, PortWires DEF PortShows
  <2>3. brState' = "DATA_WAIT" /\ arbState' = "RESP"
    BY <1>6, <2>1, BridgeNext, ArbNext
  <2>4. ClientOp'[p] = Done(brReq, MuxRsp')
    BY <1>1, <1>3, <2>3, PortWiresAfter DEF PortShows
  <2>5. Atomic!IsAnswer(Pending(brReq), MuxRsp'.data, MuxRsp'.err)
    BY <1>6, <2>1, AnswerIsRight DEF Pending
  <2>6. Atomic!Performs(p)
    BY <2>2, <2>4, <2>5 DEF Atomic!Performs, Pending, Done
  <2>7. QED
    BY <2>1, <2>6 DEF ClientStep
<1>7. CASE brState = "DATA_WAIT" /\ arbState = "RESP"
  <2>1. ClientOp[p] = Done(brReq, MuxRsp) /\ ~Carries(p)
    BY <1>1, <1>7, PortWires DEF PortShows, Carries
  <2>2. Ready(0) /\ Rsp(0) = MuxRsp
    BY <1>7, ReadyMeans DEF Rsp, MasterRsp, BusInv, ResponsesAreOwned
  <2>3. brState' = "RSP_HOLD" /\ brRsp' = MuxRsp
    BY <1>2, <1>7, <2>2 DEF BridgeClock, Accept, NothingToAccept,
       PresentAddress, AwaitData, HoldResponse, Granted
  <2>4. ClientOp'[p] = Done(brReq, MuxRsp)
    BY <1>1, <1>3, <2>3, PortWiresAfter DEF PortShows
  <2>5. QED
    BY <2>1, <2>4 DEF ClientStep, Done, Atomic!Stays, Atomic!Performs
<1>8. CASE brState = "RSP_HOLD"
  <2>1. ClientOp[p] = Done(brReq, brRsp) /\ ~Carries(p)
    BY <1>1, <1>8, PortWires
    DEF PortShows, Carries, BusInv, ResponsesAreOwned, Ports
  <2>2. Takes[p]
    BY PortWires DEF PortShows
  <2>3. brState' = "IDLE"
    BY <1>1, <1>2, <1>8, <2>2 DEF BridgeClock, Accept, NothingToAccept,
       PresentAddress, AwaitData, HoldResponse, Granted
  <2>4. CASE leaf'[p].phase = "REQ"
    <3>1. ClientOp'[p] = Pending(ReqOf'[p])
      BY <2>4, PortWiresAfter DEF PortShows
    <3>2. QED
      BY <2>1, <3>1 DEF ClientStep, Pending, Done, Atomic!Issues, Atomic!Performs
  <2>5. CASE leaf'[p].phase = "DONE"
    <3>1. ClientOp'[p] = [phase |-> "idle"]
      BY <2>5, PortWiresAfter DEF PortShows
    <3>2. QED
      BY <2>1, <3>1 DEF ClientStep, Done, Atomic!Collects, Atomic!Performs
  <2>6. QED
    BY <1>3, <1>4, <2>3, <2>4, <2>5
<1>9. QED
  <2>1. brState = "DATA_WAIT" => arbState \in {"WAIT", "RESP"}
    BY DEF BusInv, ResponsesAreOwned
  <2>2. QED
    BY <1>1, <1>5, <1>6, <1>7, <1>8, <2>1 DEF BusInv, TypeInv, TypeOK, BridgeTypeOK

\* A port's FSM makes, waits out and collects its accesses as AtomicBus allows.
LEMMA PortStep ==
  ASSUME BusInv, BusInv', Clock, NEW p \in Ports
  PROVE  ClientStep(p)
<1>1. leaf[p].phase \in {"IDLE", "REQ", "WAIT", "DONE"}
  BY DEF BusInv, TypeInv, TypeOK, Leaf
<1>2. QED
  BY <1>1, PortIdleStep, PortRequestStep, PortWaitStep

\* The access the DMA engine is at.
DmaAccessNow ==
  [addr  |-> IF dmaState \in {"READ_ADDR", "READ_WAIT"} THEN curSrc ELSE curDst,
   write |-> dmaState \in {"WRITE_ADDR", "WRITE_RESP"},
   data  |-> buffer]

DmaShows ==
  /\ DmaRequests => ClientOp["M"] = Pending(DmaAccessNow)
  /\ dmaState \in {"READ_WAIT", "WRITE_RESP"} =>
       ClientOp["M"] = IF arbState = "RESP" THEN Done(DmaAccessNow, MuxRsp)
                       ELSE Pending(DmaAccessNow)
  /\ dmaState \in {"IDLE", "FINISH"} => ClientOp["M"] = [phase |-> "idle"]

LEMMA DmaWires == DmaShows
<1>1. ClientOp["M"] = DmaOp
  BY DEF ClientOp
<1>2. DmaOp = CASE DmaRequests -> Pending(DmaAccessNow)
                [] dmaState \in {"READ_WAIT", "WRITE_RESP"} ->
                     IF arbState = "RESP" THEN Done(DmaAccessNow, MuxRsp)
                     ELSE Pending(DmaAccessNow)
                [] OTHER -> [phase |-> "idle"]
  BY DEF DmaOp, DmaAccessNow
<1>3. QED
  BY <1>1, <1>2 DEF DmaShows, DmaRequests

LEMMA DmaWiresAfter == DmaShows'
BY DmaWires, PTL

LEMMA DmaStep ==
  ASSUME BusInv, BusInv', Clock
  PROVE  ClientStep("M")
<1> USE DEF ClientStep
<1>1. DmaClock(DmaAccess, HWData, Ready(1), Rsp(1))
  BY DEF Clock
<1>2. Carries("M") <=> dmaState \in {"READ_WAIT", "WRITE_RESP"} /\ arbState = "WAIT"
  BY DEF Carries, BusInv, ResponsesAreOwned
<1>3. CASE dmaState \in {"IDLE", "FINISH"}
  <2>1. ClientOp["M"] = [phase |-> "idle"]
    BY <1>3, DmaWires DEF DmaShows
  <2>2. dmaState' \in {"IDLE", "READ_ADDR"}
    BY <1>1, <1>3 DEF DmaClock, Start, Idle, ReadAddress, ReadData, WriteAddress,
       WriteResponse, Finish
  <2>3. \/ ClientOp'["M"] = [phase |-> "idle"]
        \/ ClientOp'["M"] = Pending(DmaAccessNow')
    BY <2>2, DmaWiresAfter DEF DmaShows, DmaRequests
  <2>4. QED
    BY <1>2, <1>3, <2>1, <2>3
    DEF Pending, Atomic!Stays, Atomic!Issues, Atomic!Performs
<1>4. CASE DmaRequests
  <2>1. ClientOp["M"] = Pending(DmaAccessNow)
    BY <1>4, DmaWires DEF DmaShows
  <2>2. /\ \/ dmaState' = dmaState
           \/ dmaState = "READ_ADDR" /\ dmaState' = "READ_WAIT" /\ arbState = "ADDR"
           \/ dmaState = "WRITE_ADDR" /\ dmaState' = "WRITE_RESP" /\ arbState = "ADDR"
        /\ UNCHANGED <<curSrc, curDst, buffer>>
    BY <1>1, <1>4, ReadyMeans DEF DmaClock, Start, Idle, ReadAddress, ReadData,
       WriteAddress, WriteResponse, Finish, DmaRequests, Transfer
  <2>3. DmaAccessNow' = DmaAccessNow
    BY <1>4, <2>2 DEF DmaAccessNow, DmaRequests
  <2>4. ClientOp'["M"] = Pending(DmaAccessNow)
    BY <1>4, <2>2, <2>3, DmaWiresAfter, ArbNext DEF DmaShows, DmaRequests
  <2>5. QED
    BY <1>2, <1>4, <2>1, <2>4
    DEF DmaRequests, Pending, Atomic!Stays, Atomic!Performs
<1>5. CASE dmaState \in {"READ_WAIT", "WRITE_RESP"} /\ arbState = "WAIT"
  <2>1. ClientOp["M"] = Pending(DmaAccessNow)
    BY <1>5, DmaWires DEF DmaShows
  <2>2. dmaState' = dmaState /\ UNCHANGED <<curSrc, curDst, buffer>> /\ arbState' = "RESP"
    BY <1>1, <1>5, ReadyMeans, ArbNext DEF DmaClock, Start, Idle, ReadAddress, ReadData,
       WriteAddress, WriteResponse, Finish, Transfer
  <2>3. ClientOp'["M"] = Done(DmaAccessNow, MuxRsp')
    BY <1>5, <2>2, DmaWiresAfter DEF DmaShows, DmaAccessNow
  <2>4. owner = 1 /\ DataAddr = DmaAccessNow.addr /\ DataWrite = DmaAccessNow.write
    BY <1>5 DEF BusInv, ResponsesAreOwned, DataAddr, DataWrite, DmaAccessNow
  <2>5. Atomic!IsAnswer(Pending(DmaAccessNow), MuxRsp'.data, MuxRsp'.err)
    BY <1>5, <2>4, AnswerIsRight DEF Pending
  <2>6. Atomic!Performs("M")
    BY <2>1, <2>3, <2>5 DEF Atomic!Performs, Pending, Done
  <2>7. QED
    BY <1>2, <1>5, <2>6
<1>6. CASE dmaState \in {"READ_WAIT", "WRITE_RESP"} /\ arbState = "RESP"
  <2>1. ClientOp["M"] = Done(DmaAccessNow, MuxRsp)
    BY <1>6, DmaWires DEF DmaShows
  <2>2. dmaState' \in {"READ_ADDR", "WRITE_ADDR", "FINISH"}
    BY <1>1, <1>6, ReadyMeans DEF DmaClock, Start, Idle, ReadAddress, ReadData,
       WriteAddress, WriteResponse, Finish
  <2>3. \/ ClientOp'["M"] = [phase |-> "idle"]
        \/ ClientOp'["M"] = Pending(DmaAccessNow')
    BY <2>2, DmaWiresAfter DEF DmaShows, DmaRequests
  <2>4. QED
    BY <1>2, <1>6, <2>1, <2>3
    DEF Done, Pending, Atomic!Issues, Atomic!Collects, Atomic!Performs
<1>7. QED
  BY <1>3, <1>4, <1>5, <1>6
  DEF BusInv, ResponsesAreOwned, TypeInv, TypeOK, DmaTypeOK, DmaRequests

-------------------------------------------------------------------------------
(* One edge of the whole.                                                  *)

LEMMA MemoryStepRefines ==
  ASSUME BusInv, SramSelected, Clock, \A c \in Atomic!Clients : ClientStep(c)
  PROVE  Atomic!MemoryStep
<1> DEFINE W == {c \in Atomic!Clients : /\ Atomic!Performs(c) /\ ClientOp[c].write
                                        /\ ClientOp[c].addr \in MemAddrs}
<1> USE DEF Atomic!Clients
<1>1. \A c \in Atomic!Clients :
        Carries(c) => ClientOp[c] = [phase |-> "pending", addr |-> DataAddr,
                                     write |-> DataWrite, wdata |-> HWData]
  <2> SUFFICES ASSUME NEW c \in Atomic!Clients, Carries(c)
               PROVE  ClientOp[c] = [phase |-> "pending", addr |-> DataAddr,
                                     write |-> DataWrite, wdata |-> HWData]
    OBVIOUS
  <2>1. CASE c = "M"
    <3>1. dmaState \in {"READ_WAIT", "WRITE_RESP"} /\ arbState = "WAIT" /\ owner = 1
      BY <2>1 DEF Carries, BusInv, ResponsesAreOwned
    <3>2. ClientOp[c] = Pending(DmaAccessNow)
      BY <2>1, <3>1, DmaWires DEF DmaShows
    <3>3. HWData = buffer
      BY <3>1 DEF HWData, BusReq, DmaOut
    <3>4. QED
      BY <3>1, <3>2, <3>3 DEF Pending, DmaAccessNow, DataAddr, DataWrite
  <2>2. CASE c \in Ports
    <3>1. brState = "DATA_WAIT" /\ arbState = "WAIT" /\ owner = 0 /\ brSel = c
      BY <2>2 DEF Carries, BusInv, ResponsesAreOwned, Ports
    <3>2. leaf[c].phase = "WAIT"
      BY <2>2, <3>1 DEF BusInv, ResponsesAreOwned
    <3>3. ClientOp[c] = Pending(brReq)
      BY <2>2, <3>1, <3>2, PortWires DEF PortShows
    <3>4. HWData = brReq.data
      BY <3>1 DEF HWData, BusReq
    <3>5. QED
      BY <3>1, <3>3, <3>4 DEF Pending, DataAddr, DataWrite
  <2>3. QED
    BY <2>1, <2>2 DEF Ports
<1>2. Atomic!MemoryStep <=>
        IF W = {} THEN UNCHANGED mem
        ELSE LET w == CHOOSE c \in W : TRUE
             IN  mem' = [mem EXCEPT ![ClientOp[w].addr] = ClientOp[w].wdata]
  BY DEF Atomic!MemoryStep
<1>3. \A c \in W : Carries(c)
  BY DEF ClientStep
<1>4. CASE memReq.valid /\ memReq.write
  <2>1. /\ arbState = "WAIT" /\ dataSel = "MEM"
        /\ memReq = [valid |-> TRUE, write |-> DataWrite, addr |-> DataAddr]
    BY <1>4 DEF BusInv, DataPhaseOK, SramSelected
  <2>2. DataWrite /\ DataAddr \in MemAddrs /\ memReq.addr = DataAddr
    BY <1>4, <2>1 DEF BusInv, TypeInv, TypeOK
  <2>3. PICK c \in Atomic!Clients : Carries(c)
    <3>1. owner \in {0, 1} /\ brSel \in Ports
      BY DEF BusInv, TypeInv, TypeOK, ArbTypeOK, BridgeTypeOK, Masters
    <3>2. CASE owner = 1
      BY <2>1, <3>2 DEF Carries
    <3>3. CASE owner = 0
      BY <2>1, <3>1, <3>3 DEF Carries, Ports
    <3>4. QED
      BY <3>1, <3>2, <3>3
  <2>4. c \in W
    BY <1>1, <2>2, <2>3 DEF ClientStep
  <2>5. \A w \in W : ClientOp[w].addr = DataAddr /\ ClientOp[w].wdata = HWData
    BY <1>1, <1>3
  <2>6. mem' = [mem EXCEPT ![DataAddr] = HWData]
    BY <1>4, <2>2 DEF Clock, MemClock
  <2> HIDE DEF W
  <2>7. (CHOOSE w \in W : TRUE) \in W /\ W # {}
    BY <2>4
  <2>8. QED
    BY <1>2, <2>5, <2>6, <2>7
<1>5. CASE ~(memReq.valid /\ memReq.write)
  <2>1. mem' = mem
    BY <1>5 DEF Clock, MemClock
  <2>2. W = {}
    <3> SUFFICES ASSUME NEW c \in W PROVE FALSE
      OBVIOUS
    <3>1. arbState = "WAIT" /\ DataWrite /\ DataAddr \in MemAddrs
      BY <1>1, <1>3 DEF Carries
    <3>2. dataSel = "MEM"
      BY <3>1 DEF BusInv, DataPhaseOK, Decode
    <3>3. memReq = [valid |-> TRUE, write |-> DataWrite, addr |-> DataAddr]
      BY <3>1, <3>2 DEF BusInv, DataPhaseOK
    <3>4. QED
      BY <1>5, <3>1, <3>3
  <2>3. QED
    BY <1>2, <2>1, <2>2
<1>6. QED
  BY <1>4, <1>5

LEMMA ClockRefines ==
  ASSUME BusInv, BusInv', SramSelected, Clock
  PROVE  Atomic!Next
<1>1. \A c \in Atomic!Clients : ClientStep(c)
  BY PortStep, DmaStep DEF Atomic!Clients, Ports
<1>2. \A c, d \in Atomic!Clients : Atomic!Performs(c) /\ Atomic!Performs(d) => c = d
  BY <1>1 DEF ClientStep, Carries
<1>3. QED
  BY <1>1, <1>2, MemoryStepRefines DEF Atomic!Next, ClientStep

LEMMA StutterRefines ==
  ASSUME UNCHANGED vars
  PROVE  UNCHANGED Atomic!vars
<1> USE DEF vars, arbVars, brVars, dmaVars, fabricVars
<1>1. MuxRsp' = MuxRsp
  BY DEF MuxRsp
<1>2. DmaOp' = DmaOp
  BY <1>1 DEF DmaOp, DmaRequests, Pending, Done
<1>3. \A p \in Ports : PortOp(p)' = PortOp(p)
  BY <1>1 DEF PortOp, Pending, Done, ReqOf
<1>4. ClientOp' = ClientOp
  BY <1>2, <1>3 DEF ClientOp, Ports
<1>5. QED
  BY <1>4 DEF Atomic!vars

LEMMA InitRefines ==
  ASSUME Init
  PROVE  Atomic!Init
<1>1. \A p \in Ports : PortOp(p) = [phase |-> "idle"]
  BY DEF Init, PortOp
<1>2. DmaOp = [phase |-> "idle"]
  BY DEF Init, DmaInit, DmaOp, DmaRequests
<1>3. ClientOp = [c \in Atomic!Clients |-> Atomic!NoOp]
  BY <1>1, <1>2 DEF ClientOp, Atomic!Clients, Atomic!NoOp, Ports
<1>4. mem \in [MemAddrs -> Nat]
  BY MapAssumption DEF MapAssumption, Init
<1>5. QED
  BY <1>3, <1>4 DEF Atomic!Init

\* The memory path of wasp1 gives its three clients one memory and one access at
\* a time: each request stays as it was made, is carried out once between being
\* made and being answered, and the answer is what memory then held.
THEOREM BusIsAtomic == Spec => AccessesAreAtomic
<1>1. Init => SramSelected
  BY DEF Init, SramSelected, NoMemAccess
<1>2. SramSelected /\ [Next]_vars => SramSelected'
  <2>1. SramSelected /\ UNCHANGED vars => SramSelected'
    BY DEF SramSelected, vars, fabricVars
  <2>2. QED
    BY <2>1, SramSelectedStep DEF Next
<1>3. BusInv /\ BusInv' /\ SramSelected /\ [Next]_vars => [Atomic!Next]_(Atomic!vars)
  BY ClockRefines, StutterRefines DEF Next
<1>4. QED
  BY <1>1, <1>2, <1>3, InitRefines, BusInvariant, PTL
  DEF Spec, Atomic!Spec, AccessesAreAtomic
===============================================================================
