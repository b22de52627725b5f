------------------------------ MODULE MCBusProofs ------------------------------
(***************************************************************************)
(* What the history variables of MCBus record: how long a client of the    *)
(* memory path is kept waiting, and what the DMA engine has copied.  For   *)
(* every memory map, every set of operations and every length of a line.   *)
(***************************************************************************)
EXTENDS MCBus, CoreBusProofs, DiagramProofs

\* Every behaviour with the history variables is one of the memory path.
LEMMA HistoryIsInvisible == MCSpec => Spec
<1>1. MCInit => Init
  BY DEF MCInit
<1>2. [MCNext]_<<vars, historyVars>> => [Next]_vars
  BY DEF MCNext, Next
<1>3. QED
  BY <1>1, <1>2, PTL DEF MCSpec, Spec

-------------------------------------------------------------------------------
(* The arbiter.                                                            *)

\* Who has been overtaken has lost the last arbitration, and so wins the next.
OvertakenLost ==
  /\ overtaken \in [Masters -> {0, 1}]
  /\ \A m \in Masters : overtaken[m] = 1 => lastGrant # m

LEMMA OvertakenStep ==
  ASSUME ArbTypeOK, OvertakenLost, Clock, RecordGrants
  PROVE  OvertakenLost'
<1> USE DEF OvertakenLost, Masters
<1>1. ArbClock(Req, HReady)
  BY DEF Clock
<1>2. CASE Grant(Req)
  <2>1. overtaken' = [m \in Masters |-> IF m = owner' \/ ~Req[m] THEN 0
                                        ELSE overtaken[m] + 1]
    BY <1>2 DEF Grant, RecordGrants
  <2>2. \A m \in Masters : m = owner' \/ ~Req[m] \/ (overtaken[m] = 0 /\ owner' # m)
    BY <1>2 DEF Grant, ChooseIdx, ArbTypeOK
  <2>3. lastGrant' = owner'
    BY <1>2 DEF Grant
  <2>4. QED
    BY <2>1, <2>2, <2>3
<1>3. CASE ~Grant(Req)
  <2>1. UNCHANGED <<lastGrant, overtaken>>
    BY <1>1, <1>3 DEF ArbClock, NoRequest, AddressPhase, DataPhase, ResponsePhase,
       arbVars, RecordGrants, HReady
  <2>2. QED
    BY <2>1
<1>4. QED
  BY <1>2, <1>3

\* A master that requests the bus is overtaken by the other at most once.
THEOREM OvertakenOnce == MCSpec => []MasterOvertakenOnce
<1>1. MCInit => OvertakenLost
  BY DEF MCInit, OvertakenLost, Masters
<1>2. TypeInv /\ OvertakenLost /\ [MCNext]_<<vars, historyVars>> => OvertakenLost'
  <2>1. OvertakenLost /\ UNCHANGED <<vars, historyVars>> => OvertakenLost'
    BY DEF OvertakenLost, vars, arbVars, historyVars
  <2>2. QED
    BY <2>1, OvertakenStep DEF MCNext, TypeInv, TypeOK
<1>3. OvertakenLost => MasterOvertakenOnce
  BY DEF OvertakenLost, MasterOvertakenOnce
<1>4. MCSpec => []TypeInv
  BY HistoryIsInvisible, BusInvariant, PTL DEF BusInv
<1>5. QED
  BY <1>1, <1>2, <1>3, <1>4, PTL DEF MCSpec

-------------------------------------------------------------------------------
(* The bridge.                                                             *)

\* While a fetch waits, the D-cache's operation has words left to take for each
\* it may still be overtaken by; between two operations the bridge is free and
\* the fetch is next.
FetchIsNext ==
  LET d == leaf["D"] IN
  /\ fetchWaits \in Nat
  /\ leaf["I"].phase # "REQ" => fetchWaits = 0
  /\ d.phase = "IDLE" => fetchWaits = 0
  /\ d.phase = "REQ"  => fetchWaits + d.op.beats + 1 <= LineWords
  /\ d.phase = "WAIT" => fetchWaits + d.op.beats <= LineWords
  /\ d.phase = "DONE" => brState = "IDLE" /\ fetchWaits <= LineWords

LEMMA FetchNextStep ==
  ASSUME BusInv, BusInv', FetchIsNext, Clock, RecordGrants
  PROVE  FetchIsNext'
<1> DEFINE i == leaf["I"]
           d == leaf["D"]
<1>1. i \in Leaf /\ d \in Leaf /\ d'.op.beats \in Nat /\ d.op.beats \in Nat
  BY DEF BusInv, TypeInv, TypeOK, Leaf, Operation, Ports
<1>2. i' \in LeafNext("I") /\ d' \in LeafNext("D")
  BY DEF Clock, LeafClock, Ports
<1>3. /\ Wants["I"] <=> i.phase = "REQ"
      /\ Wants["D"] <=> d.phase = "REQ"
  BY DEF Wants, Ports
<1>4. BridgeClock(Wants, ReqOf, Takes, Ready(0), Rsp(0))
  BY DEF Clock
<1>5. fetchWaits \in Nat /\ fetchWaits' \in Nat
  BY DEF FetchIsNext, RecordGrants
<1>6. i'.phase # "REQ" => fetchWaits' = 0
  <2>1. CASE i.phase = "REQ" /\ ~Granted("I", Wants)
    BY <1>2, <2>1 DEF LeafNext
  <2>2. CASE Granted("I", Wants)
    BY <2>2 DEF RecordGrants
  <2>3. CASE i.phase # "REQ"
    BY <1>3, <2>3 DEF RecordGrants, FetchIsNext, Granted
  <2>4. QED
    BY <2>1, <2>2, <2>3
<1>7. CASE d.phase = "IDLE"
  <2>1. fetchWaits' = 0
    BY <1>3, <1>7 DEF RecordGrants, FetchIsNext, Granted
  <2>2. \/ d' = [phase |-> "IDLE", op |-> d.op]
        \/ \E o \in Ops["D"] : d' = [phase |-> "REQ", op |-> o]
    BY <1>2, <1>7 DEF LeafNext
  <2>3. CASE d' = [phase |-> "IDLE", op |-> d.op]
    BY <1>6, <2>1, <2>3 DEF FetchIsNext
  <2>4. CASE \E o \in Ops["D"] : d' = [phase |-> "REQ", op |-> o]
    <3>1. PICK o \in Ops["D"] : d' = [phase |-> "REQ", op |-> o]
      BY <2>4
    <3>2. o.beats < LineWords /\ LineWords \in Nat /\ d'.op.beats = o.beats /\ d'.phase = "REQ"
      BY <3>1, LineAssumption DEF LineAssumption
    <3>3. QED
      BY <1>1, <1>6, <2>1, <3>2 DEF FetchIsNext
  <2>5. QED
    BY <2>2, <2>3, <2>4
<1>8. CASE d.phase = "REQ"
  <2>1. d' = [phase |-> IF Granted("D", Wants) THEN "WAIT" ELSE "REQ", op |-> d.op]
    BY <1>2, <1>8 DEF LeafNext
  <2>2. fetchWaits' = fetchWaits \/ (Granted("D", Wants) /\ fetchWaits' = fetchWaits + 1)
    BY <1>3, <1>8 DEF RecordGrants, Granted
  <2>3. d'.phase = (IF Granted("D", Wants) THEN "WAIT" ELSE "REQ") /\ d'.op = d.op
    BY <2>1
  <2>4. QED
    BY <1>1, <1>5, <1>6, <1>8, <2>2, <2>3, LineAssumption DEF FetchIsNext, LineAssumption
<1>9. CASE d.phase = "WAIT"
  <2>1. fetchWaits' = fetchWaits
    BY <1>9 DEF RecordGrants, Granted, BusInv, ResponsesAreOwned, Ports
  <2>2. CASE ~Answers("D")
    <3>1. d' = [phase |-> "WAIT", op |-> d.op]
      BY <1>2, <1>9, <2>2 DEF LeafNext
    <3>2. QED
      BY <1>1, <1>5, <1>6, <1>9, <2>1, <3>1 DEF FetchIsNext
  <2>3. CASE Answers("D") /\ d.op.beats = 0
    <3>1. d' = [phase |-> "DONE", op |-> d.op]
      BY <1>2, <1>9, <2>3 DEF LeafNext
    <3>2. Takes["D"]
      BY <1>9 DEF Takes, Ports
    <3>3. brState' = "IDLE"
      BY <1>4, <2>3, <3>2 DEF Answers, BridgeClock, Accept, NothingToAccept,
         PresentAddress, AwaitData, HoldResponse, Granted
    <3>4. QED
      BY <1>1, <1>5, <1>6, <1>9, <2>1, <2>3, <3>1, <3>3 DEF FetchIsNext
  <2>4. CASE Answers("D") /\ d.op.beats # 0
    <3>1. d' = [phase |-> "REQ", op |-> [d.op EXCEPT !.addr = @ + 4, !.beats = @ - 1]]
      BY <1>2, <1>9, <2>4 DEF LeafNext
    <3>2. d'.phase = "REQ" /\ d'.op.beats = d.op.beats - 1
      <4> DEFINE moved == [d.op EXCEPT !.addr = @ + 4]
      <4>1. moved \in Operation /\ moved.beats = d.op.beats
        BY <1>1 DEF Leaf, Operation
      <4>2. d' = [phase |-> "REQ", op |-> [moved EXCEPT !.beats = moved.beats - 1]]
        BY <3>1, <4>1
      <4> HIDE DEF moved
      <4>3. QED
        BY <4>1, <4>2 DEF Operation
    <3>3. QED
      BY <1>1, <1>5, <1>6, <1>9, <2>1, <3>2, LineAssumption DEF FetchIsNext, LineAssumption
  <2>5. QED
    BY <2>2, <2>3, <2>4
<1>10. CASE d.phase = "DONE"
  <2>1. d' = [phase |-> "IDLE", op |-> NoOperation]
    BY <1>2, <1>10 DEF LeafNext
  <2>2. fetchWaits' = 0
    BY <1>3, <1>10 DEF RecordGrants, FetchIsNext, Granted
  <2>3. QED
    BY <1>6, <2>1, <2>2 DEF FetchIsNext
<1>11. QED
  BY <1>1, <1>7, <1>8, <1>9, <1>10 DEF Leaf

\* Instruction fetch is overtaken by the words of one D-cache line at most.
THEOREM FetchOvertakenByOneLine == MCSpec => []FetchOvertakenByOneFill
<1>1. MCInit => FetchIsNext
  BY LineAssumption DEF MCInit, Init, FetchIsNext, LineAssumption, Ports
<1>2. BusInv /\ BusInv' /\ FetchIsNext /\ [MCNext]_<<vars, historyVars>> => FetchIsNext'
  <2>1. FetchIsNext /\ UNCHANGED <<vars, historyVars>> => FetchIsNext'
    BY DEF FetchIsNext, vars, brVars, historyVars
  <2>2. QED
    BY <2>1, FetchNextStep DEF MCNext
<1>3. BusInv /\ FetchIsNext => FetchOvertakenByOneFill
  <2> SUFFICES ASSUME BusInv, FetchIsNext PROVE FetchOvertakenByOneFill
    OBVIOUS
  <2>1. leaf["D"].phase \in {"IDLE", "REQ", "WAIT", "DONE"} /\ leaf["D"].op.beats \in Nat
    BY DEF BusInv, TypeInv, TypeOK, Leaf, Operation, Ports
  <2>2. QED
    BY <2>1, LineAssumption DEF FetchIsNext, FetchOvertakenByOneFill, LineAssumption
<1>4. MCSpec => []BusInv
  BY HistoryIsInvisible, BusInvariant, PTL
<1>5. QED
  BY <1>1, <1>2, <1>3, <1>4, PTL DEF MCSpec

-------------------------------------------------------------------------------
(* The DMA engine.                                                         *)

\* A slave has an access in hand only while it is selected.
AccessesAreSelected == SramSelected /\ (dmaReq.valid => dataSel = "DMA")

Jobs == [on : {TRUE}, src : Nat, dst : Nat, len : Nat, words : Nat,
         image : [MemAddrs -> Nat]]

InFlight == dmaState \notin {"IDLE", "FINISH"}
HoldsWord == \/ dmaState = "WRITE_ADDR"
             \/ dmaState = "WRITE_RESP" /\ arbState # "RESP"
WordsLeftFrom(start) == start + 4 * (job.len - remaining)

\* The promise, and what makes the next word come out right: the engine is at
\* the word it says, has read what was promised, and DONE is not a stale one.
CopyOK ==
  /\ InFlight => ~done
  /\ \/ job = NoJob
     \/ job \in Jobs /\ Operands(job) \intersect DmaWindow = {}
  /\ DmaCopiesInOrder
  /\ Busy /\ job.on => remaining <= job.len
  /\ InFlight /\ job.on =>
       curSrc = WordsLeftFrom(job.src) /\ curDst = WordsLeftFrom(job.dst)
  /\ job.on /\ HoldsWord => curSrc \in MemAddrs /\ buffer = job.image[curSrc]

LEMMA SelectedStep ==
  ASSUME Clock
  PROVE  AccessesAreSelected'
BY SramSelectedStep DEF Clock, FabricClock, DmaClock, RegisterClock, DmaAccess,
   Selects, NoAccess, AccessesAreSelected

LEMMA OperandsInclude ==
  ASSUME NEW j, j.src \in Nat, j.dst \in Nat, j.len \in Nat,
         NEW k \in Nat, k < j.len
  PROVE  j.src + 4 * k \in Operands(j) /\ j.dst + 4 * k \in Operands(j)
<1>1. k \in 0 .. j.len - 1
  OBVIOUS
<1>2. QED
  BY <1>1 DEF Operands, Words

\* The SRAM is written in the data phase of its master's write, and otherwise not.
LEMMA StoreHappens ==
  ASSUME BusInv, AccessesAreSelected
  PROVE  /\ memReq.valid => /\ arbState = "WAIT" /\ memReq.addr = DataAddr
                            /\ memReq.write = DataWrite
                            /\ DataAddr \in MemAddrs /\ dataSel = "MEM"
         /\ arbState = "WAIT" /\ DataAddr \in MemAddrs => memReq.valid
BY DEF BusInv, DataPhaseOK, TypeInv, TypeOK, AccessesAreSelected, SramSelected, Decode

\* What happens to the job when no transfer is started.
JobKept == job' = job \/ job' = NoJob

LEMMA NoStoreKeepsCopy ==
  ASSUME BusInv, AccessesAreSelected, CopyOK, Clock, RecordJob,
         ~StartOk(HWData), ~DmaStores
  PROVE  /\ JobKept
         /\ job'.on => job' = job /\ job.on
         /\ job'.on => \A a \in Operands(job) \intersect MemAddrs : mem'[a] = mem[a]
<1>1. JobKept
  BY DEF RecordJob, JobKept
<1>2. NoJob.on = FALSE
  BY DEF NoJob
<1>3. job'.on => job' = job /\ job.on
  BY <1>1, <1>2 DEF JobKept
<1>4. ASSUME job'.on, NEW a \in Operands(job) \intersect MemAddrs
      PROVE  mem'[a] = mem[a]
  <2>1. ~CpuStores(a)
    BY <1>2, <1>3, <1>4 DEF RecordJob
  <2>2. ~(memReq.valid /\ memReq.write /\ memReq.addr = a)
    BY <2>1 DEF CpuStores, DmaStores, BusInv, TypeInv, TypeOK, ArbTypeOK, Masters
  <2>3. QED
    BY <1>4, <2>2 DEF Clock, MemClock, BusInv, TypeInv, TypeOK
<1>5. QED
  BY <1>1, <1>3, <1>4

LEMMA StartCopies ==
  ASSUME BusInv, AccessesAreSelected, CopyOK, Clock, RecordJob, StartOk(HWData)
  PROVE  CopyOK'
<1>1. /\ dmaState = "IDLE" /\ dmaState' = "READ_ADDR"
      /\ curSrc' = src /\ curDst' = dst /\ remaining' = len
      /\ src \in Nat /\ dst \in Nat /\ len \in Nat
      /\ mem \in [MemAddrs -> Nat]
  BY DEF Clock, DmaClock, Start, Idle, ReadAddress, ReadData, WriteAddress,
     WriteResponse, Finish, StartOk, BusInv, TypeInv, TypeOK, DmaTypeOK
<1>2. ~done'
  BY <1>1 DEF Clock, DmaClock, StatusClock, LastWord, StartOk
<1>3. mem' = mem
  <2>1. ~memReq.valid
    BY DEF StartOk, StartReq, Writes, AccessesAreSelected, SramSelected
  <2>2. QED
    BY <2>1 DEF Clock, MemClock
<1>4. CASE job' = NoJob
  BY <1>1, <1>2, <1>4 DEF CopyOK, NoJob, DmaCopiesInOrder, InFlight, HoldsWord
<1>5. CASE job' = Promised(mem) /\ Operands(Promised(mem)) \intersect DmaWindow = {}
  <2>1. /\ job' \in Jobs /\ Operands(job') \intersect DmaWindow = {}
        /\ job'.src = src /\ job'.dst = dst /\ job'.len = len
        /\ job'.words = 0 /\ job'.image = mem
    BY <1>1, <1>5 DEF Promised, Jobs
  <2>2. WordsWritten' = 0
    BY <1>1, <2>1 DEF WordsWritten
  <2>3. DmaCopiesInOrder'
    BY <1>1, <1>3, <2>1, <2>2 DEF DmaCopiesInOrder
  <2>4. WordsLeftFrom(job.src)' = src /\ WordsLeftFrom(job.dst)' = dst
    BY <1>1, <2>1 DEF WordsLeftFrom
  <2>5. QED
    BY <1>1, <1>2, <2>1, <2>3, <2>4 DEF CopyOK, HoldsWord
<1>6. QED
  BY <1>4, <1>5 DEF RecordJob

\* The edge on which the SRAM takes a word of the copy.
LEMMA StoreCopies ==
  ASSUME BusInv, AccessesAreSelected, CopyOK, Clock, RecordJob, DmaStores
  PROVE  CopyOK'
<1>1. /\ arbState = "WAIT" /\ owner = 1 /\ dataSel = "MEM"
      /\ memReq.addr = DataAddr /\ DataWrite /\ DataAddr \in MemAddrs
  BY StoreHappens DEF DmaStores
<1>2. dmaState = "WRITE_RESP" /\ DataAddr = curDst
  BY <1>1 DEF DataAddr, DataWrite, BusInv, ResponsesAreOwned
<1>3. /\ dmaState' = "WRITE_RESP" /\ arbState' = "RESP"
      /\ UNCHANGED <<curSrc, curDst, remaining, buffer>>
      /\ ~Ready(1)
  BY <1>1, <1>2, ReadyMeans, ArbNext DEF Clock, DmaClock, Start, Idle, ReadAddress, ReadData,
     WriteAddress, WriteResponse, Finish, Transfer
<1>4. ~done'
  BY <1>2, <1>3 DEF Clock, DmaClock, StatusClock, LastWord, CopyOK, InFlight
<1>5. ~StartOk(HWData)
  BY <1>2 DEF StartOk
<1>6. mem' = [mem EXCEPT ![curDst] = buffer] /\ curDst \in MemAddrs
  BY <1>1, <1>2 DEF Clock, MemClock, DmaStores, HWData, BusReq, DmaOut
<1>7. ~MuxRsp'.err
  BY <1>1 DEF Clock, FabricClock, AddressActive, MemClock, MuxRsp
<1>8. CASE job' = NoJob
  BY <1>3, <1>4, <1>8 DEF CopyOK, NoJob, DmaCopiesInOrder, InFlight, HoldsWord
<1>9. CASE job.on /\ job' = OneMoreWord(job)
  <2>1. job \in Jobs /\ Operands(job) \intersect DmaWindow = {}
    BY <1>9 DEF CopyOK, NoJob
  <2>2. /\ remaining \in Nat /\ remaining <= job.len
        /\ curSrc = WordsLeftFrom(job.src) /\ curDst = WordsLeftFrom(job.dst)
        /\ curSrc \in MemAddrs /\ buffer = job.image[curSrc]
    BY <1>1, <1>2, <1>9 DEF CopyOK, InFlight, HoldsWord, Busy, BusInv, TypeInv, TypeOK, DmaTypeOK
  <2>3. job.words = job.len - remaining
    BY <1>1, <1>2, <1>9 DEF CopyOK, DmaCopiesInOrder, Busy, WordsWritten
  <2>4. curSrc = job.src + 4 * job.words /\ curDst = job.dst + 4 * job.words
    BY <2>2, <2>3 DEF WordsLeftFrom
  <2>5. job' = [job EXCEPT !.words = job.words + 1, !.image = [job.image EXCEPT ![curDst] = buffer]]
    BY <1>9, <2>2, <2>4 DEF OneMoreWord
  <2>6. /\ job' \in Jobs
        /\ job'.src = job.src /\ job'.dst = job.dst /\ job'.len = job.len
        /\ job'.words = job.words + 1
        /\ job'.image = [job.image EXCEPT ![curDst] = buffer]
    <3> DEFINE moved == [job EXCEPT !.words = job.words + 1]
               copied == [job.image EXCEPT ![curDst] = buffer]
    <3>1. /\ moved \in Jobs
          /\ moved.src = job.src /\ moved.dst = job.dst /\ moved.len = job.len
          /\ moved.words = job.words + 1
      <4>1. job \in Jobs
        BY <2>1
      <4>2. job.words \in Nat
        BY <4>1 DEF Jobs
      <4>3. job.words + 1 \in Nat
        BY <4>2
      <4>4. QED
        BY <4>1, <4>3 DEF Jobs
    <3>2. buffer \in Nat
      BY DEF BusInv, TypeInv, TypeOK, DmaTypeOK
    <3>3. copied \in [MemAddrs -> Nat]
      BY <2>1, <3>2 DEF Jobs
    <3>4. job' = [moved EXCEPT !.image = copied]
      BY <2>1, <2>5 DEF Jobs
    <3> HIDE DEF moved, copied
    <3>5. /\ job' \in Jobs
          /\ job'.src = moved.src /\ job'.dst = moved.dst /\ job'.len = moved.len
          /\ job'.words = moved.words /\ job'.image = copied
      BY <3>1, <3>3, <3>4 DEF Jobs
    <3>6. QED
      BY <3>1, <3>5 DEF copied
  <2>7. Operands(job') = Operands(job)
    BY <2>6 DEF Operands
  <2>8. WordsWritten' = job.len - remaining + 1
    BY <1>3, <1>7, <2>6 DEF WordsWritten
  <2>9. DmaCopiesInOrder'
    <3>1. job'.words = WordsWritten'
      BY <2>3, <2>6, <2>8
    <3>2. ASSUME NEW a \in Operands(job) \intersect MemAddrs
          PROVE  mem'[a] = job'.image[a]
      <4>1. mem[a] = job.image[a]
        BY <1>2, <1>9 DEF CopyOK, DmaCopiesInOrder, Busy
      <4>2. QED
        BY <1>6, <2>1, <2>6, <4>1 DEF Jobs, BusInv, TypeInv, TypeOK
    <3>3. QED
      BY <2>7, <3>1, <3>2 DEF DmaCopiesInOrder
  <2>10. WordsLeftFrom(job.src)' = WordsLeftFrom(job.src) /\ WordsLeftFrom(job.dst)' = WordsLeftFrom(job.dst)
    BY <1>3, <2>6 DEF WordsLeftFrom
  <2>11. QED
    BY <1>3, <1>4, <2>1, <2>2, <2>6, <2>7, <2>9, <2>10 DEF CopyOK, HoldsWord
<1>10. CASE ~job.on /\ job' = job
  <2>1. job = NoJob
    BY <1>10 DEF CopyOK, Jobs
  <2>2. QED
    BY <1>8, <1>10, <2>1
<1>11. QED
  BY <1>5, <1>8, <1>9, <1>10 DEF RecordJob

\* Every other edge: what the promise says of memory stays so, and the engine
\* gets on by a word only when one was stored.
LEMMA EngineAdvances ==
  ASSUME BusInv, BusInv', AccessesAreSelected, CopyOK, Clock, RecordJob,
         ~StartOk(HWData), ~DmaStores, job' = job, job.on, Busy'
  PROVE  /\ job.words = WordsWritten'
         /\ remaining' <= job.len
         /\ InFlight' => /\ curSrc' = WordsLeftFrom(job.src)'
                         /\ curDst' = WordsLeftFrom(job.dst)'
         /\ HoldsWord' => curSrc' \in MemAddrs /\ buffer' = job.image[curSrc']
<1>1. job \in Jobs /\ Operands(job) \intersect DmaWindow = {}
  BY DEF CopyOK, NoJob
<1>2. /\ remaining \in Nat /\ curSrc \in Nat /\ curDst \in Nat
      /\ job.len \in Nat /\ job.src \in Nat /\ job.dst \in Nat
  BY <1>1 DEF BusInv, TypeInv, TypeOK, DmaTypeOK, Jobs
<1>3. Busy => remaining <= job.len /\ job.words = WordsWritten
  BY DEF CopyOK, DmaCopiesInOrder
<1>4. InFlight => /\ remaining >= 1
                  /\ curSrc = job.src + 4 * (job.len - remaining)
                  /\ curDst = job.dst + 4 * (job.len - remaining)
                  /\ ~done
  BY DEF CopyOK, InFlight, WordsLeftFrom, BusInv, TypeInv, TransferInFlight
<1>5. InFlight => curSrc \notin DmaWindow /\ curDst \notin DmaWindow
  <2> SUFFICES ASSUME InFlight PROVE curSrc \notin DmaWindow /\ curDst \notin DmaWindow
    OBVIOUS
  <2> DEFINE k == job.len - remaining
  <2>1. k \in Nat /\ k < job.len
    BY <1>2, <1>3, <1>4 DEF InFlight, Busy
  <2>2. job.src + 4 * k \in Operands(job) /\ job.dst + 4 * k \in Operands(job)
    BY <1>2, <2>1, OperandsInclude
  <2>3. QED
    BY <1>1, <1>4, <2>2
<1> USE DEF Busy, InFlight, HoldsWord, WordsWritten, WordsLeftFrom, Transfer
<1>6. CASE Idle(HWData)
  BY <1>6 DEF Idle
<1>7. CASE Finish
  BY <1>7 DEF Finish
<1>8. CASE ReadAddress(Ready(1))
  BY <1>2, <1>3, <1>4, <1>8 DEF ReadAddress
<1>9. CASE ReadData(Ready(1), Rsp(1))
  <2>1. UNCHANGED Transfer /\ dmaState = "READ_WAIT"
    BY <1>9 DEF ReadData
  <2>2. CASE ~Ready(1)
    BY <1>2, <1>3, <1>4, <1>9, <2>1, <2>2 DEF ReadData
  <2>3. CASE Ready(1) /\ Rsp(1).err
    <3>1. dmaState' = "FINISH"
      BY <1>9, <2>3 DEF ReadData
    <3>2. ~done'
      BY <1>4, <2>1 DEF Clock, DmaClock, StatusClock, LastWord
    <3>3. QED
      BY <1>2, <1>3, <1>4, <2>1, <3>1, <3>2
  <2>4. CASE Ready(1) /\ ~Rsp(1).err
    <3>1. dmaState' = "WRITE_ADDR" /\ buffer' = Rsp(1).data
      BY <1>9, <2>4 DEF ReadData
    <3>2. owner = 1 /\ arbState = "RESP" /\ DataAddr = curSrc /\ ~DataWrite
      BY <2>1, <2>4, ReadyMeans DEF BusInv, ResponsesAreOwned, DataAddr, DataWrite
    <3>3. Rsp(1) = MuxRsp
      BY <3>2 DEF Rsp, MasterRsp
    <3>4. dataSel = Decode(curSrc)
      BY <3>2 DEF BusInv, DataPhaseOK
    <3>5. curSrc \in MemAddrs /\ dataSel = "MEM"
      BY <1>5, <2>1, <2>4, <3>3, <3>4 DEF Decode, MuxRsp
    <3>6. MuxRsp.data = mem[curSrc]
      BY <3>2, <3>5 DEF BusInv, DataPhaseOK, MuxRsp
    <3>7. curSrc \in Operands(job)
      BY <1>2, <1>3, <1>4, <2>1, OperandsInclude
    <3>8. mem[curSrc] = job.image[curSrc]
      BY <2>1, <3>5, <3>7 DEF CopyOK, DmaCopiesInOrder
    <3>9. curSrc' \in MemAddrs /\ buffer' = job.image[curSrc']
      BY <2>1, <3>1, <3>3, <3>5, <3>6, <3>8
    <3>10. QED
      BY <1>2, <1>3, <1>4, <2>1, <3>1, <3>9
  <2>5. QED
    BY <2>2, <2>3, <2>4
<1>10. CASE WriteAddress(Ready(1))
  <2>1. arbState' # "RESP" \/ dmaState' = "WRITE_ADDR"
    BY <1>10, ReadyMeans, ArbNext DEF WriteAddress, BusInv, ResponsesAreOwned
  <2>2. QED
    BY <1>2, <1>3, <1>4, <1>10, <2>1 DEF CopyOK, WriteAddress
<1>11. CASE WriteResponse(Ready(1), Rsp(1))
  <2>1. dmaState = "WRITE_RESP" /\ owner = 1 /\ arbState \in {"WAIT", "RESP"}
        /\ DataAddr = curDst /\ DataWrite
    BY <1>11 DEF WriteResponse, BusInv, ResponsesAreOwned, DataAddr, DataWrite
  <2>2. CASE arbState = "WAIT"
    <3>1. curDst \notin MemAddrs
      BY <2>1, <2>2, StoreHappens DEF DmaStores
    <3>2. arbState' = "RESP" /\ dmaState' = "WRITE_RESP" /\ UNCHANGED Transfer
      BY <1>11, <2>1, <2>2, ReadyMeans, ArbNext DEF WriteResponse
    <3>3. dataSel' = dataSel /\ dataSel = "DEFAULT"
      BY <1>5, <2>1, <2>2, <3>1 DEF Clock, FabricClock, AddressActive, BusInv, DataPhaseOK, Decode
    <3>4. MuxRsp'.err
      BY <3>3 DEF MuxRsp
    <3>5. QED
      BY <1>2, <1>3, <1>4, <2>1, <2>2, <3>2, <3>4
  <2>3. CASE arbState = "RESP"
    <3>1. Ready(1) /\ Rsp(1) = MuxRsp
      BY <2>1, <2>3 DEF Ready, MasterReady, HReady, Rsp, MasterRsp
    <3>2. CASE MuxRsp.err
      <4>1. dmaState' = "FINISH" /\ UNCHANGED Transfer
        BY <1>11, <3>1, <3>2 DEF WriteResponse
      <4>2. ~done'
        BY <1>4, <2>1, <3>1, <3>2 DEF Clock, DmaClock, StatusClock, LastWord
      <4>3. QED
        BY <1>2, <1>3, <1>4, <2>1, <3>2, <4>1, <4>2
    <3>3. CASE ~MuxRsp.err /\ remaining = 1
      <4>1. dmaState' = "FINISH" /\ UNCHANGED Transfer
        BY <1>11, <3>1, <3>3 DEF WriteResponse
      <4>2. done'
        BY <1>4, <2>1, <3>1, <3>3 DEF Clock, DmaClock, StatusClock, LastWord
      <4>3. QED
        BY <1>2, <1>3, <1>4, <2>1, <2>3, <3>3, <4>1, <4>2
    <3>4. CASE ~MuxRsp.err /\ remaining # 1
      <4>1. dmaState' = "READ_ADDR" /\ remaining' = remaining - 1
            /\ curSrc' = curSrc + 4 /\ curDst' = curDst + 4
        BY <1>11, <3>1, <3>4 DEF WriteResponse
      <4>2. QED
        BY <1>2, <1>3, <1>4, <2>1, <2>3, <3>4, <4>1
    <3>5. QED
      BY <3>2, <3>3, <3>4
  <2>4. QED
    BY <2>1, <2>2, <2>3
<1>12. QED
  BY <1>6, <1>7, <1>8, <1>9, <1>10, <1>11 DEF Clock, DmaClock, Start

LEMMA CopyStep ==
  ASSUME BusInv, BusInv', AccessesAreSelected, CopyOK, Clock, RecordJob
  PROVE  CopyOK'
<1>1. CASE ~StartOk(HWData) /\ ~DmaStores
  <2>1. InFlight' => ~done'
    BY <1>1 DEF CopyOK, InFlight, Clock, DmaClock, StatusClock, LastWord, Start, Idle,
       ReadAddress, ReadData, WriteAddress, WriteResponse, Finish
  <2>2. JobKept
    BY <1>1, NoStoreKeepsCopy
  <2>3. CASE ~job'.on
    <3>1. job' = NoJob
      BY <2>2, <2>3 DEF JobKept, CopyOK, Jobs
    <3>2. QED
      BY <2>1, <3>1 DEF CopyOK, NoJob, DmaCopiesInOrder
  <2>4. CASE job'.on
    <3>1. job' = job /\ job.on /\ \A a \in Operands(job') \intersect MemAddrs : mem'[a] = mem[a]
      BY <1>1, <2>4, NoStoreKeepsCopy
    <3>2. Busy' => Busy
      BY <1>1 DEF Busy, Clock, DmaClock, Start, Idle, ReadAddress, ReadData,
         WriteAddress, WriteResponse, Finish
    <3>3. Busy' => \A a \in Operands(job') \intersect MemAddrs : mem'[a] = job'.image[a]
      BY <3>1, <3>2 DEF CopyOK, DmaCopiesInOrder
    <3>4. job' = NoJob \/ (job' \in Jobs /\ Operands(job') \intersect DmaWindow = {})
      BY <3>1 DEF CopyOK
    <3>5. DmaCopiesInOrder'
      BY <1>1, <3>1, <3>3, EngineAdvances DEF DmaCopiesInOrder
    <3>6. QED
      BY <1>1, <2>1, <3>1, <3>4, <3>5, EngineAdvances DEF CopyOK, InFlight, HoldsWord, Busy
  <2>5. QED
    BY <2>3, <2>4
<1>2. QED
  BY <1>1, StartCopies, StoreCopies

\* While a transfer runs and when it ends, its operands are what copying the
\* words one after the other gives.
THEOREM DmaCopies == MCSpec => []DmaCopiesInOrder
<1> DEFINE Inv == AccessesAreSelected /\ CopyOK
<1>1. MCInit => Inv
  BY DEF MCInit, Init, DmaInit, AccessesAreSelected, SramSelected, NoMemAccess, NoAccess,
     CopyOK, DmaCopiesInOrder, NoJob, InFlight, HoldsWord, Busy
<1>2. BusInv /\ BusInv' /\ Inv /\ [MCNext]_<<vars, historyVars>> => Inv'
  <2>1. Inv /\ UNCHANGED <<vars, historyVars>> => Inv'
    BY DEF AccessesAreSelected, SramSelected, CopyOK, DmaCopiesInOrder, InFlight, HoldsWord,
       Busy, WordsWritten, WordsLeftFrom, MuxRsp, vars, arbVars, dmaVars, fabricVars, historyVars
  <2>2. QED
    BY <2>1, SelectedStep, CopyStep DEF MCNext
<1>3. Inv => DmaCopiesInOrder
  BY DEF CopyOK
<1>4. MCSpec => []BusInv
  BY HistoryIsInvisible, BusInvariant, PTL
<1>5. QED
  BY <1>1, <1>2, <1>3, <1>4, PTL DEF MCSpec

-------------------------------------------------------------------------------
(* The DMA engine and its diagram.                                         *)

\* A running engine has words left and is not done; one that finishes has a
\* status to show.  A register access takes effect while the arbiter waits for the
\* data of that access, hence never on an edge on which the engine is ready, nor
\* when it finishes.
StatusOK ==
  /\ dmaState \in {"IDLE", "READ_ADDR", "READ_WAIT", "WRITE_ADDR", "WRITE_RESP", "FINISH"}
  /\ remaining \in Nat /\ len \in Nat /\ done \in BOOLEAN /\ error \in BOOLEAN
  /\ InFlight => ~done /\ remaining # 0
  /\ dmaState = "FINISH" => (done \/ error) /\ arbState = "IDLE"
  /\ dmaReq.valid => arbState = "WAIT"

LEMMA AlongDmaArrow ==
  ASSUME NEW l, NEW s, NEW t, <<s, l, t>> \in AhbDmaDiagram.arrows,
         s \in AhbDmaDiagram.seq, t \in AhbDmaDiagram.seq,
         DmaNode = s, DmaNode' = t, DmaBox(l)
  PROVE  FollowsPath(DmaPaths, DmaNode, DmaNode', DmaBox)
<1>h. HasPath(AhbDmaDiagram, s, {l}, t)
  BY OneArrow
<1>1. PICK p \in DmaPaths : p.from = s /\ p.to = t /\ p.labels = {l}
  BY <1>h DEF HasPath, DmaPaths
<1>2. \A k \in p.labels : DmaBox(k)
  BY <1>1
<1> QED BY <1>1, <1>2 DEF FollowsPath

\* No register is written on an edge on which a running engine is ready.
LEMMA NothingWritten ==
  ASSUME BusInv, StatusOK, NEW wdata,
         dmaState = "FINISH" \/ (InFlight /\ Ready(1))
  PROVE  ~StartReq(wdata) /\ ~Clear(wdata)
<1>1. arbState # "WAIT"
  <2>1. CASE dmaState = "FINISH"
    BY <2>1 DEF StatusOK
  <2>2. CASE dmaState # "FINISH"
    <3>1. InFlight /\ Ready(1)
      BY <2>2
    <3>2. DmaRequests \/ dmaState \in {"READ_WAIT", "WRITE_RESP"}
      BY <3>1 DEF StatusOK, InFlight, DmaRequests
    <3> QED BY <3>1, <3>2, ReadyMeans
  <2> QED BY <2>1, <2>2
<1> QED BY <1>1 DEF StatusOK, StartReq, Clear, Writes

LEMMA RegistersStep ==
  ASSUME BusInv, StatusOK, Clock
  PROVE  /\ dmaReq'.valid => arbState' = "WAIT"
         /\ dmaState' = "FINISH" => arbState' = "IDLE"
<1>1. DmaClock(DmaAccess, HWData, Ready(1), Rsp(1))
  BY DEF Clock
<1>2. ASSUME dmaReq'.valid PROVE arbState' = "WAIT"
  <2>1. dmaReq' = DmaAccess
    BY <1>1 DEF DmaClock, RegisterClock
  <2>2. AddressActive
    BY <1>2, <2>1 DEF DmaAccess, Selects, NoAccess
  <2> QED BY <2>2, ArbNext DEF AddressActive
<1>3. ASSUME dmaState' = "FINISH" PROVE arbState' = "IDLE"
  <2>1. dmaState \in {"READ_WAIT", "WRITE_RESP"} /\ Ready(1)
    BY <1>1, <1>3 DEF DmaClock, Start, Idle, ReadAddress, ReadData, WriteAddress,
       WriteResponse, Finish
  <2>2. arbState = "RESP"
    BY <2>1, ReadyMeans
  <2>3. ArbClock(Req, HReady)
    BY DEF Clock
  <2> QED BY <2>2, <2>3 DEF ArbClock, Grant, NoRequest, AddressPhase, DataPhase,
         ResponsePhase, HReady
<1> QED BY <1>2, <1>3

\* The engine's own step: StatusOK is kept and an arrow followed.
LEMMA DmaEngineFollows ==
  ASSUME BusInv, StatusOK, NEW access, NEW wdata, wdata = HWData,
         DmaClock(access, wdata, Ready(1), Rsp(1))
  PROVE  /\ InFlight' => ~done' /\ remaining' # 0
         /\ dmaState' = "FINISH" => done' \/ error'
         /\ \/ DmaRests \/ StartsOver
            \/ FollowsPath(DmaPaths, DmaNode, DmaNode', DmaBox)
<1> USE DEF AhbDmaDiagram, Diagram
<1>1. StatusClock(wdata, Ready(1), Rsp(1))
  BY DEF DmaClock
<1>0. done \in BOOLEAN /\ error \in BOOLEAN /\ done' \in BOOLEAN /\ error' \in BOOLEAN
  BY <1>1, Zenon DEF StatusOK, StatusClock
<1> DEFINE Followed == \/ DmaRests \/ StartsOver
                       \/ FollowsPath(DmaPaths, DmaNode, DmaNode', DmaBox)
           Kept == /\ InFlight' => ~done' /\ remaining' # 0
                   /\ dmaState' = "FINISH" => done' \/ error'
           StatusKept == (done' <=> done) /\ (error' <=> error)
\* On the bus nothing may be taken without HREADY.
<1>w. ASSUME InFlight, ~Ready(1), dmaState' = dmaState, UNCHANGED <<Transfer, buffer>>
      PROVE  Kept /\ Followed
  <2>1. ~done' /\ ErrorByRegister
    <3>1. ~done' /\ ~StartOk(wdata) /\ ~BusFault(Ready(1), Rsp(1))
      BY <1>1, <1>w DEF StatusClock, StatusOK, InFlight, LastWord, BusFault, StartOk
    <3>2. error' <=> StartReq(wdata) \/ (error /\ ~Clear(wdata))
      BY <1>1, <3>1, Zenon DEF StatusClock, StartRejected
    <3> QED BY <3>1, <3>2 DEF ErrorByRegister
  <2>2. DmaNode \in {"ra", "rd", "wa", "wr"} /\ DmaNode' = DmaNode
    BY <1>w DEF DmaNode, StatusOK, InFlight
  <2>3. DmaRests
    BY <1>w, <2>1, <2>2 DEF DmaRests
  <2> QED BY <1>w, <2>1, <2>3 DEF StatusOK, InFlight, Transfer
\* On an edge on which it may, the status is the bus's to set.
<1>r. ASSUME InFlight, Ready(1)
      PROVE  /\ done' <=> LastWord(Ready(1), Rsp(1))
             /\ error' <=> BusFault(Ready(1), Rsp(1)) \/ error
             /\ BusFault(Ready(1), Rsp(1)) =>
                  Rsp(1).err /\ dmaState \in {"READ_WAIT", "WRITE_RESP"}
             /\ LastWord(Ready(1), Rsp(1)) =>
                  dmaState = "WRITE_RESP" /\ ~Rsp(1).err /\ remaining = 1
  <2>1. ~StartReq(wdata) /\ ~Clear(wdata)
    BY <1>r, NothingWritten
  <2>2. ~done /\ ~StartRejected(wdata) /\ ~StartOk(wdata)
    BY <1>r, <2>1 DEF StatusOK, StartRejected, StartOk
  <2>3. done' <=> LastWord(Ready(1), Rsp(1))
    BY <1>1, <2>2, Zenon DEF StatusClock
  <2>4. error' <=> BusFault(Ready(1), Rsp(1)) \/ error
    BY <1>1, <2>1, <2>2, Zenon DEF StatusClock
  <2> QED BY <2>3, <2>4 DEF BusFault, LastWord
<1>2. CASE Start(wdata)
  <2>1. /\ dmaState = "IDLE" /\ dmaState' = "READ_ADDR" /\ StartOk(wdata) /\ StartReq(wdata)
        /\ curSrc' = src /\ curDst' = dst /\ remaining' = len /\ buffer' = buffer
        /\ len # 0 /\ src % 4 = 0 /\ dst % 4 = 0
    BY <1>2 DEF Start, StartOk
  <2>2. ~done' /\ ~error'
    BY <1>1, <2>1 DEF StatusClock, LastWord, BusFault, StartRejected
  <2>3. Kept
    BY <2>1, <2>2 DEF InFlight
  <2>4. DmaNode \in {"idle", "done", "err"} /\ DmaNode' = "ra"
    BY <2>1 DEF DmaNode
  <2>b. DmaBox("START OK")
    BY <2>1, <2>2 DEF DmaBox, BadOperands, Enters
  <2>5. CASE DmaNode = "idle"
    BY <2>3, <2>4, <2>5, <2>b, AlongDmaArrow
  <2>6. CASE DmaNode # "idle"
    BY <2>b, <2>3, <2>4, <2>6 DEF StartsOver
  <2> QED BY <2>5, <2>6
<1>3. CASE Idle(wdata)
  <2>1. dmaState = "IDLE" /\ dmaState' = "IDLE" /\ ~StartOk(wdata)
        /\ UNCHANGED <<Transfer, buffer>>
    BY <1>3 DEF Idle
  <2>2. Kept
    BY <2>1 DEF InFlight
  <2>3. done' <=> (done /\ ~Clear(wdata) /\ ~StartReq(wdata))
    BY <1>1, <2>1 DEF StatusClock, LastWord
  <2>4. error' <=> StartReq(wdata) \/ (error /\ ~Clear(wdata))
    <3>1. ~BusFault(Ready(1), Rsp(1))
      BY <2>1 DEF BusFault
    <3>2. StartRejected(wdata) <=> StartReq(wdata)
      BY <2>1 DEF StartRejected
    <3>3. error' <=> \/ BusFault(Ready(1), Rsp(1)) \/ StartRejected(wdata)
                     \/ error /\ ~Clear(wdata) /\ ~StartOk(wdata)
      BY <1>1 DEF StatusClock
    <3> QED BY <2>1, <3>1, <3>2, <3>3
  <2>5. /\ DmaNode = IF done THEN "done" ELSE IF error THEN "err" ELSE "idle"
        /\ DmaNode' = IF done' THEN "done" ELSE IF error' THEN "err" ELSE "idle"
    BY <2>1 DEF DmaNode
  <2>6. CASE StartReq(wdata)
    <3>1. BadOperands
      BY <2>1, <2>6 DEF StartOk, BadOperands
    <3>2. Enters(FALSE, TRUE)
      BY <2>3, <2>4, <2>6 DEF Enters
    <3>3. DmaBox("BAD START")
      BY <2>1, <2>6, <3>1, <3>2 DEF DmaBox
    <3>4. DmaNode' = "err"
      BY <2>5, <3>2 DEF Enters
    <3>5. CASE DmaNode = "idle"
      BY <2>2, <3>3, <3>4, <3>5, AlongDmaArrow
    <3>6. CASE DmaNode # "idle"
      BY <2>2, <2>5, <3>3, <3>4, <3>6 DEF StartsOver
    <3> QED BY <3>5, <3>6
  <2>7. CASE ~StartReq(wdata) /\ Clear(wdata) /\ DmaNode # "idle"
    <3>1. DmaBox("CLEAR") /\ DmaNode' = "idle"
      BY <2>1, <2>3, <2>4, <2>5, <2>7 DEF DmaBox, Enters
    <3>2. DmaNode \in {"done", "err"}
      BY <2>5, <2>7
    <3> QED BY <2>2, <3>1, <3>2, AlongDmaArrow
  <2>8. CASE ~StartReq(wdata) /\ (DmaNode # "idle" => ~Clear(wdata))
    <3>1. StatusKept
      BY <2>3, <2>4, <2>5, <2>8
    <3>2. UNCHANGED <<done, error>>
      BY <1>0, <3>1
    <3>3. DmaNode \in {"done", "err", "idle"} /\ DmaNode' = DmaNode
      BY <2>5, <3>2
    <3>4. DmaRests
      BY <2>1, <2>8, <3>2, <3>3 DEF DmaRests
    <3> QED BY <2>2, <3>4
  <2> QED BY <2>6, <2>7, <2>8
<1>4. CASE ReadAddress(Ready(1))
  <2>1. dmaState = "READ_ADDR" /\ UNCHANGED <<Transfer, buffer>> /\ InFlight
        /\ dmaState' = IF Ready(1) THEN "READ_WAIT" ELSE "READ_ADDR"
    BY <1>4 DEF ReadAddress, InFlight
  <2>2. CASE ~Ready(1)
    BY <1>w, <2>1, <2>2
  <2>3. CASE Ready(1)
    <3>1. ~done' /\ (error' <=> error)
      BY <1>r, <2>1, <2>3
    <3>2. Kept
      BY <2>1, <2>3, <3>1 DEF StatusOK, InFlight, Transfer
    <3>3. DmaNode = "ra" /\ DmaNode' = "rd"
      BY <2>1, <2>3 DEF DmaNode
    <3>4. DmaBox("HREADY")
      BY <2>1, <2>3, <3>1 DEF DmaBox, Enters
    <3> QED BY <3>2, <3>3, <3>4, AlongDmaArrow
  <2> QED BY <2>2, <2>3
<1>5. CASE ReadData(Ready(1), Rsp(1))
  <2>1. /\ dmaState = "READ_WAIT" /\ UNCHANGED Transfer /\ InFlight
        /\ dmaState' = IF ~Ready(1) THEN "READ_WAIT"
                       ELSE IF Rsp(1).err THEN "FINISH" ELSE "WRITE_ADDR"
        /\ buffer' = IF Ready(1) /\ ~Rsp(1).err THEN Rsp(1).data ELSE buffer
    BY <1>5 DEF ReadData, InFlight
  <2>2. CASE ~Ready(1)
    BY <1>w, <2>1, <2>2
  <2>3. CASE Ready(1) /\ Rsp(1).err
    <3>1. ~done' /\ error'
      BY <1>r, <2>1, <2>3 DEF BusFault
    <3>2. Kept
      BY <2>1, <2>3, <3>1 DEF InFlight
    <3>3. DmaNode = "rd" /\ DmaNode' = "err"
      BY <2>1, <2>3, <3>1 DEF DmaNode
    <3>4. DmaBox("ERROR")
      BY <2>1, <2>3, <3>1 DEF DmaBox, Enters
    <3> QED BY <3>2, <3>3, <3>4, AlongDmaArrow
  <2>4. CASE Okay
    <3>0. Ready(1) /\ ~Rsp(1).err
      BY <2>4 DEF Okay
    <3>1. ~done' /\ (error' <=> error)
      BY <1>r, <2>1, <3>0
    <3>2. Kept
      BY <2>1, <3>0, <3>1 DEF StatusOK, InFlight, Transfer
    <3>3. DmaNode = "rd" /\ DmaNode' = "wa"
      BY <2>1, <3>0 DEF DmaNode
    <3>4. DmaBox("OKAY")
      BY <2>1, <2>4, <3>0, <3>1 DEF DmaBox, Enters
    <3> QED BY <3>2, <3>3, <3>4, AlongDmaArrow
  <2> QED BY <2>2, <2>3, <2>4 DEF Okay
<1>6. CASE WriteAddress(Ready(1))
  <2>1. dmaState = "WRITE_ADDR" /\ UNCHANGED <<Transfer, buffer>> /\ InFlight
        /\ dmaState' = IF Ready(1) THEN "WRITE_RESP" ELSE "WRITE_ADDR"
    BY <1>6 DEF WriteAddress, InFlight
  <2>2. CASE ~Ready(1)
    BY <1>w, <2>1, <2>2
  <2>3. CASE Ready(1)
    <3>1. ~done' /\ (error' <=> error)
      BY <1>r, <2>1, <2>3
    <3>2. Kept
      BY <2>1, <2>3, <3>1 DEF StatusOK, InFlight, Transfer
    <3>3. DmaNode = "wa" /\ DmaNode' = "wr"
      BY <2>1, <2>3 DEF DmaNode
    <3>4. DmaBox("HREADY")
      BY <2>1, <2>3, <3>1 DEF DmaBox, Enters
    <3> QED BY <3>2, <3>3, <3>4, AlongDmaArrow
  <2> QED BY <2>2, <2>3
<1>7. CASE WriteResponse(Ready(1), Rsp(1))
  <2>1. dmaState = "WRITE_RESP" /\ InFlight /\ remaining \in Nat /\ remaining # 0
        /\ buffer' = buffer
    BY <1>7 DEF WriteResponse, StatusOK, InFlight
  <2>2. CASE ~Ready(1)
    <3>1. dmaState' = dmaState /\ UNCHANGED Transfer
      BY <1>7, <2>1, <2>2 DEF WriteResponse
    <3> QED BY <1>w, <2>1, <2>2, <3>1
  <2>3. CASE Ready(1) /\ Rsp(1).err
    <3>1. dmaState' = "FINISH" /\ UNCHANGED Transfer
      BY <1>7, <2>3 DEF WriteResponse
    <3>2. ~done' /\ error'
      BY <1>r, <2>1, <2>3 DEF BusFault
    <3>3. Kept
      BY <3>1, <3>2 DEF InFlight
    <3>4. DmaNode = "wr" /\ DmaNode' = "err"
      BY <2>1, <3>1, <3>2 DEF DmaNode
    <3>5. DmaBox("ERROR")
      BY <2>1, <2>3, <3>1, <3>2 DEF DmaBox, Enters
    <3> QED BY <3>3, <3>4, <3>5, AlongDmaArrow
  <2>4. CASE Okay /\ remaining = 1
    <3>1. dmaState' = "FINISH" /\ UNCHANGED Transfer
      BY <1>7, <2>4 DEF WriteResponse, Okay
    <3>2. done' /\ (error' <=> error)
      BY <1>r, <2>1, <2>4 DEF LastWord, Okay
    <3>3. Kept
      BY <3>1, <3>2 DEF InFlight
    <3>4. DmaNode = "wr" /\ DmaNode' = "done"
      BY <2>1, <3>1, <3>2 DEF DmaNode
    <3>5. DmaBox("LAST")
      BY <2>1, <2>4, <3>1, <3>2 DEF DmaBox, Enters
    <3> QED BY <3>3, <3>4, <3>5, AlongDmaArrow
  <2>5. CASE Okay /\ remaining # 1
    <3>1. /\ dmaState' = "READ_ADDR" /\ remaining' = remaining - 1
          /\ curSrc' = curSrc + 4 /\ curDst' = curDst + 4
      BY <1>7, <2>5 DEF WriteResponse, Okay
    <3>2. ~done' /\ (error' <=> error)
      BY <1>r, <2>1, <2>5 DEF Okay
    <3>3. Kept
      BY <2>1, <2>5, <3>1, <3>2 DEF InFlight
    <3>4. DmaNode = "wr" /\ DmaNode' = "ra"
      BY <2>1, <3>1 DEF DmaNode
    <3>5. remaining > 1
      BY <2>1, <2>5
    <3>6. DmaBox("MORE")
      BY <2>1, <2>5, <3>1, <3>2, <3>5 DEF DmaBox, Enters
    <3> QED BY <3>3, <3>4, <3>6, AlongDmaArrow
  <2> QED BY <2>2, <2>3, <2>4, <2>5 DEF Okay
<1>8. CASE Finish
  <2>1. dmaState = "FINISH" /\ dmaState' = "IDLE" /\ (done \/ error)
        /\ UNCHANGED <<Transfer, buffer>>
    BY <1>8 DEF Finish, StatusOK
  <2>2. Kept
    BY <2>1 DEF InFlight
  <2>3. ~StartReq(wdata) /\ ~Clear(wdata)
    BY <2>1, NothingWritten
  <2>4. ~LastWord(Ready(1), Rsp(1)) /\ ~BusFault(Ready(1), Rsp(1))
        /\ ~StartRejected(wdata) /\ ~StartOk(wdata)
    BY <2>1, <2>3 DEF LastWord, BusFault, StartRejected, StartOk
  <2>5. StatusKept
    BY <1>1, <2>3, <2>4, Zenon DEF StatusClock
  <2>6. UNCHANGED <<done, error>>
    BY <1>0, <2>5
  <2>7. DmaNode \in {"done", "err"} /\ DmaNode' = DmaNode
    BY <2>1, <2>6 DEF DmaNode
  <2>8. DmaRests
    BY <2>1, <2>3, <2>6, <2>7 DEF DmaRests
  <2> QED BY <2>2, <2>8
<1> QED BY <1>2, <1>3, <1>4, <1>5, <1>6, <1>7, <1>8 DEF DmaClock

\* On every edge the DMA engine takes an arrow of its diagram, with the updates of
\* its box, or rests because it may take none, whatever the bus answers and the
\* software writes to its registers.
THEOREM DmaFollows == MCSpec => DmaFollowsDiagram
<1> DEFINE Move == \/ DmaRests \/ StartsOver
                   \/ FollowsPath(DmaPaths, DmaNode, DmaNode', DmaBox)
<1>1. MCInit => StatusOK
  <2>1. MCInit => /\ dmaState = "IDLE" /\ remaining = 0 /\ len = 0
                  /\ done = FALSE /\ error = FALSE /\ dmaReq = NoAccess
    BY Zenon DEF MCInit, Init, DmaInit
  <2>2. ASSUME dmaState = "IDLE", remaining = 0, len = 0, done = FALSE, error = FALSE,
               dmaReq = NoAccess
        PROVE  StatusOK
    BY <2>2 DEF StatusOK, InFlight, NoAccess
  <2> QED BY <2>1, <2>2
<1>2. BusInv /\ BusInv' /\ StatusOK /\ [MCNext]_<<vars, historyVars>>
        => StatusOK' /\ [Move]_vars
  <2> SUFFICES ASSUME BusInv, BusInv', StatusOK, [MCNext]_<<vars, historyVars>>
               PROVE  StatusOK' /\ [Move]_vars
    OBVIOUS
  <2>1. CASE Clock
    <3>1. DmaClock(DmaAccess, HWData, Ready(1), Rsp(1))
      BY <2>1 DEF Clock
    <3>2. /\ InFlight' => ~done' /\ remaining' # 0
          /\ dmaState' = "FINISH" => done' \/ error'
          /\ Move
      BY <3>1, DmaEngineFollows
    <3>3. StatusOK'
      BY <2>1, <3>2, RegistersStep DEF StatusOK, BusInv, TypeInv, TypeOK, DmaTypeOK
    <3> QED BY <3>2, <3>3
  <2>2. CASE UNCHANGED <<vars, historyVars>>
    <3>1. UNCHANGED vars
      BY <2>2
    <3>2. StatusOK'
      BY <3>1 DEF vars, dmaVars, arbVars, StatusOK, InFlight
    <3> QED BY <3>1, <3>2
  <2> QED BY <2>1, <2>2 DEF MCNext
<1>3. MCSpec => []BusInv
  BY HistoryIsInvisible, BusInvariant, PTL
<1> QED BY <1>1, <1>2, <1>3, PTL DEF MCSpec, DmaFollowsDiagram
===============================================================================
