-------------------------------- MODULE MCBus ---------------------------------
(***************************************************************************)
(* A small instance of CoreBus, with two history variables: how often a    *)
(* requester was overtaken, and what the running DMA transfer has to do.   *)
(***************************************************************************)
EXTENDS DmaDiagram

CONSTANT LineWords  \* the words of a cache line

\* No operation of the D-cache is longer than a line fill.
ASSUME LineAssumption ==
  /\ LineWords \in Nat
  /\ \A o \in Ops["D"] : o.beats < LineWords

VARIABLES
  overtaken,  \* overtaken[m]: grants to the other master while m was requesting
  fetchWaits, \* D-cache requests taken while an I-cache request was waiting
  job         \* the last accepted DMA transfer and the memory it started from

historyVars == <<overtaken, fetchWaits, job>>

\* Four SRAM words, the DMA registers at 32; nothing else is mapped.
MCMemAddrs == {0, 4, 8, 12}
MCDmaBase == 32
MCInitialMem == [a \in MCMemAddrs |-> 10 + a]
Unmapped == 16

Access(a, w, d, word, beats) ==
  [addr |-> a, write |-> w, data |-> d, word |-> word, beats |-> beats]
RegWrite(off, d) == Access(MCDmaBase + off, TRUE, d, TRUE, 0)
LineFill == Access(0, FALSE, 0, TRUE, 1)

\* Programming, starting and clearing the DMA, also wrongly; storing to a word
\* it copies; a line fill, whose second word may be unmapped.
DOps ==
  {RegWrite(DST, 4), RegWrite(DST, 12), RegWrite(LEN, 2), RegWrite(CTRL, 1),
   RegWrite(CTRL, 4), Access(8, TRUE, 10, TRUE, 0),
   Access(12, FALSE, 0, TRUE, 1)}
MCOps == [p \in Ports |-> IF p = "I" THEN {LineFill} ELSE DOps]

-------------------------------------------------------------------------------
NoJob == [on |-> FALSE]

MCInit ==
  /\ Init
  /\ overtaken = [m \in Masters |-> 0]
  /\ fetchWaits = 0
  /\ job = NoJob

RecordGrants ==
  /\ overtaken' =
       IF arbState = "IDLE" /\ arbState' = "ADDR"
       THEN [m \in Masters |-> IF m = owner' \/ ~Req[m] THEN 0
                               ELSE overtaken[m] + 1]
       ELSE overtaken
  /\ fetchWaits' = IF Granted("I", Wants) THEN 0
                   ELSE IF Granted("D", Wants) /\ Wants["I"] THEN fetchWaits + 1
                   ELSE fetchWaits

Words(base, n) == {base + 4 * i : i \in 0 .. n - 1}
Operands(j) == Words(j.src, j.len) \union Words(j.dst, j.len)

\* A CPU store to an operand voids the job's promise, and registers are no memory.
CpuStores(a) == owner = 0 /\ memReq.valid /\ memReq.write /\ memReq.addr = a

\* The promise: memory after the first words of the job, copied one after the
\* other, so that an overlapping destination is read back by the words that follow.
Promised(from) ==
  [on |-> TRUE, src |-> src, dst |-> dst, len |-> len, words |-> 0, image |-> from]
OneMoreWord(j) ==
  LET from == j.src + 4 * j.words
      to   == j.dst + 4 * j.words
  IN  [j EXCEPT !.words = @ + 1, !.image[to] = j.image[from]]

DmaStores == owner = 1 /\ memReq.valid /\ memReq.write

RecordJob ==
  job' = IF StartOk(HWData)
         THEN IF Operands(Promised(mem)) \intersect DmaWindow = {}
              THEN Promised(mem) ELSE NoJob
         ELSE IF job.on /\ \E a \in Operands(job) : CpuStores(a) THEN NoJob
         ELSE IF job.on /\ DmaStores THEN OneMoreWord(job)
         ELSE job

MCNext == Clock /\ RecordGrants /\ RecordJob
MCSpec == MCInit /\ [][MCNext]_<<vars, historyVars>>
            /\ WF_vars(Outstanding /\ Clock)

-------------------------------------------------------------------------------
\* Words of the destination that hold their copy.
WordsWritten ==
  CASE dmaState = "WRITE_RESP" /\ arbState = "RESP" /\ ~MuxRsp.err
                                  -> job.len - remaining + 1
    [] dmaState = "FINISH" /\ done -> job.len
    [] OTHER                       -> job.len - remaining

\* While a transfer runs and when it finishes, its operands are what copying
\* WordsWritten words in ascending order gives: no word is skipped, repeated or
\* written early, also when it overlaps its source, ends in a bus error, or has
\* its registers reprogrammed and restarted under it.
DmaCopiesInOrder ==
  Busy /\ job.on =>
    /\ job.words = WordsWritten
    /\ \A a \in Operands(job) \intersect MemAddrs : mem[a] = job.image[a]

\* A master that requests the bus is overtaken by the other at most once.
MasterOvertakenOnce == \A m \in Masters : overtaken[m] <= 1

\* Instruction fetch waits for at most one whole D-cache line fill.
FetchOvertakenByOneFill == fetchWaits <= LineWords

\* What ahb_dma_design_spec.md says of a transfer that has ended: it was either
\* done or in error.
StatusIsExclusive == ~(done /\ error)
===============================================================================
