----------------------------- MODULE CacheProofs ------------------------------
(***************************************************************************)
(* Proofs about CachedMemory, for any number of entries, any line length   *)
(* and any memory map: type correctness, that the sequencers exclude each  *)
(* other, that valid lines agree with memory, and that loads are current;  *)
(* then that the caches implement NoncoherentMemory, and that their FSMs   *)
(* follow their diagrams.  The invariant has a part for each cache, which  *)
(* the steps of the other leave alone.                                     *)
(***************************************************************************)
EXTENDS CacheDiagrams, DiagramProofs, TLAPS

USE CacheAssumption, MemoryAssumption

\* Port p, if not left behind at a, has the word there right.
Knows(p, a, word) == <<p, a>> \notin behind => word = mem[CellOf[a]]

\* A request carried out has its answer.
Answered(p) ==
  op[p].phase = "done" =>
    /\ op[p].rsp.err = ~Succeeds(op[p].req)
    /\ ~op[p].rsp.err =>
         Knows(p, op[p].req.addr, IF op[p].req.write THEN op[p].req.data
                                  ELSE op[p].rsp.data)

\* The words a fill has so far.
FillOK(p, fill) ==
  \A b \in Beats :
    fill.state # "IDLE" /\ (b < fill.beat \/ fill.state = "DONE") =>
      LET a == [line |-> fill.line, beat |-> b] IN
      /\ ~fill.error => a \in Readable
      /\ a \in Readable => Knows(p, a, fill.data[b])

-------------------------------------------------------------------------------
(* The part of the I-cache.                                                *)

IType == ICacheTypeOK /\ op["I"] \in [phase : {"idle", "pending", "done"},
                                      req : Access, rsp : Reply]
ISequencer ==
  /\ icFill.state # "IDLE" <=> icState = "MISS_WAIT"
  /\ op["I"].phase # "idle" <=> icFill.state = "WAIT"
  /\ icState = "MISS_WAIT" => icFill.line = icAddr.line
IOwned ==
  /\ op["I"].phase # "idle" =>
       op["I"].req = [NoAccess EXCEPT !.addr = FillAddr(icFill)]
  /\ icState \in {"MISS_REQ", "MISS_WAIT"} => ~Hit(icTags, icAddr.line)
ILines ==
  \A a \in Addr : Hit(icTags, a.line) =>
    a \in Readable /\ Knows("I", a, WordAt(icLines, a))
ILoads == icState = "RESP" /\ ~icRsp.err => Knows("I", icAddr, icRsp.data)

IInv == IType /\ ISequencer /\ IOwned /\ Answered("I") /\ FillOK("I", icFill)
          /\ ILines /\ ILoads

-------------------------------------------------------------------------------
(* The part of the D-cache.                                                *)

DType == DCacheTypeOK /\ op["D"] \in [phase : {"idle", "pending", "done"},
                                      req : Access, rsp : Reply]
DSequencer ==
  /\ dcFill.state # "IDLE" <=> dcState = "LOAD_REFILL_WAIT"
  /\ dcStore.state # "IDLE" <=> dcState = "STORE_WAIT"
  /\ dcUncached.state # "IDLE" <=> dcState = "UNCACHED_WAIT"
  /\ op["D"].phase # "idle"
       <=> "WAIT" \in {dcFill.state, dcStore.state, dcUncached.state}
  /\ dcState = "LOAD_REFILL_WAIT" => dcFill.line = dcReq.addr.line
  /\ dcState = "STORE_WAIT" => dcStore.req = dcReq
  /\ dcState = "UNCACHED_WAIT" => dcUncached.req = dcReq

\* What the control's state says of the request, and of the one on the bus.
DOwned ==
  /\ dcState \in {"LOAD_REFILL_REQ", "LOAD_REFILL_WAIT"} =>
       dcReq.addr.line \in Cacheable /\ ~Hit(dcTags, dcReq.addr.line)
  /\ dcState \in {"STORE_REQ", "STORE_WAIT"} =>
       dcReq.write /\ (storeHit <=> Hit(dcTags, dcReq.addr.line))
  /\ dcState \in {"UNCACHED_REQ", "UNCACHED_WAIT"} =>
       dcReq.addr.line \notin Cacheable
  /\ op["D"].phase # "idle" =>
       op["D"].req = IF dcState = "LOAD_REFILL_WAIT"
                     THEN [NoAccess EXCEPT !.addr = FillAddr(dcFill)]
                     ELSE dcReq
  /\ \A i \in Indices : dcTags[i] \in Cacheable \union {NoLine}

SequencersDone ==
  /\ dcStore.state = "DONE" /\ ~dcStore.error =>
       Knows("D", dcReq.addr, dcReq.data)
  /\ dcUncached.state = "DONE" /\ ~dcUncached.rsp.err /\ ~dcReq.write =>
       Knows("D", dcReq.addr, dcUncached.rsp.data)
DLines ==
  \A a \in Addr : Hit(dcTags, a.line) =>
    a \in Readable /\ Knows("D", a, CachedWord("D", a))
DLoads == dcState = "RESP" /\ ~dcRsp.err /\ ~dcReq.write =>
            Knows("D", dcReq.addr, dcRsp.data)

DInv == DType /\ DSequencer /\ DOwned /\ Answered("D") /\ FillOK("D", dcFill)
          /\ SequencersDone /\ DLines /\ DLoads

Storage == /\ op \in [Ports -> [phase : {"idle", "pending", "done"},
                                req : Access, rsp : Reply]]
           /\ mem \in [Cells -> Words] /\ behind \subseteq Ports \X Addr

CacheInv == Storage /\ IInv /\ DInv
-------------------------------------------------------------------------------
(* The leaves.                                                             *)

LEMMA FirstBeat == 0 \in Beats
  BY DEF Beats

LEMMA ResetTypes == FillReset \in Fill /\ FillAddr(FillReset) \in Addr
                    /\ NoAccess \in Access /\ NoReply \in Reply
<1> DEFINE l == CHOOSE x \in Lines : TRUE
<1>1. l \in Lines
  OBVIOUS
<1> HIDE DEF l
<1>2. FillStarted(l) \in Fill
  BY <1>1, FirstBeat DEF FillStarted, Fill, LineData
<1>3. FillReset = [FillStarted(l) EXCEPT !.state = "IDLE"]
  BY DEF FillReset, l
<1>4. FillReset \in Fill
  BY <1>2, <1>3 DEF Fill
<1>5. QED
  BY <1>4 DEF Fill, FillAddr, Addr, NoAccess, Access, NoReply, Reply

\* A started fill has no word yet.
LEMMA StartedFill ==
  ASSUME NEW l \in Lines
  PROVE  /\ FillStarted(l) \in Fill
         /\ FillStarted(l).state = "REQ" /\ FillStarted(l).line = l
         /\ FillStarted(l).beat = 0
  BY FirstBeat DEF FillStarted, Fill, LineData

LEMMA RequestedFill ==
  ASSUME NEW f \in Fill
  PROVE  /\ FillRequested(f) \in Fill
         /\ FillRequested(f).state = "WAIT"
         /\ FillRequested(f).line = f.line /\ FillRequested(f).beat = f.beat
         /\ FillRequested(f).data = f.data /\ FillRequested(f).error = f.error
  BY DEF FillRequested, Fill

\* An answered fill has the word of its beat, and the words it had before.
LEMMA AnsweredFill ==
  ASSUME NEW f \in Fill, NEW rsp \in Reply, f.state = "WAIT"
  PROVE  LET g == FillAnswered(f, rsp) IN
         /\ g \in Fill /\ g.line = f.line
         /\ g.error = (f.error \/ rsp.err)
         /\ g.state \in {"REQ", "DONE"}
         /\ g.data[f.beat] = rsp.data
         /\ \A b \in Beats : b # f.beat => g.data[b] = f.data[b]
         /\ \A b \in Beats : b < g.beat \/ g.state = "DONE" => b <= f.beat
<1> DEFINE last == f.beat = LastBeat
           beat == IF last THEN f.beat ELSE f.beat + 1
           data == [f.data EXCEPT ![f.beat] = rsp.data]
           g == FillAnswered(f, rsp)
<1>1. f.beat \in Nat /\ f.beat <= LastBeat /\ beat \in Beats
  BY DEF Fill, Beats
<1>2. data \in LineData /\ data[f.beat] = rsp.data
      /\ \A b \in Beats : b # f.beat => data[b] = f.data[b]
  BY DEF Fill, LineData, Reply
<1>3. /\ g.line = f.line /\ g.beat = beat /\ g.data = data
      /\ g.error = (f.error \/ rsp.err)
      /\ g.state = IF last THEN "DONE" ELSE "REQ"
  BY DEF FillAnswered, Fill
<1>4. g \in Fill
  BY <1>1, <1>2 DEF FillAnswered, Fill, Reply
<1>5. \A b \in Beats : b < g.beat \/ g.state = "DONE" => b <= f.beat
  BY <1>1, <1>3 DEF Beats
<1>6. QED
  BY <1>2, <1>3, <1>4, <1>5

-------------------------------------------------------------------------------
(* What the memory path does to what a port knows.                         *)

\* The request carried out is known afterwards, and all else that was known
\* still is.
LEMMA PerformKnows ==
  ASSUME Storage, NEW p \in Ports, Perform(p), NEW a \in Addr,
         NEW q \in Ports, NEW word
  PROVE  /\ <<q, a>> # <<p, op[p].req.addr>> /\ Knows(q, a, word)
              => Knows(q, a, word)'
         /\ Answered(p)'
<1> DEFINE req == op[p].req
<1>0. req \in Access /\ req.addr \in Addr /\ CellOf[req.addr] \in Cells
  BY DEF Storage, Access
<1>1. /\ op'[p].req = req /\ op'[p].rsp = AnswerTo(req)
  BY DEF Perform, Storage
<1>2. ASSUME <<q, a>> # <<p, req.addr>>, Knows(q, a, word), <<q, a>> \notin behind'
      PROVE  word = mem'[CellOf[a]]
  <2>1. <<q, a>> \notin behind
    BY <1>2 DEF Perform
  <2>2. CASE Succeeds(req) /\ req.write
    <3>1. <<q, a>> \notin Overtakes(p, req)
      BY <1>2, <2>2 DEF Perform
    <3>2. CellOf[a] # CellOf[req.addr]
      BY <3>1, <1>2 DEF Overtakes
    <3>3. mem'[CellOf[a]] = mem[CellOf[a]]
      BY <3>2, <2>2 DEF Perform, Storage
    <3>4. QED
      BY <3>3, <2>1, <1>2 DEF Knows
  <2>3. CASE ~(Succeeds(req) /\ req.write)
    <3>1. mem' = mem
      BY <2>3 DEF Perform
    <3>2. QED
      BY <3>1, <2>1, <1>2 DEF Knows
  <2>4. QED
    BY <2>2, <2>3
<1>3. Answered(p)'
  <2>1. AnswerTo(req).err = ~Succeeds(req)
    BY DEF AnswerTo
  <2>2. ASSUME Succeeds(req)
        PROVE  (IF req.write THEN req.data ELSE AnswerTo(req).data)
                 = mem'[CellOf[req.addr]]
    <3>1. CASE req.write
      BY <3>1, <2>2, <1>0 DEF Perform, Storage
    <3>2. CASE ~req.write
      BY <3>2, <2>2 DEF Perform, AnswerTo
    <3>3. QED
      BY <3>1, <3>2
  <2>3. QED
    BY <1>1, <2>1, <2>2 DEF Answered, Knows, Succeeds
<1>4. QED
  BY <1>2, <1>3 DEF Knows

LEMMA DmaKnows ==
  ASSUME Storage, DmaWrite, NEW a \in Addr, NEW q \in Ports, NEW word,
         Knows(q, a, word)
  PROVE  Knows(q, a, word)'
<1> SUFFICES ASSUME <<q, a>> \notin behind'
             PROVE  word = mem'[CellOf[a]]
  BY DEF Knows
<1>1. PICK req \in DmaWrites :
        /\ mem' = [mem EXCEPT ![CellOf[req.addr]] = req.data]
        /\ behind' = behind \union Overtakes("DMA", req)
  BY DEF DmaWrite
<1>2. <<q, a>> # <<"DMA", req.addr>>
  BY DEF Ports
<1>3. CellOf[a] # CellOf[req.addr]
  BY <1>1, <1>2 DEF Overtakes
<1>4. QED
  BY <1>1, <1>3 DEF Knows, Storage

-------------------------------------------------------------------------------
(* A step of one cache leaves the part of the other alone.                 *)

LEMMA IUntouched ==
  ASSUME IInv, UNCHANGED <<icVars, mem, behind>>, op'["I"] = op["I"]
  PROVE  IInv'
<1> USE DEF icVars
<1>1. IType' /\ ISequencer' /\ IOwned'
  BY DEF IInv, IType, ICacheTypeOK, ISequencer, IOwned, Hit
<1>2. Answered("I")' /\ FillOK("I", icFill)'
  BY DEF IInv, Answered, FillOK, Knows, Succeeds
<1>3. ILines' /\ ILoads'
  BY DEF IInv, ILines, ILoads, Knows, Hit, WordAt
<1>4. QED
  BY <1>1, <1>2, <1>3 DEF IInv

LEMMA DUntouched ==
  ASSUME DInv, UNCHANGED <<dcVars, mem, behind>>, op'["D"] = op["D"]
  PROVE  DInv'
<1> USE DEF dcVars
<1>1. DType' /\ DSequencer' /\ DOwned'
  BY DEF DInv, DType, DCacheTypeOK, DSequencer, DOwned, Hit
<1>2. Answered("D")' /\ FillOK("D", dcFill)' /\ SequencersDone'
  BY DEF DInv, Answered, FillOK, SequencersDone, Knows, Succeeds
<1>3. DLines' /\ DLoads'
  BY DEF DInv, DLines, DLoads, Knows, Hit, WordAt, CachedWord, MergePending
<1>4. QED
  BY <1>1, <1>2, <1>3 DEF DInv

-------------------------------------------------------------------------------
(* The initial state.                                                      *)

LEMMA InitInv ==
  ASSUME Init
  PROVE  CacheInv
<1> USE ResetTypes DEF Init
<1>1. FillReset.state = "IDLE"
  BY DEF FillReset, FillStarted
<1>2. NoOp \in [phase : {"idle", "pending", "done"}, req : Access, rsp : Reply]
  BY DEF NoOp
<1>3. \A line \in Lines : ~Hit(NoTags, line)
  BY DEF Hit, NoTags
<1>4. Storage
  BY <1>2 DEF Storage, Ports
<1>5. op["I"] = NoOp /\ op["D"] = NoOp
  BY DEF Ports
<1>6. [b \in Beats |-> Zero] \in LineData
  BY DEF LineData
<1>7. IInv
  <2>1. IType
    BY <1>2, <1>5, <1>6 DEF IType, ICacheTypeOK, ICacheInit, Tags, NoTags
  <2>2. ISequencer /\ IOwned /\ Answered("I")
    BY <1>1, <1>5 DEF ISequencer, IOwned, Answered, ICacheInit, NoOp
  <2>3. FillOK("I", icFill)
    BY <1>1 DEF FillOK, ICacheInit
  <2>4. ILines /\ ILoads
    BY <1>3 DEF ILines, ILoads, ICacheInit, Addr
  <2>5. QED
    BY <2>1, <2>2, <2>3, <2>4 DEF IInv
<1>8. DInv
  <2>1. DType
    BY <1>2, <1>5, <1>6
       DEF DType, DCacheTypeOK, DCacheInit, Tags, NoTags, CtrlStates,
           StoreReset, SeqStates, UncachedReset
  <2>2. DSequencer /\ Answered("D")
    BY <1>1, <1>5 DEF DSequencer, Answered, DCacheInit, NoOp, StoreReset,
                      UncachedReset
  <2>3. DOwned
    BY <1>5 DEF DOwned, DCacheInit, NoOp, NoTags
  <2>4. FillOK("D", dcFill)
    BY <1>1 DEF FillOK, DCacheInit
  <2>5. SequencersDone
    BY DEF SequencersDone, DCacheInit, StoreReset, UncachedReset
  <2>6. DLines /\ DLoads
    BY <1>3 DEF DLines, DLoads, DCacheInit, Addr
  <2>7. QED
    BY <2>1, <2>2, <2>3, <2>4, <2>5, <2>6 DEF DInv
<1>9. QED
  BY <1>4, <1>7, <1>8 DEF CacheInv

-------------------------------------------------------------------------------
(* The steps of the I-cache.                                               *)

LEMMA ReadAccess ==
  ASSUME NEW a \in Addr
  PROVE  LET req == [NoAccess EXCEPT !.addr = a] IN
         req \in Access /\ req.addr = a /\ ~req.write
  BY DEF NoAccess, Access

\* What is known stays known while nobody uses the memory.
LEMMA QuietKnows ==
  ASSUME UNCHANGED <<mem, behind>>, NEW p, NEW a, NEW word
  PROVE  Knows(p, a, word)' <=> Knows(p, a, word)
  BY DEF Knows

LEMMA FetchKeepsInv ==
  ASSUME IInv, Frontend \/ FrontendTakes
  PROVE  IInv'
<1> USE DEF InCache
<1>1. UNCHANGED <<op, mem, behind, icTags, icLines, icFill>>
  BY DEF Frontend, FrontendTakes, FetchHit, FetchMiss, FetchRespond
<1>2. Answered("I")' /\ FillOK("I", icFill)' /\ ILines'
  BY <1>1, QuietKnows
     DEF IInv, Answered, FillOK, ILines, Hit, WordAt, Knows, Succeeds
<1>3. CASE Frontend
  <2>1. PICK a \in Fetches : FetchHit(a) \/ FetchMiss(a)
    BY <1>3 DEF Frontend
  <2>2. a \in Addr
    OBVIOUS
  <2>3. a.line \in Lines /\ a.beat \in Beats
    BY <2>2 DEF Addr
  <2>4. icFill.state = "IDLE" /\ op["I"].phase = "idle"
    BY <2>1 DEF IInv, ISequencer, FetchHit, FetchMiss
  <2>5. WordAt(icLines, a) \in Words
    BY <2>3 DEF WordAt, IInv, IType, ICacheTypeOK, LineData
  <2>6. IType'
    <3>1. [data |-> WordAt(icLines, a), err |-> FALSE] \in Reply
      BY <2>5 DEF Reply
    <3>2. icRsp' \in Reply /\ icAddr' \in Addr /\ icState' \in {"RESP", "MISS_REQ"}
      BY <2>1, <2>2, <3>1 DEF IInv, IType, ICacheTypeOK, FetchHit, FetchMiss
    <3>3. QED
      BY <1>1, <3>2 DEF IInv, IType, ICacheTypeOK
  <2>7. ISequencer' /\ IOwned'
    BY <1>1, <2>1, <2>4 DEF ISequencer, IOwned, FetchHit, FetchMiss, Hit
  <2>8. ILoads'
    BY <1>1, <2>1, <2>2
       DEF IInv, ILines, ILoads, FetchHit, FetchMiss, Hit, Knows
  <2>9. QED
    BY <1>2, <2>6, <2>7, <2>8 DEF IInv
<1>4. CASE FrontendTakes
  <2>1. IType' /\ ISequencer' /\ IOwned' /\ ILoads'
    BY <1>1, <1>4, ResetTypes
       DEF FrontendTakes, FetchRespond, IInv, IType, ICacheTypeOK, ISequencer,
           IOwned, ILoads
  <2>2. QED
    BY <1>2, <2>1 DEF IInv
<1>5. QED
  BY <1>3, <1>4

LEMMA FetchFillStartKeepsInv ==
  ASSUME IInv, FetchFillStart, InCache
  PROVE  IInv'
<1> USE DEF FetchFillStart, InCache
<1> DEFINE l == icAddr.line
<1>1. l \in Lines
  BY DEF IInv, IType, ICacheTypeOK, Addr
<1>2. /\ icFill' \in Fill /\ icFill'.state = "REQ" /\ icFill'.line = l
      /\ icFill'.beat = 0
  BY <1>1, StartedFill
<1>3. IType' /\ ISequencer' /\ IOwned' /\ ILoads'
  BY <1>2 DEF IInv, IType, ICacheTypeOK, ISequencer, IOwned, ILoads, Hit
<1>4. Answered("I")' /\ ILines'
  BY DEF IInv, Answered, ILines, Hit, WordAt, Knows, Succeeds
<1>5. FillOK("I", icFill)'
  BY <1>2 DEF FillOK, Beats
<1>6. QED
  BY <1>3, <1>4, <1>5 DEF IInv

LEMMA FetchFillRequestKeepsInv ==
  ASSUME Storage, IInv, FetchFillRequest,
         Issue("I", [NoAccess EXCEPT !.addr = FillAddr(icFill)])
  PROVE  IInv'
<1> DEFINE req == [NoAccess EXCEPT !.addr = FillAddr(icFill)]
<1>1. icFill \in Fill /\ icFill.state = "REQ" /\ FillAddr(icFill) \in Addr
  BY DEF IInv, IType, ICacheTypeOK, FetchFillRequest, FillAddr, Fill, Addr
<1>2. req \in Access
  BY <1>1, ReadAccess
<1>3. op'["I"] = [phase |-> "pending", req |-> req, rsp |-> NoReply]
  BY DEF Issue, Storage, Ports
<1>4. /\ icFill' \in Fill /\ icFill'.state = "WAIT"
      /\ icFill'.line = icFill.line /\ icFill'.beat = icFill.beat
      /\ icFill'.data = icFill.data /\ icFill'.error = icFill.error
  BY <1>1, RequestedFill DEF FetchFillRequest
<1>5. IType'
  BY <1>2, <1>3, <1>4, ResetTypes
     DEF IInv, IType, ICacheTypeOK, FetchFillRequest
<1>6. ISequencer'
  BY <1>1, <1>3, <1>4 DEF IInv, ISequencer, FetchFillRequest
<1>7. FillAddr(icFill)' = FillAddr(icFill)
  BY <1>4 DEF FillAddr
<1>8. IOwned'
  BY <1>3, <1>7 DEF IInv, IOwned, FetchFillRequest, Hit
<1>9. Answered("I")' /\ ILines' /\ ILoads'
  BY <1>3 DEF IInv, Answered, ILines, ILoads, Hit, WordAt, Knows,
              FetchFillRequest, Issue
<1>10. FillOK("I", icFill)'
  BY <1>1, <1>4 DEF IInv, FillOK, Knows, Issue
<1>11. QED
  BY <1>5, <1>6, <1>8, <1>9, <1>10 DEF IInv

\* The words of a fill after it took the answer of its beat.
LEMMA AnswerKeepsFill ==
  ASSUME NEW p \in Ports, NEW fill \in Fill, fill.state = "WAIT",
         op[p].rsp \in Reply, op[p].phase = "done",
         op[p].req = [NoAccess EXCEPT !.addr = FillAddr(fill)],
         Answered(p), FillOK(p, fill)
  PROVE  FillOK(p, FillAnswered(fill, op[p].rsp))
<1> DEFINE rsp == op[p].rsp
           new == FillAnswered(fill, rsp)
           here == FillAddr(fill)
           At(b) == [line |-> fill.line, beat |-> b]
<1>1. /\ new.line = fill.line /\ new.error = (fill.error \/ rsp.err)
      /\ new.data[fill.beat] = rsp.data
      /\ \A b \in Beats : b # fill.beat => new.data[b] = fill.data[b]
      /\ \A b \in Beats : b < new.beat \/ new.state = "DONE" => b <= fill.beat
  BY AnsweredFill
<1>2. here \in Addr /\ op[p].req.addr = here /\ ~op[p].req.write
  BY ReadAccess DEF FillAddr, Fill, Addr
<1>3. rsp.err = (here \notin Readable) /\ (~rsp.err => Knows(p, here, rsp.data))
  BY <1>2 DEF Answered, Succeeds
<1>4. ASSUME NEW b \in Beats, b < new.beat \/ new.state = "DONE"
      PROVE  /\ ~new.error => At(b) \in Readable
             /\ At(b) \in Readable => Knows(p, At(b), new.data[b])
  <2>1. CASE b = fill.beat
    <3>1. At(b) = here
      BY <2>1 DEF FillAddr
    <3>2. rsp.err \in BOOLEAN /\ fill.error \in BOOLEAN
      BY DEF Reply, Fill
    <3>3. new.data[b] = rsp.data
      BY <2>1, <1>1
    <3>4. QED
      BY <1>1, <1>3, <3>1, <3>2, <3>3
  <2>2. CASE b # fill.beat
    <3>1. b < fill.beat
      BY <1>1, <1>4, <2>2 DEF Beats, Fill
    <3>2. /\ ~fill.error => At(b) \in Readable
          /\ At(b) \in Readable => Knows(p, At(b), fill.data[b])
      BY <3>1 DEF FillOK
    <3>3. new.data[b] = fill.data[b]
      BY <1>1, <2>2
    <3>4. QED
      BY <1>1, <3>2, <3>3
  <2>3. QED
    BY <2>1, <2>2
<1>5. QED
  BY <1>1, <1>4 DEF FillOK

LEMMA FetchFillAnswerKeepsInv ==
  ASSUME Storage, IInv, FetchFillAnswer(op["I"].rsp), Collect("I")
  PROVE  IInv'
<1> DEFINE rsp == op["I"].rsp
<1>1. /\ icFill \in Fill /\ icFill.state = "WAIT" /\ rsp \in Reply
      /\ op["I"].phase = "done"
      /\ op["I"].req = [NoAccess EXCEPT !.addr = FillAddr(icFill)]
  BY DEF IInv, IType, ICacheTypeOK, IOwned, FetchFillAnswer, Collect
<1>2. op'["I"] = NoOp
  BY DEF Collect, Storage, Ports
<1>3. icFill' = FillAnswered(icFill, rsp)
  BY DEF FetchFillAnswer
<1>4. /\ icFill' \in Fill /\ icFill'.line = icFill.line
      /\ icFill'.state \in {"REQ", "DONE"}
  BY <1>1, <1>3, AnsweredFill
<1>5. IType'
  BY <1>2, <1>4, ResetTypes
     DEF IInv, IType, ICacheTypeOK, FetchFillAnswer, NoOp
<1>6. ISequencer' /\ IOwned' /\ Answered("I")'
  BY <1>1, <1>2, <1>4
     DEF IInv, ISequencer, IOwned, Answered, FetchFillAnswer, NoOp, Hit
<1>7. ILines' /\ ILoads'
  BY DEF IInv, ILines, ILoads, Hit, WordAt, Knows, FetchFillAnswer, Collect
<1>8. FillOK("I", icFill)'
  <2>1. FillOK("I", FillAnswered(icFill, rsp))
    BY <1>1, AnswerKeepsFill DEF IInv, Ports
  <2>2. QED
    BY <2>1, <1>3 DEF FillOK, Knows, Collect
<1>9. QED
  BY <1>5, <1>6, <1>7, <1>8 DEF IInv

\* The arrays after a finished fill entered them: a line that hits is the
\* filled one, and was read without an error, or one that hit before.
LEMMA RefilledArrays ==
  ASSUME NEW tags \in Tags, NEW lines \in [Indices -> LineData],
         NEW fill \in Fill, NEW a \in Addr
  PROVE  /\ TagRefill(tags, fill) \in Tags
         /\ LineRefill(lines, fill) \in [Indices -> LineData]
         /\ Hit(TagRefill(tags, fill), a.line) =>
              \/ /\ a.line = fill.line /\ ~fill.error
                 /\ WordAt(LineRefill(lines, fill), a) = fill.data[a.beat]
              \/ /\ Hit(tags, a.line)
                 /\ WordAt(LineRefill(lines, fill), a) = WordAt(lines, a)
<1> DEFINE i == IndexOf[fill.line]
<1>1. /\ fill.line \in Lines /\ fill.data \in LineData /\ fill.error \in BOOLEAN
      /\ i \in Indices /\ a.line \in Lines /\ IndexOf[a.line] \in Indices
  BY DEF Fill, Addr
<1>2. TagRefill(tags, fill) \in Tags
  BY <1>1 DEF TagRefill, Tags
<1>3. LineRefill(lines, fill) \in [Indices -> LineData]
  BY <1>1 DEF LineRefill
<1>4. CASE IndexOf[a.line] = i
  BY <1>1, <1>4 DEF Hit, WordAt, TagRefill, LineRefill, Tags
<1>5. CASE IndexOf[a.line] # i
  BY <1>1, <1>5 DEF Hit, WordAt, TagRefill, LineRefill, Tags
<1>6. QED
  BY <1>2, <1>3, <1>4, <1>5

LEMMA FetchFillAcceptKeepsInv ==
  ASSUME IInv, FetchFillAccept, InCache
  PROVE  IInv'
<1>1. /\ icTags \in Tags /\ icLines \in [Indices -> LineData] /\ icFill \in Fill
      /\ icAddr \in Addr /\ icFill.line = icAddr.line /\ icFill.state = "DONE"
  BY DEF IInv, IType, ICacheTypeOK, ISequencer, FetchFillAccept
<1>2. icFill' = FillReset /\ icFill'.state = "IDLE" /\ icFill' \in Fill
  BY ResetTypes DEF FetchFillAccept, FillTaken, FillReset, FillStarted
<1>3. /\ icAddr.beat \in Beats
      /\ icAddr = [line |-> icFill.line, beat |-> icAddr.beat]
  BY <1>1 DEF Addr
<1>4. IType'
  <2>1. icTags' \in Tags /\ icLines' \in [Indices -> LineData]
    BY <1>1, RefilledArrays DEF FetchFillAccept
  <2>2. icFill.data[icAddr.beat] \in Words /\ icFill.error \in BOOLEAN
    BY <1>1, <1>3 DEF Fill, LineData
  <2>3. icRsp' \in Reply
    BY <2>2 DEF FetchFillAccept, Reply
  <2>4. QED
    BY <2>1, <2>3, <1>2
       DEF IInv, IType, ICacheTypeOK, FetchFillAccept, InCache
<1>5. ISequencer' /\ IOwned'
  BY <1>1, <1>2 DEF IInv, ISequencer, IOwned, FetchFillAccept, InCache
<1>6. Answered("I")'
  BY DEF IInv, Answered, Knows, Succeeds, InCache
<1>7. FillOK("I", icFill)'
  BY <1>2 DEF FillOK
<1>8. ILines'
  <2> SUFFICES ASSUME NEW a \in Addr, Hit(icTags', a.line)
               PROVE  a \in Readable /\ Knows("I", a, WordAt(icLines', a))
    BY QuietKnows DEF ILines, Knows, InCache
  <2>1. CASE /\ a.line = icFill.line /\ ~icFill.error
             /\ WordAt(icLines', a) = icFill.data[a.beat]
    <3>1. a = [line |-> icFill.line, beat |-> a.beat] /\ a.beat \in Beats
      BY <2>1 DEF Addr
    <3>2. QED
      BY <3>1, <2>1, <1>1 DEF IInv, FillOK
  <2>2. CASE Hit(icTags, a.line) /\ WordAt(icLines', a) = WordAt(icLines, a)
    BY <2>2 DEF IInv, ILines
  <2>3. QED
    BY <2>1, <2>2, <1>1, RefilledArrays DEF FetchFillAccept
<1>9. ILoads'
  <2>1. ASSUME ~icFill.error
        PROVE  Knows("I", icAddr, icFill.data[icAddr.beat])
    BY <2>1, <1>1, <1>3 DEF IInv, FillOK
  <2>2. QED
    BY <2>1 DEF ILoads, FetchFillAccept, Knows, InCache
<1>10. QED
  BY <1>4, <1>5, <1>6, <1>7, <1>8, <1>9 DEF IInv

-------------------------------------------------------------------------------
(* The steps of the D-cache.                                               *)

\* No sequencer is at work while the control waits for none.
LEMMA NobodyWorks ==
  ASSUME DInv, dcState \notin {"LOAD_REFILL_WAIT", "STORE_WAIT", "UNCACHED_WAIT"}
  PROVE  /\ dcFill.state = "IDLE" /\ dcStore.state = "IDLE"
         /\ dcUncached.state = "IDLE" /\ op["D"].phase = "idle"
  BY DEF DInv, DSequencer

\* Which lines hit, and what they hold, while no store is being merged.
LEMMA QuietLines ==
  ASSUME DInv, UNCHANGED <<dcTags, dcLines, mem, behind>>,
         dcState # "STORE_WAIT", dcState' # "STORE_WAIT"
  PROVE  DLines'
<1>1. \A a \in Addr : CachedWord("D", a) = WordAt(dcLines, a)
                     /\ CachedWord("D", a)' = WordAt(dcLines, a)
  BY DEF CachedWord, MergePending, WordAt
<1>2. SUFFICES ASSUME NEW a \in Addr, Hit(dcTags, a.line)
      PROVE  a \in Readable /\ Knows("D", a, WordAt(dcLines, a))
  BY <1>1 DEF DLines, Hit, Knows
<1>3. QED
  BY <1>1, <1>2 DEF DInv, DLines

LEMMA AcceptKeepsInv ==
  ASSUME DInv, NEW req \in Requests,
         LoadHit(req) \/ TakeWork(req) \/ RefuseRequest(req), InCache
  PROVE  DInv'
<1> USE DEF InCache
<1>1. Accept(req)
  BY DEF LoadHit, TakeWork, RefuseRequest
<1>2. /\ req \in Access /\ req.addr \in Addr /\ req.addr.line \in Lines
      /\ req.addr.beat \in Beats /\ req.write \in BOOLEAN
  BY DEF Access, Addr
<1>3. /\ dcFill.state = "IDLE" /\ dcStore.state = "IDLE"
      /\ dcUncached.state = "IDLE" /\ op["D"].phase = "idle"
  BY <1>1, NobodyWorks DEF Accept
<1>4. /\ dcState' \in CtrlStates /\ dcRsp' \in Reply
      /\ dcState' \in {"RESP", "UNCACHED_REQ", "STORE_REQ", "LOAD_REFILL_REQ"}
  <2>1. CASE LoadHit(req)
    <3>1. WordAt(dcLines, req.addr) \in Words
      BY <1>2 DEF WordAt, DInv, DType, DCacheTypeOK, LineData
    <3>2. QED
      BY <2>1, <3>1 DEF LoadHit, Reply, CtrlStates
  <2>2. CASE RefuseRequest(req)
    BY <2>2 DEF RefuseRequest, Reply, CtrlStates
  <2>3. CASE TakeWork(req)
    <3>1. dcRsp' \in Reply
      BY <2>3 DEF TakeWork, DInv, DType, DCacheTypeOK
    <3>2. QED
      BY <2>3, <3>1 DEF TakeWork, WorkState, CtrlStates
  <2>4. QED
    BY <2>1, <2>2, <2>3
<1>5. DType'
  <2>1. storeHit' \in BOOLEAN
    BY <1>1, <1>2 DEF Accept, CachedHit, Hit
  <2>2. QED
    BY <1>1, <1>2, <1>4, <2>1 DEF DInv, DType, DCacheTypeOK, Accept
<1>6. DSequencer'
  BY <1>1, <1>3, <1>4 DEF DSequencer, Accept
<1>7. DOwned'
  <2>1. /\ dcReq' = req /\ dcTags' = dcTags
        /\ storeHit' = (req.write /\ CachedHit(req))
    BY <1>1 DEF Accept
  <2>2. dcState' = "LOAD_REFILL_REQ" =>
          req.addr.line \in Cacheable /\ ~Hit(dcTags, req.addr.line)
    BY <1>4 DEF LoadHit, RefuseRequest, TakeWork, WorkState, CachedHit
  <2>3. dcState' = "STORE_REQ" => req.write /\ req.addr.line \in Cacheable
    BY <1>4 DEF LoadHit, RefuseRequest, TakeWork, WorkState
  <2>4. dcState' = "UNCACHED_REQ" => req.addr.line \notin Cacheable
    BY <1>4 DEF LoadHit, RefuseRequest, TakeWork, WorkState
  <2>5. Hit(dcTags, req.addr.line)' = Hit(dcTags, req.addr.line)
    BY <2>1 DEF Hit
  <2>6. QED
    BY <1>3, <1>4, <2>1, <2>2, <2>3, <2>4, <2>5 DEF DInv, DOwned, CachedHit, Hit
<1>8. Answered("D")' /\ FillOK("D", dcFill)' /\ SequencersDone'
  BY <1>1, <1>3
     DEF DInv, Answered, FillOK, SequencersDone, Accept, Knows, Succeeds
<1>9. DLines'
  BY <1>1, <1>4, QuietLines DEF Accept
<1>10. DLoads'
  <2>1. CASE LoadHit(req)
    <3>1. Hit(dcTags, req.addr.line) /\ dcState # "STORE_WAIT"
      BY <2>1 DEF LoadHit, CachedHit, Accept
    <3>2. Knows("D", req.addr, WordAt(dcLines, req.addr))
      BY <1>2, <3>1 DEF DInv, DLines, CachedWord, MergePending
    <3>3. QED
      BY <2>1, <3>2, <1>1 DEF DLoads, LoadHit, Accept, Knows
  <2>2. CASE RefuseRequest(req) \/ TakeWork(req)
    BY <2>2 DEF DLoads, RefuseRequest, TakeWork, WorkState
  <2>3. QED
    BY <2>1, <2>2
<1>11. QED
  BY <1>5, <1>6, <1>7, <1>8, <1>9, <1>10 DEF DInv

LEMMA RespondKeepsInv ==
  ASSUME DInv, Respond, InCache
  PROVE  DInv'
<1> USE DEF InCache, Respond
<1>1. DType'
  BY ResetTypes DEF DInv, DType, DCacheTypeOK, CtrlStates
<1>2. /\ dcFill.state = "IDLE" /\ dcStore.state = "IDLE"
      /\ dcUncached.state = "IDLE" /\ op["D"].phase = "idle"
  BY NobodyWorks
<1>3. DSequencer' /\ DOwned'
  BY <1>2 DEF DInv, DSequencer, DOwned
<1>4. Answered("D")' /\ FillOK("D", dcFill)' /\ SequencersDone' /\ DLoads'
  BY <1>2 DEF DInv, Answered, FillOK, SequencersDone, DLoads
<1>5. DLines'
  BY QuietLines
<1>6. QED
  BY <1>1, <1>3, <1>4, <1>5 DEF DInv

LEMMA FillStartKeepsInv ==
  ASSUME DInv, FillStart, InCache
  PROVE  DInv'
<1> USE DEF InCache, FillStart
<1> DEFINE l == dcReq.addr.line
<1>1. l \in Lines
  BY DEF DInv, DType, DCacheTypeOK, Access, Addr
<1>2. /\ dcFill' \in Fill /\ dcFill'.state = "REQ" /\ dcFill'.line = l
      /\ dcFill'.beat = 0
  BY <1>1, StartedFill
<1>3. /\ dcStore.state = "IDLE" /\ dcUncached.state = "IDLE"
      /\ op["D"].phase = "idle"
  BY NobodyWorks
<1>4. DType'
  BY <1>2 DEF DInv, DType, DCacheTypeOK, CtrlStates
<1>5. DSequencer'
  BY <1>2, <1>3 DEF DInv, DSequencer
<1>6. DOwned'
  BY <1>3 DEF DInv, DOwned, Hit
<1>7. Answered("D")' /\ SequencersDone' /\ DLoads'
  BY <1>3 DEF Answered, SequencersDone, DLoads
<1>8. FillOK("D", dcFill)'
  BY <1>2 DEF FillOK, Beats
<1>9. DLines'
  BY QuietLines
<1>10. QED
  BY <1>4, <1>5, <1>6, <1>7, <1>8, <1>9 DEF DInv

LEMMA StoreStartKeepsInv ==
  ASSUME DInv, StoreStart, InCache
  PROVE  DInv'
<1> USE DEF InCache, StoreStart
<1>1. /\ dcFill.state = "IDLE" /\ dcUncached.state = "IDLE"
      /\ op["D"].phase = "idle"
  BY NobodyWorks
<1>2. /\ dcStore'.state = "REQ" /\ dcStore'.req = dcReq
      /\ dcStore' \in [state : SeqStates, req : Access, error : BOOLEAN]
  BY DEF DInv, DType, DCacheTypeOK, SeqStates
<1>3. DType'
  BY <1>2 DEF DInv, DType, DCacheTypeOK, CtrlStates
<1>4. DSequencer' /\ DOwned'
  BY <1>1, <1>2 DEF DInv, DSequencer, DOwned, Hit
<1>5. /\ Answered("D")' /\ FillOK("D", dcFill)' /\ SequencersDone' /\ DLoads'
  BY <1>1, <1>2 DEF Answered, FillOK, SequencersDone, DLoads
<1>6. \A a \in Addr : /\ CachedWord("D", a) = WordAt(dcLines, a)
                      /\ CachedWord("D", a)' = WordAt(dcLines, a)
  BY <1>1, <1>2 DEF CachedWord, MergePending, WordAt
<1>7. DLines'
  BY <1>6 DEF DInv, DLines, Hit, Knows
<1>8. QED
  BY <1>3, <1>4, <1>5, <1>7 DEF DInv

LEMMA UncachedStartKeepsInv ==
  ASSUME DInv, UncachedStart, InCache
  PROVE  DInv'
<1> USE DEF InCache, UncachedStart
<1>1. /\ dcFill.state = "IDLE" /\ dcStore.state = "IDLE"
      /\ op["D"].phase = "idle"
  BY NobodyWorks
<1>2. /\ dcUncached'.state = "REQ" /\ dcUncached'.req = dcReq
      /\ dcUncached' \in [state : SeqStates, req : Access, rsp : Reply]
  BY ResetTypes DEF DInv, DType, DCacheTypeOK, SeqStates
<1>3. DType'
  BY <1>2 DEF DInv, DType, DCacheTypeOK, CtrlStates
<1>4. DSequencer' /\ DOwned'
  BY <1>1, <1>2 DEF DInv, DSequencer, DOwned, Hit
<1>5. /\ Answered("D")' /\ FillOK("D", dcFill)' /\ SequencersDone' /\ DLoads'
  BY <1>1, <1>2 DEF Answered, FillOK, SequencersDone, DLoads
<1>6. DLines'
  BY QuietLines
<1>7. QED
  BY <1>3, <1>4, <1>5, <1>6 DEF DInv

\* The one sequencer at work is the one the control waits for.
LEMMA OneWorks ==
  ASSUME DInv
  PROVE  /\ dcFill.state # "IDLE" =>
              dcState = "LOAD_REFILL_WAIT" /\ dcStore.state = "IDLE"
                /\ dcUncached.state = "IDLE"
         /\ dcStore.state # "IDLE" =>
              dcState = "STORE_WAIT" /\ dcFill.state = "IDLE"
                /\ dcUncached.state = "IDLE"
         /\ dcUncached.state # "IDLE" =>
              dcState = "UNCACHED_WAIT" /\ dcFill.state = "IDLE"
                /\ dcStore.state = "IDLE"
  BY DEF DInv, DSequencer

LEMMA BusRequestKeepsInv ==
  ASSUME Storage, DInv, BusRequest, Issue("D", BusAccess)
  PROVE  DInv'
<1> DEFINE working == [state : SeqStates, req : Access, error : BOOLEAN]
           reading == [NoAccess EXCEPT !.addr = FillAddr(dcFill)]
<1>1. /\ dcReq \in Access /\ dcFill \in Fill /\ dcStore \in working
      /\ dcUncached \in [state : SeqStates, req : Access, rsp : Reply]
      /\ dcFill.beat \in Beats
  BY DEF DInv, DType, DCacheTypeOK, Fill
<1>2. op["D"].phase = "idle"
  BY DEF Issue
<1>3. op'["D"] = [phase |-> "pending", req |-> BusAccess, rsp |-> NoReply]
  BY DEF Issue, Storage, Ports
<1>4. UNCHANGED <<dcState, dcReq, storeHit, dcRsp, dcTags, dcLines, mem, behind>>
  BY DEF BusRequest, Issue
<1>5. reading \in Access
  BY <1>1, ReadAccess DEF FillAddr, Fill, Addr
<1>6. /\ dcFill' \in Fill
      /\ dcFill'.line = dcFill.line /\ dcFill'.beat = dcFill.beat
      /\ dcFill'.data = dcFill.data /\ dcFill'.error = dcFill.error
      /\ dcFill'.state \in {dcFill.state, "WAIT"}
  BY <1>1, RequestedFill DEF BusRequest
<1>7. /\ dcStore' \in working /\ dcStore'.req = dcStore.req
      /\ dcStore'.error = dcStore.error
      /\ dcUncached' \in [state : SeqStates, req : Access, rsp : Reply]
      /\ dcUncached'.req = dcUncached.req /\ dcUncached'.rsp = dcUncached.rsp
  BY <1>1 DEF BusRequest, SeqStates
<1>8. \/ /\ dcState = "STORE_WAIT" /\ BusAccess = dcReq
         /\ dcStore.state = "REQ" /\ dcStore'.state = "WAIT"
         /\ dcFill' = dcFill /\ dcFill.state = "IDLE"
         /\ dcUncached' = dcUncached /\ dcUncached.state = "IDLE"
      \/ /\ dcState = "UNCACHED_WAIT" /\ BusAccess = dcReq
         /\ dcUncached.state = "REQ" /\ dcUncached'.state = "WAIT"
         /\ dcFill' = dcFill /\ dcFill.state = "IDLE"
         /\ dcStore' = dcStore /\ dcStore.state = "IDLE"
      \/ /\ dcState = "LOAD_REFILL_WAIT" /\ BusAccess = reading
         /\ dcFill.state = "REQ" /\ dcFill'.state = "WAIT"
         /\ dcStore' = dcStore /\ dcStore.state = "IDLE"
         /\ dcUncached' = dcUncached /\ dcUncached.state = "IDLE"
  <2>1. CASE dcStore.state = "REQ"
    BY <2>1, <1>1, OneWorks DEF BusRequest, BusAccess, DInv, DSequencer
  <2>2. CASE dcUncached.state = "REQ"
    BY <2>2, <1>1, OneWorks DEF BusRequest, BusAccess, DInv, DSequencer
  <2>3. CASE dcFill.state = "REQ"
    BY <2>3, <1>1, OneWorks, RequestedFill DEF BusRequest, BusAccess
  <2>4. QED
    BY <2>1, <2>2, <2>3 DEF BusRequest, WantsBus
<1>9. DType'
  <2>1. BusAccess \in Access
    BY <1>1, <1>5, <1>8
  <2>2. QED
    BY <2>1, <1>3, <1>4, <1>6, <1>7, ResetTypes DEF DInv, DType, DCacheTypeOK
<1>10. DSequencer'
  <2>1. op'["D"].phase # "idle"
    BY <1>3
  <2>2. QED
    BY <1>4, <1>6, <1>7, <1>8, <2>1 DEF DInv, DSequencer
<1>11. DOwned'
  <2>1. FillAddr(dcFill)' = FillAddr(dcFill)
    BY <1>6 DEF FillAddr
  <2>2. op'["D"].req = IF dcState = "LOAD_REFILL_WAIT" THEN reading ELSE dcReq
    BY <1>3, <1>8
  <2>3. QED
    BY <1>4, <2>1, <2>2 DEF DInv, DOwned, Hit
<1>12. Answered("D")' /\ SequencersDone' /\ DLoads'
  BY <1>3, <1>4, <1>8 DEF DInv, Answered, SequencersDone, DLoads, Knows
<1>13. FillOK("D", dcFill)'
  BY <1>4, <1>6, <1>8 DEF DInv, FillOK, Knows
<1>14. DLines'
  <2>1. \A a \in Addr : CachedWord("D", a)' = CachedWord("D", a)
    BY <1>2, <1>3, <1>4, <1>8 DEF CachedWord, MergePending, WordAt
  <2>2. QED
    BY <1>4, <2>1 DEF DInv, DLines, Hit, Knows
<1>15. QED
  BY <1>9, <1>10, <1>11, <1>12, <1>13, <1>14 DEF DInv

LEMMA BusAnswerKeepsInv ==
  ASSUME Storage, DInv, BusAnswer(op["D"].rsp), Collect("D")
  PROVE  DInv'
<1> DEFINE working == [state : SeqStates, req : Access, error : BOOLEAN]
           rsp == op["D"].rsp
<1>1. /\ dcReq \in Access /\ dcFill \in Fill /\ dcStore \in working
      /\ dcUncached \in [state : SeqStates, req : Access, rsp : Reply]
      /\ rsp \in Reply /\ rsp.err \in BOOLEAN
  BY DEF DInv, DType, DCacheTypeOK, Reply
<1>2. op["D"].phase = "done" /\ op'["D"] = NoOp
  BY DEF Collect, Storage, Ports
<1>3. UNCHANGED <<dcState, dcReq, storeHit, dcRsp, dcTags, dcLines, mem, behind>>
  BY DEF BusAnswer, Collect
<1>4. \/ /\ dcState = "STORE_WAIT" /\ op["D"].req = dcReq
         /\ dcStore.state = "WAIT" /\ dcStore'.state = "DONE"
         /\ dcStore'.req = dcStore.req /\ dcStore'.error = rsp.err
         /\ dcFill' = dcFill /\ dcFill.state = "IDLE"
         /\ dcUncached' = dcUncached /\ dcUncached.state = "IDLE"
      \/ /\ dcState = "UNCACHED_WAIT" /\ op["D"].req = dcReq
         /\ dcUncached.state = "WAIT" /\ dcUncached'.state = "DONE"
         /\ dcUncached'.req = dcUncached.req /\ dcUncached'.rsp = rsp
         /\ dcFill' = dcFill /\ dcFill.state = "IDLE"
         /\ dcStore' = dcStore /\ dcStore.state = "IDLE"
      \/ /\ dcState = "LOAD_REFILL_WAIT"
         /\ op["D"].req = [NoAccess EXCEPT !.addr = FillAddr(dcFill)]
         /\ dcFill.state = "WAIT" /\ dcFill' = FillAnswered(dcFill, rsp)
         /\ dcFill'.state \in {"REQ", "DONE"} /\ dcFill'.line = dcFill.line
         /\ dcStore' = dcStore /\ dcStore.state = "IDLE"
         /\ dcUncached' = dcUncached /\ dcUncached.state = "IDLE"
  <2>1. CASE dcStore.state = "WAIT"
    BY <2>1, <1>1, <1>2, OneWorks DEF BusAnswer, DInv, DOwned
  <2>2. CASE dcUncached.state = "WAIT"
    BY <2>2, <1>1, <1>2, OneWorks DEF BusAnswer, DInv, DOwned
  <2>3. CASE dcFill.state = "WAIT"
    <3>1. dcFill' = FillAnswered(dcFill, rsp)
      BY <2>3 DEF BusAnswer
    <3>2. dcFill'.state \in {"REQ", "DONE"} /\ dcFill'.line = dcFill.line
      BY <2>3, <3>1, <1>1, AnsweredFill
    <3>3. QED
      BY <2>3, <3>1, <3>2, <1>2, OneWorks DEF BusAnswer, DInv, DOwned
  <2>4. "WAIT" \in {dcFill.state, dcStore.state, dcUncached.state}
    BY <1>2 DEF DInv, DSequencer
  <2>5. QED
    BY <2>1, <2>2, <2>3, <2>4
<1>5. DType'
  <2>1. dcFill' \in Fill
    BY <1>1, <1>4, AnsweredFill
  <2>2. /\ dcStore' \in working
        /\ dcUncached' \in [state : SeqStates, req : Access, rsp : Reply]
    BY <1>1 DEF BusAnswer, SeqStates
  <2>3. QED
    BY <2>1, <2>2, <1>2, <1>3, ResetTypes DEF DInv, DType, DCacheTypeOK, NoOp
<1>6. DSequencer' /\ DOwned'
  <2>1. op'["D"].phase = "idle"
    BY <1>2 DEF NoOp
  <2>2. DSequencer'
    BY <1>1, <1>3, <1>4, <2>1 DEF DInv, DSequencer
  <2>3. DOwned'
    BY <1>3, <1>4, <2>1 DEF DInv, DOwned, Hit
  <2>4. QED
    BY <2>2, <2>3
<1>7. Answered("D")' /\ DLoads'
  BY <1>2, <1>3 DEF DInv, Answered, DLoads, NoOp, Knows
<1>8. SequencersDone'
  BY <1>2, <1>3, <1>4 DEF DInv, DOwned, SequencersDone, Answered, Knows
<1>9. FillOK("D", dcFill)'
  <2>1. CASE dcFill' = dcFill
    BY <2>1, <1>3 DEF DInv, FillOK, Knows
  <2>2. CASE /\ dcFill.state = "WAIT" /\ dcFill' = FillAnswered(dcFill, rsp)
             /\ op["D"].req = [NoAccess EXCEPT !.addr = FillAddr(dcFill)]
    <3>1. FillOK("D", FillAnswered(dcFill, rsp))
      BY <1>1, <1>2, <2>2, AnswerKeepsFill DEF DInv, Ports
    <3>2. QED
      BY <3>1, <2>2, <1>3 DEF FillOK, Knows
  <2>3. QED
    BY <2>1, <2>2, <1>4
<1>10. DLines'
  <2>1. \A a \in Addr : CachedWord("D", a)' = CachedWord("D", a)
    BY <1>2, <1>3, <1>4 DEF CachedWord, MergePending, WordAt, NoOp
  <2>2. QED
    BY <1>3, <2>1 DEF DInv, DLines, Hit, Knows
<1>11. QED
  BY <1>5, <1>6, <1>7, <1>8, <1>9, <1>10 DEF DInv

LEMMA FillAcceptKeepsInv ==
  ASSUME DInv, FillAccept, InCache
  PROVE  DInv'
<1> USE DEF InCache
<1>1. /\ dcTags \in Tags /\ dcLines \in [Indices -> LineData] /\ dcFill \in Fill
      /\ dcReq.addr \in Addr /\ dcFill.line = dcReq.addr.line
      /\ dcFill.state = "DONE" /\ dcFill.line \in Cacheable
      /\ dcState = "LOAD_REFILL_WAIT" /\ dcState' = "RESP"
  BY DEF DInv, DType, DCacheTypeOK, DSequencer, DOwned, FillAccept, Access
<1>2. dcFill' = FillReset /\ dcFill'.state = "IDLE" /\ dcFill' \in Fill
  BY ResetTypes DEF FillAccept, FillTaken, FillReset, FillStarted
<1>3. /\ dcReq.addr.beat \in Beats
      /\ dcReq.addr = [line |-> dcFill.line, beat |-> dcReq.addr.beat]
  BY <1>1 DEF Addr
<1>4. dcStore.state = "IDLE" /\ dcUncached.state = "IDLE"
  BY <1>1, OneWorks
<1>5. op["D"].phase = "idle"
  BY <1>1, <1>4 DEF DInv, DSequencer
<1>6. UNCHANGED <<dcReq, storeHit, dcStore, dcUncached, op, mem, behind>>
  BY DEF FillAccept
<1>7. DType'
  <2>1. dcTags' \in Tags /\ dcLines' \in [Indices -> LineData]
    BY <1>1, RefilledArrays DEF FillAccept
  <2>2. dcFill.data[dcReq.addr.beat] \in Words /\ dcFill.error \in BOOLEAN
    BY <1>1, <1>3 DEF Fill, LineData
  <2>3. dcRsp' \in Reply
    BY <2>2 DEF FillAccept, Reply
  <2>4. QED
    BY <2>1, <2>3, <1>1, <1>2, <1>6 DEF DInv, DType, DCacheTypeOK, CtrlStates
<1>8. DSequencer'
  BY <1>1, <1>2, <1>4, <1>5, <1>6 DEF DSequencer
<1>9. DOwned'
  <2>1. \A i \in Indices : dcTags'[i] \in Cacheable \union {NoLine}
    BY <1>1 DEF DInv, DOwned, FillAccept, TagRefill, Tags
  <2>2. QED
    BY <2>1, <1>1, <1>5, <1>6 DEF DOwned
<1>10. Answered("D")' /\ FillOK("D", dcFill)' /\ SequencersDone'
  BY <1>2, <1>4, <1>5, <1>6 DEF Answered, FillOK, SequencersDone
<1>11. DLines'
  <2>1. \A a \in Addr : /\ CachedWord("D", a) = WordAt(dcLines, a)
                        /\ CachedWord("D", a)' = WordAt(dcLines', a)
    BY <1>1 DEF CachedWord, MergePending, WordAt
  <2>2. SUFFICES ASSUME NEW a \in Addr, Hit(dcTags', a.line)
        PROVE  a \in Readable /\ Knows("D", a, WordAt(dcLines', a))
    BY <2>1, <1>6 DEF DLines, Hit, Knows
  <2>3. CASE /\ a.line = dcFill.line /\ ~dcFill.error
             /\ WordAt(dcLines', a) = dcFill.data[a.beat]
    <3>1. a = [line |-> dcFill.line, beat |-> a.beat] /\ a.beat \in Beats
      BY <2>3 DEF Addr
    <3>2. QED
      BY <3>1, <2>3, <1>1 DEF DInv, FillOK
  <2>4. CASE Hit(dcTags, a.line) /\ WordAt(dcLines', a) = WordAt(dcLines, a)
    BY <2>4, <2>1 DEF DInv, DLines
  <2>5. dcTags' = TagRefill(dcTags, dcFill) /\ dcLines' = LineRefill(dcLines, dcFill)
    BY DEF FillAccept
  <2>6. QED
    BY <2>2, <2>3, <2>4, <2>5, <1>1, RefilledArrays
<1>12. DLoads'
  <2>1. ASSUME ~dcFill.error
        PROVE  Knows("D", dcReq.addr, dcFill.data[dcReq.addr.beat])
    BY <2>1, <1>1, <1>3 DEF DInv, FillOK
  <2>2. QED
    BY <2>1, <1>6 DEF DLoads, FillAccept, Knows
<1>13. QED
  BY <1>7, <1>8, <1>9, <1>10, <1>11, <1>12 DEF DInv

LEMMA StoreDoneKeepsInv ==
  ASSUME DInv, StoreDone, InCache
  PROVE  DInv'
<1> USE DEF InCache
<1> DEFINE at == dcReq.addr
<1>1. /\ dcTags \in Tags /\ dcLines \in [Indices -> LineData]
      /\ dcReq \in Access /\ at \in Addr /\ at.line \in Lines
      /\ at.beat \in Beats /\ dcReq.data \in Words /\ dcReq.write
      /\ dcStore.state = "DONE" /\ dcStore.req = dcReq
      /\ dcStore.error \in BOOLEAN /\ storeHit \in BOOLEAN
      /\ (storeHit <=> Hit(dcTags, at.line))
      /\ dcState = "STORE_WAIT" /\ dcState' = "RESP"
  BY DEF DInv, DType, DCacheTypeOK, DSequencer, DOwned, StoreDone, Access, Addr
<1>2. dcFill.state = "IDLE" /\ dcUncached.state = "IDLE"
  BY <1>1, OneWorks
<1>3. op["D"].phase = "idle"
  BY <1>1, <1>2 DEF DInv, DSequencer
<1>4. /\ UNCHANGED <<dcReq, storeHit, dcTags, dcFill, dcUncached>>
      /\ UNCHANGED <<op, mem, behind>>
      /\ dcStore' = StoreReset
  BY DEF StoreDone
<1>5. DType'
  <2>1. dcLines' \in [Indices -> LineData]
    BY <1>1 DEF StoreDone, StoreMerge, LineData
  <2>2. dcRsp' \in Reply
    BY <1>1 DEF StoreDone, Reply
  <2>3. StoreReset \in [state : SeqStates, req : Access, error : BOOLEAN]
    BY ResetTypes DEF StoreReset, SeqStates
  <2>4. QED
    BY <2>1, <2>2, <2>3, <1>1, <1>4 DEF DInv, DType, DCacheTypeOK, CtrlStates
<1>6. DSequencer' /\ DOwned'
  BY <1>1, <1>2, <1>3, <1>4 DEF DInv, DSequencer, DOwned, StoreReset
<1>7. Answered("D")' /\ FillOK("D", dcFill)' /\ SequencersDone'
  BY <1>2, <1>3, <1>4 DEF Answered, FillOK, SequencersDone, StoreReset
<1>8. DLines'
  <2>1. SUFFICES ASSUME NEW a \in Addr, Hit(dcTags, a.line)
        PROVE  WordAt(dcLines', a) = CachedWord("D", a)
    BY <1>1, <1>4 DEF DInv, DLines, Hit, Knows, CachedWord, MergePending, WordAt
  <2>2. /\ a.line \in Lines /\ IndexOf[a.line] \in Indices /\ a.beat \in Beats
        /\ IndexOf[at.line] \in Indices
    BY <1>1 DEF Addr
  <2>3. MergePending(a) <=> Merges /\ at = a
    BY <1>1, <1>3 DEF MergePending, Merges
  <2>4. CASE ~Merges
    BY <2>3, <2>4 DEF CachedWord, StoreDone, WordAt
  <2>5. CASE Merges
    <3>1. dcLines' = StoreMerge(dcLines, at, dcReq.data)
      BY <1>1, <2>5 DEF StoreDone
    <3>2. CASE at = a
      BY <1>1, <2>2, <2>3, <2>5, <3>1, <3>2
         DEF CachedWord, WordAt, StoreMerge, LineData
    <3>3. CASE at # a
      <4>1. Hit(dcTags, at.line)
        BY <1>1, <2>5 DEF Merges
      <4>2. IndexOf[a.line] # IndexOf[at.line] \/ a.beat # at.beat
        BY <4>1, <2>1, <3>3, <1>1 DEF Hit, Addr
      <4>3. WordAt(dcLines', a) = WordAt(dcLines, a)
        BY <1>1, <2>2, <3>1, <4>2 DEF WordAt, StoreMerge, LineData
      <4>4. QED
        BY <4>3, <2>3, <3>3 DEF CachedWord
    <3>4. QED
      BY <3>2, <3>3
  <2>6. QED
    BY <2>4, <2>5
<1>9. DLoads'
  BY <1>1, <1>4 DEF DLoads
<1>10. QED
  BY <1>5, <1>6, <1>7, <1>8, <1>9 DEF DInv

LEMMA UncachedDoneKeepsInv ==
  ASSUME DInv, UncachedDone, InCache
  PROVE  DInv'
<1> USE DEF InCache
<1>1. /\ dcUncached.state = "DONE" /\ dcUncached.rsp \in Reply
      /\ dcState = "UNCACHED_WAIT" /\ dcState' = "RESP"
      /\ dcRsp' = dcUncached.rsp /\ dcUncached' = UncachedReset
  BY DEF DInv, DType, DCacheTypeOK, UncachedDone
<1>2. dcFill.state = "IDLE" /\ dcStore.state = "IDLE"
  BY <1>1, OneWorks
<1>3. op["D"].phase = "idle"
  BY <1>1, <1>2 DEF DInv, DSequencer
<1>4. /\ UNCHANGED <<dcReq, storeHit, dcTags, dcLines, dcFill, dcStore>>
      /\ UNCHANGED <<op, mem, behind>>
  BY DEF UncachedDone
<1>5. UncachedReset \in [state : SeqStates, req : Access, rsp : Reply]
      /\ UncachedReset.state = "IDLE"
  BY ResetTypes DEF UncachedReset, SeqStates
<1>6. DType'
  BY <1>1, <1>4, <1>5 DEF DInv, DType, DCacheTypeOK, CtrlStates
<1>7. DSequencer'
  BY <1>1, <1>2, <1>3, <1>4, <1>5 DEF DSequencer
<1>8. DOwned'
  BY <1>1, <1>3, <1>4 DEF DInv, DOwned
<1>9. Answered("D")' /\ FillOK("D", dcFill)' /\ SequencersDone'
  BY <1>1, <1>2, <1>3, <1>4, <1>5 DEF Answered, FillOK, SequencersDone
<1>10. DLines'
  BY <1>1, <1>4, QuietLines
<1>11. DLoads'
  BY <1>1, <1>4 DEF DInv, SequencersDone, DLoads, Knows
<1>12. QED
  BY <1>6, <1>7, <1>8, <1>9, <1>10, <1>11 DEF DInv

-------------------------------------------------------------------------------
(* The steps of the memory path.  The word read for a fill is in no valid  *)
(* line, that of a load passing the cache in none at all, and a store that *)
(* hit is seen through MergePending.                                       *)

LEMMA PerformKeepsStorage ==
  ASSUME Storage, NEW p \in Ports, Perform(p)
  PROVE  /\ Storage'
         /\ op'[p].phase = "done" /\ op'[p].req = op[p].req
         /\ op'[p].rsp.err = ~Succeeds(op[p].req)
         /\ \A q \in Ports : q # p => op'[q] = op[q]
<1> DEFINE req == op[p].req
<1>1. req \in Access /\ req.addr \in Addr /\ req.data \in Words
      /\ CellOf[req.addr] \in Cells
  BY DEF Storage, Access
<1>2. AnswerTo(req) \in Reply /\ AnswerTo(req).err = ~Succeeds(req)
  <2>1. mem[CellOf[req.addr]] \in Words
    BY <1>1 DEF Storage
  <2>2. QED
    BY <2>1 DEF AnswerTo, Reply, Succeeds
<1>3. op' \in [Ports -> [phase : {"idle", "pending", "done"}, req : Access,
                        rsp : Reply]]
  BY <1>1, <1>2 DEF Perform, Storage
<1>4. mem' \in [Cells -> Words] /\ behind' \subseteq Ports \X Addr
  BY <1>1 DEF Perform, Storage, Overtakes
<1>5. QED
  BY <1>2, <1>3, <1>4 DEF Perform, Storage

\* The request the memory path carries out is not the other port's.
LEMMA PerformOtherPort ==
  ASSUME Storage, NEW p \in Ports, Perform(p), NEW q \in Ports, q # p
  PROVE  \A a \in Addr : \A word : Knows(q, a, word) => Knows(q, a, word)'
  BY PerformKnows

LEMMA IPerformKeepsInv ==
  ASSUME Storage, IInv, Perform("I")
  PROVE  IInv'
<1> DEFINE at == op["I"].req.addr
<1>1. "I" \in Ports
  BY DEF Ports
<1>2. UNCHANGED <<icState, icAddr, icRsp, icTags, icLines, icFill>>
  BY DEF Perform, icVars
<1>3. /\ Storage' /\ op'["I"].phase = "done" /\ op'["I"].req = op["I"].req
  BY <1>1, PerformKeepsStorage
<1>4. /\ op["I"].phase = "pending" /\ icFill.state = "WAIT"
      /\ icState = "MISS_WAIT" /\ at = FillAddr(icFill)
      /\ icFill \in Fill /\ at \in Addr
  <2>1. op["I"].phase = "pending" /\ icFill.state = "WAIT" /\ icState = "MISS_WAIT"
    BY DEF Perform, IInv, ISequencer
  <2>2. icFill \in Fill /\ FillAddr(icFill) \in Addr
    BY DEF IInv, IType, ICacheTypeOK, FillAddr, Fill, Addr
  <2>3. QED
    BY <2>1, <2>2, ReadAccess DEF IInv, IOwned
<1>5. \A a \in Addr : \A word :
        a # at /\ Knows("I", a, word) => Knows("I", a, word)'
  BY <1>1, PerformKnows
<1>6. Answered("I")'
  BY <1>1, <1>4, PerformKnows
<1>7. IType'
  BY <1>1, <1>2, <1>3 DEF IInv, IType, ICacheTypeOK, Storage
<1>8. ISequencer' /\ IOwned'
  BY <1>2, <1>3, <1>4 DEF IInv, ISequencer, IOwned, Hit, FillAddr
<1>9. FillOK("I", icFill)'
  <2>1. \A b \in Beats : b < icFill.beat =>
          LET a == [line |-> icFill.line, beat |-> b] IN a \in Addr /\ a # at
    BY <1>4 DEF FillAddr, Fill, Addr, Beats
  <2>2. QED
    BY <1>2, <1>4, <1>5, <2>1 DEF IInv, FillOK
<1>10. ILines'
  <2>1. \A a \in Addr : Hit(icTags, a.line) => a # at
    BY <1>4 DEF IInv, IOwned, ISequencer, FillAddr
  <2>2. SUFFICES ASSUME NEW a \in Addr, Hit(icTags, a.line)
        PROVE  a \in Readable /\ Knows("I", a, WordAt(icLines, a))'
    BY <1>2 DEF ILines, Hit
  <2>3. a \in Readable /\ Knows("I", a, WordAt(icLines, a))
    BY <2>2 DEF IInv, ILines
  <2>4. WordAt(icLines, a)' = WordAt(icLines, a)
    BY <1>2 DEF WordAt
  <2>5. QED
    BY <1>5, <2>1, <2>2, <2>3, <2>4 DEF Knows
<1>11. ILoads'
  BY <1>2, <1>4 DEF ILoads
<1>12. QED
  BY <1>6, <1>7, <1>8, <1>9, <1>10, <1>11 DEF IInv

LEMMA DPerformKeepsInv ==
  ASSUME Storage, DInv, Perform("D")
  PROVE  DInv'
<1> DEFINE req == op["D"].req
           reading == [NoAccess EXCEPT !.addr = FillAddr(dcFill)]
<1>1. "D" \in Ports
  BY DEF Ports
<1>2. UNCHANGED <<dcState, dcReq, storeHit, dcRsp, dcTags, dcLines, dcFill,
                  dcStore, dcUncached>>
  BY DEF Perform, dcVars
<1>3. /\ Storage' /\ op'["D"].phase = "done" /\ op'["D"].req = req
      /\ op'["D"].rsp.err = ~Succeeds(req)
  BY <1>1, PerformKeepsStorage
<1>4. /\ op["D"].phase = "pending" /\ req \in Access /\ req.addr \in Addr
      /\ dcFill \in Fill
      /\ "WAIT" \in {dcFill.state, dcStore.state, dcUncached.state}
  BY DEF Perform, Storage, Ports, Access, DInv, DType, DCacheTypeOK, DSequencer
<1>5. \/ /\ dcState = "STORE_WAIT" /\ dcStore.state = "WAIT" /\ req = dcReq
         /\ dcFill.state = "IDLE" /\ dcUncached.state = "IDLE"
      \/ /\ dcState = "UNCACHED_WAIT" /\ dcUncached.state = "WAIT" /\ req = dcReq
         /\ dcFill.state = "IDLE" /\ dcStore.state = "IDLE"
      \/ /\ dcState = "LOAD_REFILL_WAIT" /\ dcFill.state = "WAIT" /\ req = reading
         /\ dcStore.state = "IDLE" /\ dcUncached.state = "IDLE"
  BY <1>4, OneWorks DEF DInv, DOwned
<1>6. \A a \in Addr : \A word :
        a # req.addr /\ Knows("D", a, word) => Knows("D", a, word)'
  BY <1>1, PerformKnows
<1>7. Answered("D")'
  BY <1>1, <1>4, PerformKnows
<1>8. DType'
  BY <1>1, <1>2, <1>3 DEF DInv, DType, DCacheTypeOK, Storage
<1>9. DSequencer' /\ DOwned'
  <2>1. FillAddr(dcFill)' = FillAddr(dcFill)
    BY <1>2 DEF FillAddr
  <2>2. DSequencer'
    BY <1>2, <1>3, <1>4 DEF DInv, DSequencer
  <2>3. DOwned'
    BY <1>2, <1>3, <1>4, <2>1 DEF DInv, DOwned, Hit
  <2>4. QED
    BY <2>2, <2>3
<1>10. SequencersDone' /\ DLoads'
  BY <1>2, <1>5 DEF SequencersDone, DLoads
<1>11. FillOK("D", dcFill)'
  <2>1. CASE dcFill.state = "IDLE"
    BY <2>1, <1>2 DEF FillOK
  <2>2. CASE dcFill.state = "WAIT" /\ req = reading
    <3>1. req.addr = FillAddr(dcFill)
      BY <2>2, <1>4, ReadAccess DEF FillAddr, Fill, Addr
    <3>2. \A b \in Beats : b < dcFill.beat =>
            LET a == [line |-> dcFill.line, beat |-> b] IN a \in Addr /\ a # req.addr
      BY <1>4, <3>1 DEF FillAddr, Fill, Addr, Beats
    <3>3. QED
      BY <1>2, <1>6, <2>2, <3>2 DEF DInv, FillOK
  <2>3. QED
    BY <2>1, <2>2, <1>5
<1>12. DLines'
  <2>1. SUFFICES ASSUME NEW a \in Addr, Hit(dcTags, a.line)
        PROVE  Knows("D", a, CachedWord("D", a))'
    BY <1>2 DEF DInv, DLines, Hit
  <2>2. Knows("D", a, CachedWord("D", a))
    BY <2>1 DEF DInv, DLines
  <2>3. CASE a # req.addr
    <3>1. ~MergePending(a) /\ ~MergePending(a)'
      BY <1>2, <1>5, <2>3 DEF MergePending
    <3>2. CachedWord("D", a) = WordAt(dcLines, a)
          /\ CachedWord("D", a)' = WordAt(dcLines, a)
      BY <1>2, <3>1 DEF CachedWord, WordAt
    <3>3. QED
      BY <1>6, <2>2, <2>3, <3>2 DEF Knows
  <2>4. CASE a = req.addr
    <3>1. CASE dcState = "STORE_WAIT" /\ dcStore.state = "WAIT" /\ req = dcReq
      <4>1. storeHit /\ req.write
        BY <2>1, <2>4, <3>1 DEF DInv, DOwned
      <4>2. CASE Succeeds(req)
        <5>1. CachedWord("D", a)' = req.data
          BY <1>2, <1>3, <2>4, <3>1, <4>1, <4>2 DEF CachedWord, MergePending
        <5>2. Knows("D", req.addr, req.data)'
          BY <1>3, <1>7, <4>1, <4>2 DEF Answered, Knows
        <5>3. QED
          BY <1>3, <2>4, <5>1, <5>2 DEF Knows
      <4>3. CASE ~Succeeds(req)
        <5>1. ~MergePending(a) /\ ~MergePending(a)'
          BY <1>2, <1>3, <1>4, <3>1, <4>3 DEF MergePending
        <5>2. mem' = mem /\ behind' = behind
          BY <4>3 DEF Perform
        <5>3. CachedWord("D", a)' = CachedWord("D", a)
          BY <1>2, <5>1 DEF CachedWord, WordAt
        <5>4. QED
          BY <2>2, <5>2, <5>3 DEF Knows
      <4>4. QED
        BY <4>2, <4>3
    <3>2. CASE dcState = "UNCACHED_WAIT" /\ req = dcReq
      <4>1. req.addr.line \in Cacheable
        BY <2>1, <2>4, <1>4 DEF DInv, DOwned, Hit, Addr
      <4>2. QED
        BY <3>2, <4>1 DEF DInv, DOwned
    <3>3. CASE dcState = "LOAD_REFILL_WAIT" /\ req = reading
      <4>1. req.addr.line = dcFill.line
        BY <3>3, <1>4, ReadAccess DEF FillAddr, Fill, Addr
      <4>2. QED
        BY <2>1, <2>4, <3>3, <4>1 DEF DInv, DOwned, DSequencer
    <3>4. QED
      BY <3>1, <3>2, <3>3, <1>5
  <2>5. QED
    BY <2>3, <2>4
<1>13. QED
  BY <1>7, <1>8, <1>9, <1>10, <1>11, <1>12 DEF DInv

\* What is known of every word is all that the invariant says of memory.
LEMMA KeptKnowledgeI ==
  ASSUME IInv, UNCHANGED icVars, op'["I"] = op["I"],
         \A a \in Addr : \A word : Knows("I", a, word) => Knows("I", a, word)'
  PROVE  IInv'
<1> USE DEF icVars
<1>1. IType' /\ ISequencer' /\ IOwned'
  BY DEF IInv, IType, ICacheTypeOK, ISequencer, IOwned, Hit
<1>2. icAddr \in Addr /\ op["I"].req.addr \in Addr
  BY DEF IInv, IType, ICacheTypeOK, Access
<1>3. Answered("I")'
  <2> DEFINE word == IF op["I"].req.write THEN op["I"].req.data ELSE op["I"].rsp.data
  <2>1. Knows("I", op["I"].req.addr, word) => Knows("I", op["I"].req.addr, word)'
    BY <1>2
  <2>2. QED
    BY <2>1 DEF IInv, Answered, Succeeds
<1>4. FillOK("I", icFill)'
  <2>1. icFill.line \in Lines
    BY DEF IInv, IType, ICacheTypeOK, Fill
  <2>2. \A b \in Beats : [line |-> icFill.line, beat |-> b] \in Addr
    BY <2>1 DEF Addr
  <2>3. QED
    BY <2>2 DEF IInv, FillOK, Knows
<1>5. ILines'
  BY DEF IInv, ILines, Knows, Hit, WordAt
<1>6. ILoads'
  BY <1>2 DEF IInv, ILoads, Knows
<1>7. QED
  BY <1>1, <1>3, <1>4, <1>5, <1>6 DEF IInv

LEMMA KeptKnowledgeD ==
  ASSUME DInv, UNCHANGED dcVars, op'["D"] = op["D"],
         \A a \in Addr : \A word : Knows("D", a, word) => Knows("D", a, word)'
  PROVE  DInv'
<1> USE DEF dcVars
<1>1. DType' /\ DSequencer' /\ DOwned'
  BY DEF DInv, DType, DCacheTypeOK, DSequencer, DOwned, Hit
<1>2. dcReq.addr \in Addr /\ op["D"].req.addr \in Addr
  BY DEF DInv, DType, DCacheTypeOK, Access
<1>3. Answered("D")'
  <2> DEFINE word == IF op["D"].req.write THEN op["D"].req.data ELSE op["D"].rsp.data
  <2>1. Knows("D", op["D"].req.addr, word) => Knows("D", op["D"].req.addr, word)'
    BY <1>2
  <2>2. QED
    BY <2>1 DEF DInv, Answered, Succeeds
<1>4. FillOK("D", dcFill)'
  <2>1. dcFill.line \in Lines
    BY DEF DInv, DType, DCacheTypeOK, Fill
  <2>2. \A b \in Beats : [line |-> dcFill.line, beat |-> b] \in Addr
    BY <2>1 DEF Addr
  <2>3. QED
    BY <2>2 DEF DInv, FillOK, Knows
<1>5. SequencersDone' /\ DLoads'
  BY <1>2 DEF DInv, SequencersDone, DLoads, Knows
<1>6. DLines'
  <2>1. \A a \in Addr : CachedWord("D", a)' = CachedWord("D", a)
    BY DEF CachedWord, MergePending, WordAt
  <2>2. QED
    BY <2>1 DEF DInv, DLines, Knows, Hit
<1>7. QED
  BY <1>1, <1>3, <1>4, <1>5, <1>6 DEF DInv

-------------------------------------------------------------------------------
(* The invariant.                                                          *)

LEMMA StorageKept ==
  ASSUME CacheInv, Next
  PROVE  Storage'
<1>1. Storage /\ DType /\ IType
  BY DEF CacheInv, IInv, DInv
<1>2. ASSUME NEW p \in Ports, NEW req \in Access, Issue(p, req)
      PROVE  Storage'
  BY <1>1, <1>2, ResetTypes DEF Storage, Issue
<1>3. ASSUME NEW p \in Ports, Collect(p)
      PROVE  Storage'
  BY <1>1, <1>3, ResetTypes DEF Storage, Collect, NoOp
<1>4. ASSUME InCache PROVE Storage'
  BY <1>1, <1>4 DEF Storage, InCache
<1>5. [NoAccess EXCEPT !.addr = FillAddr(icFill)] \in Access
  BY <1>1, ReadAccess DEF IType, ICacheTypeOK, FillAddr, Fill, Addr
<1>6. BusAccess \in Access
  <2>1. [NoAccess EXCEPT !.addr = FillAddr(dcFill)] \in Access
    BY <1>1, ReadAccess DEF DType, DCacheTypeOK, FillAddr, Fill, Addr
  <2>2. dcStore.req \in Access /\ dcUncached.req \in Access
    BY <1>1 DEF DType, DCacheTypeOK
  <2>3. QED
    BY <2>1, <2>2 DEF BusAccess
<1>7. CASE ICacheWork
  BY <1>2, <1>3, <1>4, <1>5, <1>7 DEF ICacheWork, Ports
<1>8. CASE DCacheWork
  BY <1>2, <1>3, <1>4, <1>6, <1>8 DEF DCacheWork, Ports
<1>9. CASE \E p \in Ports : Perform(p)
  BY <1>1, <1>9, PerformKeepsStorage
<1>10. CASE DmaWrite
  <2>1. PICK req \in DmaWrites :
          /\ mem' = [mem EXCEPT ![CellOf[req.addr]] = req.data]
          /\ behind' = behind \union Overtakes("DMA", req)
          /\ op' = op
    BY <1>10 DEF DmaWrite
  <2>2. req.data \in Words
    BY DEF Access
  <2>3. QED
    BY <1>1, <2>1, <2>2 DEF Storage, Overtakes
<1>11. CASE Frontend \/ FrontendTakes \/ Core \/ CoreTakes
  BY <1>4, <1>11 DEF Frontend, FrontendTakes, Core, CoreTakes
<1>12. QED
  BY <1>7, <1>8, <1>9, <1>10, <1>11 DEF Next

LEMMA StepInv ==
  ASSUME CacheInv, [Next]_vars
  PROVE  CacheInv'
<1>1. Storage /\ IInv /\ DInv
  BY DEF CacheInv
<1>2. "I" \in Ports /\ "D" \in Ports
  BY DEF Ports
<1>3. ASSUME UNCHANGED dcVars, UNCHANGED <<mem, behind>>, op'["D"] = op["D"]
      PROVE  DInv'
  BY <1>1, <1>3, DUntouched
<1>4. ASSUME UNCHANGED icVars, UNCHANGED <<mem, behind>>, op'["I"] = op["I"]
      PROVE  IInv'
  BY <1>1, <1>4, IUntouched
<1>5. CASE Frontend \/ FrontendTakes
  <2>1. IInv'
    BY <1>1, <1>5, FetchKeepsInv
  <2>2. DInv'
    BY <1>3, <1>5 DEF Frontend, FrontendTakes, InCache
  <2>3. QED
    BY <2>1, <2>2, <1>5, StorageKept DEF CacheInv, Next
<1>6. CASE ICacheWork
  <2>1. IInv'
    BY <1>1, <1>6, FetchFillStartKeepsInv, FetchFillRequestKeepsInv,
       FetchFillAnswerKeepsInv, FetchFillAcceptKeepsInv DEF ICacheWork
  <2>2. UNCHANGED <<dcVars, mem, behind>> /\ op'["D"] = op["D"]
    BY <1>1, <1>2, <1>6 DEF ICacheWork, InCache, Issue, Collect, Storage
  <2>3. QED
    BY <1>3, <2>1, <2>2, <1>6, StorageKept DEF CacheInv, Next
<1>7. CASE Core \/ CoreTakes
  <2>1. DInv'
    BY <1>1, <1>7, AcceptKeepsInv, RespondKeepsInv DEF Core, CoreTakes
  <2>2. IInv'
    BY <1>4, <1>7 DEF Core, CoreTakes, InCache
  <2>3. QED
    BY <2>1, <2>2, <1>7, StorageKept DEF CacheInv, Next
<1>8. CASE DCacheWork
  <2>1. DInv'
    BY <1>1, <1>8, FillStartKeepsInv, StoreStartKeepsInv,
       UncachedStartKeepsInv, BusRequestKeepsInv, BusAnswerKeepsInv,
       FillAcceptKeepsInv, StoreDoneKeepsInv, UncachedDoneKeepsInv
       DEF DCacheWork
  <2>2. UNCHANGED <<icVars, mem, behind>> /\ op'["I"] = op["I"]
    BY <1>1, <1>2, <1>8 DEF DCacheWork, InCache, Issue, Collect, Storage
  <2>3. QED
    BY <1>4, <2>1, <2>2, <1>8, StorageKept DEF CacheInv, Next
<1>9. ASSUME NEW p \in Ports, Perform(p)
      PROVE  CacheInv'
  <2>1. CASE p = "I"
    <3>1. IInv'
      BY <1>1, <1>9, <2>1, IPerformKeepsInv
    <3>2. DInv'
      <4>1. \A a \in Addr : \A word : Knows("D", a, word) => Knows("D", a, word)'
        BY <1>1, <1>2, <1>9, <2>1, PerformOtherPort
      <4>2. op'["D"] = op["D"]
        BY <1>1, <1>2, <1>9, <2>1, PerformKeepsStorage
      <4>3. UNCHANGED dcVars
        BY <1>9 DEF Perform
      <4>4. QED
        BY <1>1, <4>1, <4>2, <4>3, KeptKnowledgeD
    <3>3. QED
      BY <1>9, <3>1, <3>2, StorageKept DEF CacheInv, Next
  <2>2. CASE p = "D"
    <3>1. DInv'
      BY <1>1, <1>9, <2>2, DPerformKeepsInv
    <3>2. IInv'
      <4>1. \A a \in Addr : \A word : Knows("I", a, word) => Knows("I", a, word)'
        BY <1>1, <1>2, <1>9, <2>2, PerformOtherPort
      <4>2. op'["I"] = op["I"]
        BY <1>1, <1>2, <1>9, <2>2, PerformKeepsStorage
      <4>3. UNCHANGED icVars
        BY <1>9 DEF Perform
      <4>4. QED
        BY <1>1, <4>1, <4>2, <4>3, KeptKnowledgeI
    <3>3. QED
      BY <1>9, <3>1, <3>2, StorageKept DEF CacheInv, Next
  <2>3. QED
    BY <2>1, <2>2 DEF Ports
<1>10. CASE DmaWrite
  <2>1. \A q \in Ports : \A a \in Addr : \A word :
          Knows(q, a, word) => Knows(q, a, word)'
    BY <1>1, <1>10, DmaKnows
  <2>2. UNCHANGED <<icVars, dcVars, op>>
    BY <1>10 DEF DmaWrite
  <2>3. IInv' /\ DInv'
    BY <1>1, <1>2, <2>1, <2>2, KeptKnowledgeI, KeptKnowledgeD
  <2>4. QED
    BY <1>10, <2>3, StorageKept DEF CacheInv, Next
<1>11. CASE UNCHANGED vars
  <2>1. UNCHANGED <<icVars, dcVars, op, mem, behind>>
    BY <1>11 DEF vars
  <2>2. Storage'
    BY <1>1, <2>1 DEF Storage
  <2>3. IInv' /\ DInv'
    BY <1>3, <1>4, <2>1
  <2>4. QED
    BY <2>2, <2>3 DEF CacheInv
<1>12. QED
  BY <1>5, <1>6, <1>7, <1>8, <1>9, <1>10, <1>11 DEF Next

LEMMA InvImplies ==
  ASSUME CacheInv
  PROVE  TypeOK /\ SequencersExclusive /\ LinesAgree /\ LoadsAreCurrent
<1> USE DEF CacheInv, IInv, DInv
<1>1. TypeOK
  BY DEF TypeOK, Storage, IType, DType
<1>2. SequencersExclusive
  BY DEF SequencersExclusive, ISequencer, DSequencer
<1>3. LinesAgree
  BY DEF LinesAgree, Ports, ILines, DLines, Knows, CachedWord
<1>4. LoadsAreCurrent
  BY DEF LoadsAreCurrent, ILoads, DLoads, Knows
<1>5. QED
  BY <1>1, <1>2, <1>3, <1>4

\* Every reachable state of the two caches and memory satisfies CacheInv, the
\* inductive invariant.
THEOREM CachesInvariant == Spec => []CacheInv
  BY InitInv, StepInv, PTL DEF Spec

\* The registers of icache_*.sv and dcache_*.sv, and the requests they have in
\* the memory path, keep their types: in particular no beat counter leaves the
\* line.
THEOREM CachesTypeCorrect == Spec => []TypeOK
  BY CachesInvariant, InvImplies, PTL

\* What dcache.sv says of its three sequencers, that the control FSM runs one at
\* a time, so that a bus response without a tag finds the one it is for.
THEOREM CachesSequencersExclusive == Spec => []SequencersExclusive
  BY CachesInvariant, InvImplies, PTL

\* The arrays of both caches hold what memory holds, but for words that another
\* has written since: refill, store merge and their errors leave no other
\* difference behind.
THEOREM CachesLinesAgree == Spec => []LinesAgree
  BY CachesInvariant, InvImplies, PTL

\* A fetch or load is answered with what memory holds, but for words that
\* another has written since the port last had them from memory.
THEOREM CachesLoadsAreCurrent == Spec => []LoadsAreCurrent
  BY CachesInvariant, InvImplies, PTL

-------------------------------------------------------------------------------
(* The two caches implement NoncoherentMemory, for every number of entries,*)
(* line length and memory map.  The copies of a port are the words of its  *)
(* valid lines and those its fill has so far, and a store is served when   *)
(* the memory path has carried it out: so the step that copies a word or   *)
(* stores one is the memory path's, and what the sequencers do before and  *)
(* after it shows nothing.                                                 *)

(* The invariant.                                                          *)

\* A fill remembers an error only if its line cannot be read whole.
FillFails(fill) == fill.error => \E a \in Addr \ Readable : a.line = fill.line

\* What an answer owes to the request it is for.
RequestsKept ==
  /\ dcState \notin {"IDLE", "RESP"} => dcReq.legal
  /\ dcState \in {"LOAD_REFILL_REQ", "LOAD_REFILL_WAIT"} => ~dcReq.write
  /\ op["D"].phase = "done" /\ op["D"].req.write => op["D"].rsp.data = Zero
  /\ FillFails(icFill) /\ FillFails(dcFill)

RefInv == CacheInv /\ RequestsKept

\* What port p shows of itself in NoncoherentMemory stays the same.
Quiet(p) == Copies'[p] = Copies[p] /\ Clients'[p] = Clients[p]

LEMMA ClientsOf ==
  /\ Clients["I"] = FetchClient /\ Clients["D"] = DataClient
  /\ DOMAIN Clients = Ports /\ DOMAIN Copies = Ports
  BY DEF Clients, Copies, Ports

LEMMA ClientsOfNext ==
  (/\ Clients["I"] = FetchClient /\ Clients["D"] = DataClient
   /\ DOMAIN Clients = Ports /\ DOMAIN Copies = Ports)'
  BY ClientsOf, PTL

LEMMA CopiesOf ==
  ASSUME NEW p \in Ports
  PROVE  /\ DOMAIN Copies[p] = {a \in Addr : Has(p, a)}
         /\ \A a \in Addr : Has(p, a) => Copies[p][a] = CopyAt(p, a)
  BY DEF Copies

LEMMA CopiesOfNext ==
  ASSUME NEW p \in Ports
  PROVE  (/\ DOMAIN Copies[p] = {a \in Addr : Has(p, a)}
          /\ \A a \in Addr : Has(p, a) => Copies[p][a] = CopyAt(p, a))'
  BY DEF Copies

\* The copies change where the predicates that say what they are do.
LEMMA SameCopies ==
  ASSUME NEW p \in Ports,
         \A a \in Addr : Has(p, a)' <=> Has(p, a),
         \A a \in Addr : Has(p, a) => CopyAt(p, a)' = CopyAt(p, a)
  PROVE  Copies'[p] = Copies[p]
<1>1. {a \in Addr : Has(p, a)'} = {a \in Addr : Has(p, a)}
  OBVIOUS
<1>2. Copies[p] = [a \in {b \in Addr : Has(p, b)} |-> CopyAt(p, a)]
  BY DEF Copies
<1>3. Copies'[p] = [a \in {b \in Addr : Has(p, b)'} |-> CopyAt(p, a)']
  BY DEF Copies
<1>4. QED
  BY <1>1, <1>2, <1>3

LEMMA IQuiet ==
  ASSUME UNCHANGED icVars, op'["I"] = op["I"]
  PROVE  Quiet("I")
<1> USE DEF icVars
<1>1. \A a \in Addr : Has("I", a)' <=> Has("I", a)
  BY DEF Has, InLine, FillOf, FillHas, Hit
<1>2. \A a \in Addr : CopyAt("I", a)' = CopyAt("I", a)
  BY DEF CopyAt, InLine, FillOf, FillWord, CachedWord, Hit, WordAt
<1>3. Copies'["I"] = Copies["I"]
  BY <1>1, <1>2, SameCopies DEF Ports
<1>4. FetchClient' = FetchClient
  BY DEF FetchClient
<1>5. QED
  BY <1>3, <1>4, ClientsOf, ClientsOfNext DEF Quiet

LEMMA DQuiet ==
  ASSUME UNCHANGED dcVars, op'["D"] = op["D"]
  PROVE  Quiet("D")
<1> USE DEF dcVars
<1>1. \A a \in Addr : Has("D", a)' <=> Has("D", a)
  BY DEF Has, InLine, FillOf, FillHas, Hit
<1>2. \A a \in Addr : CopyAt("D", a)' = CopyAt("D", a)
  BY DEF CopyAt, InLine, FillOf, FillWord, CachedWord, MergePending, Hit, WordAt
<1>3. Copies'["D"] = Copies["D"]
  BY <1>1, <1>2, SameCopies DEF Ports
<1>4. DataClient' = DataClient
  BY DEF DataClient
<1>5. QED
  BY <1>3, <1>4, ClientsOf, ClientsOfNext DEF Quiet

LEMMA BothQuiet ==
  ASSUME Quiet("I"), Quiet("D"), UNCHANGED mem
  PROVE  UNCHANGED Weak!vars
<1>1. Copies' = Copies
  BY DEF Copies, Quiet, Ports
<1>2. Clients' = Clients
  BY DEF Clients, Quiet, Ports
<1>3. QED
  BY <1>1, <1>2 DEF Weak!vars

\* Only port p changes.
LEMMA OthersQuiet ==
  ASSUME NEW p \in Ports, \A q \in Ports \ {p} : Quiet(q), UNCHANGED mem,
         NEW phase, Clients'[p].phase = phase
  PROVE  Weak!Goes(p, phase)
  BY DEF Weak!Goes, Quiet, Weak!Ports, Ports

\* One of port p's copies is written.
LEMMA CopyWritten ==
  ASSUME NEW p \in Ports, NEW a \in Addr, NEW word,
         \A b \in Addr : Has(p, b)' <=> Has(p, b) \/ b = a,
         \A b \in Addr : b # a /\ Has(p, b) => CopyAt(p, b)' = CopyAt(p, b),
         CopyAt(p, a)' = word,
         \A q \in Ports \ {p} : Quiet(q)
  PROVE  Weak!CopyWith(p, a, word)
<1> DEFINE new == [b \in DOMAIN Copies[p] \union {a} |->
                     IF b = a THEN word ELSE Copies[p][b]]
<1>1. DOMAIN Copies[p] \union {a} = {b \in Addr : Has(p, b)'}
  BY CopiesOf
<1>2. Copies'[p] = [b \in {c \in Addr : Has(p, c)'} |-> CopyAt(p, b)']
  BY DEF Copies
<1>3. \A b \in {c \in Addr : Has(p, c)'} :
        CopyAt(p, b)' = IF b = a THEN word ELSE Copies[p][b]
  BY CopiesOf
<1>4. Copies'[p] = new
  BY <1>1, <1>2, <1>3
<1>5. \A q \in Ports : Copies'[q] = [Copies EXCEPT ![p] = new][q]
  BY <1>4, ClientsOf DEF Quiet
<1> HIDE DEF new
<1>6. /\ Copies' = [q \in Ports |-> Copies'[q]]
      /\ [Copies EXCEPT ![p] = new] = [q \in Ports |-> [Copies EXCEPT ![p] = new][q]]
  BY DEF Copies
<1>7. Copies' = [Copies EXCEPT ![p] = new]
  BY <1>5, <1>6
<1>8. QED
  BY <1>7 DEF Weak!CopyWith, new

-------------------------------------------------------------------------------
(* What a fill shows of itself: the words it has, as copies.               *)

\* The copy at a, while it is in a fill.
InFill(p, a) == FillHas(p, FillOf(p), a)
FillCopy(p, a) == FillWord(p, FillOf(p), a)

LEMMA InFillAt ==
  ASSUME NEW p \in Ports, NEW a \in Addr
  PROVE  /\ Has(p, a) <=> InLine(p, a) \/ InFill(p, a)
         /\ CopyAt(p, a) = IF InLine(p, a) THEN CachedWord(p, a) ELSE FillCopy(p, a)
  BY DEF Has, CopyAt, InFill, FillCopy

LEMMA InFillAtNext ==
  ASSUME NEW p \in Ports, NEW a \in Addr
  PROVE  (/\ Has(p, a) <=> InLine(p, a) \/ InFill(p, a)
          /\ CopyAt(p, a) = IF InLine(p, a) THEN CachedWord(p, a)
                            ELSE FillCopy(p, a))'
  BY DEF Has, CopyAt, InFill, FillCopy

LEMMA NewFillIsEmpty ==
  ASSUME NEW p \in Ports, NEW a \in Addr, NEW l \in Lines,
         FillOf(p)' = FillStarted(l)
  PROVE  ~InFill(p, a)'
<1>1. FillOf(p)'.state = "REQ" /\ FillOf(p)'.beat = 0
  BY StartedFill
<1>2. QED
  BY <1>1 DEF InFill, FillHas, Addr, Beats

LEMMA IdleFillIsEmpty ==
  ASSUME NEW p \in Ports, NEW a \in Addr, FillOf(p).state = "IDLE"
  PROVE  ~InFill(p, a)
  BY DEF InFill, FillHas

\* An answered fill has one more word.
LEMMA AnsweredBeats ==
  ASSUME NEW f \in Fill, NEW rsp \in Reply
  PROVE  LET g == FillAnswered(f, rsp) IN
         \A b \in Beats : b < g.beat \/ g.state = "DONE"
                            <=> b <= f.beat
<1> DEFINE g == FillAnswered(f, rsp)
<1>1. /\ g.beat = IF f.beat = LastBeat THEN f.beat ELSE f.beat + 1
      /\ g.state = IF f.beat = LastBeat THEN "DONE" ELSE "REQ"
  BY DEF FillAnswered, Fill
<1>2. QED
  BY <1>1 DEF Fill, Beats

\* A fill that asks for its next word keeps those it has.
LEMMA RequestKeepsCopies ==
  ASSUME NEW p \in Ports, NEW a \in Addr, FillOf(p) \in Fill,
         FillOf(p).state = "REQ", FillOf(p)' = FillRequested(FillOf(p)),
         op'[p].phase = "pending"
  PROVE  /\ InFill(p, a)' <=> InFill(p, a)
         /\ InFill(p, a) => FillCopy(p, a)' = FillCopy(p, a)
<1> DEFINE f == FillOf(p)
<1>1. /\ f'.state = "WAIT" /\ f'.line = f.line /\ f'.beat = f.beat
      /\ f'.data = f.data
  BY RequestedFill
<1>2. InFill(p, a)' <=> InFill(p, a)
  BY <1>1 DEF InFill, FillHas
<1>3. ASSUME InFill(p, a)
      PROVE  FillCopy(p, a)' = FillCopy(p, a)
  <2>1. a.beat \in Nat /\ f.beat \in Nat
    BY DEF Addr, Fill, Beats
  <2>2. a.beat # f.beat
    BY <1>3, <2>1 DEF InFill, FillHas
  <2>3. QED
    BY <1>1, <2>2 DEF FillCopy, FillWord
<1>4. QED
  BY <1>2, <1>3

\* One that takes the word that the memory path has read had it before.
LEMMA AnswerKeepsCopies ==
  ASSUME NEW p \in Ports, NEW a \in Addr, FillOf(p) \in Fill,
         FillOf(p).state = "WAIT", op[p].rsp \in Reply, op[p].phase = "done",
         FillOf(p)' = FillAnswered(FillOf(p), op[p].rsp)
  PROVE  /\ InFill(p, a)' <=> InFill(p, a)
         /\ InFill(p, a) => FillCopy(p, a)' = FillCopy(p, a)
<1> DEFINE f == FillOf(p)
<1>1. /\ f'.line = f.line /\ f'.state \in {"REQ", "DONE"}
      /\ f'.data[f.beat] = op[p].rsp.data
      /\ \A b \in Beats : b # f.beat => f'.data[b] = f.data[b]
  BY AnsweredFill
<1>2. a.beat \in Beats /\ a.beat \in Nat /\ f.beat \in Nat
  BY DEF Addr, Fill, Beats
<1>3. a.beat < f'.beat \/ f'.state = "DONE" <=> a.beat <= f.beat
  BY <1>2, AnsweredBeats
<1>4. InFill(p, a) <=> a.line = f.line /\ a \in Readable /\ a.beat <= f.beat
  BY <1>2 DEF InFill, FillHas
<1>5. InFill(p, a)' <=> /\ a.line = f.line /\ a \in Readable
                        /\ a.beat < f'.beat \/ f'.state = "DONE"
  BY <1>1 DEF InFill, FillHas
<1>6. ASSUME InFill(p, a)
      PROVE  FillCopy(p, a)' = FillCopy(p, a)
  BY <1>1, <1>2 DEF FillCopy, FillWord
<1>7. QED
  BY <1>3, <1>4, <1>5, <1>6

\* Once the memory path has read a word, the fill has it, if it can be read.
LEMMA PerformAddsCopy ==
  ASSUME NEW p \in Ports, NEW a \in Addr, FillOf(p) \in Fill,
         FillOf(p).state = "WAIT", UNCHANGED FillOf(p),
         op[p].phase = "pending", op'[p].phase = "done"
  PROVE  LET f == FillAddr(FillOf(p)) IN
         /\ InFill(p, a)' <=> InFill(p, a) \/ (a = f /\ f \in Readable)
         /\ InFill(p, a) => a # f /\ FillCopy(p, a)' = FillCopy(p, a)
         /\ a = f => FillCopy(p, a)' = op'[p].rsp.data
<1> DEFINE f == FillOf(p)
<1>1. a.line = f.line /\ a.beat = f.beat <=> a = FillAddr(f)
  BY DEF Addr, FillAddr, Fill
<1>2. a.beat \in Nat /\ f.beat \in Nat
  BY DEF Addr, Fill, Beats
<1>3. InFill(p, a) <=> a.line = f.line /\ a \in Readable /\ a.beat < f.beat
  BY DEF InFill, FillHas
<1>4. InFill(p, a)' <=> /\ a.line = f.line /\ a \in Readable
                        /\ a.beat < f.beat \/ a.beat = f.beat
  BY DEF InFill, FillHas
<1>5. ASSUME InFill(p, a)
      PROVE  a.beat # f.beat /\ FillCopy(p, a)' = FillCopy(p, a)
  <2>1. a.beat # f.beat
    BY <1>2, <1>3, <1>5
  <2>2. QED
    BY <2>1 DEF FillCopy, FillWord
<1>6. ASSUME a.beat = f.beat
      PROVE  FillCopy(p, a)' = op'[p].rsp.data
  BY <1>6 DEF FillCopy, FillWord
<1>7. QED
  BY <1>1, <1>3, <1>4, <1>5, <1>6

-------------------------------------------------------------------------------
(* The steps of the I-cache.                                               *)

LEMMA FetchHitLoads ==
  ASSUME RefInv, NEW a \in Fetches, FetchHit(a), UNCHANGED <<op, mem>>, Quiet("D")
  PROVE  Weak!Load("I")
<1> DEFINE req == [NoAccess EXCEPT !.addr = a]
<1>1. a \in Addr /\ req \in Access /\ req.addr = a /\ ~req.write /\ req.legal
  BY ReadAccess DEF NoAccess, Access
<1>2. FetchClient.phase = "idle"
  BY DEF FetchHit, FetchClient
<1>3. FetchClient' = Served(req, [data |-> WordAt(icLines, a), err |-> FALSE])
  BY DEF FetchHit, FetchClient
<1>4. /\ Clients'["I"].phase = "done" /\ Clients'["I"].req = req
      /\ Clients'["I"].rsp.err = FALSE
      /\ Clients'["I"].rsp.data = WordAt(icLines, a)
  BY <1>3, ClientsOfNext DEF Served
<1>5. Copies'["I"] = Copies["I"]
  <2>1. \A b \in Addr : Has("I", b)' <=> Has("I", b)
    BY DEF Has, InLine, FillOf, FillHas, Hit, FetchHit
  <2>2. \A b \in Addr : CopyAt("I", b)' = CopyAt("I", b)
    BY DEF CopyAt, InLine, FillOf, FillWord, CachedWord, Hit, WordAt, FetchHit
  <2>3. QED
    BY <2>1, <2>2, SameCopies DEF Ports
<1>6. a \in DOMAIN Copies["I"] /\ Copies["I"][a] = WordAt(icLines, a)
  BY <1>1, CopiesOf DEF Ports, Has, InLine, CopyAt, CachedWord, FetchHit
<1>7. Weak!Goes("I", "done")
  BY <1>4, OthersQuiet DEF Ports
<1>8. Weak!Forgets("I")
  BY <1>5 DEF Weak!Forgets, Quiet, Weak!Ports
<1>9. Weak!Answers("I", req, FALSE)
  BY <1>1, <1>2, <1>4, <1>7, ClientsOf DEF Weak!Answers
<1>10. QED
  BY <1>1, <1>4, <1>6, <1>7, <1>8, <1>9 DEF Weak!Load, MayCopy, Ports

LEMMA FetchMissAsks ==
  ASSUME RefInv, NEW a \in Fetches, FetchMiss(a), UNCHANGED <<op, mem>>, Quiet("D")
  PROVE  Weak!Ask("I")
<1> DEFINE req == [NoAccess EXCEPT !.addr = a]
<1>1. req \in Access
  BY ReadAccess
<1>2. FetchClient.phase = "idle" /\ FetchClient' = Waits(req)
  BY DEF FetchMiss, FetchClient
<1>3. Clients'["I"].phase = "asked" /\ Clients'["I"].req = req
  BY <1>2, ClientsOfNext DEF Waits
<1>4. Copies'["I"] = Copies["I"]
  <2>1. \A b \in Addr : Has("I", b)' <=> Has("I", b)
    BY DEF Has, InLine, FillOf, FillHas, Hit, FetchMiss
  <2>2. \A b \in Addr : CopyAt("I", b)' = CopyAt("I", b)
    BY DEF CopyAt, InLine, FillOf, FillWord, CachedWord, Hit, WordAt, FetchMiss
  <2>3. QED
    BY <2>1, <2>2, SameCopies DEF Ports
<1>5. Weak!Goes("I", "asked")
  BY <1>3, OthersQuiet DEF Ports
<1>6. UNCHANGED Copies
  BY <1>4 DEF Copies, Quiet, Ports
<1>7. QED
  BY <1>1, <1>2, <1>3, <1>5, <1>6, ClientsOf DEF Weak!Ask

LEMMA FetchCollects ==
  ASSUME RefInv, FetchRespond, UNCHANGED <<op, mem>>, Quiet("D")
  PROVE  Weak!Collect("I")
<1>1. FetchClient.phase = "done" /\ FetchClient'.phase = "idle"
  BY DEF FetchRespond, FetchClient, Served
<1>2. Copies'["I"] = Copies["I"]
  <2>1. \A b \in Addr : Has("I", b)' <=> Has("I", b)
    BY DEF Has, InLine, FillOf, FillHas, Hit, FetchRespond
  <2>2. \A b \in Addr : CopyAt("I", b)' = CopyAt("I", b)
    BY DEF CopyAt, InLine, FillOf, FillWord, CachedWord, Hit, WordAt, FetchRespond
  <2>3. QED
    BY <2>1, <2>2, SameCopies DEF Ports
<1>3. Weak!Goes("I", "idle")
  BY <1>1, ClientsOfNext, OthersQuiet DEF Ports
<1>4. UNCHANGED Copies
  BY <1>2 DEF Copies, Quiet, Ports
<1>5. QED
  BY <1>1, <1>3, <1>4, ClientsOf DEF Weak!Collect

\* A fill that starts, asks for its next word, or takes one the memory path has
\* read, shows nothing new.
LEMMA FetchFillStartQuiet ==
  ASSUME RefInv, FetchFillStart
  PROVE  Quiet("I")
<1>1. icAddr.line \in Lines
  BY DEF RefInv, CacheInv, IInv, IType, ICacheTypeOK, Addr
<1>2. FillOf("I").state = "IDLE" /\ FillOf("I")' = FillStarted(icAddr.line)
  BY DEF FillOf, FetchFillStart
<1>3. \A a \in Addr : ~InFill("I", a) /\ ~InFill("I", a)'
  BY <1>1, <1>2, IdleFillIsEmpty, NewFillIsEmpty DEF Ports
<1>4. \A a \in Addr : InLine("I", a)' <=> InLine("I", a)
  BY DEF InLine, Hit, FetchFillStart
<1>5. \A a \in Addr : CachedWord("I", a)' = CachedWord("I", a)
  BY DEF CachedWord, WordAt, FetchFillStart
<1>6. Copies'["I"] = Copies["I"]
  BY <1>3, <1>4, <1>5, InFillAt, InFillAtNext, SameCopies DEF Ports
<1>7. FetchClient' = FetchClient
  BY DEF FetchClient, FetchFillStart
<1>8. QED
  BY <1>6, <1>7, ClientsOf, ClientsOfNext DEF Quiet

LEMMA FetchFillMoves ==
  ASSUME RefInv,
         \/ FetchFillRequest /\ op'["I"].phase = "pending"
         \/ FetchFillAnswer(op["I"].rsp) /\ op["I"].phase = "done"
  PROVE  Quiet("I")
<1>1. FillOf("I") \in Fill /\ op["I"].rsp \in Reply /\ FillOf("I") = icFill
  BY DEF RefInv, CacheInv, IInv, IType, ICacheTypeOK, FillOf
<1>2. /\ UNCHANGED <<icState, icAddr, icRsp, icTags, icLines>>
      /\ FillOf("I")' = icFill'
  BY DEF FillOf, FetchFillRequest, FetchFillAnswer
<1>3. \A a \in Addr : /\ InFill("I", a)' <=> InFill("I", a)
                      /\ InFill("I", a) => FillCopy("I", a)' = FillCopy("I", a)
  <2>1. CASE FetchFillRequest /\ op'["I"].phase = "pending"
    BY <1>1, <1>2, <2>1, RequestKeepsCopies DEF FetchFillRequest, Ports
  <2>2. CASE FetchFillAnswer(op["I"].rsp) /\ op["I"].phase = "done"
    BY <1>1, <1>2, <2>2, AnswerKeepsCopies DEF FetchFillAnswer, Ports
  <2>3. QED
    BY <2>1, <2>2
<1>4. \A a \in Addr : InLine("I", a)' <=> InLine("I", a)
  BY <1>2 DEF InLine, Hit
<1>5. \A a \in Addr : CachedWord("I", a)' = CachedWord("I", a)
  BY <1>2 DEF CachedWord, WordAt
<1>6. Copies'["I"] = Copies["I"]
  BY <1>3, <1>4, <1>5, InFillAt, InFillAtNext, SameCopies DEF Ports
<1>7. FetchClient' = FetchClient
  BY <1>2 DEF FetchClient
<1>8. QED
  BY <1>6, <1>7, ClientsOf, ClientsOfNext DEF Quiet

\* The finished line is what the fill has, and it takes the place of another.
LEMMA FetchFillAcceptForgets ==
  ASSUME RefInv, FetchFillAccept, UNCHANGED <<op, mem>>, Quiet("D")
  PROVE  Weak!Forgets("I")
<1>1. /\ icFill \in Fill /\ icFill.state = "DONE" /\ icFill.line = icAddr.line
      /\ icTags \in Tags /\ icLines \in [Indices -> LineData]
  BY DEF RefInv, CacheInv, IInv, IType, ICacheTypeOK, ISequencer, FetchFillAccept
<1>2. icFill'.state = "IDLE"
  BY DEF FetchFillAccept, FillTaken, FillReset, FillStarted
<1>3. \A a \in Addr : Has("I", a)' => Has("I", a) /\ CopyAt("I", a)' = CopyAt("I", a)
  <2> SUFFICES ASSUME NEW a \in Addr, Has("I", a)'
               PROVE  Has("I", a) /\ CopyAt("I", a)' = CopyAt("I", a)
    OBVIOUS
  <2>1. Hit(icTags', a.line) /\ CopyAt("I", a)' = WordAt(icLines', a)
    BY <1>2 DEF Has, InLine, FillHas, FillOf, CopyAt, CachedWord, WordAt, Hit
  <2>2. CASE Hit(icTags, a.line) /\ WordAt(icLines', a) = WordAt(icLines, a)
    BY <2>1, <2>2 DEF Has, InLine, CopyAt, CachedWord
  <2>3. CASE /\ a.line = icFill.line /\ ~icFill.error
             /\ WordAt(icLines', a) = icFill.data[a.beat]
    <3>1. ~InLine("I", a)
      BY <1>1, <2>3 DEF RefInv, CacheInv, IInv, IOwned, InLine, FetchFillAccept
    <3>2. a \in Readable
      BY <1>1, <2>3 DEF RefInv, CacheInv, IInv, FillOK, Addr
    <3>3. FillHas("I", icFill, a) /\ FillWord("I", icFill, a) = icFill.data[a.beat]
      BY <1>1, <2>3, <3>2 DEF FillHas, FillWord
    <3>4. QED
      BY <2>1, <2>3, <3>1, <3>3 DEF Has, FillOf, CopyAt
  <2>4. QED
    BY <1>1, <2>1, <2>2, <2>3, RefilledArrays DEF FetchFillAccept
<1>4. DOMAIN Copies'["I"] \subseteq DOMAIN Copies["I"]
  BY <1>3, CopiesOf, CopiesOfNext DEF Ports
<1>5. \A a \in DOMAIN Copies'["I"] : Copies'["I"][a] = Copies["I"][a]
  BY <1>3, CopiesOf, CopiesOfNext DEF Ports
<1>6. QED
  BY <1>4, <1>5 DEF Weak!Forgets, Weak!Ports, Quiet

LEMMA FetchFillAcceptLoads ==
  ASSUME RefInv, FetchFillAccept, UNCHANGED <<op, mem>>, Quiet("D")
  PROVE  Weak!Load("I") \/ Weak!LoadFails("I")
<1> DEFINE req == [NoAccess EXCEPT !.addr = icAddr]
           rsp == [data |-> icFill.data[icAddr.beat], err |-> icFill.error]
<1>1. icAddr \in Addr /\ req \in Access /\ req.addr = icAddr /\ ~req.write
      /\ req.legal
  BY ReadAccess DEF RefInv, CacheInv, IInv, IType, ICacheTypeOK, NoAccess, Access
<1>2. FetchClient = Waits(req)
  BY DEF FetchFillAccept, FetchClient
<1>3. FetchClient' = Served(req, rsp)
  BY DEF FetchFillAccept, FetchClient
<1>4. /\ Clients'["I"].phase = "done" /\ Clients'["I"].req = req
      /\ Clients'["I"].rsp = rsp
  BY <1>3, ClientsOfNext DEF Served
<1>5. Clients["I"] = [phase |-> "asked", req |-> req]
  BY <1>2, ClientsOf DEF Waits
<1>6. Weak!Goes("I", "done")
  BY <1>4, OthersQuiet DEF Ports
<1>7. Weak!Forgets("I")
  BY FetchFillAcceptForgets
<1>8. Weak!Answers("I", req, icFill.error)
  BY <1>1, <1>4, <1>5, <1>6 DEF Weak!Answers
<1>9. icFill \in Fill /\ icFill.state = "DONE" /\ icFill.line = icAddr.line
  BY DEF RefInv, CacheInv, IInv, IType, ICacheTypeOK, ISequencer, FetchFillAccept
<1>10. CASE ~icFill.error
  <2>1. icAddr \in Readable
    BY <1>1, <1>9, <1>10 DEF RefInv, CacheInv, IInv, FillOK, Addr
  <2>2. FillHas("I", icFill, icAddr)
    BY <1>9, <2>1 DEF FillHas
  <2>3. ~InLine("I", icAddr)
    BY DEF RefInv, CacheInv, IInv, IOwned, InLine, FetchFillAccept
  <2>4. FillWord("I", icFill, icAddr) = icFill.data[icAddr.beat]
    BY <1>9 DEF FillWord
  <2>5. icAddr \in DOMAIN Copies["I"] /\ Copies["I"][icAddr] = rsp.data
    BY <1>1, <2>2, <2>3, <2>4, CopiesOf DEF Ports, Has, FillOf, CopyAt
  <2>6. Weak!Answers("I", req, FALSE)
    BY <1>8, <1>10, <1>9 DEF Fill
  <2>7. QED
    BY <1>1, <1>4, <1>6, <1>7, <2>5, <2>6 DEF Weak!Load, MayCopy, Ports
<1>11. CASE icFill.error
  <2>1. PICK a \in Addr \ Readable : a.line = icAddr.line
    BY <1>9, <1>11 DEF RefInv, RequestsKept, FillFails
  <2>2. Weak!Answers("I", req, TRUE)
    BY <1>8, <1>9, <1>11 DEF Fill
  <2>3. QED
    BY <1>1, <1>4, <1>6, <1>7, <2>1, <2>2 DEF Weak!LoadFails, MayCopy, Ports
<1>12. QED
  BY <1>10, <1>11

\* The memory path reads the word a fill asks for: a copy of it, if it can be
\* read, is made.
LEMMA FetchFillCopies ==
  ASSUME RefInv, Perform("I"), Quiet("D")
  PROVE  Weak!Copy("I") \/ UNCHANGED Weak!vars
<1>0. PICK f : f = FillAddr(icFill)
  OBVIOUS
<1> DEFINE req == op["I"].req
<1>1. /\ icFill \in Fill /\ icFill.state = "WAIT" /\ icState = "MISS_WAIT"
      /\ f \in Addr /\ req \in Access /\ icAddr \in Addr
      /\ icFill.line = icAddr.line /\ f.line = icAddr.line
  BY <1>0 DEF RefInv, CacheInv, IInv, IType, ICacheTypeOK, ISequencer, FillAddr,
              Fill, Addr, Perform
<1>2. req.addr = f /\ ~req.write
  BY <1>0, <1>1, ReadAccess DEF RefInv, CacheInv, IInv, IOwned, Perform
<1>3. /\ op'["I"].phase = "done" /\ op["I"].phase = "pending"
      /\ op'["I"].rsp = AnswerTo(req)
  BY DEF Perform, RefInv, CacheInv, Storage, Ports
<1>4. UNCHANGED <<icVars, mem>>
  BY <1>2 DEF Perform
<1>5. \A a \in Addr : InLine("I", a)' <=> InLine("I", a)
  BY <1>4 DEF InLine, Hit, icVars
<1>6. \A a \in Addr : CachedWord("I", a)' = CachedWord("I", a)
  BY <1>4 DEF CachedWord, WordAt, icVars
<1>7. FillOf("I") = icFill /\ UNCHANGED FillOf("I")
  BY <1>4 DEF FillOf, icVars
<1>8. \A a \in Addr :
        /\ InFill("I", a)' <=> InFill("I", a) \/ (a = f /\ f \in Readable)
        /\ InFill("I", a) => a # f /\ FillCopy("I", a)' = FillCopy("I", a)
        /\ a = f => FillCopy("I", a)' = op'["I"].rsp.data
  BY <1>0, <1>1, <1>3, <1>7, PerformAddsCopy DEF Ports
<1>9. \A a \in Addr : Has("I", a)' <=> Has("I", a) \/ (a = f /\ f \in Readable)
  BY <1>5, <1>8, InFillAt, InFillAtNext DEF Ports
<1>10. \A a \in Addr : Has("I", a) => CopyAt("I", a)' = CopyAt("I", a)
  BY <1>5, <1>6, <1>8, InFillAt, InFillAtNext DEF Ports
<1>11. Clients'["I"] = Clients["I"]
  BY <1>4, ClientsOf, ClientsOfNext DEF FetchClient, icVars
<1>12. CASE f \notin Readable
  <2>1. Copies'["I"] = Copies["I"]
    BY <1>9, <1>10, <1>12, SameCopies DEF Ports
  <2>2. QED
    BY <1>4, <1>11, <2>1, BothQuiet DEF Quiet
<1>13. CASE f \in Readable
  <2>1. PICK word : word = mem[CellOf[f]]
    OBVIOUS
  <2>2. CopyAt("I", f)' = word
    <3>1. ~InLine("I", f)
      BY <1>1 DEF RefInv, CacheInv, IInv, IOwned, InLine
    <3>2. op'["I"].rsp.data = word
      BY <1>2, <1>3, <1>13, <2>1 DEF AnswerTo, Succeeds
    <3>3. QED
      BY <1>1, <1>5, <1>8, <3>1, <3>2, InFillAtNext DEF Ports
  <2>3. Weak!CopyWith("I", f, word)
    <3>1. \A b \in Addr : Has("I", b)' <=> Has("I", b) \/ b = f
      BY <1>9, <1>13
    <3>2. \A q \in Ports \ {"I"} : Quiet(q)
      BY DEF Ports
    <3>3. QED
      BY <1>1, <1>10, <2>2, <3>1, <3>2, CopyWritten DEF Ports
  <2>4. Clients["I"] = Waits([NoAccess EXCEPT !.addr = icAddr])
    BY <1>1, ClientsOf DEF FetchClient
  <2>5. /\ Clients["I"].phase = "asked" /\ Clients["I"].req.addr = icAddr
        /\ Clients["I"].req.legal /\ ~Clients["I"].req.write
    BY <1>1, <2>4 DEF Waits, NoAccess
  <2>6. f \in MayCopy["I"] \intersect Readable
    BY <1>1, <1>13 DEF MayCopy, Ports
  <2>7. UNCHANGED <<mem, Clients>>
    BY <1>4, <1>11 DEF Quiet, Clients, Ports
  <2>8. QED
    BY <1>1, <2>1, <2>3, <2>5, <2>6, <2>7 DEF Weak!Copy
<1>14. QED
  BY <1>12, <1>13

-------------------------------------------------------------------------------
(* The steps of the D-cache.                                               *)

\* The copies of the D-cache stay when the words of its lines and of its fill
\* do.
LEMMA DCopiesKept ==
  ASSUME UNCHANGED dcTags,
         \A a \in Addr : InLine("D", a) => CachedWord("D", a)' = CachedWord("D", a),
         \A a \in Addr : InFill("D", a)' <=> InFill("D", a),
         \A a \in Addr :
           InFill("D", a) => FillCopy("D", a)' = FillCopy("D", a)
  PROVE  Copies'["D"] = Copies["D"]
<1>1. \A a \in Addr : InLine("D", a)' <=> InLine("D", a)
  BY DEF InLine, Hit
<1>2. QED
  BY <1>1, InFillAt, InFillAtNext, SameCopies DEF Ports

\* So they do where no sequencer moves and no store is merged.
LEMMA DCopiesIdle ==
  ASSUME UNCHANGED <<dcTags, dcLines, dcFill>>, dcFill.state = "IDLE",
         dcState = "STORE_WAIT" => op["D"].phase # "done" /\ dcStore.state # "DONE",
         dcState' = "STORE_WAIT" =>
           op'["D"].phase # "done" /\ dcStore'.state # "DONE"
  PROVE  Copies'["D"] = Copies["D"]
<1>1. \A a \in Addr : CachedWord("D", a)' = CachedWord("D", a)
  BY DEF CachedWord, MergePending, WordAt
<1>2. \A a \in Addr : ~InFill("D", a) /\ ~InFill("D", a)'
  BY DEF InFill, FillHas, FillOf
<1>3. QED
  BY <1>1, <1>2, DCopiesKept

\* The core's request is accepted.
LEMMA AcceptTakes ==
  ASSUME RefInv, NEW req \in Requests, Accept(req), UNCHANGED <<op, mem>>,
         dcState' # "STORE_WAIT", Quiet("I")
  PROVE  /\ UNCHANGED Copies /\ Clients["D"].phase = "idle" /\ dcReq' = req
         /\ dcStore'.state = "IDLE" /\ dcUncached'.state = "IDLE"
<1>1. dcState = "IDLE" /\ UNCHANGED <<dcTags, dcLines, dcFill, dcStore, dcUncached>>
  BY DEF Accept
<1>2. /\ dcFill.state = "IDLE" /\ dcStore.state = "IDLE"
      /\ dcUncached.state = "IDLE"
  BY <1>1, NobodyWorks DEF RefInv, CacheInv
<1>3. Copies'["D"] = Copies["D"]
  BY <1>1, <1>2, DCopiesIdle
<1>4. UNCHANGED Copies
  BY <1>3 DEF Copies, Quiet, Ports
<1>5. Clients["D"].phase = "idle"
  BY <1>1, ClientsOf DEF DataClient
<1>6. QED
  BY <1>1, <1>2, <1>4, <1>5 DEF Accept

LEMMA AcceptRefines ==
  ASSUME RefInv, NEW req \in Requests,
         LoadHit(req) \/ TakeWork(req) \/ RefuseRequest(req),
         UNCHANGED <<op, mem>>, Quiet("I")
  PROVE  Weak!Load("D") \/ Weak!Ask("D") \/ Weak!Fail("D")
<1>1. Accept(req) /\ dcState' \notin {"IDLE", "STORE_WAIT"}
  BY DEF LoadHit, TakeWork, WorkState, RefuseRequest
<1>2. /\ UNCHANGED Copies /\ Clients["D"].phase = "idle" /\ dcReq' = req
      /\ dcStore'.state = "IDLE" /\ dcUncached'.state = "IDLE"
  BY <1>1, AcceptTakes
<1>3. req \in Access /\ req.addr \in Addr
  BY DEF Access
<1>4. CASE TakeWork(req)
  <2>1. DataClient' = Waits(req)
    BY <1>2, <1>4 DEF DataClient, TakeWork, WorkState
  <2>2. Clients'["D"].phase = "asked" /\ Clients'["D"].req = req
    BY <2>1, ClientsOfNext DEF Waits
  <2>3. Weak!Goes("D", "asked")
    BY <2>2, OthersQuiet DEF Ports
  <2>4. QED
    BY <1>2, <1>3, <2>2, <2>3 DEF Weak!Ask
<1>5. CASE LoadHit(req) \/ RefuseRequest(req)
  <2>1. DataClient' = Served(req, dcRsp')
    BY <1>2, <1>5 DEF DataClient, LoadHit, RefuseRequest
  <2>2. /\ Clients'["D"].phase = "done" /\ Clients'["D"].req = req
        /\ Clients'["D"].rsp = dcRsp'
    BY <2>1, ClientsOfNext DEF Served
  <2>3. Weak!Goes("D", "done")
    BY <2>2, OthersQuiet DEF Ports
  <2>4. Weak!Answers("D", req, dcRsp'.err)
    BY <1>2, <1>3, <2>2, <2>3 DEF Weak!Answers
  <2>5. CASE LoadHit(req)
    <3>1. dcRsp'.err = FALSE /\ dcRsp'.data = WordAt(dcLines, req.addr)
      BY <2>5 DEF LoadHit
    <3>2. InLine("D", req.addr) /\ req.addr.line \in Cacheable
      BY <2>5 DEF LoadHit, CachedHit, InLine
    <3>3. CachedWord("D", req.addr) = WordAt(dcLines, req.addr)
      BY <1>1 DEF CachedWord, MergePending, Accept
    <3>4. /\ req.addr \in DOMAIN Copies["D"]
          /\ Copies["D"][req.addr] = WordAt(dcLines, req.addr)
      BY <1>3, <3>2, <3>3, CopiesOf, InFillAt DEF Ports
    <3>5. Weak!Forgets("D")
      BY <1>2 DEF Weak!Forgets, Weak!Ports
    <3>6. req.addr \in MayCopy["D"]
      BY <1>3, <3>2 DEF MayCopy, Ports
    <3>7. req.legal /\ ~req.write
      BY <2>5 DEF LoadHit
    <3>8. QED
      BY <2>2, <2>3, <2>4, <3>1, <3>4, <3>5, <3>6, <3>7 DEF Weak!Load
  <2>6. CASE RefuseRequest(req)
    <3>1. dcRsp'.err = TRUE /\ ~req.legal
      BY <2>6 DEF RefuseRequest
    <3>2. QED
      BY <1>2, <2>2, <2>3, <2>4, <3>1 DEF Weak!Fail
  <2>7. QED
    BY <1>5, <2>5, <2>6
<1>6. QED
  BY <1>4, <1>5

LEMMA RespondCollects ==
  ASSUME RefInv, Respond, UNCHANGED <<op, mem>>, Quiet("I")
  PROVE  Weak!Collect("D")
<1>1. Clients["D"].phase = "done" /\ Clients'["D"].phase = "idle"
  BY ClientsOf, ClientsOfNext DEF Respond, DataClient, Served
<1>2. dcFill.state = "IDLE"
  BY NobodyWorks DEF RefInv, CacheInv, Respond
<1>3. Copies'["D"] = Copies["D"]
  BY <1>2, DCopiesIdle DEF Respond
<1>4. Weak!Goes("D", "idle")
  BY <1>1, OthersQuiet DEF Ports
<1>5. UNCHANGED Copies
  BY <1>3 DEF Copies, Quiet, Ports
<1>6. QED
  BY <1>1, <1>4, <1>5 DEF Weak!Collect

\* A sequencer that starts shows nothing.
LEMMA StartQuiet ==
  ASSUME RefInv, FillStart \/ StoreStart \/ UncachedStart, UNCHANGED op
  PROVE  Quiet("D")
<1>1. /\ dcFill.state = "IDLE" /\ dcStore.state = "IDLE"
      /\ dcUncached.state = "IDLE" /\ op["D"].phase = "idle"
      /\ dcReq.addr.line \in Lines
  <2>1. dcReq.addr.line \in Lines
    BY DEF RefInv, CacheInv, DInv, DType, DCacheTypeOK, Access, Addr
  <2>2. QED
    BY <2>1, NobodyWorks
       DEF RefInv, CacheInv, FillStart, StoreStart, UncachedStart
<1>2. UNCHANGED <<dcReq, dcTags, dcLines>>
  BY DEF FillStart, StoreStart, UncachedStart
<1>3. /\ dcState \in {"LOAD_REFILL_REQ", "STORE_REQ", "UNCACHED_REQ"}
      /\ dcState' \in {"LOAD_REFILL_WAIT", "STORE_WAIT", "UNCACHED_WAIT"}
      /\ dcStore'.state \in {"IDLE", "REQ"} /\ dcUncached'.state \in {"IDLE", "REQ"}
  BY <1>1 DEF FillStart, StoreStart, UncachedStart
<1>4. Clients'["D"] = Clients["D"]
  <2>1. DataClient = Waits(dcReq)
    BY <1>1, <1>3 DEF DataClient
  <2>2. DataClient' = Waits(dcReq')
    BY <1>3 DEF DataClient, Waits
  <2>3. QED
    BY <1>2, <2>1, <2>2, ClientsOf, ClientsOfNext
<1>5. \A a \in Addr : CachedWord("D", a)' = CachedWord("D", a)
  BY <1>1, <1>2, <1>3 DEF CachedWord, MergePending, WordAt
<1>6. \A a \in Addr : ~InFill("D", a) /\ ~InFill("D", a)'
  <2>1. FillOf("D").state = "IDLE"
    BY <1>1 DEF FillOf
  <2>2. FillOf("D")'.state = "IDLE" \/ FillOf("D")' = FillStarted(dcReq.addr.line)
    BY <1>1 DEF FillOf, FillStart, StoreStart, UncachedStart
  <2>3. \A a \in Addr : FillOf("D")'.state = "IDLE" => ~InFill("D", a)'
    BY DEF InFill, FillHas
  <2>4. QED
    BY <1>1, <2>1, <2>2, <2>3, IdleFillIsEmpty, NewFillIsEmpty DEF Ports
<1>7. QED
  BY <1>2, <1>4, <1>5, <1>6, DCopiesKept DEF Quiet

LEMMA BusRequestQuiet ==
  ASSUME RefInv, BusRequest, op["D"].phase = "idle", op'["D"].phase = "pending"
  PROVE  Quiet("D")
<1>1. dcFill \in Fill /\ FillOf("D") = dcFill /\ FillOf("D")' = dcFill'
  BY DEF RefInv, CacheInv, DInv, DType, DCacheTypeOK, FillOf
<1>2. UNCHANGED <<dcState, dcReq, storeHit, dcRsp, dcTags, dcLines>>
  BY DEF BusRequest
<1>3. /\ dcState \in {"LOAD_REFILL_WAIT", "STORE_WAIT", "UNCACHED_WAIT"}
      /\ dcStore.state # "DONE" /\ dcUncached.state # "DONE"
      /\ dcStore'.state # "DONE" /\ dcUncached'.state # "DONE"
  <2>1. /\ dcStore \in [state : SeqStates, req : Access, error : BOOLEAN]
        /\ dcUncached \in [state : SeqStates, req : Access, rsp : Reply]
    BY DEF RefInv, CacheInv, DInv, DType, DCacheTypeOK
  <2>2. /\ dcState \in {"LOAD_REFILL_WAIT", "STORE_WAIT", "UNCACHED_WAIT"}
        /\ dcStore.state # "DONE" /\ dcUncached.state # "DONE"
    BY OneWorks DEF RefInv, CacheInv, BusRequest, WantsBus
  <2>3. QED
    BY <2>1, <2>2 DEF BusRequest
<1>4. Clients'["D"] = Clients["D"]
  BY <1>2, <1>3, ClientsOf, ClientsOfNext DEF DataClient, Waits
<1>5. \A a \in Addr : CachedWord("D", a)' = CachedWord("D", a)
  BY <1>2, <1>3 DEF CachedWord, MergePending, WordAt
<1>6. \A a \in Addr : /\ InFill("D", a)' <=> InFill("D", a)
                      /\ InFill("D", a) => FillCopy("D", a)' = FillCopy("D", a)
  <2>1. CASE dcFill.state = "REQ"
    <3>1. dcFill' = FillRequested(dcFill)
      BY <2>1, OneWorks DEF RefInv, CacheInv, BusRequest
    <3>2. QED
      BY <1>1, <2>1, <3>1, RequestKeepsCopies DEF Ports
  <2>2. CASE dcFill.state # "REQ"
    <3>1. dcFill' = dcFill /\ dcFill.state = "IDLE"
      BY <2>2, OneWorks DEF RefInv, CacheInv, BusRequest, WantsBus
    <3>2. QED
      BY <1>1, <3>1 DEF InFill, FillHas
  <2>3. QED
    BY <2>1, <2>2
<1>7. QED
  BY <1>2, <1>4, <1>5, <1>6, DCopiesKept DEF Quiet

LEMMA BusAnswerQuiet ==
  ASSUME RefInv, BusAnswer(op["D"].rsp), op["D"].phase = "done",
         op'["D"].phase = "idle"
  PROVE  Quiet("D")
<1> DEFINE rsp == op["D"].rsp
<1>1. /\ dcFill \in Fill /\ FillOf("D") = dcFill /\ FillOf("D")' = dcFill'
      /\ rsp \in Reply
      /\ dcStore \in [state : SeqStates, req : Access, error : BOOLEAN]
      /\ dcUncached \in [state : SeqStates, req : Access, rsp : Reply]
  BY DEF RefInv, CacheInv, DInv, DType, DCacheTypeOK, FillOf
<1>2. UNCHANGED <<dcState, dcReq, storeHit, dcRsp, dcTags, dcLines>>
  BY DEF BusAnswer
<1>3. \/ /\ dcState = "STORE_WAIT" /\ op["D"].req = dcReq /\ dcReq.write
         /\ dcStore.state = "WAIT" /\ dcStore'.state = "DONE"
         /\ dcStore'.error = rsp.err
         /\ dcFill' = dcFill /\ dcFill.state = "IDLE"
         /\ dcUncached.state = "IDLE" /\ dcUncached'.state = "IDLE"
      \/ /\ dcState = "UNCACHED_WAIT"
         /\ dcUncached.state = "WAIT" /\ dcUncached'.state = "DONE"
         /\ dcUncached'.rsp = rsp
         /\ dcFill' = dcFill /\ dcFill.state = "IDLE"
         /\ dcStore.state = "IDLE" /\ dcStore'.state = "IDLE"
      \/ /\ dcState = "LOAD_REFILL_WAIT"
         /\ dcFill.state = "WAIT" /\ dcFill' = FillAnswered(dcFill, rsp)
         /\ dcStore.state = "IDLE" /\ dcStore'.state = "IDLE"
         /\ dcUncached.state = "IDLE" /\ dcUncached'.state = "IDLE"
  <2>1. CASE dcStore.state = "WAIT"
    <3>1. dcState = "STORE_WAIT"
      BY <2>1, OneWorks DEF RefInv, CacheInv
    <3>2. op["D"].req = dcReq /\ dcReq.write
      BY <3>1 DEF RefInv, CacheInv, DInv, DOwned
    <3>3. QED
      BY <1>1, <2>1, <3>1, <3>2, OneWorks DEF RefInv, CacheInv, BusAnswer
  <2>2. CASE dcUncached.state = "WAIT"
    BY <1>1, <2>2, OneWorks DEF RefInv, CacheInv, BusAnswer
  <2>3. CASE dcFill.state = "WAIT"
    BY <1>1, <2>3, OneWorks DEF RefInv, CacheInv, BusAnswer
  <2>4. QED
    BY <2>1, <2>2, <2>3 DEF RefInv, CacheInv, DInv, DSequencer
<1>4. Clients'["D"] = Clients["D"]
  <2>1. CASE dcStore.state = "WAIT"
    <3>1. rsp.data = Zero
      BY <1>3, <2>1 DEF RefInv, RequestsKept
    <3>2. rsp = [data |-> Zero, err |-> rsp.err]
      BY <1>1, <3>1 DEF Reply
    <3>3. DataClient = Served(dcReq, rsp)
      BY <1>3, <2>1 DEF DataClient
    <3>4. DataClient' = Served(dcReq', [data |-> Zero, err |-> rsp.err])
      BY <1>2, <1>3, <2>1 DEF DataClient, Served
    <3>5. QED
      BY <1>2, <3>2, <3>3, <3>4, ClientsOf, ClientsOfNext
  <2>2. CASE dcUncached.state = "WAIT"
    BY <1>2, <1>3, <2>2, ClientsOf, ClientsOfNext DEF DataClient, Served
  <2>3. CASE dcFill.state = "WAIT"
    BY <1>2, <1>3, <2>3, ClientsOf, ClientsOfNext DEF DataClient, Waits
  <2>4. QED
    BY <1>3, <2>1, <2>2, <2>3
<1>5. \A a \in Addr : CachedWord("D", a)' = CachedWord("D", a)
  BY <1>2, <1>3 DEF CachedWord, MergePending, WordAt
<1>6. \A a \in Addr : /\ InFill("D", a)' <=> InFill("D", a)
                      /\ InFill("D", a) => FillCopy("D", a)' = FillCopy("D", a)
  <2>1. CASE dcFill.state = "WAIT"
    BY <1>1, <1>3, <2>1, AnswerKeepsCopies DEF Ports
  <2>2. CASE dcFill.state # "WAIT"
    <3>1. dcFill' = dcFill /\ dcFill.state = "IDLE"
      BY <1>3, <2>2
    <3>2. QED
      BY <1>1, <3>1 DEF InFill, FillHas
  <2>3. QED
    BY <2>1, <2>2
<1>7. QED
  BY <1>2, <1>4, <1>5, <1>6, DCopiesKept DEF Quiet

LEMMA FillAcceptForgets ==
  ASSUME RefInv, FillAccept, UNCHANGED <<op, mem>>, Quiet("I")
  PROVE  Weak!Forgets("D")
<1>1. /\ dcFill \in Fill /\ dcFill.state = "DONE"
      /\ dcFill.line = dcReq.addr.line
      /\ dcTags \in Tags /\ dcLines \in [Indices -> LineData]
  BY DEF RefInv, CacheInv, DInv, DType, DCacheTypeOK, DSequencer, FillAccept
<1>2. dcFill'.state = "IDLE"
  BY DEF FillAccept, FillTaken, FillReset, FillStarted
<1>3. \A a \in Addr : Has("D", a)' => Has("D", a) /\ CopyAt("D", a)' = CopyAt("D", a)
  <2> SUFFICES ASSUME NEW a \in Addr, Has("D", a)'
               PROVE  Has("D", a) /\ CopyAt("D", a)' = CopyAt("D", a)
    OBVIOUS
  <2>1. Hit(dcTags', a.line) /\ CopyAt("D", a)' = WordAt(dcLines', a)
    BY <1>2 DEF Has, InLine, FillHas, FillOf, CopyAt, CachedWord, MergePending,
                WordAt, Hit, FillAccept
  <2>2. CachedWord("D", a) = WordAt(dcLines, a)
    BY DEF CachedWord, MergePending, FillAccept
  <2>3. CASE Hit(dcTags, a.line) /\ WordAt(dcLines', a) = WordAt(dcLines, a)
    BY <2>1, <2>2, <2>3 DEF Has, InLine, CopyAt
  <2>4. CASE /\ a.line = dcFill.line /\ ~dcFill.error
             /\ WordAt(dcLines', a) = dcFill.data[a.beat]
    <3>1. ~InLine("D", a)
      BY <1>1, <2>4 DEF RefInv, CacheInv, DInv, DOwned, InLine, FillAccept
    <3>2. a \in Readable
      BY <1>1, <2>4 DEF RefInv, CacheInv, DInv, FillOK, Addr
    <3>3. FillHas("D", dcFill, a) /\ FillWord("D", dcFill, a) = dcFill.data[a.beat]
      BY <1>1, <2>4, <3>2 DEF FillHas, FillWord
    <3>4. QED
      BY <2>1, <2>4, <3>1, <3>3 DEF Has, FillOf, CopyAt
  <2>5. QED
    BY <1>1, <2>1, <2>3, <2>4, RefilledArrays DEF FillAccept
<1>4. DOMAIN Copies'["D"] \subseteq DOMAIN Copies["D"]
  BY <1>3, CopiesOf, CopiesOfNext DEF Ports
<1>5. \A a \in DOMAIN Copies'["D"] : Copies'["D"][a] = Copies["D"][a]
  BY <1>3, CopiesOf, CopiesOfNext DEF Ports
<1>6. QED
  BY <1>4, <1>5 DEF Weak!Forgets, Weak!Ports, Ports, Quiet

LEMMA FillAcceptLoads ==
  ASSUME RefInv, FillAccept, UNCHANGED <<op, mem>>, Quiet("I")
  PROVE  Weak!Load("D") \/ Weak!LoadFails("D")
<1> DEFINE rsp == [data |-> dcFill.data[dcReq.addr.beat], err |-> dcFill.error]
<1>1. /\ dcReq \in Access /\ dcReq.addr \in Addr /\ ~dcReq.write /\ dcReq.legal
      /\ dcReq.addr.line \in Cacheable /\ ~InLine("D", dcReq.addr)
  BY DEF RefInv, RequestsKept, CacheInv, DInv, DType, DCacheTypeOK, DOwned, Access,
         FillAccept, InLine
<1>2. /\ dcStore.state = "IDLE" /\ dcUncached.state = "IDLE"
      /\ dcFill \in Fill /\ dcFill.line = dcReq.addr.line /\ dcFill.state = "DONE"
  <2>1. dcFill.state = "DONE"
    BY DEF FillAccept
  <2>2. QED
    BY <2>1, OneWorks DEF RefInv, CacheInv, DInv, DType, DCacheTypeOK, DSequencer
<1>3. Clients["D"] = [phase |-> "asked", req |-> dcReq]
  BY <1>2, ClientsOf DEF DataClient, Waits, FillAccept
<1>4. Clients'["D"] = Served(dcReq, rsp)
  BY ClientsOfNext DEF DataClient, Served, FillAccept
<1>5. /\ Clients'["D"].phase = "done" /\ Clients'["D"].req = dcReq
      /\ Clients'["D"].rsp = rsp
  BY <1>4 DEF Served
<1>6. Weak!Goes("D", "done")
  BY <1>5, OthersQuiet DEF Ports
<1>7. Weak!Forgets("D")
  BY FillAcceptForgets
<1>8. Weak!Answers("D", dcReq, dcFill.error)
  BY <1>1, <1>3, <1>5, <1>6 DEF Weak!Answers
<1>9. dcReq.addr \in MayCopy["D"]
  BY <1>1 DEF MayCopy, Ports
<1>10. CASE ~dcFill.error
  <2>1. dcReq.addr \in Readable
    BY <1>1, <1>2, <1>10 DEF RefInv, CacheInv, DInv, FillOK, Addr
  <2>2. FillHas("D", dcFill, dcReq.addr)
    BY <1>2, <2>1 DEF FillHas
  <2>3. FillWord("D", dcFill, dcReq.addr) = dcFill.data[dcReq.addr.beat]
    BY <1>2 DEF FillWord
  <2>4. dcReq.addr \in DOMAIN Copies["D"] /\ Copies["D"][dcReq.addr] = rsp.data
    BY <1>1, <2>2, <2>3, CopiesOf DEF Ports, Has, FillOf, CopyAt
  <2>5. Weak!Answers("D", dcReq, FALSE)
    BY <1>8, <1>10, <1>2 DEF Fill
  <2>6. QED
    BY <1>1, <1>5, <1>6, <1>7, <1>9, <2>4, <2>5 DEF Weak!Load
<1>11. CASE dcFill.error
  <2>1. PICK a \in Addr \ Readable : a.line = dcReq.addr.line
    BY <1>2, <1>11 DEF RefInv, RequestsKept, FillFails
  <2>2. Weak!Answers("D", dcReq, TRUE)
    BY <1>8, <1>2, <1>11 DEF Fill
  <2>3. QED
    BY <1>1, <1>5, <1>6, <1>7, <1>9, <2>1, <2>2 DEF Weak!LoadFails
<1>12. QED
  BY <1>10, <1>11

\* The results of the store and of the uncached access were shown when the
\* memory path carried them out, and so was the word that is merged now.
LEMMA StoreDoneQuiet ==
  ASSUME RefInv, StoreDone, UNCHANGED <<op, mem>>
  PROVE  Quiet("D")
<1>1. /\ dcFill.state = "IDLE" /\ dcUncached.state = "IDLE"
      /\ dcStore.state = "DONE" /\ dcStore.req = dcReq
      /\ op["D"].phase = "idle"
  BY OneWorks DEF RefInv, CacheInv, DInv, DSequencer, StoreDone
<1>2. /\ dcReq.addr \in Addr /\ dcReq.addr.line \in Lines
      /\ dcReq.addr.beat \in Beats /\ IndexOf[dcReq.addr.line] \in Indices
      /\ dcTags \in Tags /\ dcLines \in [Indices -> LineData]
      /\ storeHit => Hit(dcTags, dcReq.addr.line)
  BY DEF RefInv, CacheInv, DInv, DType, DCacheTypeOK, DOwned, Access, Addr, StoreDone
<1>3. Clients'["D"] = Clients["D"]
  <2>1. DataClient = Served(dcReq, [data |-> Zero, err |-> dcStore.error])
    BY <1>1 DEF DataClient, StoreDone
  <2>2. DataClient' = Served(dcReq, [data |-> Zero, err |-> dcStore.error])
    BY DEF DataClient, Served, StoreDone
  <2>3. QED
    BY <2>1, <2>2, ClientsOf, ClientsOfNext
<1>4. \A a \in Addr : InLine("D", a) => CachedWord("D", a)' = CachedWord("D", a)
  <2> SUFFICES ASSUME NEW a \in Addr, Hit(dcTags, a.line)
               PROVE  CachedWord("D", a)' = CachedWord("D", a)
    BY DEF InLine
  <2>1. CachedWord("D", a)' = WordAt(dcLines', a)
    BY DEF CachedWord, MergePending, WordAt, StoreDone
  <2>2. CachedWord("D", a) = IF Merges /\ dcReq.addr = a THEN dcReq.data
                             ELSE WordAt(dcLines, a)
    BY <1>1 DEF CachedWord, MergePending, Merges, StoreDone
  <2>3. CASE ~Merges
    BY <2>1, <2>2, <2>3 DEF StoreDone, WordAt
  <2>4. CASE Merges
    <3>1. dcLines' = StoreMerge(dcLines, dcReq.addr, dcReq.data)
      BY <1>1, <2>4 DEF StoreDone
    <3>2. /\ a.line \in Lines /\ a.beat \in Beats /\ IndexOf[a.line] \in Indices
          /\ dcReq.addr = a <=> dcReq.addr.line = a.line /\ dcReq.addr.beat = a.beat
      BY <1>2 DEF Addr
    <3>3. IndexOf[a.line] = IndexOf[dcReq.addr.line] => a.line = dcReq.addr.line
      BY <1>2, <2>4 DEF Hit, Merges
    <3>4. WordAt(dcLines', a) = IF dcReq.addr = a THEN dcReq.data
                                ELSE WordAt(dcLines, a)
      BY <1>2, <3>1, <3>2, <3>3 DEF StoreMerge, WordAt, LineData
    <3>5. QED
      BY <2>1, <2>2, <2>4, <3>4
  <2>5. QED
    BY <2>3, <2>4
<1>5. \A a \in Addr : ~InFill("D", a) /\ ~InFill("D", a)'
  BY <1>1 DEF InFill, FillHas, FillOf, StoreDone
<1>6. QED
  BY <1>3, <1>4, <1>5, DCopiesKept DEF Quiet, StoreDone

LEMMA UncachedDoneQuiet ==
  ASSUME RefInv, UncachedDone, UNCHANGED <<op, mem>>
  PROVE  Quiet("D")
<1>1. /\ dcFill.state = "IDLE" /\ dcStore.state = "IDLE"
      /\ dcUncached.state = "DONE" /\ op["D"].phase = "idle"
  BY OneWorks DEF RefInv, CacheInv, DInv, DSequencer, UncachedDone
<1>2. Copies'["D"] = Copies["D"]
  BY <1>1, DCopiesIdle DEF UncachedDone
<1>3. Clients'["D"] = Clients["D"]
  BY <1>1, ClientsOf, ClientsOfNext DEF DataClient, Served, UncachedDone
<1>4. QED
  BY <1>2, <1>3 DEF Quiet

\* As FetchFillCopies, for the D-cache.
LEMMA FillCopies ==
  ASSUME RefInv, Perform("D"), dcState = "LOAD_REFILL_WAIT", Quiet("I")
  PROVE  Weak!Copy("D") \/ UNCHANGED Weak!vars
<1>0. PICK f : f = FillAddr(dcFill)
  OBVIOUS
<1> DEFINE req == op["D"].req
<1>1. /\ op'["D"].phase = "done" /\ op["D"].phase = "pending"
      /\ op'["D"].rsp = AnswerTo(req)
  BY DEF Perform, RefInv, CacheInv, Storage, Ports
<1>2. /\ dcFill \in Fill /\ dcFill.state = "WAIT" /\ dcFill.line = dcReq.addr.line
      /\ dcStore.state = "IDLE" /\ dcUncached.state = "IDLE"
  BY <1>1 DEF RefInv, CacheInv, DInv, DType, DCacheTypeOK, DSequencer
<1>3. f \in Addr /\ f.line = dcReq.addr.line
  BY <1>0, <1>2 DEF FillAddr, Fill, Addr
<1>4. req.addr = f /\ ~req.write
  BY <1>0, <1>1, <1>3, ReadAccess DEF RefInv, CacheInv, DInv, DOwned
<1>5. UNCHANGED <<dcVars, mem>>
  BY <1>4 DEF Perform
<1>6. \A a \in Addr : InLine("D", a)' <=> InLine("D", a)
  BY <1>5 DEF InLine, Hit, dcVars
<1>7. \A a \in Addr : CachedWord("D", a)' = CachedWord("D", a)
  BY <1>5 DEF CachedWord, MergePending, WordAt, dcVars
<1>8. FillOf("D") = dcFill /\ UNCHANGED FillOf("D")
  BY <1>5 DEF FillOf, dcVars
<1>9. \A a \in Addr :
        /\ InFill("D", a)' <=> InFill("D", a) \/ (a = f /\ f \in Readable)
        /\ InFill("D", a) => a # f /\ FillCopy("D", a)' = FillCopy("D", a)
        /\ a = f => FillCopy("D", a)' = op'["D"].rsp.data
  BY <1>0, <1>1, <1>2, <1>8, PerformAddsCopy DEF Ports
<1>10. \A a \in Addr : Has("D", a)' <=> Has("D", a) \/ (a = f /\ f \in Readable)
  BY <1>6, <1>9, InFillAt, InFillAtNext DEF Ports
<1>11. \A a \in Addr : Has("D", a) => CopyAt("D", a)' = CopyAt("D", a)
  BY <1>6, <1>7, <1>9, InFillAt, InFillAtNext DEF Ports
<1>12. Clients["D"] = Waits(dcReq) /\ Clients'["D"] = Clients["D"]
  BY <1>2, <1>5, ClientsOf, ClientsOfNext DEF DataClient, Waits, dcVars
<1>13. CASE f \notin Readable
  <2>1. Copies'["D"] = Copies["D"]
    BY <1>10, <1>11, <1>13, SameCopies DEF Ports
  <2>2. QED
    BY <1>5, <1>12, <2>1, BothQuiet DEF Quiet
<1>14. CASE f \in Readable
  <2>1. PICK word : word = mem[CellOf[f]]
    OBVIOUS
  <2>2. CopyAt("D", f)' = word
    <3>1. ~InLine("D", f)
      BY <1>3 DEF RefInv, CacheInv, DInv, DOwned, InLine
    <3>2. op'["D"].rsp.data = word
      BY <1>1, <1>4, <1>14, <2>1 DEF AnswerTo, Succeeds
    <3>3. QED
      BY <1>3, <1>6, <1>9, <3>1, <3>2, InFillAtNext DEF Ports
  <2>3. Weak!CopyWith("D", f, word)
    <3>1. \A b \in Addr : Has("D", b)' <=> Has("D", b) \/ b = f
      BY <1>10, <1>14
    <3>2. \A q \in Ports \ {"D"} : Quiet(q)
      BY DEF Ports
    <3>3. QED
      BY <1>3, <1>11, <2>2, <3>1, <3>2, CopyWritten DEF Ports
  <2>4. /\ Clients["D"].phase = "asked" /\ Clients["D"].req = dcReq
        /\ dcReq.legal /\ ~dcReq.write /\ dcReq.addr.line \in Cacheable
    BY <1>12 DEF Waits, RefInv, RequestsKept, CacheInv, DInv, DOwned
  <2>5. f \in MayCopy["D"] \intersect Readable
    BY <1>3, <1>14, <2>4 DEF MayCopy, Ports
  <2>6. UNCHANGED <<mem, Clients>>
    BY <1>5, <1>12 DEF Quiet, Clients, Ports
  <2>7. QED
    BY <1>3, <2>1, <2>3, <2>4, <2>5, <2>6 DEF Weak!Copy
<1>15. QED
  BY <1>13, <1>14

\* The memory path carries out a store or an uncached load of the core.
LEMMA SingleAccess ==
  ASSUME RefInv, Perform("D"), dcState # "LOAD_REFILL_WAIT", Quiet("I")
  PROVE  Weak!Store("D") \/ Weak!LoadUncached("D") \/ Weak!Fail("D")
<1> DEFINE rsp == AnswerTo(dcReq)
<1>1. /\ op'["D"].phase = "done" /\ op["D"].phase = "pending"
      /\ op["D"].req = dcReq /\ op'["D"].rsp = rsp
      /\ dcReq \in Access /\ dcReq.addr \in Addr
  <2>1. op["D"].phase = "pending"
    BY DEF Perform
  <2>2. op["D"].req = dcReq
    BY <2>1 DEF RefInv, CacheInv, DInv, DOwned
  <2>3. dcReq \in Access /\ dcReq.addr \in Addr
    BY DEF RefInv, CacheInv, DInv, DType, DCacheTypeOK, Access
  <2>4. QED
    BY <2>1, <2>2, <2>3 DEF Perform, RefInv, CacheInv, Storage, Ports
<1>2. \/ /\ dcState = "STORE_WAIT" /\ dcStore.state = "WAIT"
         /\ dcUncached.state = "IDLE" /\ dcFill.state = "IDLE"
         /\ dcReq.write /\ (storeHit <=> Hit(dcTags, dcReq.addr.line))
      \/ /\ dcState = "UNCACHED_WAIT" /\ dcUncached.state = "WAIT"
         /\ dcStore.state = "IDLE" /\ dcFill.state = "IDLE"
         /\ dcReq.addr.line \notin Cacheable
  <2>1. "WAIT" \in {dcFill.state, dcStore.state, dcUncached.state}
    BY <1>1 DEF RefInv, CacheInv, DInv, DSequencer
  <2>2. QED
    BY <2>1, OneWorks DEF RefInv, CacheInv, DInv, DOwned
<1>3. dcReq.legal
  BY <1>2 DEF RefInv, RequestsKept
<1>4. UNCHANGED <<icVars, dcVars>>
  BY DEF Perform
<1>5. Clients["D"] = [phase |-> "asked", req |-> dcReq]
  BY <1>1, <1>2, ClientsOf DEF DataClient, Waits
<1>6. Clients'["D"] = Served(dcReq, rsp)
  BY <1>1, <1>2, <1>4, ClientsOfNext DEF DataClient, Served, dcVars
<1>7. /\ Clients'["D"].phase = "done" /\ Clients'["D"].req = dcReq
      /\ Clients'["D"].rsp = rsp
  BY <1>6 DEF Served
<1>8. Weak!Goes("D", "done")
  BY <1>7 DEF Weak!Goes, Quiet, Weak!Ports, Ports
<1>9. Weak!Answers("D", dcReq, rsp.err)
  BY <1>1, <1>5, <1>7, <1>8 DEF Weak!Answers
<1>10. \A a \in Addr : InLine("D", a)' <=> InLine("D", a)
  BY <1>4 DEF InLine, Hit, dcVars
<1>11. \A a \in Addr : ~InFill("D", a) /\ ~InFill("D", a)'
  BY <1>2, <1>4 DEF InFill, FillHas, FillOf, dcVars
<1>12. \A a \in Addr : Has("D", a)' <=> Has("D", a)
  BY <1>10, <1>11, InFillAt, InFillAtNext DEF Ports
<1>13. \A a \in Addr :
         InLine("D", a) /\ ~(dcReq.write /\ Succeeds(dcReq) /\ a = dcReq.addr)
           => CopyAt("D", a)' = CopyAt("D", a)
  <2> SUFFICES ASSUME NEW a \in Addr, InLine("D", a),
                      ~(dcReq.write /\ Succeeds(dcReq) /\ a = dcReq.addr)
               PROVE  CachedWord("D", a)' = CachedWord("D", a)
    BY <1>10, InFillAt, InFillAtNext DEF Ports
  <2>1. CachedWord("D", a) = WordAt(dcLines, a)
    BY <1>1, <1>2 DEF CachedWord, MergePending
  <2>2. ~(MergePending(a)')
    <3>1. dcState = "STORE_WAIT" /\ dcReq.addr = a => rsp.err = TRUE
      BY <1>2 DEF AnswerTo
    <3>2. UNCHANGED <<dcState, storeHit, dcReq, dcStore>>
      BY <1>4 DEF dcVars
    <3>3. dcState = "STORE_WAIT" => dcStore.state = "WAIT"
      BY <1>2
    <3>4. QED
      BY <1>1, <3>1, <3>2, <3>3 DEF MergePending
  <2>3. CachedWord("D", a)' = WordAt(dcLines, a)
    BY <1>4, <2>2 DEF CachedWord, WordAt, dcVars
  <2>4. QED
    BY <2>1, <2>3
<1>14. CASE dcReq.write /\ Succeeds(dcReq)
  <2>1. dcReq.addr \in Writable /\ rsp.err = FALSE
    BY <1>14 DEF Succeeds, AnswerTo
  <2>2. mem' = [mem EXCEPT ![CellOf[dcReq.addr]] = dcReq.data]
    BY <1>1, <1>14 DEF Perform
  <2>3. PICK a, word : a = dcReq.addr /\ word = dcReq.data /\ a \in Addr
    BY <1>1
  <2>4. InLine("D", a) <=> a \in DOMAIN Copies["D"]
    BY <1>11, <2>3, InFillAt, CopiesOf DEF Ports
  <2>5. CASE InLine("D", a)
    <3>1. dcState = "STORE_WAIT" /\ storeHit
      BY <1>2, <2>3, <2>5 DEF InLine, RefInv, CacheInv, DInv, DOwned, Hit, Addr
    <3>2. CachedWord("D", a)' = word
      BY <1>1, <1>4, <2>1, <2>3, <3>1 DEF CachedWord, MergePending, dcVars
    <3>3. CopyAt("D", a)' = word
      BY <1>10, <2>3, <2>5, <3>2, InFillAtNext DEF Ports
    <3>4. \A b \in Addr : b # a /\ Has("D", b) => CopyAt("D", b)' = CopyAt("D", b)
      BY <1>11, <1>13, <2>3, InFillAt DEF Ports
    <3>5. \A b \in Addr : Has("D", b)' <=> Has("D", b) \/ b = a
      BY <1>12, <2>5, InFillAt DEF Ports
    <3>6. \A q \in Ports \ {"D"} : Quiet(q)
      BY DEF Ports
    <3>7. Weak!CopyWith("D", a, word)
      BY <2>3, <3>3, <3>4, <3>5, <3>6, CopyWritten DEF Ports
    <3>8. Weak!CopyWith("D", dcReq.addr, dcReq.data) /\ dcReq.addr \in DOMAIN Copies["D"]
      BY <2>3, <2>4, <2>5, <3>7
    <3>9. QED
      BY <1>3, <1>7, <1>8, <1>9, <1>14, <2>1, <2>2, <3>8 DEF Weak!Store
  <2>6. CASE ~InLine("D", a)
    <3>1. \A b \in Addr : Has("D", b) => CopyAt("D", b)' = CopyAt("D", b)
      BY <1>11, <1>13, <2>3, <2>6, InFillAt DEF Ports
    <3>2. Copies'["D"] = Copies["D"]
      BY <1>12, <3>1, SameCopies DEF Ports
    <3>3. UNCHANGED Copies
      BY <3>2 DEF Copies, Quiet, Ports
    <3>4. dcReq.addr \notin DOMAIN Copies["D"]
      BY <2>3, <2>4, <2>6
    <3>5. QED
      BY <1>3, <1>7, <1>8, <1>9, <1>14, <2>1, <2>2, <3>3, <3>4 DEF Weak!Store
  <2>7. QED
    BY <2>5, <2>6
<1>15. CASE ~(dcReq.write /\ Succeeds(dcReq))
  <2>1. UNCHANGED mem
    BY <1>1, <1>15 DEF Perform
  <2>2. Copies'["D"] = Copies["D"]
    BY <1>11, <1>12, <1>13, <1>15, InFillAt, SameCopies DEF Ports
  <2>3. UNCHANGED Copies
    BY <2>2 DEF Copies, Quiet, Ports
  <2>4. CASE ~dcReq.write
    <3>1. dcReq.addr \notin MayCopy["D"]
      BY <1>2, <2>4 DEF MayCopy, Ports
    <3>2. CASE dcReq.addr \in Readable
      <4>1. rsp.err = FALSE /\ rsp.data = mem[CellOf[dcReq.addr]]
        BY <2>4, <3>2 DEF AnswerTo, Succeeds
      <4>2. QED
        BY <1>3, <1>7, <1>8, <1>9, <2>1, <2>3, <2>4, <3>1, <3>2, <4>1
           DEF Weak!LoadUncached
    <3>3. CASE dcReq.addr \notin Readable
      <4>1. rsp.err = TRUE
        BY <2>4, <3>3 DEF AnswerTo, Succeeds
      <4>2. QED
        BY <1>7, <1>8, <1>9, <2>1, <2>3, <2>4, <3>1, <3>3, <4>1 DEF Weak!Fail
    <3>4. QED
      BY <3>2, <3>3
  <2>5. CASE dcReq.write
    <3>1. rsp.err = TRUE /\ dcReq.addr \notin Writable
      BY <1>15, <2>5 DEF AnswerTo, Succeeds
    <3>2. QED
      BY <1>7, <1>8, <1>9, <2>1, <2>3, <2>5, <3>1 DEF Weak!Fail
  <2>6. QED
    BY <2>4, <2>5
<1>16. QED
  BY <1>14, <1>15

-------------------------------------------------------------------------------
(* The other writer, the answers owed, and the theorem.                    *)

LEMMA DmaWriteRefines ==
  ASSUME DmaWrite
  PROVE  Weak!OtherWrite
<1>1. PICK req \in DmaWrites : mem' = [mem EXCEPT ![CellOf[req.addr]] = req.data]
  BY DEF DmaWrite
<1>2. UNCHANGED <<icVars, dcVars>> /\ UNCHANGED op
  BY DEF DmaWrite
<1>3. Quiet("I") /\ Quiet("D")
  BY <1>2, IQuiet, DQuiet
<1>4. UNCHANGED <<Copies, Clients>>
  BY <1>3 DEF Copies, Clients, Quiet, Ports
<1>5. req.addr \in Writable /\ req.data \in Words
  BY DEF Access
<1>6. QED
  BY <1>1, <1>4, <1>5 DEF Weak!OtherWrite

LEMMA AnsweredFillFails ==
  ASSUME NEW p \in Ports, NEW fill \in Fill, FillFails(fill),
         Answered(p), op[p].phase = "done", op[p].rsp \in Reply,
         op[p].req = [NoAccess EXCEPT !.addr = FillAddr(fill)]
  PROVE  FillFails(FillAnswered(fill, op[p].rsp))
<1> DEFINE g == FillAnswered(fill, op[p].rsp)
<1>1. /\ FillAddr(fill) \in Addr /\ op[p].req.addr = FillAddr(fill)
      /\ ~op[p].req.write /\ FillAddr(fill).line = fill.line
  BY ReadAccess DEF FillAddr, Fill, Addr
<1>2. g.line = fill.line /\ g.error = (fill.error \/ op[p].rsp.err)
  BY DEF FillAnswered, Fill
<1>3. op[p].rsp.err => FillAddr(fill) \notin Readable
  BY <1>1 DEF Answered, Succeeds
<1> HIDE DEF g
<1>4. QED
  BY <1>1, <1>2, <1>3 DEF FillFails, g

\* The fill of port p starts afresh, asks, takes an answer or is done.
LEMMA NewFillFails ==
  /\ \A l \in Lines : FillFails(FillStarted(l))
  /\ \A fill \in Fill : FillFails(fill) => FillFails(FillRequested(fill))
  /\ \A fill : FillFails(FillTaken(fill))
  /\ FillFails(FillReset)
<1>1. \A l \in Lines : ~FillStarted(l).error
  BY DEF FillStarted
<1>2. ~FillReset.error
  BY DEF FillReset, FillStarted
<1>3. \A fill \in Fill : /\ FillRequested(fill).error = fill.error
                         /\ FillRequested(fill).line = fill.line
  BY RequestedFill
<1>4. QED
  BY <1>1, <1>2, <1>3 DEF FillFails, FillTaken

LEMMA IRequestsKept ==
  ASSUME RefInv, Frontend \/ ICacheWork \/ FrontendTakes
  PROVE  RequestsKept'
<1>1. icFill \in Fill /\ icAddr.line \in Lines /\ op["I"].rsp \in Reply
  BY DEF RefInv, CacheInv, IInv, IType, ICacheTypeOK, Addr
<1>2. UNCHANGED dcVars /\ op'["D"] = op["D"]
  BY DEF Frontend, ICacheWork, FrontendTakes, InCache, Issue, Collect, RefInv,
         CacheInv, Storage, Ports
<1>3. FillFails(icFill)'
  <2>1. FillFails(icFill)
    BY DEF RefInv, RequestsKept
  <2>2. CASE Frontend \/ FrontendTakes
    BY <2>1, <2>2 DEF Frontend, FrontendTakes, FetchHit, FetchMiss, FetchRespond,
                      FillFails
  <2>3. CASE FetchFillStart \/ FetchFillAccept \/ FetchFillRequest
    <3>1. FillFails(icFill')
      BY <1>1, <2>1, <2>3, NewFillFails
         DEF FetchFillStart, FetchFillAccept, FetchFillRequest
    <3>2. QED
      BY <3>1 DEF FillFails
  <2>4. CASE FetchFillAnswer(op["I"].rsp) /\ Collect("I")
    <3>1. op["I"].phase = "done" /\ icFill' = FillAnswered(icFill, op["I"].rsp)
      BY <2>4 DEF Collect, FetchFillAnswer
    <3>2. Answered("I") /\ op["I"].req = [NoAccess EXCEPT !.addr = FillAddr(icFill)]
      BY <3>1 DEF RefInv, CacheInv, IInv, IOwned
    <3>3. PICK fill : fill = icFill
      OBVIOUS
    <3>4. FillFails(FillAnswered(fill, op["I"].rsp))
      BY <1>1, <2>1, <3>1, <3>2, <3>3, AnsweredFillFails DEF Ports
    <3>5. QED
      BY <3>1, <3>3, <3>4 DEF FillFails
  <2>5. QED
    BY <2>2, <2>3, <2>4 DEF ICacheWork
<1>4. QED
  BY <1>2, <1>3 DEF RefInv, RequestsKept, FillFails, dcVars

LEMMA DRequestsKept ==
  ASSUME RefInv, Core \/ DCacheWork \/ CoreTakes
  PROVE  RequestsKept'
<1>1. dcFill \in Fill /\ dcReq.addr.line \in Lines /\ op["D"].rsp \in Reply
  BY DEF RefInv, CacheInv, DInv, DType, DCacheTypeOK, Access, Addr
<1>2. UNCHANGED icVars
  BY DEF Core, DCacheWork, CoreTakes
<1>3. op'["D"] = op["D"] \/ op'["D"].phase \in {"idle", "pending"}
  BY DEF Core, DCacheWork, CoreTakes, InCache, Issue, Collect, NoOp, RefInv,
         CacheInv, Storage, Ports
<1>4. /\ dcState' \notin {"IDLE", "RESP"} => dcReq'.legal
      /\ dcState' \in {"LOAD_REFILL_REQ", "LOAD_REFILL_WAIT"} => ~dcReq'.write
  <2>1. CASE Core
    BY <2>1 DEF Core, LoadHit, TakeWork, RefuseRequest, Accept, WorkState
  <2>2. CASE DCacheWork
    BY <2>2 DEF RefInv, RequestsKept, DCacheWork, FillStart, StoreStart,
                UncachedStart, BusRequest, BusAnswer, FillAccept, StoreDone,
                UncachedDone
  <2>3. CASE CoreTakes
    BY <2>3 DEF CoreTakes, Respond
  <2>4. QED
    BY <2>1, <2>2, <2>3
<1>5. FillFails(dcFill')
  <2>1. FillFails(dcFill)
    BY DEF RefInv, RequestsKept
  <2>2. CASE dcFill' = dcFill
    BY <2>1, <2>2
  <2>3. CASE FillStart \/ FillAccept
    BY <1>1, <2>3, NewFillFails DEF FillStart, FillAccept
  <2>4. CASE BusRequest
    BY <1>1, <2>1, <2>4, NewFillFails DEF BusRequest
  <2>5. CASE BusAnswer(op["D"].rsp) /\ Collect("D") /\ dcFill.state = "WAIT"
    <3>1. op["D"].phase = "done" /\ dcFill' = FillAnswered(dcFill, op["D"].rsp)
      BY <2>5 DEF Collect, BusAnswer
    <3>2. dcState = "LOAD_REFILL_WAIT"
      BY <2>5, OneWorks DEF RefInv, CacheInv
    <3>3. Answered("D") /\ op["D"].req = [NoAccess EXCEPT !.addr = FillAddr(dcFill)]
      BY <3>1, <3>2 DEF RefInv, CacheInv, DInv, DOwned
    <3>4. PICK fill : fill = dcFill
      OBVIOUS
    <3>5. FillFails(FillAnswered(fill, op["D"].rsp))
      BY <1>1, <2>1, <3>1, <3>3, <3>4, AnsweredFillFails DEF Ports
    <3>6. QED
      BY <3>1, <3>4, <3>5
  <2>6. QED
    BY <2>2, <2>3, <2>4, <2>5
       DEF Core, DCacheWork, CoreTakes, LoadHit, TakeWork, RefuseRequest, Accept,
           StoreStart, UncachedStart, BusAnswer, StoreDone, UncachedDone, Respond
<1>6. (op["D"].phase = "done" /\ op["D"].req.write => op["D"].rsp.data = Zero)'
  BY <1>3 DEF RefInv, RequestsKept
<1>7. QED
  BY <1>2, <1>4, <1>5, <1>6 DEF RefInv, RequestsKept, FillFails, icVars

LEMMA RequestsKeptStep ==
  ASSUME RefInv, [Next]_vars
  PROVE  RequestsKept'
<1>1. CASE Frontend \/ ICacheWork \/ FrontendTakes
  BY <1>1, IRequestsKept
<1>2. CASE Core \/ DCacheWork \/ CoreTakes
  BY <1>2, DRequestsKept
<1>3. ASSUME NEW p \in Ports, Perform(p)
      PROVE  RequestsKept'
  <2>1. UNCHANGED <<icVars, dcVars>>
    BY <1>3 DEF Perform
  <2>2. /\ op'["D"].req = op["D"].req
        /\ op'["D"].phase = "done" /\ op["D"].phase # "done" =>
             op'["D"].rsp = AnswerTo(op["D"].req)
        /\ op["D"].phase = "done" =>  op'["D"].rsp = op["D"].rsp
    BY <1>3 DEF Perform, RefInv, CacheInv, Storage, Ports
  <2>3. \A req : req.write => AnswerTo(req).data = Zero
    BY DEF AnswerTo
  <2>4. QED
    BY <2>1, <2>2, <2>3 DEF RefInv, RequestsKept, FillFails, icVars, dcVars
<1>4. CASE DmaWrite
  BY <1>4 DEF DmaWrite, RefInv, RequestsKept, FillFails, icVars, dcVars
<1>5. CASE UNCHANGED vars
  BY <1>5 DEF vars, RefInv, RequestsKept, FillFails, icVars, dcVars
<1>6. QED
  BY <1>1, <1>2, <1>3, <1>4, <1>5 DEF Next

LEMMA RefInit ==
  ASSUME Init
  PROVE  RefInv /\ Weak!Init
<1>1. CacheInv
  BY InitInv
<1>2. RequestsKept
  BY NewFillFails DEF Init, ICacheInit, DCacheInit, RequestsKept, NoOp, Ports
<1>3. \A p \in Ports, a \in Addr : ~Has(p, a)
  <2>1. FillReset.state = "IDLE"
    BY DEF FillReset, FillStarted
  <2>2. \A line \in Lines : ~Hit(NoTags, line)
    BY DEF Hit, NoTags
  <2>3. QED
    BY <2>1, <2>2
       DEF Init, ICacheInit, DCacheInit, Has, InLine, FillHas, FillOf, Addr, Ports
<1>4. Copies = [p \in Weak!Ports |-> Weak!NoCopies]
  <2>1. \A p \in Ports : Copies[p] = Weak!NoCopies
    <3> SUFFICES ASSUME NEW p \in Ports
                 PROVE  Copies[p] = Weak!NoCopies
      OBVIOUS
    <3>1. {b \in Addr : Has(p, b)} = {}
      BY <1>3
    <3>2. QED
      BY <3>1 DEF Copies, Weak!NoCopies
  <2>2. QED
    BY <2>1 DEF Copies, Weak!Ports, Ports
<1>5. Clients = [p \in Weak!Ports |-> Weak!NoClient]
  BY DEF Clients, Ports, Weak!Ports, Weak!NoClient, FetchClient, DataClient, Init,
         ICacheInit, DCacheInit
<1>6. QED
  BY <1>1, <1>2, <1>4, <1>5 DEF RefInv, Weak!Init

LEMMA IStepRefines ==
  ASSUME RefInv, Frontend \/ ICacheWork \/ FrontendTakes
  PROVE  [Weak!Next]_(Weak!vars)
<1>1. UNCHANGED dcVars /\ UNCHANGED mem /\ op'["D"] = op["D"]
  BY DEF Frontend, ICacheWork, FrontendTakes, InCache, Issue, Collect, RefInv,
         CacheInv, Storage, Ports
<1>2. Quiet("D")
  BY <1>1, DQuiet
<1>3. CASE Frontend
  BY <1>2, <1>3, FetchHitLoads, FetchMissAsks
     DEF Frontend, InCache, Weak!Next, Weak!Ports
<1>4. CASE FrontendTakes
  BY <1>2, <1>4, FetchCollects DEF FrontendTakes, InCache, Weak!Next, Weak!Ports
<1>5. CASE FetchFillAccept /\ InCache
  BY <1>2, <1>5, FetchFillAcceptLoads DEF InCache, Weak!Next, Weak!Ports
<1>6. CASE ICacheWork /\ ~(FetchFillAccept /\ InCache)
  <2>1. Quiet("I")
    <3>1. CASE FetchFillStart
      BY <3>1, FetchFillStartQuiet
    <3>2. CASE FetchFillRequest /\ Issue("I", [NoAccess EXCEPT !.addr = FillAddr(icFill)])
      <4>1. op'["I"].phase = "pending"
        BY <3>2 DEF Issue, RefInv, CacheInv, Storage, Ports
      <4>2. QED
        BY <3>2, <4>1, FetchFillMoves
    <3>3. CASE FetchFillAnswer(op["I"].rsp) /\ Collect("I")
      BY <3>3, FetchFillMoves DEF Collect
    <3>4. QED
      BY <1>6, <3>1, <3>2, <3>3 DEF ICacheWork
  <2>2. QED
    BY <1>1, <1>2, <2>1, BothQuiet
<1>7. QED
  BY <1>3, <1>4, <1>5, <1>6 DEF ICacheWork

LEMMA DStepRefines ==
  ASSUME RefInv, Core \/ DCacheWork \/ CoreTakes
  PROVE  [Weak!Next]_(Weak!vars)
<1>1. UNCHANGED icVars /\ UNCHANGED mem /\ op'["I"] = op["I"]
  BY DEF Core, DCacheWork, CoreTakes, InCache, Issue, Collect, RefInv, CacheInv,
         Storage, Ports
<1>2. Quiet("I")
  BY <1>1, IQuiet
<1>3. CASE Core
  <2>1. PICK req \in Requests : LoadHit(req) \/ TakeWork(req) \/ RefuseRequest(req)
    BY <1>3 DEF Core
  <2>2. UNCHANGED <<op, mem>>
    BY <1>3 DEF Core, InCache
  <2>3. QED
    BY <1>2, <2>1, <2>2, AcceptRefines DEF Weak!Next, Weak!Ports
<1>4. CASE CoreTakes
  BY <1>2, <1>4, RespondCollects DEF CoreTakes, InCache, Weak!Next, Weak!Ports
<1>5. CASE FillAccept /\ InCache
  BY <1>2, <1>5, FillAcceptLoads DEF InCache, Weak!Next, Weak!Ports
<1>6. CASE DCacheWork /\ ~(FillAccept /\ InCache)
  <2>1. Quiet("D")
    <3>1. CASE (FillStart \/ StoreStart \/ UncachedStart) /\ InCache
      BY <3>1, StartQuiet DEF InCache
    <3>2. CASE BusRequest /\ Issue("D", BusAccess)
      <4>1. op["D"].phase = "idle" /\ op'["D"].phase = "pending"
        BY <3>2 DEF Issue, RefInv, CacheInv, Storage, Ports
      <4>2. QED
        BY <3>2, <4>1, BusRequestQuiet
    <3>3. CASE BusAnswer(op["D"].rsp) /\ Collect("D")
      <4>1. op["D"].phase = "done" /\ op'["D"].phase = "idle"
        BY <3>3 DEF Collect, NoOp, RefInv, CacheInv, Storage, Ports
      <4>2. QED
        BY <3>3, <4>1, BusAnswerQuiet
    <3>4. CASE StoreDone /\ InCache
      BY <3>4, StoreDoneQuiet DEF InCache
    <3>5. CASE UncachedDone /\ InCache
      BY <3>5, UncachedDoneQuiet DEF InCache
    <3>6. QED
      BY <1>6, <3>1, <3>2, <3>3, <3>4, <3>5 DEF DCacheWork
  <2>2. QED
    BY <1>1, <1>2, <2>1, BothQuiet
<1>7. QED
  BY <1>3, <1>4, <1>5, <1>6

LEMMA StepRefines ==
  ASSUME RefInv, [Next]_vars
  PROVE  [Weak!Next]_(Weak!vars)
<1>1. CASE Frontend \/ ICacheWork \/ FrontendTakes
  BY <1>1, IStepRefines
<1>2. CASE Core \/ DCacheWork \/ CoreTakes
  BY <1>2, DStepRefines
<1>3. CASE Perform("I")
  <2>1. UNCHANGED dcVars /\ op'["D"] = op["D"]
    BY <1>3 DEF Perform, RefInv, CacheInv, Storage, Ports
  <2>2. QED
    BY <1>3, <2>1, DQuiet, FetchFillCopies DEF Weak!Next, Weak!Ports
<1>4. CASE Perform("D")
  <2>1. UNCHANGED icVars /\ op'["I"] = op["I"]
    BY <1>4 DEF Perform, RefInv, CacheInv, Storage, Ports
  <2>2. QED
    BY <1>4, <2>1, IQuiet, FillCopies, SingleAccess DEF Weak!Next, Weak!Ports
<1>5. CASE DmaWrite
  BY <1>5, DmaWriteRefines DEF Weak!Next
<1>6. CASE UNCHANGED vars
  <2>1. UNCHANGED icVars /\ UNCHANGED dcVars /\ UNCHANGED op /\ UNCHANGED mem
    BY <1>6 DEF vars
  <2>2. QED
    BY <2>1, IQuiet, DQuiet, BothQuiet
<1>7. QED
  BY <1>1, <1>2, <1>3, <1>4, <1>5, <1>6 DEF Next, Ports

\* The caches show the core what NoncoherentMemory allows, for every number of
\* entries, line length and memory map: a load returns a word that memory held
\* after its line was asked for, changed by the port's own stores only; a store
\* reaches memory once and at once; what fails changes nothing.
THEOREM CachesAreNoncoherent == Spec => ImplementsNoncoherentMemory
<1>1. RefInv /\ [Next]_vars => RefInv'
  BY StepInv, RequestsKeptStep DEF RefInv
<1>2. QED
  BY <1>1, RefInit, StepRefines, PTL
     DEF Spec, ImplementsNoncoherentMemory, Weak!Spec

-------------------------------------------------------------------------------
(* The diagrams.  Each sequencer and each control FSM moves along the      *)
(* arrows of its diagram: what the boxes say of the port, of the line that *)
(* is entered and of the word that is answered needs the invariant, which  *)
(* has the sequencer at work for the request the control accepted.         *)

\* A port's handshakes, and who does not collect its answers.
LEMMA PortMoves ==
  ASSUME Storage, NEW p \in Ports
  PROVE  /\ \A req : Issue(p, req) => Presents(p, req) /\ ~Collects(p)
         /\ Collect(p) => Collects(p)
         /\ op' = op => ~Collects(p)
         /\ \A q \in Ports : Perform(q) => ~Collects(p)
         /\ \A q \in Ports \ {p} : Collect(q) => ~Collects(p)
         /\ \A q \in Ports \ {p} : \A req : Issue(q, req) => ~Collects(p)
<1>1. op \in [Ports -> [phase : {"idle", "pending", "done"}, req : Access, rsp : Reply]]
  BY DEF Storage
<1>2. ASSUME NEW req, Issue(p, req)
      PROVE  Presents(p, req) /\ ~Collects(p)
  BY <1>1, <1>2 DEF Issue, Presents, Collects
<1>3. Collect(p) => Collects(p)
  BY <1>1 DEF Collect, Collects, NoOp
<1>4. op' = op => ~Collects(p)
  BY DEF Collects
<1>5. ASSUME NEW q \in Ports, Perform(q)
      PROVE  ~Collects(p)
  <2>1. op[q].phase = "pending" /\ (q # p => op'[p] = op[p])
    BY <1>1, <1>5 DEF Perform
  <2> QED BY <2>1 DEF Collects
<1>6. ASSUME NEW q \in Ports \ {p}, Collect(q)
      PROVE  ~Collects(p)
  <2>1. op'[p] = op[p]
    BY <1>1, <1>6 DEF Collect
  <2> QED BY <2>1 DEF Collects
<1>7. ASSUME NEW q \in Ports \ {p}, NEW req, Issue(q, req)
      PROVE  ~Collects(p)
  <2>1. op'[p] = op[p]
    BY <1>1, <1>7 DEF Issue
  <2> QED BY <2>1 DEF Collects
<1> QED BY <1>2, <1>3, <1>4, <1>5, <1>6, <1>7

\* The moves of a refill sequencer, and its rest.
FillBegins(fill, next, base, starts) ==
  /\ fill.state = "IDLE" /\ next.state = "REQ" /\ starts
  /\ next.line = base /\ next.beat = 0 /\ ~next.error
FillAsks(p, fill, next) ==
  /\ fill.state = "REQ" /\ next.state = "WAIT"
  /\ Presents(p, [NoAccess EXCEPT !.addr = FillAddr(fill)])
  /\ next = [fill EXCEPT !.state = "WAIT"]
FillHears(p, fill, next) ==
  /\ fill.state = "WAIT" /\ Collects(p)
  /\ next.line = fill.line
  /\ next.data = [fill.data EXCEPT ![fill.beat] = op[p].rsp.data]
  /\ next.error = (fill.error \/ op[p].rsp.err)
FillGoesOn(p, fill, next) ==
  /\ FillHears(p, fill, next) /\ next.state = "REQ"
  /\ fill.beat < LastBeat /\ next.beat = fill.beat + 1
FillIsWhole(p, fill, next) ==
  FillHears(p, fill, next) /\ next.state = "DONE" /\ fill.beat = LastBeat
FillGoes(fill, next, taken) == fill.state = "DONE" /\ next.state = "IDLE" /\ taken

FillMoves(p, fill, next, base, starts, taken) ==
  \/ Rests(p, fill, next)
  \/ FillBegins(fill, next, base, starts)
  \/ FillAsks(p, fill, next)
  \/ FillGoesOn(p, fill, next)
  \/ FillIsWhole(p, fill, next)
  \/ FillGoes(fill, next, taken)

LEMMA FillDrawn ==
  LET d == IcacheRefillDiagram IN
  /\ {"idle", "req", "wait", "done"} = d.seq
  /\ "align" \notin d.seq /\ "reqc" \notin d.seq /\ "store" \notin d.seq
  /\ "line" \notin d.seq
  /\ <<"idle", "START_VALID", "align">> \in d.arrows
  /\ <<"align", "CAPTURE BASE", "req">> \in d.arrows
  /\ <<"req", "REQ_VALID", "reqc">> \in d.arrows
  /\ <<"reqc", "REQ_READY", "wait">> \in d.arrows
  /\ <<"wait", "RSP_VALID", "store">> \in d.arrows
  /\ <<"store", "NOT LAST", "req">> \in d.arrows
  /\ <<"store", "LAST BEAT", "done">> \in d.arrows
  /\ <<"done", "LINE_VALID", "line">> \in d.arrows
  /\ <<"line", "LINE_READY", "idle">> \in d.arrows
BY DEF IcacheRefillDiagram, Diagram

\* Those moves are the arrows of the diagram.
LEMMA FillMovesAlong ==
  ASSUME NEW p, NEW fill, NEW next, NEW base, NEW starts, NEW taken,
         FillMoves(p, fill, next, base, starts, taken)
  PROVE  FillFollows(FillPaths, p, fill, next, base, starts, taken)
<1> DEFINE d == IcacheRefillDiagram
           Box(l) == FillBox(p, fill, next, base, starts, taken, l)
           Along(L) == /\ HasPath(d, SeqNode(fill.state), L, SeqNode(next.state))
                       /\ \A l \in L : Box(l)
<1>1. ASSUME NEW L, Along(L)
      PROVE  FillFollows(FillPaths, p, fill, next, base, starts, taken)
  BY <1>1 DEF HasPath, FillFollows, FollowsPath, FillPaths
<1> HIDE DEF Along
<1>2. ASSUME NEW l, NEW m, Box(l), Box(m),
             HasPath(d, SeqNode(fill.state), {l, m}, SeqNode(next.state))
      PROVE  FillFollows(FillPaths, p, fill, next, base, starts, taken)
  <2>1. \A k \in {l, m} : Box(k)
    BY <1>2
  <2>2. Along({l, m})
    BY <1>2, <2>1 DEF Along
  <2> QED BY <1>1, <2>2
<1>3. CASE Rests(p, fill, next)
  BY <1>3 DEF FillFollows
<1>4. CASE FillBegins(fill, next, base, starts)
  <2>1. SeqNode(fill.state) = "idle" /\ SeqNode(next.state) = "req"
    BY <1>4 DEF SeqNode, FillBegins
  <2>2. HasPath(d, "idle", {"START_VALID", "CAPTURE BASE"}, "req")
    BY FillDrawn, TwoArrows
  <2>3. Box("START_VALID") /\ Box("CAPTURE BASE")
    BY <1>4 DEF FillBox, FillBegins
  <2> QED BY <1>2, <2>1, <2>2, <2>3
<1>5. CASE FillAsks(p, fill, next)
  <2>1. SeqNode(fill.state) = "req" /\ SeqNode(next.state) = "wait"
    BY <1>5 DEF SeqNode, FillAsks
  <2>2. HasPath(d, "req", {"REQ_VALID", "REQ_READY"}, "wait")
    BY FillDrawn, TwoArrows
  <2>3. Box("REQ_VALID") /\ Box("REQ_READY")
    BY <1>5 DEF FillBox, FillAsks
  <2> QED BY <1>2, <2>1, <2>2, <2>3
<1>6. CASE FillGoesOn(p, fill, next)
  <2>1. SeqNode(fill.state) = "wait" /\ SeqNode(next.state) = "req"
    BY <1>6 DEF SeqNode, FillGoesOn, FillHears
  <2>2. HasPath(d, "wait", {"RSP_VALID", "NOT LAST"}, "req")
    BY FillDrawn, TwoArrows
  <2>3. Box("RSP_VALID") /\ Box("NOT LAST")
    BY <1>6 DEF FillBox, FillGoesOn, FillHears
  <2> QED BY <1>2, <2>1, <2>2, <2>3
<1>7. CASE FillIsWhole(p, fill, next)
  <2>1. SeqNode(fill.state) = "wait" /\ SeqNode(next.state) = "done"
    BY <1>7 DEF SeqNode, FillIsWhole, FillHears
  <2>2. HasPath(d, "wait", {"RSP_VALID", "LAST BEAT"}, "done")
    BY FillDrawn, TwoArrows
  <2>3. Box("RSP_VALID") /\ Box("LAST BEAT")
    BY <1>7 DEF FillBox, FillIsWhole, FillHears
  <2> QED BY <1>2, <2>1, <2>2, <2>3
<1>8. CASE FillGoes(fill, next, taken)
  <2>1. SeqNode(fill.state) = "done" /\ SeqNode(next.state) = "idle"
    BY <1>8 DEF SeqNode, FillGoes
  <2>2. HasPath(d, "done", {"LINE_VALID", "LINE_READY"}, "idle")
    BY FillDrawn, TwoArrows
  <2>3. Box("LINE_VALID") /\ Box("LINE_READY")
    BY <1>8 DEF FillBox, FillGoes
  <2> QED BY <1>2, <2>1, <2>2, <2>3
<1> QED BY <1>3, <1>4, <1>5, <1>6, <1>7, <1>8 DEF FillMoves

\* The moves, one at a time.
LEMMA FillOneMove ==
  ASSUME NEW p, NEW f \in Fill, NEW starts, NEW taken
  PROVE  /\ \A l \in Lines : f.state = "IDLE" /\ starts
              => FillMoves(p, f, FillStarted(l), l, starts, taken)
         /\ \A l : f.state = "REQ" /\ Presents(p, [NoAccess EXCEPT !.addr = FillAddr(f)])
              => FillMoves(p, f, FillRequested(f), l, starts, taken)
         /\ \A l : f.state = "WAIT" /\ Collects(p) /\ op[p].rsp \in Reply
              => FillMoves(p, f, FillAnswered(f, op[p].rsp), l, starts, taken)
         /\ \A l : f.state = "DONE" /\ taken
              => FillMoves(p, f, FillTaken(f), l, starts, taken)
<1>1. ASSUME f.state = "IDLE", NEW l \in Lines, starts
      PROVE  FillMoves(p, f, FillStarted(l), l, starts, taken)
  <2>1. FillBegins(f, FillStarted(l), l, starts)
    BY <1>1 DEF FillBegins, FillStarted
  <2> QED BY <2>1 DEF FillMoves
<1>2. ASSUME f.state = "REQ", NEW l,
             Presents(p, [NoAccess EXCEPT !.addr = FillAddr(f)])
      PROVE  FillMoves(p, f, FillRequested(f), l, starts, taken)
  <2>1. FillAsks(p, f, FillRequested(f))
    BY <1>2, RequestedFill DEF FillAsks, FillRequested
  <2> QED BY <2>1 DEF FillMoves
<1>3. ASSUME f.state = "WAIT", NEW l, Collects(p), op[p].rsp \in Reply
      PROVE  FillMoves(p, f, FillAnswered(f, op[p].rsp), l, starts, taken)
  <2> DEFINE g == FillAnswered(f, op[p].rsp)
             last == f.beat = LastBeat
  <2>1. f.beat \in Nat /\ f.beat <= LastBeat
    BY DEF Fill, Beats
  <2>2. /\ g.line = f.line /\ g.state = IF last THEN "DONE" ELSE "REQ"
        /\ g.beat = IF last THEN f.beat ELSE f.beat + 1
        /\ g.error = (f.error \/ op[p].rsp.err)
        /\ g.data = [f.data EXCEPT ![f.beat] = op[p].rsp.data]
    BY DEF FillAnswered, Fill
  <2> SUFFICES FillMoves(p, f, g, l, starts, taken)
    OBVIOUS
  <2> HIDE DEF g
  <2>3. FillHears(p, f, g)
    BY <1>3, <2>2 DEF FillHears
  <2>4. CASE last
    <3>1. FillIsWhole(p, f, g)
      BY <2>2, <2>3, <2>4 DEF FillIsWhole
    <3> QED BY <3>1 DEF FillMoves
  <2>5. CASE ~last
    <3>1. FillGoesOn(p, f, g)
      BY <2>1, <2>2, <2>3, <2>5 DEF FillGoesOn
    <3> QED BY <3>1 DEF FillMoves
  <2> QED BY <2>4, <2>5
<1>4. ASSUME f.state = "DONE", NEW l, taken
      PROVE  FillMoves(p, f, FillTaken(f), l, starts, taken)
  <2>1. FillTaken(f).state = "IDLE"
    BY ResetTypes DEF FillTaken, FillReset, FillStarted
  <2>2. FillGoes(f, FillTaken(f), taken)
    BY <1>4, <2>1 DEF FillGoes
  <2> QED BY <2>2 DEF FillMoves
<1> QED BY <1>1, <1>2, <1>3, <1>4

-------------------------------------------------------------------------------
(* The I-cache.                                                            *)

IFillMoves ==
  FillMoves("I", icFill, icFill', icAddr.line,
            icState = "MISS_REQ" /\ icState' = "MISS_WAIT",
            icState = "MISS_WAIT" /\ icState' = "RESP")

LEMMA IStaysFollowed ==
  ASSUME UNCHANGED icVars, ~Collects("I")
  PROVE  IcacheCtrlFollows /\ IFillMoves
<1>1. Rests("I", icFill, icFill')
  BY DEF icVars, Rests
<1> QED BY <1>1 DEF icVars, IcacheCtrlFollows, Held, IFillMoves, FillMoves

\* The frontend asks, or takes its answer.
LEMMA FetchFollows ==
  ASSUME Frontend \/ FrontendTakes, ~Collects("I")
  PROVE  IcacheCtrlFollows /\ IFillMoves
<1>1. IFillMoves
  <2>1. icFill' = icFill
    BY DEF Frontend, FrontendTakes, FetchHit, FetchMiss, FetchRespond
  <2>2. Rests("I", icFill, icFill')
    BY <2>1 DEF Rests
  <2> QED BY <2>2 DEF IFillMoves, FillMoves
<1>2. CASE Frontend
  <2>1. PICK a \in Fetches : FetchHit(a) \/ FetchMiss(a)
    BY <1>2 DEF Frontend
  <2>2. RequestAccept
    BY <2>1 DEF FetchHit, FetchMiss, RequestAccept, IcArraysKept
  <2>3. CASE FetchHit(a)
    BY <1>1, <2>2, <2>3 DEF FetchHit, IcacheCtrlFollows, HitResponse
  <2>4. CASE FetchMiss(a)
    BY <1>1, <2>2, <2>4 DEF FetchMiss, IcacheCtrlFollows, Miss
  <2> QED BY <2>1, <2>3, <2>4
<1>3. CASE FrontendTakes
  BY <1>1, <1>3 DEF FrontendTakes, FetchRespond, IcacheCtrlFollows, ResponseTaken,
                    IcArraysKept
<1> QED BY <1>2, <1>3

LEMMA ICacheWorkFollows ==
  ASSUME CacheInv, ICacheWork
  PROVE  IcacheCtrlFollows /\ IFillMoves
<1>1. /\ icAddr.line \in Lines /\ icFill \in Fill /\ op["I"].rsp \in Reply
      /\ icState = "MISS_WAIT" => icFill.line = icAddr.line
      /\ Storage /\ "I" \in Ports
  BY DEF CacheInv, IInv, IType, ICacheTypeOK, ISequencer, Ports, Addr
<1> DEFINE starts == icState = "MISS_REQ" /\ icState' = "MISS_WAIT"
           taken == icState = "MISS_WAIT" /\ icState' = "RESP"
           Moves(next) == FillMoves("I", icFill, next, icAddr.line, starts, taken)
<1>2. IFillMoves <=> Moves(icFill')
  BY DEF IFillMoves
<1>3. CASE FetchFillStart
  <2>1. icFill.state = "IDLE" /\ starts /\ icFill' = FillStarted(icAddr.line)
    BY <1>3 DEF FetchFillStart
  <2> HIDE DEF starts, taken
  <2>2. Moves(icFill')
    BY <1>1, <2>1, FillOneMove
  <2>3. MissStart
    BY <1>3 DEF FetchFillStart, MissStart, FillStarted, Begins, IcArraysKept
  <2> QED BY <1>2, <2>2, <2>3 DEF IcacheCtrlFollows
<1>4. CASE /\ FetchFillRequest
           /\ Issue("I", [NoAccess EXCEPT !.addr = FillAddr(icFill)])
  <2>1. icFill.state = "REQ" /\ icFill' = FillRequested(icFill)
    BY <1>4 DEF FetchFillRequest
  <2>2. Presents("I", [NoAccess EXCEPT !.addr = FillAddr(icFill)])
    BY <1>1, <1>4, PortMoves
  <2> HIDE DEF starts, taken
  <2>3. Moves(icFill')
    BY <1>1, <2>1, <2>2, FillOneMove
  <2>4. Held
    BY <1>4 DEF FetchFillRequest, Held
  <2> QED BY <1>2, <2>3, <2>4 DEF IcacheCtrlFollows
<1>5. CASE FetchFillAnswer(op["I"].rsp) /\ Collect("I")
  <2>1. icFill.state = "WAIT" /\ icFill' = FillAnswered(icFill, op["I"].rsp)
    BY <1>5 DEF FetchFillAnswer
  <2>2. Collects("I")
    BY <1>1, <1>5, PortMoves
  <2> HIDE DEF starts, taken
  <2>3. Moves(icFill')
    BY <1>1, <2>1, <2>2, FillOneMove
  <2>4. Held
    BY <1>5 DEF FetchFillAnswer, Held
  <2> QED BY <1>2, <2>3, <2>4 DEF IcacheCtrlFollows
<1>6. CASE FetchFillAccept
  <2>1. icFill.state = "DONE" /\ taken /\ icFill' = FillTaken(icFill)
    BY <1>6 DEF FetchFillAccept
  <2>2. FillTaken(icFill).state = "IDLE"
    BY ResetTypes DEF FillTaken, FillReset, FillStarted
  <2>3. icFill.line = icAddr.line
    BY <1>1, <2>1
  <2>4. /\ icTags' = LineEnters(icTags, icAddr.line, icFill)
        /\ icLines' = DataEnters(icLines, icAddr.line, icFill)
    BY <1>6, <2>3 DEF FetchFillAccept, TagRefill, LineRefill, LineEnters, DataEnters
  <2>5. LineAccept
    BY <1>6, <2>1, <2>2, <2>4 DEF FetchFillAccept, LineAccept, Ends
  <2> HIDE DEF starts, taken
  <2>6. Moves(icFill')
    BY <1>1, <2>1, FillOneMove
  <2> QED BY <1>2, <2>5, <2>6 DEF IcacheCtrlFollows
<1> QED BY <1>3, <1>4, <1>5, <1>6 DEF ICacheWork

LEMMA ICacheFollows ==
  ASSUME CacheInv, [Next]_vars
  PROVE  IcacheCtrlFollows /\ IFillMoves
<1>1. Storage /\ "I" \in Ports /\ "D" \in Ports \ {"I"}
  BY DEF CacheInv, Ports
<1>2. CASE Frontend \/ FrontendTakes
  <2>1. ~Collects("I")
    BY <1>1, <1>2, PortMoves DEF Frontend, FrontendTakes, InCache
  <2> QED BY <1>2, <2>1, FetchFollows
<1>3. CASE ICacheWork
  BY <1>3, ICacheWorkFollows
<1>4. CASE DCacheWork
  <2>1. op' = op \/ Issue("D", BusAccess) \/ Collect("D")
    BY <1>4 DEF DCacheWork, InCache
  <2>2. ~Collects("I")
    BY <1>1, <2>1, PortMoves
  <2> QED BY <1>4, <2>2, IStaysFollowed DEF DCacheWork
<1>5. CASE Core \/ CoreTakes \/ DmaWrite \/ UNCHANGED vars
  <2>1. UNCHANGED icVars /\ op' = op
    BY <1>5 DEF Core, CoreTakes, DmaWrite, vars, InCache
  <2> QED BY <1>1, <2>1, PortMoves, IStaysFollowed
<1>6. CASE \E p \in Ports : Perform(p)
  <2>1. UNCHANGED icVars
    BY <1>6 DEF Perform
  <2> QED BY <1>1, <1>6, <2>1, PortMoves, IStaysFollowed
<1> QED BY <1>2, <1>3, <1>4, <1>5, <1>6 DEF Next

-------------------------------------------------------------------------------
(* The D-cache.                                                            *)

\* A way that a machine of the D-cache may go, its labels' boxes holding.
LEMMA AlongStorePath ==
  ASSUME NEW s, NEW c, NEW t, NEW l, NEW m,
         s \in DcacheStoreDiagram.seq, c \notin DcacheStoreDiagram.seq,
         t \in DcacheStoreDiagram.seq,
         <<s, l, c>> \in DcacheStoreDiagram.arrows,
         <<c, m, t>> \in DcacheStoreDiagram.arrows,
         SeqNode(dcStore.state) = s, SeqNode(dcStore'.state) = t,
         StoreBox(l), StoreBox(m)
  PROVE  StoreFollows
<1>h. HasPath(DcacheStoreDiagram, s, {l, m}, t)
  BY TwoArrows
<1>1. PICK p \in StorePaths : p.from = s /\ p.to = t /\ p.labels = {l, m}
  BY <1>h DEF HasPath, StorePaths
<1>2. \A k \in p.labels : StoreBox(k)
  BY <1>1
<1> QED BY <1>1, <1>2 DEF FollowsPath, StoreFollows

LEMMA AlongCtrlPath ==
  ASSUME NEW L, HasPath(DcacheCtrlDiagram, DcacheNode, L, DcacheNode'),
         \A l \in L : DcacheBox(l)
  PROVE  DcacheCtrlFollows
<1>1. PICK p \in DcachePaths : p.from = DcacheNode /\ p.to = DcacheNode' /\ p.labels = L
  BY DEF HasPath, DcachePaths
<1>2. \A k \in p.labels : DcacheBox(k)
  BY <1>1
<1> QED BY <1>1, <1>2 DEF FollowsPath, DcacheCtrlFollows

LEMMA AlongCtrlTwo ==
  ASSUME NEW l, NEW m, HasPath(DcacheCtrlDiagram, DcacheNode, {l, m}, DcacheNode'),
         DcacheBox(l), DcacheBox(m)
  PROVE  DcacheCtrlFollows
<1>1. \A k \in {l, m} : DcacheBox(k)
  OBVIOUS
<1> QED BY <1>1, AlongCtrlPath

LEMMA StoreDrawn ==
  LET d == DcacheStoreDiagram IN
  /\ {"idle", "req", "wait", "done"} = d.seq
  /\ "capture" \notin d.seq /\ "reqc" \notin d.seq /\ "rspc" \notin d.seq
  /\ "done_if" \notin d.seq
  /\ <<"idle", "START_VALID", "capture">> \in d.arrows
  /\ <<"capture", "START_READY", "req">> \in d.arrows
  /\ <<"req", "REQ_VALID", "reqc">> \in d.arrows
  /\ <<"reqc", "REQ_READY", "wait">> \in d.arrows
  /\ <<"wait", "RSP_VALID", "rspc">> \in d.arrows
  /\ <<"rspc", "ERR CAPTURED", "done">> \in d.arrows
  /\ <<"done", "DONE_VALID", "done_if">> \in d.arrows
  /\ <<"done_if", "DONE_READY", "idle">> \in d.arrows
BY DEF DcacheStoreDiagram, Diagram

LEMMA CtrlDrawn ==
  LET d == DcacheCtrlDiagram IN
  /\ {"idle", "lreq", "lwait", "sreq", "swait", "resp"} = d.seq
  /\ "class" \notin d.seq /\ "refill" \notin d.seq /\ "store" \notin d.seq
  /\ "rspmux" \notin d.seq /\ "core" \notin d.seq
  /\ <<"idle", "REQ_FIRE", "class">> \in d.arrows
  /\ <<"class", "INVALID OR LOAD HIT", "resp">> \in d.arrows
  /\ <<"class", "LOAD MISS", "lreq">> \in d.arrows
  /\ <<"class", "STORE", "sreq">> \in d.arrows
  /\ <<"lreq", "REFILL_START_READY", "lwait">> \in d.arrows
  /\ <<"lwait", "LINE_VALID", "refill">> \in d.arrows
  /\ <<"refill", "WORD/ERR CAPTURE", "resp">> \in d.arrows
  /\ <<"sreq", "STORE_START_READY", "swait">> \in d.arrows
  /\ <<"swait", "STORE_DONE", "store">> \in d.arrows
  /\ <<"store", "ERR CAPTURE", "resp">> \in d.arrows
  /\ <<"resp", "RSP_VALID", "rspmux">> \in d.arrows
  /\ <<"rspmux", "RSP_READY", "core">> \in d.arrows
  /\ <<"core", "NEXT REQ", "idle">> \in d.arrows
BY DEF DcacheCtrlDiagram, Diagram

\* What a step of the D-cache has to show of its three machines.
DFillMoves ==
  FillMoves("D", dcFill, dcFill', dcReq.addr.line,
            dcState = "LOAD_REFILL_REQ" /\ dcState' = "LOAD_REFILL_WAIT",
            dcState = "LOAD_REFILL_WAIT" /\ dcState' = "RESP")
DCacheFollowed == DFillMoves /\ StoreFollows /\ DcacheCtrlFollows

LEMMA DStaysFollowed ==
  /\ dcFill' = dcFill /\ (dcFill.state = "WAIT" => ~Collects("D")) => DFillMoves
  /\ dcStore' = dcStore /\ (dcStore.state = "WAIT" => ~Collects("D")) => StoreFollows
  /\ DcacheRests => DcacheCtrlFollows
BY DEF DFillMoves, FillMoves, Rests, StoreFollows, DcacheCtrlFollows

\* A request is refused, hits, or goes to the sequencer of its class.
LEMMA AcceptFollows ==
  ASSUME NEW req \in Requests, LoadHit(req) \/ TakeWork(req) \/ RefuseRequest(req),
         ~Collects("D")
  PROVE  DCacheFollowed
<1>1. Accept(req)
  BY DEF LoadHit, TakeWork, RefuseRequest
<1>2. dcFill' = dcFill /\ dcStore' = dcStore /\ DcacheNode = "idle" /\ dcReq' = req
  BY <1>1 DEF Accept, DcacheNode
<1>3. storeHit' = (req.write /\ CachedHit(req)) /\ DcArraysKept
  BY <1>1 DEF Accept, DcArraysKept
<1>4. DcacheBox("REQ_FIRE")
  BY <1>2, <1>3 DEF DcacheBox
<1>5. DcacheCtrlFollows
  <2>1. CASE LoadHit(req) \/ RefuseRequest(req)
    <3>1. HasPath(DcacheCtrlDiagram, "idle", {"REQ_FIRE", "INVALID OR LOAD HIT"}, "resp")
      BY CtrlDrawn, TwoArrows
    <3>2. DcacheNode' = "resp"
      BY <2>1 DEF LoadHit, RefuseRequest, DcacheNode
    <3>3. DcacheBox("INVALID OR LOAD HIT")
      BY <2>1, <1>2 DEF DcacheBox, LoadHit, RefuseRequest, TagHit, CachedHit, CacheableReq
    <3> QED BY <1>2, <1>4, <3>1, <3>2, <3>3, AlongCtrlTwo
  <2>2. CASE TakeWork(req) /\ req.addr.line \notin Cacheable
    <3>1. dcState = "IDLE" /\ dcState' = "UNCACHED_REQ" /\ req.legal
      BY <2>2 DEF TakeWork, WorkState, Accept
    <3>2. PassesBy
      BY <1>2, <1>3, <2>2, <3>1 DEF PassesBy
    <3> QED BY <3>2 DEF DcacheCtrlFollows
  <2>3. CASE TakeWork(req) /\ req.addr.line \in Cacheable /\ req.write
    <3>1. HasPath(DcacheCtrlDiagram, "idle", {"REQ_FIRE", "STORE"}, "sreq")
      BY CtrlDrawn, TwoArrows
    <3>2. DcacheNode' = "sreq"
      BY <2>3 DEF TakeWork, WorkState, DcacheNode
    <3>3. dcReq'.write /\ dcReq'.legal /\ (CachedHit(req) <=> TagHit)
      BY <2>3, <1>2 DEF TagHit, CachedHit, TakeWork
    <3>4. storeHit' = TagHit
      BY <2>3, <1>3, <3>3 DEF TagHit, CachedHit, Hit
    <3>5. DcacheBox("STORE")
      BY <2>3, <1>2, <3>3, <3>4 DEF DcacheBox, CacheableReq
    <3> QED BY <1>2, <1>4, <3>1, <3>2, <3>5, AlongCtrlTwo
  <2>4. CASE TakeWork(req) /\ req.addr.line \in Cacheable /\ ~req.write
    <3>1. HasPath(DcacheCtrlDiagram, "idle", {"REQ_FIRE", "LOAD MISS"}, "lreq")
      BY CtrlDrawn, TwoArrows
    <3>2. DcacheNode' = "lreq"
      BY <2>4 DEF TakeWork, WorkState, DcacheNode
    <3>3. DcacheBox("LOAD MISS")
      BY <2>4, <1>2 DEF DcacheBox, TagHit, CachedHit, TakeWork, CacheableReq
    <3> QED BY <1>2, <1>4, <3>1, <3>2, <3>3, AlongCtrlTwo
  <2> QED BY <2>1, <2>2, <2>3, <2>4
<1> QED BY <1>2, <1>5, DStaysFollowed DEF DCacheFollowed

\* The control starts a sequencer.
LEMMA StartFollows ==
  ASSUME DInv, FillStart \/ StoreStart \/ UncachedStart, ~Collects("D")
  PROVE  DCacheFollowed
<1>1. dcFill \in Fill /\ dcReq.addr.line \in Lines
  BY DEF DInv, DType, DCacheTypeOK, Access, Addr
<1>2. RequestKept /\ DcArraysKept
  BY DEF FillStart, StoreStart, UncachedStart, RequestKept, DcArraysKept
<1>3. CASE FillStart
  <2> DEFINE starts == dcState = "LOAD_REFILL_REQ" /\ dcState' = "LOAD_REFILL_WAIT"
             taken == dcState = "LOAD_REFILL_WAIT" /\ dcState' = "RESP"
             Moves == FillMoves("D", dcFill, dcFill', dcReq.addr.line, starts, taken)
  <2>1. DFillMoves <=> Moves
    BY DEF DFillMoves
  <2>2. dcFill.state = "IDLE" /\ dcFill' = FillStarted(dcReq.addr.line) /\ starts
    BY <1>3 DEF FillStart
  <2> HIDE DEF starts, taken
  <2>3. DFillMoves
    BY <1>1, <2>1, <2>2, FillOneMove
  <2>4. HasPath(DcacheCtrlDiagram, "lreq", {"REFILL_START_READY"}, "lwait")
    BY CtrlDrawn, OneArrow
  <2>5. DcacheNode = "lreq" /\ DcacheNode' = "lwait" /\ dcStore' = dcStore
    BY <1>3 DEF FillStart, DcacheNode
  <2>6. DcacheBox("REFILL_START_READY")
    BY <1>2, <2>2 DEF DcacheBox, Begins, FillStarted
  <2> QED BY <2>3, <2>4, <2>5, <2>6, AlongCtrlPath, DStaysFollowed DEF DCacheFollowed
<1>4. CASE StoreStart
  <2>1. SeqNode(dcStore.state) = "idle" /\ SeqNode(dcStore'.state) = "req"
    BY <1>4 DEF StoreStart, SeqNode
  <2>2. StoreBox("START_VALID") /\ StoreBox("START_READY")
    BY <1>4 DEF StoreStart, StoreBox
  <2>3. StoreFollows
    BY <2>1, <2>2, StoreDrawn, AlongStorePath
  <2>4. HasPath(DcacheCtrlDiagram, "sreq", {"STORE_START_READY"}, "swait")
    BY CtrlDrawn, OneArrow
  <2>5. DcacheNode = "sreq" /\ DcacheNode' = "swait" /\ dcFill' = dcFill
    BY <1>4 DEF StoreStart, DcacheNode
  <2>6. DcacheBox("STORE_START_READY")
    BY <1>2, <1>4 DEF StoreStart, DcacheBox, Begins
  <2> QED BY <2>3, <2>4, <2>5, <2>6, AlongCtrlPath, DStaysFollowed DEF DCacheFollowed
<1>5. CASE UncachedStart
  <2>1. dcFill' = dcFill /\ dcStore' = dcStore
    BY <1>5 DEF UncachedStart
  <2>2. PassesBy
    BY <1>2, <1>5 DEF UncachedStart, PassesBy, Begins
  <2> QED BY <2>1, <2>2, DStaysFollowed DEF DCacheFollowed, DcacheCtrlFollows
<1> QED BY <1>3, <1>4, <1>5

\* A sequencer's request is taken.
LEMMA BusRequestFollows ==
  ASSUME Storage, DInv, BusRequest, Issue("D", BusAccess)
  PROVE  DCacheFollowed
<1>1. /\ dcFill \in Fill
      /\ dcStore \in [state : SeqStates, req : Access, error : BOOLEAN]
  BY DEF DInv, DType, DCacheTypeOK
<1>2. DcacheCtrlFollows
  BY DStaysFollowed DEF BusRequest, DcacheRests
<1>3. Presents("D", BusAccess) /\ ~Collects("D")
  BY PortMoves DEF Ports
<1>4. CASE dcStore.state = "REQ"
  <2>1. dcStore' = [dcStore EXCEPT !.state = "WAIT"] /\ dcFill' = dcFill
    BY <1>4 DEF BusRequest
  <2>2. SeqNode(dcStore.state) = "req" /\ SeqNode(dcStore'.state) = "wait"
    BY <1>1, <1>4, <2>1 DEF SeqNode
  <2>3. StoreBox("REQ_VALID") /\ StoreBox("REQ_READY")
    BY <1>3, <1>4, <2>1 DEF StoreBox, BusAccess
  <2>4. StoreFollows
    BY <2>2, <2>3, StoreDrawn, AlongStorePath
  <2> QED BY <1>2, <1>3, <2>1, <2>4, DStaysFollowed DEF DCacheFollowed
<1>5. CASE dcStore.state # "REQ" /\ dcUncached.state = "REQ"
  <2>1. dcStore' = dcStore /\ dcFill' = dcFill
    BY <1>5 DEF BusRequest
  <2> QED BY <1>2, <1>3, <2>1, DStaysFollowed DEF DCacheFollowed
<1>6. CASE dcStore.state # "REQ" /\ dcUncached.state # "REQ"
  <2> DEFINE starts == dcState = "LOAD_REFILL_REQ" /\ dcState' = "LOAD_REFILL_WAIT"
             taken == dcState = "LOAD_REFILL_WAIT" /\ dcState' = "RESP"
             Moves == FillMoves("D", dcFill, dcFill', dcReq.addr.line, starts, taken)
  <2>1. DFillMoves <=> Moves
    BY DEF DFillMoves
  <2>2. dcFill.state = "REQ" /\ dcFill' = FillRequested(dcFill) /\ dcStore' = dcStore
    BY <1>6 DEF BusRequest, WantsBus
  <2>3. Presents("D", [NoAccess EXCEPT !.addr = FillAddr(dcFill)])
    BY <1>3, <1>6 DEF BusAccess
  <2> HIDE DEF starts, taken
  <2>4. DFillMoves
    BY <1>1, <2>1, <2>2, <2>3, FillOneMove
  <2> QED BY <1>2, <1>3, <2>2, <2>4, DStaysFollowed DEF DCacheFollowed
<1> QED BY <1>4, <1>5, <1>6

\* It is answered: the one sequencer at work takes the answer.
LEMMA BusAnswerFollows ==
  ASSUME Storage, DInv, BusAnswer(op["D"].rsp), Collect("D")
  PROVE  DCacheFollowed
<1>1. /\ dcFill \in Fill /\ op["D"].rsp \in Reply
      /\ dcStore \in [state : SeqStates, req : Access, error : BOOLEAN]
  BY DEF DInv, DType, DCacheTypeOK
<1>2. DcacheCtrlFollows
  BY DStaysFollowed DEF BusAnswer, DcacheRests
<1>3. Collects("D")
  BY PortMoves DEF Ports
<1>4. DFillMoves
  <2> DEFINE starts == dcState = "LOAD_REFILL_REQ" /\ dcState' = "LOAD_REFILL_WAIT"
             taken == dcState = "LOAD_REFILL_WAIT" /\ dcState' = "RESP"
             Moves == FillMoves("D", dcFill, dcFill', dcReq.addr.line, starts, taken)
  <2>1. DFillMoves <=> Moves
    BY DEF DFillMoves
  <2>2. CASE dcFill.state = "WAIT"
    <3>1. dcFill' = FillAnswered(dcFill, op["D"].rsp)
      BY <2>2 DEF BusAnswer
    <3> HIDE DEF starts, taken
    <3> QED BY <1>1, <1>3, <2>1, <2>2, <3>1, FillOneMove
  <2>3. CASE dcFill.state # "WAIT"
    BY <2>3, DStaysFollowed DEF BusAnswer
  <2> QED BY <2>2, <2>3
<1>5. StoreFollows
  <2>1. CASE dcStore.state = "WAIT"
    <3>1. dcStore' = [dcStore EXCEPT !.state = "DONE", !.error = op["D"].rsp.err]
      BY <2>1 DEF BusAnswer
    <3>2. /\ dcStore'.state = "DONE" /\ dcStore'.error = op["D"].rsp.err
          /\ dcStore'.req = dcStore.req
      BY <1>1, <3>1
    <3>3. SeqNode(dcStore.state) = "wait" /\ SeqNode(dcStore'.state) = "done"
      BY <2>1, <3>2 DEF SeqNode
    <3>4. StoreBox("RSP_VALID") /\ StoreBox("ERR CAPTURED")
      BY <1>3, <3>2 DEF StoreBox
    <3> QED BY <3>3, <3>4, StoreDrawn, AlongStorePath
  <2>2. CASE dcStore.state # "WAIT"
    BY <2>2, DStaysFollowed DEF BusAnswer
  <2> QED BY <2>1, <2>2
<1> QED BY <1>2, <1>4, <1>5 DEF DCacheFollowed

\* The filled line enters the arrays, and its word is the response.
LEMMA FillAcceptFollows ==
  ASSUME DInv, FillAccept, ~Collects("D")
  PROVE  DCacheFollowed
<1> DEFINE starts == dcState = "LOAD_REFILL_REQ" /\ dcState' = "LOAD_REFILL_WAIT"
           taken == dcState = "LOAD_REFILL_WAIT" /\ dcState' = "RESP"
           Moves == FillMoves("D", dcFill, dcFill', dcReq.addr.line, starts, taken)
<1>1. dcFill \in Fill /\ dcFill.line = dcReq.addr.line
  BY DEF DInv, DType, DCacheTypeOK, DSequencer, FillAccept
<1>2. DFillMoves <=> Moves
  BY DEF DFillMoves
<1>3. dcFill.state = "DONE" /\ dcFill' = FillTaken(dcFill) /\ taken
  BY DEF FillAccept
<1> HIDE DEF starts, taken
<1>4. DFillMoves
  BY <1>1, <1>2, <1>3, FillOneMove
<1>5. HasPath(DcacheCtrlDiagram, "lwait", {"LINE_VALID", "WORD/ERR CAPTURE"}, "resp")
  BY CtrlDrawn, TwoArrows
<1>6. DcacheNode = "lwait" /\ DcacheNode' = "resp" /\ dcStore' = dcStore
  BY DEF FillAccept, DcacheNode
<1>7. DcacheBox("LINE_VALID")
  <2>1. FillTaken(dcFill).state = "IDLE"
    BY ResetTypes DEF FillTaken, FillReset, FillStarted
  <2> QED BY <1>3, <2>1 DEF DcacheBox, Ends
<1>8. DcacheBox("WORD/ERR CAPTURE")
  BY <1>1 DEF FillAccept, DcacheBox, TagRefill, LineRefill, LineEnters, DataEnters,
              RequestKept
<1> QED
  BY <1>4, <1>5, <1>6, <1>7, <1>8, AlongCtrlTwo, DStaysFollowed DEF DCacheFollowed

\* A store that hit and succeeded is merged where it hit.
LEMMA StoreDoneFollows ==
  ASSUME DInv, StoreDone, ~Collects("D")
  PROVE  DCacheFollowed
<1>1. dcStore.req = dcReq
  BY DEF DInv, DSequencer, StoreDone
<1>2. /\ SeqNode(dcStore.state) = "done" /\ SeqNode(dcStore'.state) = "idle"
      /\ Ends(dcStore, dcStore')
  BY DEF StoreDone, StoreReset, SeqNode, Ends
<1>3. StoreBox("DONE_VALID") /\ StoreBox("DONE_READY")
  BY DEF StoreDone, StoreBox
<1>4. StoreFollows
  BY <1>2, <1>3, StoreDrawn, AlongStorePath
<1>5. HasPath(DcacheCtrlDiagram, "swait", {"STORE_DONE", "ERR CAPTURE"}, "resp")
  BY CtrlDrawn, TwoArrows
<1>6. DcacheNode = "swait" /\ DcacheNode' = "resp" /\ dcFill' = dcFill
  BY DEF StoreDone, DcacheNode
<1>7. DcacheBox("STORE_DONE")
  BY <1>2 DEF DcacheBox
<1>8. dcLines' = AfterStore
  BY <1>1 DEF StoreDone, Merges, AfterStore
<1>9. DcacheBox("ERR CAPTURE")
  BY <1>8 DEF DcacheBox, StoreDone, RequestKept
<1> QED
  BY <1>4, <1>5, <1>6, <1>7, <1>9, AlongCtrlTwo, DStaysFollowed DEF DCacheFollowed

LEMMA RespondFollows ==
  ASSUME Respond, ~Collects("D")
  PROVE  DCacheFollowed
<1> DEFINE L == {"RSP_VALID", "RSP_READY", "NEXT REQ"}
<1>1. HasPath(DcacheCtrlDiagram, "resp", L, "idle")
  BY CtrlDrawn, ThreeArrows
<1>2. /\ DcacheNode = "resp" /\ DcacheNode' = "idle"
      /\ dcFill' = dcFill /\ dcStore' = dcStore
  BY DEF Respond, DcacheNode
<1>3. DcacheBox("RSP_VALID") /\ DcacheBox("RSP_READY") /\ DcacheBox("NEXT REQ")
  BY DEF DcacheBox, Respond, DcArraysKept
<1>4. HasPath(DcacheCtrlDiagram, DcacheNode, L, DcacheNode') /\ \A k \in L : DcacheBox(k)
  BY <1>1, <1>2, <1>3
<1> HIDE DEF L
<1>5. DcacheCtrlFollows
  BY <1>4, AlongCtrlPath
<1> QED BY <1>2, <1>5, DStaysFollowed DEF DCacheFollowed

LEMMA UncachedDoneFollows ==
  ASSUME UncachedDone, ~Collects("D")
  PROVE  DCacheFollowed
<1>1. dcFill' = dcFill /\ dcStore' = dcStore
  BY DEF UncachedDone
<1>2. PassesBy
  BY DEF UncachedDone, UncachedReset, PassesBy, Ends, DcArraysKept, RequestKept
<1> QED BY <1>1, <1>2, DStaysFollowed DEF DCacheFollowed, DcacheCtrlFollows

LEMMA DCacheFollows ==
  ASSUME CacheInv, [Next]_vars
  PROVE  DCacheFollowed
<1>1. DInv /\ Storage /\ "D" \in Ports /\ "I" \in Ports \ {"D"}
  BY DEF CacheInv, Ports
<1>2. op' = op => ~Collects("D")
  BY <1>1, PortMoves
<1>3. ASSUME UNCHANGED dcVars, ~Collects("D")
      PROVE  DCacheFollowed
  BY <1>3, DStaysFollowed DEF dcVars, DCacheFollowed, DcacheRests
<1>4. CASE Core
  BY <1>2, <1>4, AcceptFollows DEF Core, InCache
<1>5. CASE DCacheWork
  <2>1. CASE (FillStart \/ StoreStart \/ UncachedStart) /\ InCache
    BY <1>1, <1>2, <2>1, StartFollows DEF InCache
  <2>2. CASE BusRequest /\ Issue("D", BusAccess)
    BY <1>1, <2>2, BusRequestFollows
  <2>3. CASE BusAnswer(op["D"].rsp) /\ Collect("D")
    BY <1>1, <2>3, BusAnswerFollows
  <2>4. CASE (FillAccept \/ StoreDone \/ UncachedDone) /\ InCache
    BY <1>1, <1>2, <2>4, FillAcceptFollows, StoreDoneFollows, UncachedDoneFollows
       DEF InCache
  <2> QED BY <1>5, <2>1, <2>2, <2>3, <2>4 DEF DCacheWork
<1>6. CASE CoreTakes
  BY <1>2, <1>6, RespondFollows DEF CoreTakes, InCache
<1>7. CASE Frontend \/ FrontendTakes \/ DmaWrite \/ UNCHANGED vars
  <2>1. UNCHANGED dcVars /\ op' = op
    BY <1>7 DEF Frontend, FrontendTakes, DmaWrite, vars, InCache
  <2> QED BY <1>2, <1>3, <2>1
<1>8. CASE ICacheWork
  <2>1. \/ op' = op \/ Issue("I", [NoAccess EXCEPT !.addr = FillAddr(icFill)])
        \/ Collect("I")
    BY <1>8 DEF ICacheWork, InCache
  <2>2. ~Collects("D")
    BY <1>1, <2>1, PortMoves
  <2>3. UNCHANGED dcVars
    BY <1>8 DEF ICacheWork
  <2> QED BY <1>3, <2>2, <2>3
<1>9. CASE \E p \in Ports : Perform(p)
  <2>1. UNCHANGED dcVars
    BY <1>9 DEF Perform
  <2>2. ~Collects("D")
    BY <1>1, <1>9, PortMoves
  <2> QED BY <1>3, <2>1, <2>2
<1> QED BY <1>4, <1>5, <1>6, <1>7, <1>8, <1>9 DEF Next

LEMMA AllFollow ==
  ASSUME CacheInv, [Next]_vars
  PROVE  SequencersFollow /\ IcacheCtrlFollows /\ DcacheCtrlFollows
<1>1. IcacheCtrlFollows /\ IFillMoves
  BY ICacheFollows
<1>2. DFillMoves /\ StoreFollows /\ DcacheCtrlFollows
  BY DCacheFollows DEF DCacheFollowed
<1>3. FillFollows(FillPaths, "I", icFill, icFill', icAddr.line,
                  icState = "MISS_REQ" /\ icState' = "MISS_WAIT",
                  icState = "MISS_WAIT" /\ icState' = "RESP")
  BY <1>1, FillMovesAlong DEF IFillMoves
<1>4. FillFollows(FillPaths, "D", dcFill, dcFill', dcReq.addr.line,
                  dcState = "LOAD_REFILL_REQ" /\ dcState' = "LOAD_REFILL_WAIT",
                  dcState = "LOAD_REFILL_WAIT" /\ dcState' = "RESP")
  BY <1>2, FillMovesAlong DEF DFillMoves
<1>5. DcacheFillPaths = FillPaths
  BY DEF DcacheFillPaths, FillPaths, DcacheRefillDiagram
<1> QED BY <1>1, <1>2, <1>3, <1>4, <1>5 DEF SequencersFollow

\* Every machine of the two caches moves along the arrows of its diagram, with the
\* updates of the boxes, or rests with all its registers.  So a line enters the tags
\* once for each refill that a miss started, where the request that missed looks
\* for it; a store is merged when it is done, if it hit and succeeded, and at no
\* other time; and a refill or a store that waits lets no answer pass by.
THEOREM CachesFollow == Spec => CachesFollowDiagrams
<1>1. CacheInv /\ [Next]_vars
        => [SequencersFollow /\ IcacheCtrlFollows /\ DcacheCtrlFollows]_vars
  BY AllFollow
<1> QED BY <1>1, CachesInvariant, PTL DEF Spec, CachesFollowDiagrams
===============================================================================
