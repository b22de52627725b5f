----------------------------- MODULE CachedMemory -----------------------------
(***************************************************************************)
(* The two caches (tile/rtl/tile.sv) on the memory path of wasp1, with the *)
(* DMA engine, and the OTP programmed through its registers, as the other  *)
(* writers of what they cache.  The memory path is what AtomicBus promises *)
(* and CoreBus does: a request is carried out once, at some moment after   *)
(* it is taken and before it is answered.  The caches share nothing else,  *)
(* so that edges on which both change are steps of one and then the other. *)
(***************************************************************************)
EXTENDS ICache, DCache

CONSTANTS
  Cells,               \* words of storage
  CellOf,              \* CellOf[a]: the word behind address a
  Readable, Writable,  \* addresses that do not answer ERROR
  Fetches,             \* addresses the frontend may ask for
  Requests,            \* requests the core may make
  DmaWrites,           \* writes the DMA engine may make
  InitialMem

Ports == {"I", "D"}

ASSUME MemoryAssumption ==
  /\ CellOf \in [Addr -> Cells]
  /\ Readable \subseteq Addr /\ Writable \subseteq Addr
  /\ Fetches \subseteq Addr
  /\ Requests \subseteq Access
  /\ DmaWrites \subseteq {r \in Access : r.write /\ r.addr \in Writable}
  /\ InitialMem \in [Cells -> Words]

VARIABLES
  op,      \* op[p]: the request of port p in the memory path
  mem,     \* the words of storage
  behind   \* history: <<p, a>> when another has written the word at a since
           \* port p last read or stored it over the bus

vars == <<icVars, dcVars, op, mem, behind>>

NoOp == [phase |-> "idle", req |-> NoAccess, rsp |-> NoReply]

TypeOK ==
  /\ ICacheTypeOK /\ DCacheTypeOK
  /\ op \in [Ports -> [phase : {"idle", "pending", "done"}, req : Access,
                       rsp : Reply]]
  /\ mem \in [Cells -> Words]
  /\ behind \subseteq Ports \X Addr

Init ==
  /\ ICacheInit /\ DCacheInit
  /\ op = [p \in Ports |-> NoOp]
  /\ mem = InitialMem
  /\ behind = {}

-------------------------------------------------------------------------------
(* The memory path.                                                        *)

\* Port p's request is taken, and later its answer is handed over.
Issue(p, req) ==
  /\ op[p].phase = "idle"
  /\ op' = [op EXCEPT ![p] = [phase |-> "pending", req |-> req, rsp |-> NoReply]]
  /\ UNCHANGED <<mem, behind>>

Collect(p) ==
  /\ op[p].phase = "done"
  /\ op' = [op EXCEPT ![p] = NoOp]
  /\ UNCHANGED <<mem, behind>>

Succeeds(req) == req.addr \in (IF req.write THEN Writable ELSE Readable)

AnswerTo(req) ==
  [data |-> IF Succeeds(req) /\ ~req.write THEN mem[CellOf[req.addr]] ELSE Zero,
   err  |-> ~Succeeds(req)]

\* A write by w leaves everyone else behind at each address of its word.
Overtakes(w, req) ==
  {x \in Ports \X Addr : CellOf[x[2]] = CellOf[req.addr] /\ x # <<w, req.addr>>}

\* The memory path carries out the request of port p.
Perform(p) ==
  LET req == op[p].req IN
  /\ op[p].phase = "pending"
  /\ op' = [op EXCEPT ![p] = [@ EXCEPT !.phase = "done", !.rsp = AnswerTo(req)]]
  /\ mem' = IF Succeeds(req) /\ req.write
            THEN [mem EXCEPT ![CellOf[req.addr]] = req.data] ELSE mem
  /\ behind' = IF ~Succeeds(req) THEN behind
               ELSE (behind \ {<<p, req.addr>>})
                      \union (IF req.write THEN Overtakes(p, req) ELSE {})
  /\ UNCHANGED <<icVars, dcVars>>

DmaWrite ==
  \E req \in DmaWrites :
    /\ mem' = [mem EXCEPT ![CellOf[req.addr]] = req.data]
    /\ behind' = behind \union Overtakes("DMA", req)
    /\ UNCHANGED <<icVars, dcVars, op>>

-------------------------------------------------------------------------------
(* The steps.                                                              *)

InCache == UNCHANGED <<op, mem, behind>>

Frontend ==
  /\ \E a \in Fetches : FetchHit(a) \/ FetchMiss(a)
  /\ UNCHANGED dcVars /\ InCache

ICacheWork ==
  /\ \/ (FetchFillStart \/ FetchFillAccept) /\ InCache
     \/ FetchFillRequest /\ Issue("I", [NoAccess EXCEPT !.addr = FillAddr(icFill)])
     \/ FetchFillAnswer(op["I"].rsp) /\ Collect("I")
  /\ UNCHANGED dcVars

FrontendTakes == FetchRespond /\ UNCHANGED dcVars /\ InCache

Core ==
  /\ \E req \in Requests : LoadHit(req) \/ TakeWork(req) \/ RefuseRequest(req)
  /\ UNCHANGED icVars /\ InCache

DCacheWork ==
  /\ \/ (FillStart \/ StoreStart \/ UncachedStart) /\ InCache
     \/ BusRequest /\ Issue("D", BusAccess)
     \/ BusAnswer(op["D"].rsp) /\ Collect("D")
     \/ (FillAccept \/ StoreDone \/ UncachedDone) /\ InCache
  /\ UNCHANGED icVars

CoreTakes == Respond /\ UNCHANGED icVars /\ InCache

Next ==
  \/ Frontend \/ ICacheWork \/ FrontendTakes
  \/ Core \/ DCacheWork \/ CoreTakes
  \/ \E p \in Ports : Perform(p)
  \/ DmaWrite

Spec == Init /\ [][Next]_vars

\* The caches' FSMs run on the clock, and the memory path answers
\* (EveryAccessAnswered of CoreBus).
FairSpec ==
  /\ Spec
  /\ WF_vars(ICacheWork) /\ WF_vars(DCacheWork)
  /\ \A p \in Ports : WF_vars(Perform(p))

-------------------------------------------------------------------------------
(* What must hold.                                                         *)

\* The control FSM and the sequencers agree on who is at work.  There is at
\* most one, the one the control waits for, it works for the request accepted
\* last, and the request in the memory path is its own.  The three share a
\* port whose responses carry no tag (dcache.sv says they are exclusive by
\* construction).
SequencersExclusive ==
  /\ dcFill.state # "IDLE" <=> dcState = "LOAD_REFILL_WAIT"
  /\ dcStore.state # "IDLE" <=> dcState = "STORE_WAIT"
  /\ dcUncached.state # "IDLE" <=> dcState = "UNCACHED_WAIT"
  /\ icFill.state # "IDLE" <=> icState = "MISS_WAIT"
  /\ op["I"].phase # "idle" <=> icFill.state = "WAIT"
  /\ op["D"].phase # "idle"
       <=> "WAIT" \in {dcFill.state, dcStore.state, dcUncached.state}
  /\ icState = "MISS_WAIT" => icFill.line = icAddr.line
  /\ dcState = "LOAD_REFILL_WAIT" => dcFill.line = dcReq.addr.line
  /\ dcState = "STORE_WAIT" => dcStore.req = dcReq
  /\ dcState = "UNCACHED_WAIT" => dcUncached.req = dcReq

\* A store that hit is carried out in memory before it is merged.
MergePending(a) ==
  /\ dcState = "STORE_WAIT" /\ storeHit /\ dcReq.addr = a
  /\ \/ op["D"].phase = "done" /\ ~op["D"].rsp.err
     \/ dcStore.state = "DONE" /\ ~dcStore.error

CachedWord(p, a) ==
  IF p = "I" THEN WordAt(icLines, a)
  ELSE IF MergePending(a) THEN dcReq.data
  ELSE WordAt(dcLines, a)

\* A word in a valid line is what memory holds, unless another has written it
\* since: a line is never valid with a word that could not be read, that was
\* put in the wrong place, or that a failed or missed store left behind.
LinesAgree ==
  \A p \in Ports, a \in Addr :
    Hit(IF p = "I" THEN icTags ELSE dcTags, a.line) =>
      /\ a \in Readable
      /\ <<p, a>> \notin behind => CachedWord(p, a) = mem[CellOf[a]]

\* What the core is told of a load or a fetch is what memory holds, unless
\* another has written the word since this port last had it from memory or
\* stored it.  In particular the core always sees its own stores.
LoadsAreCurrent ==
  /\ icState = "RESP" /\ ~icRsp.err /\ <<"I", icAddr>> \notin behind
       => icRsp.data = mem[CellOf[icAddr]]
  /\ dcState = "RESP" /\ ~dcRsp.err /\ ~dcReq.write
       /\ <<"D", dcReq.addr>> \notin behind
       => dcRsp.data = mem[CellOf[dcReq.addr]]

\* Every request of the frontend and of the core is answered.
EveryRequestAnswered ==
  /\ icState # "IDLE" ~> icState = "RESP"
  /\ dcState # "IDLE" ~> dcState = "RESP"

-------------------------------------------------------------------------------
(* The caches implement NoncoherentMemory.  A port's copies are the words  *)
(* of its valid lines and those of a fill that it has so far; a store is   *)
(* served when the memory path has carried it out.                         *)

\* Addresses whose word a fill has read, and the word.
FillHas(p, fill, a) ==
  /\ fill.state # "IDLE" /\ a.line = fill.line /\ a \in Readable
  /\ \/ a.beat < fill.beat
     \/ fill.state = "DONE"
     \/ fill.state = "WAIT" /\ a.beat = fill.beat /\ op[p].phase = "done"
FillWord(p, fill, a) ==
  IF fill.state = "WAIT" /\ a.beat = fill.beat THEN op[p].rsp.data
  ELSE fill.data[a.beat]

FillOf(p) == IF p = "I" THEN icFill ELSE dcFill
InLine(p, a) == Hit(IF p = "I" THEN icTags ELSE dcTags, a.line)
Has(p, a) == InLine(p, a) \/ FillHas(p, FillOf(p), a)
CopyAt(p, a) ==
  IF InLine(p, a) THEN CachedWord(p, a) ELSE FillWord(p, FillOf(p), a)

Copies ==
  [p \in Ports |-> [a \in {b \in Addr : Has(p, b)} |-> CopyAt(p, a)]]

Waits(req) == [phase |-> "asked", req |-> req]
Served(req, rsp) == [phase |-> "done", req |-> req, rsp |-> rsp]

FetchClient ==
  LET req == [NoAccess EXCEPT !.addr = icAddr] IN
  IF icState = "IDLE" THEN [phase |-> "idle"]
  ELSE IF icState = "RESP" THEN Served(req, icRsp)
  ELSE Waits(req)

DataClient ==
  LET single == "WAIT" \in {dcStore.state, dcUncached.state} IN
  IF dcState = "IDLE" THEN [phase |-> "idle"]
  ELSE IF dcState = "RESP" THEN Served(dcReq, dcRsp)
  ELSE IF dcStore.state = "DONE"
       THEN Served(dcReq, [data |-> Zero, err |-> dcStore.error])
  ELSE IF dcUncached.state = "DONE" THEN Served(dcReq, dcUncached.rsp)
  ELSE IF single /\ op["D"].phase = "done" THEN Served(dcReq, op["D"].rsp)
  ELSE Waits(dcReq)

Clients == [p \in Ports |-> IF p = "I" THEN FetchClient ELSE DataClient]

MayCopy ==
  [p \in Ports |-> IF p = "I" THEN Addr ELSE {a \in Addr : a.line \in Cacheable}]

Weak == INSTANCE NoncoherentMemory WITH
  Cached <- MayCopy, copy <- Copies, client <- Clients

ImplementsNoncoherentMemory == Weak!Spec
===============================================================================
