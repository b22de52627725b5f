-------------------------------- MODULE DCache --------------------------------
(***************************************************************************)
(* The data cache (dcache/rtl): write-through, no allocation on a store,   *)
(* with lines outside the cacheable windows passed by.  Its control FSM    *)
(* starts one of three sequencers (refill, store, uncached), which share   *)
(* one port to the bus.  As in ICache, every edge that changes the cache   *)
(* completes one handshake and is an action.                               *)
(***************************************************************************)
EXTENDS CacheLeaves

CONSTANT Cacheable   \* lines in the cacheable address windows

VARIABLES
  dcState,    \* state_q
  dcReq,      \* req_addr_q, req_write_q, req_wdata_q
  storeHit,   \* store_hit_q
  dcRsp,      \* rsp_data_q, rsp_err_q
  dcTags,     \* tag_q, valid_q
  dcLines,    \* data_q
  dcFill,     \* dcache_refill's registers
  dcStore,    \* dcache_store's registers
  dcUncached  \* dcache_uncached's registers

dcVars == <<dcState, dcReq, storeHit, dcRsp, dcTags, dcLines, dcFill, dcStore,
            dcUncached>>

CtrlStates == {"IDLE", "LOAD_REFILL_REQ", "LOAD_REFILL_WAIT", "STORE_REQ",
               "STORE_WAIT", "UNCACHED_REQ", "UNCACHED_WAIT", "RESP"}
SeqStates == {"IDLE", "REQ", "WAIT", "DONE"}

\* legal is ~invalid_req: aligned, and not an instruction fetch.
Access == [addr : Addr, write : BOOLEAN, data : Words, legal : BOOLEAN]
NoAccess == [addr |-> FillAddr(FillReset), write |-> FALSE, data |-> Zero,
             legal |-> TRUE]

StoreReset == [state |-> "IDLE", req |-> NoAccess, error |-> FALSE]
UncachedReset == [state |-> "IDLE", req |-> NoAccess, rsp |-> NoReply]

DCacheTypeOK ==
  /\ dcState \in CtrlStates
  /\ dcReq \in Access
  /\ storeHit \in BOOLEAN
  /\ dcRsp \in Reply
  /\ dcTags \in Tags
  /\ dcLines \in [Indices -> LineData]
  /\ dcFill \in Fill
  /\ dcStore \in [state : SeqStates, req : Access, error : BOOLEAN]
  /\ dcUncached \in [state : SeqStates, req : Access, rsp : Reply]

DCacheInit ==
  /\ dcState = "IDLE"
  /\ dcReq = NoAccess
  /\ storeHit = FALSE
  /\ dcRsp = NoReply
  /\ dcTags = NoTags
  /\ dcLines = [i \in Indices |-> [b \in Beats |-> Zero]]
  /\ dcFill = FillReset
  /\ dcStore = StoreReset
  /\ dcUncached = UncachedReset

-------------------------------------------------------------------------------
(* A request of the core.  The LSU makes only legal ones, the debugger may *)
(* ask for a misaligned word.                                              *)

CachedHit(req) == req.addr.line \in Cacheable /\ Hit(dcTags, req.addr.line)

Accept(req) ==
  /\ dcState = "IDLE"
  /\ dcReq' = req
  /\ storeHit' = (req.write /\ CachedHit(req))
  /\ UNCHANGED <<dcTags, dcLines, dcFill, dcStore, dcUncached>>

RefuseRequest(req) ==
  /\ ~req.legal
  /\ Accept(req)
  /\ dcState' = "RESP"
  /\ dcRsp' = [data |-> Zero, err |-> TRUE]

LoadHit(req) ==
  /\ req.legal
  /\ ~req.write
  /\ CachedHit(req)
  /\ Accept(req)
  /\ dcState' = "RESP"
  /\ dcRsp' = [data |-> WordAt(dcLines, req.addr), err |-> FALSE]

\* Mutant: a load outside the cacheable windows is a cached one.
WorkState_Cached(req) == IF req.write THEN "STORE_REQ" ELSE "LOAD_REFILL_REQ"

\* Where a request that needs the bus goes.
WorkState(req) ==
  IF req.addr.line \notin Cacheable THEN "UNCACHED_REQ"
  ELSE IF req.write THEN "STORE_REQ"
  ELSE "LOAD_REFILL_REQ"

TakeWork(req) ==
  /\ req.legal
  /\ req.write \/ ~CachedHit(req)
  /\ Accept(req)
  /\ dcState' = WorkState(req)
  /\ UNCHANGED dcRsp

Respond ==
  /\ dcState = "RESP"
  /\ dcState' = "IDLE"
  /\ dcReq' = NoAccess
  /\ dcRsp' = NoReply
  /\ storeHit' = FALSE
  /\ UNCHANGED <<dcTags, dcLines, dcFill, dcStore, dcUncached>>

-------------------------------------------------------------------------------
(* Starting the sequencers.                                                *)

FillStart ==
  /\ dcState = "LOAD_REFILL_REQ"
  /\ dcFill.state = "IDLE"
  /\ dcState' = "LOAD_REFILL_WAIT"
  /\ dcFill' = FillStarted(dcReq.addr.line)
  /\ UNCHANGED <<dcReq, storeHit, dcRsp, dcTags, dcLines, dcStore, dcUncached>>

\* Mutant: a store that hit is merged before memory has it.
StoreStart_Early ==
  /\ dcState = "STORE_REQ"
  /\ dcStore.state = "IDLE"
  /\ dcState' = "STORE_WAIT"
  /\ dcStore' = [state |-> "REQ", req |-> dcReq, error |-> FALSE]
  /\ dcLines' = IF storeHit THEN StoreMerge(dcLines, dcReq.addr, dcReq.data)
                ELSE dcLines
  /\ UNCHANGED <<dcReq, storeHit, dcRsp, dcTags, dcFill, dcUncached>>

StoreStart ==
  /\ dcState = "STORE_REQ"
  /\ dcStore.state = "IDLE"
  /\ dcState' = "STORE_WAIT"
  /\ dcStore' = [state |-> "REQ", req |-> dcReq, error |-> FALSE]
  /\ UNCHANGED <<dcReq, storeHit, dcRsp, dcTags, dcLines, dcFill, dcUncached>>

UncachedStart ==
  /\ dcState = "UNCACHED_REQ"
  /\ dcUncached.state = "IDLE"
  /\ dcState' = "UNCACHED_WAIT"
  /\ dcUncached' = [state |-> "REQ", req |-> dcReq, rsp |-> NoReply]
  /\ UNCHANGED <<dcReq, storeHit, dcRsp, dcTags, dcLines, dcFill, dcStore>>

-------------------------------------------------------------------------------
(* The port to the bus: store before uncached before refill.  A response   *)
(* goes to every sequencer that waits for one.                             *)

WantsBus ==
  dcStore.state = "REQ" \/ dcUncached.state = "REQ" \/ dcFill.state = "REQ"

BusAccess ==
  IF dcStore.state = "REQ" THEN dcStore.req
  ELSE IF dcUncached.state = "REQ" THEN dcUncached.req
  ELSE [NoAccess EXCEPT !.addr = FillAddr(dcFill)]

BusRequest ==
  LET store == dcStore.state = "REQ"
      uncached == dcUncached.state = "REQ" /\ ~store
  IN
  /\ WantsBus
  /\ dcStore' = IF store THEN [dcStore EXCEPT !.state = "WAIT"] ELSE dcStore
  /\ dcUncached' = IF uncached THEN [dcUncached EXCEPT !.state = "WAIT"]
                   ELSE dcUncached
  /\ dcFill' = IF dcFill.state = "REQ" /\ ~store /\ ~uncached
               THEN FillRequested(dcFill) ELSE dcFill
  /\ UNCHANGED <<dcState, dcReq, storeHit, dcRsp, dcTags, dcLines>>

\* Mutant: a store waits until it succeeds.
BusAnswer_Retry(rsp) ==
  /\ dcStore' = IF dcStore.state = "WAIT" /\ ~rsp.err
                THEN [dcStore EXCEPT !.state = "DONE"] ELSE dcStore
  /\ dcUncached' = IF dcUncached.state = "WAIT"
                   THEN [dcUncached EXCEPT !.state = "DONE", !.rsp = rsp]
                   ELSE dcUncached
  /\ dcFill' = IF dcFill.state = "WAIT" THEN FillAnswered(dcFill, rsp)
               ELSE dcFill
  /\ UNCHANGED <<dcState, dcReq, storeHit, dcRsp, dcTags, dcLines>>

BusAnswer(rsp) ==
  /\ dcStore' = IF dcStore.state = "WAIT"
                THEN [dcStore EXCEPT !.state = "DONE", !.error = rsp.err]
                ELSE dcStore
  /\ dcUncached' = IF dcUncached.state = "WAIT"
                   THEN [dcUncached EXCEPT !.state = "DONE", !.rsp = rsp]
                   ELSE dcUncached
  /\ dcFill' = IF dcFill.state = "WAIT" THEN FillAnswered(dcFill, rsp)
               ELSE dcFill
  /\ UNCHANGED <<dcState, dcReq, storeHit, dcRsp, dcTags, dcLines>>

-------------------------------------------------------------------------------
(* Taking the sequencers' results.                                         *)

FillAccept ==
  /\ dcState = "LOAD_REFILL_WAIT"
  /\ dcFill.state = "DONE"
  /\ dcState' = "RESP"
  /\ dcRsp' = [data |-> dcFill.data[dcReq.addr.beat], err |-> dcFill.error]
  /\ dcTags' = TagRefill(dcTags, dcFill)
  /\ dcLines' = LineRefill(dcLines, dcFill)
  /\ dcFill' = FillTaken(dcFill)
  /\ UNCHANGED <<dcReq, storeHit, dcStore, dcUncached>>

\* Mutant: merge a store that failed.
Merges_Failed == storeHit

\* data_store_valid_o: a store that hit, once it has succeeded.
Merges == storeHit /\ ~dcStore.error

StoreDone ==
  /\ dcState = "STORE_WAIT"
  /\ dcStore.state = "DONE"
  /\ dcState' = "RESP"
  /\ dcRsp' = [data |-> Zero, err |-> dcStore.error]
  /\ dcLines' = IF Merges
                THEN StoreMerge(dcLines, dcStore.req.addr, dcStore.req.data)
                ELSE dcLines
  /\ dcStore' = StoreReset
  /\ UNCHANGED <<dcReq, storeHit, dcTags, dcFill, dcUncached>>

UncachedDone ==
  /\ dcState = "UNCACHED_WAIT"
  /\ dcUncached.state = "DONE"
  /\ dcState' = "RESP"
  /\ dcRsp' = dcUncached.rsp
  /\ dcUncached' = UncachedReset
  /\ UNCHANGED <<dcReq, storeHit, dcTags, dcLines, dcFill, dcStore>>
===============================================================================
