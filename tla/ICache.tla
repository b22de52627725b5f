-------------------------------- MODULE ICache --------------------------------
(***************************************************************************)
(* The instruction cache (icache/rtl): its control FSM over the leaves.    *)
(* Every edge that changes it completes one handshake, with the frontend,  *)
(* with the refill sequencer or with the bus, and is an action here.       *)
(* flush_i and invalidate_i are tied low in wasp1.sv, and the frontend     *)
(* makes no request that invalid_req would refuse.                         *)
(***************************************************************************)
EXTENDS CacheLeaves

VARIABLES
  icState,  \* state_q: IDLE, MISS_REQ, MISS_WAIT or RESP
  icAddr,   \* miss_addr_q
  icRsp,    \* rsp_data_q, rsp_err_q
  icTags,   \* tag_q, valid_q
  icLines,  \* data_q
  icFill    \* icache_refill's registers

icVars == <<icState, icAddr, icRsp, icTags, icLines, icFill>>

ICacheTypeOK ==
  /\ icState \in {"IDLE", "MISS_REQ", "MISS_WAIT", "RESP"}
  /\ icAddr \in Addr
  /\ icRsp \in Reply
  /\ icTags \in Tags
  /\ icLines \in [Indices -> LineData]
  /\ icFill \in Fill

ICacheInit ==
  /\ icState = "IDLE"
  /\ icAddr = FillAddr(FillReset)
  /\ icRsp = NoReply
  /\ icTags = NoTags
  /\ icLines = [i \in Indices |-> [b \in Beats |-> Zero]]
  /\ icFill = FillReset

\* The frontend's request hits: answer with the cached word.
FetchHit(a) ==
  /\ icState = "IDLE"
  /\ Hit(icTags, a.line)
  /\ icState' = "RESP"
  /\ icAddr' = a
  /\ icRsp' = [data |-> WordAt(icLines, a), err |-> FALSE]
  /\ UNCHANGED <<icTags, icLines, icFill>>

FetchMiss(a) ==
  /\ icState = "IDLE"
  /\ ~Hit(icTags, a.line)
  /\ icState' = "MISS_REQ"
  /\ icAddr' = a
  /\ UNCHANGED <<icRsp, icTags, icLines, icFill>>

FetchFillStart ==
  /\ icState = "MISS_REQ"
  /\ icFill.state = "IDLE"
  /\ icState' = "MISS_WAIT"
  /\ icFill' = FillStarted(icAddr.line)
  /\ UNCHANGED <<icAddr, icRsp, icTags, icLines>>

\* The bus takes the request of a beat, and later answers it.
FetchFillRequest ==
  /\ icFill.state = "REQ"
  /\ icFill' = FillRequested(icFill)
  /\ UNCHANGED <<icState, icAddr, icRsp, icTags, icLines>>

FetchFillAnswer(rsp) ==
  /\ icFill.state = "WAIT"
  /\ icFill' = FillAnswered(icFill, rsp)
  /\ UNCHANGED <<icState, icAddr, icRsp, icTags, icLines>>

\* The finished line enters the arrays, and its word answers the frontend.
FetchFillAccept ==
  /\ icState = "MISS_WAIT"
  /\ icFill.state = "DONE"
  /\ icState' = "RESP"
  /\ icRsp' = [data |-> icFill.data[icAddr.beat], err |-> icFill.error]
  /\ icTags' = TagRefill(icTags, icFill)
  /\ icLines' = LineRefill(icLines, icFill)
  /\ icFill' = FillTaken(icFill)
  /\ UNCHANGED icAddr

FetchRespond ==
  /\ icState = "RESP"
  /\ icState' = "IDLE"
  /\ icAddr' = FillAddr(FillReset)
  /\ icRsp' = NoReply
  /\ UNCHANGED <<icTags, icLines, icFill>>
===============================================================================
