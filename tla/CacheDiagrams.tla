----------------------------- MODULE CacheDiagrams -----------------------------
(***************************************************************************)
(* The cache FSMs against their diagrams.  The arrows of the sequencers    *)
(* and of dcache_ctrl are those of StateDiagrams; their conditions and     *)
(* updates are the boxes of render_dcache_ctrl_l3 and render_icache_ctrl_l3*)
(* (icache_ctrl is drawn there only).  A machine that takes no arrow rests *)
(* with all its registers.  FLUSH is tied low in wasp1.sv.                 *)
(***************************************************************************)
EXTENDS CachedMemory, StateDiagrams

\* The handshakes on the port to the bus.
Presents(p, req) ==
  op[p].phase = "idle" /\ op'[p].phase = "pending" /\ op'[p].req = req
Collects(p) == op[p].phase = "done" /\ op'[p].phase = "idle"

-------------------------------------------------------------------------------
(* The sequencers.                                                         *)

\* They name their states alike: "IDLE" is drawn "idle".
SeqNode(state) == CASE state = "IDLE" -> "idle"
                    [] state = "REQ"  -> "req"
                    [] state = "WAIT" -> "wait"
                    [] state = "DONE" -> "done"

\* While it waits, no answer passes it by.
Rests(p, seq, next) == next = seq /\ (seq.state = "WAIT" => ~Collects(p))

\* A refill on port p, before and after: base is the line the control asks for,
\* starts and taken its handshakes with the control.
FillBox(p, fill, next, base, starts, taken, label) ==
  CASE label = "START_VALID"  -> starts
    [] label = "CAPTURE BASE" -> next.line = base /\ next.beat = 0 /\ ~next.error
    [] label = "REQ_READY" ->
         /\ Presents(p, [NoAccess EXCEPT !.addr = FillAddr(fill)])
         /\ next = [fill EXCEPT !.state = "WAIT"]
    [] label = "RSP_VALID" ->
         /\ Collects(p)
         /\ next.line = fill.line
         /\ next.data = [fill.data EXCEPT ![fill.beat] = op[p].rsp.data]
         /\ next.error = (fill.error \/ op[p].rsp.err)
    [] label = "NOT LAST"   -> fill.beat < LastBeat /\ next.beat = fill.beat + 1
    [] label = "LAST BEAT"  -> fill.beat = LastBeat
    [] label = "LINE_READY" -> taken
    [] label = "FLUSH"      -> FALSE
    [] OTHER                -> TRUE    \* what the state says by itself

FillFollows(paths, p, fill, next, base, starts, taken) ==
  LET Box(label) == FillBox(p, fill, next, base, starts, taken, label) IN
  \/ Rests(p, fill, next)
  \/ FollowsPath(paths, SeqNode(fill.state), SeqNode(next.state), Box)

StoreBox(label) ==
  CASE label = "START_VALID"  -> dcState = "STORE_REQ" /\ dcState' = "STORE_WAIT"
    [] label = "START_READY"  -> dcStore'.req = dcReq
    [] label = "REQ_READY" ->
         Presents("D", dcStore.req) /\ dcStore' = [dcStore EXCEPT !.state = "WAIT"]
    [] label = "RSP_VALID"    -> Collects("D")
    [] label = "ERR CAPTURED" ->
         dcStore'.error = op["D"].rsp.err /\ dcStore'.req = dcStore.req
    [] label = "DONE_READY"   -> dcState = "STORE_WAIT" /\ dcState' = "RESP"
    [] label \in {"FLUSH", "WRITE DATA"} -> FALSE    \* the latter leads no state on
    [] OTHER                  -> TRUE

FillPaths == Paths(IcacheRefillDiagram)
DcacheFillPaths == Paths(DcacheRefillDiagram)
StorePaths == Paths(DcacheStoreDiagram)

StoreFollows ==
  \/ Rests("D", dcStore, dcStore')
  \/ FollowsPath(StorePaths, SeqNode(dcStore.state), SeqNode(dcStore'.state),
                 StoreBox)

SequencersFollow ==
  /\ FillFollows(FillPaths, "I", icFill, icFill', icAddr.line,
                 icState = "MISS_REQ" /\ icState' = "MISS_WAIT",
                 icState = "MISS_WAIT" /\ icState' = "RESP")
  /\ FillFollows(DcacheFillPaths, "D", dcFill, dcFill', dcReq.addr.line,
                 dcState = "LOAD_REFILL_REQ" /\ dcState' = "LOAD_REFILL_WAIT",
                 dcState = "LOAD_REFILL_WAIT" /\ dcState' = "RESP")
  /\ StoreFollows

-------------------------------------------------------------------------------
(* icache_ctrl.                                                            *)

LineEnters(tags, line, fill) ==
  [tags EXCEPT ![IndexOf[line]] = IF fill.error THEN NoLine ELSE line]
DataEnters(lines, line, fill) == [lines EXCEPT ![IndexOf[line]] = fill.data]

\* The handshakes with a sequencer: it is started, it hands its result over.
Begins(seq, next) == seq.state = "IDLE" /\ next.state = "REQ"
Ends(seq, next)   == seq.state = "DONE" /\ next.state = "IDLE"

IcArraysKept == UNCHANGED <<icTags, icLines>>

RequestAccept == icState = "IDLE" /\ icAddr' \in Fetches /\ IcArraysKept
HitResponse ==
  /\ RequestAccept /\ Hit(icTags, icAddr'.line)
  /\ icState' = "RESP"
  /\ icRsp' = [data |-> WordAt(icLines, icAddr'), err |-> FALSE]
Miss == RequestAccept /\ ~Hit(icTags, icAddr'.line) /\ icState' = "MISS_REQ"
MissStart ==
  /\ icState = "MISS_REQ" /\ icState' = "MISS_WAIT"
  /\ Begins(icFill, icFill')
  /\ UNCHANGED icAddr /\ IcArraysKept

\* The line enters the tags and the data, and its word is the response.
LineAccept ==
  /\ icState = "MISS_WAIT" /\ icState' = "RESP"
  /\ Ends(icFill, icFill')
  /\ icTags' = LineEnters(icTags, icAddr.line, icFill)
  /\ icLines' = DataEnters(icLines, icAddr.line, icFill)
  /\ icRsp' = [data |-> icFill.data[icAddr.beat], err |-> icFill.error]
  /\ UNCHANGED icAddr
ResponseTaken == icState = "RESP" /\ icState' = "IDLE" /\ IcArraysKept

\* What is held until the other side is ready.
Held == UNCHANGED <<icState, icAddr, icRsp, icTags, icLines>>

IcacheCtrlFollows ==
  \/ HitResponse \/ Miss \/ MissStart \/ LineAccept \/ ResponseTaken
  \/ Held

-------------------------------------------------------------------------------
(* dcache_ctrl.                                                            *)

DcacheNode ==
  CASE dcState = "IDLE"             -> "idle"
    [] dcState = "LOAD_REFILL_REQ"  -> "lreq"
    [] dcState = "LOAD_REFILL_WAIT" -> "lwait"
    [] dcState = "STORE_REQ"        -> "sreq"
    [] dcState = "STORE_WAIT"       -> "swait"
    [] dcState = "RESP"             -> "resp"
    [] OTHER                        -> "uncached"

\* The drawing speaks of accesses in the cacheable windows.
CacheableReq == dcReq'.legal /\ dcReq'.addr.line \in Cacheable
TagHit == Hit(dcTags, dcReq'.addr.line)
DcArraysKept == UNCHANGED <<dcTags, dcLines>>
RequestKept == UNCHANGED <<dcReq, storeHit>>

\* What a store leaves in the lines: its word where it hit, if it succeeded.
AfterStore ==
  IF storeHit /\ ~dcStore.error
  THEN StoreMerge(dcLines, dcReq.addr, dcReq.data) ELSE dcLines

DcacheBox(label) ==
  CASE label = "REQ_FIRE" -> dcReq' \in Requests /\ DcArraysKept
    [] label = "INVALID OR LOAD HIT" ->
         \/ ~dcReq'.legal /\ dcRsp'.err
         \/ /\ CacheableReq /\ ~dcReq'.write /\ TagHit
            /\ dcRsp' = [data |-> WordAt(dcLines, dcReq'.addr), err |-> FALSE]
    [] label = "LOAD MISS" -> CacheableReq /\ ~dcReq'.write /\ ~TagHit
    [] label = "STORE"     -> CacheableReq /\ dcReq'.write /\ storeHit' = TagHit
    [] label = "REFILL_START_READY" ->
         Begins(dcFill, dcFill') /\ RequestKept /\ DcArraysKept
    [] label = "STORE_START_READY" ->
         Begins(dcStore, dcStore') /\ RequestKept /\ DcArraysKept
    [] label = "LINE_VALID" -> Ends(dcFill, dcFill')
    [] label = "WORD/ERR CAPTURE" ->
         /\ dcRsp' = [data |-> dcFill.data[dcReq.addr.beat], err |-> dcFill.error]
         /\ dcTags' = LineEnters(dcTags, dcReq.addr.line, dcFill)
         /\ dcLines' = DataEnters(dcLines, dcReq.addr.line, dcFill)
         /\ RequestKept
    [] label = "STORE_DONE" -> Ends(dcStore, dcStore')
    [] label = "ERR CAPTURE" ->
         /\ dcRsp' = [data |-> Zero, err |-> dcStore.error]
         /\ dcLines' = AfterStore
         /\ UNCHANGED dcTags /\ RequestKept
    [] label = "RSP_READY" -> DcArraysKept
    [] label = "FLUSH"     -> FALSE
    [] OTHER               -> TRUE

DcachePaths == Paths(DcacheCtrlDiagram)

DcacheRests == UNCHANGED <<dcState, dcReq, storeHit, dcRsp, dcTags, dcLines>>

\* The drawing has no uncached accesses: they pass the arrays by.
PassesBy ==
  /\ DcArraysKept
  /\ \/ /\ dcState = "IDLE" /\ dcState' = "UNCACHED_REQ"
        /\ dcReq' \in Requests /\ dcReq'.legal /\ dcReq'.addr.line \notin Cacheable
     \/ /\ dcState = "UNCACHED_REQ" /\ dcState' = "UNCACHED_WAIT"
        /\ Begins(dcUncached, dcUncached') /\ dcUncached'.req = dcReq
        /\ RequestKept
     \/ /\ dcState = "UNCACHED_WAIT" /\ dcState' = "RESP"
        /\ Ends(dcUncached, dcUncached') /\ dcRsp' = dcUncached.rsp
        /\ RequestKept

DcacheCtrlFollows ==
  \/ DcacheRests \/ PassesBy
  \/ FollowsPath(DcachePaths, DcacheNode, DcacheNode', DcacheBox)

-------------------------------------------------------------------------------
\* Each of the caches' controls and sequencers takes an arrow that is drawn, with
\* the updates of its box, or rests with all its registers; an uncached access,
\* which is not drawn, leaves tags and lines alone.  Hence tags change only when
\* a refill hands over its line, at that line's entry, once for each refill that
\* a miss started; a word of a line changes otherwise only when a store that hit
\* is done and succeeded, and only the word it stored; and a refill or a store that
\* waits for the bus takes the answer in the step in which the port hands it over.
CachesFollowDiagrams ==
  [][SequencersFollow /\ IcacheCtrlFollows /\ DcacheCtrlFollows]_vars
===============================================================================
