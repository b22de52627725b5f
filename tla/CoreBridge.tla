------------------------------ MODULE CoreBridge ------------------------------
(***************************************************************************)
(* The bridge that gives the I-cache and the D-cache one AHB master port   *)
(* (wasp1/rtl/wasp1_core_ahb_bridge.sv).  It takes one request, D-cache    *)
(* first, carries it over the bus and holds the response until the cache   *)
(* it belongs to consumes it.                                              *)
(***************************************************************************)
EXTENDS Naturals

VARIABLES
  brState,  \* state_q: IDLE, ADDR, DATA_WAIT or RSP_HOLD
  brSel,    \* sel_dmem_q: the port of the outstanding request
  brReq,    \* req_addr_q, req_write_q, req_size_q, req_wdata_q
  brRsp     \* rsp_rdata_q, rsp_err_q

brVars == <<brState, brSel, brReq, brRsp>>

Ports == {"I", "D"}

\* A bus request: word says whether it is an aligned word-sized access.
Request  == [addr : Nat, write : BOOLEAN, data : Nat, word : BOOLEAN]
Response == [data : Nat, err : BOOLEAN]

NoRequestLatched == [addr |-> 0, write |-> FALSE, data |-> 0, word |-> TRUE]
NoResponse       == [data |-> 0, err |-> FALSE]

BridgeTypeOK ==
  /\ brState \in {"IDLE", "ADDR", "DATA_WAIT", "RSP_HOLD"}
  /\ brSel \in Ports
  /\ brReq \in Request
  /\ brRsp \in Response

BridgeInit ==
  /\ brState = "IDLE"
  /\ brSel = "I"
  /\ brReq = NoRequestLatched
  /\ brRsp = NoResponse

\* dmem_grant and imem_grant: a D-cache request always goes first.
Granted(p, wants) ==
  /\ brState = "IDLE"
  /\ wants[p]
  /\ p = "I" => ~wants["D"]

\* rsp_valid of port p.
Answers(p) == brState = "RSP_HOLD" /\ brSel = p

\* The bridge requests the bus only while it presents its address.
BridgeRequests == brState = "ADDR"

Accept(wants, reqOf) ==
  \E p \in Ports :
    /\ Granted(p, wants)
    /\ brState' = "ADDR"
    /\ brSel' = p
    /\ brReq' = reqOf[p]
    /\ UNCHANGED brRsp

NothingToAccept(wants) ==
  /\ brState = "IDLE"
  /\ \A p \in Ports : ~wants[p]
  /\ UNCHANGED brVars

PresentAddress(hready) ==
  /\ brState = "ADDR"
  /\ brState' = IF hready THEN "DATA_WAIT" ELSE "ADDR"
  /\ UNCHANGED <<brSel, brReq, brRsp>>

AwaitData(hready, rsp) ==
  /\ brState = "DATA_WAIT"
  /\ IF hready
     THEN brState' = "RSP_HOLD" /\ brRsp' = rsp
     ELSE UNCHANGED <<brState, brRsp>>
  /\ UNCHANGED <<brSel, brReq>>

\* Mutant: the response waits for the D-cache, whoever it is for.
HoldResponse_Dmem(takes) ==
  /\ brState = "RSP_HOLD"
  /\ brState' = IF takes["D"] THEN "IDLE" ELSE "RSP_HOLD"
  /\ UNCHANGED <<brSel, brReq, brRsp>>

HoldResponse(takes) ==
  /\ brState = "RSP_HOLD"
  /\ brState' = IF takes[brSel] THEN "IDLE" ELSE "RSP_HOLD"
  /\ UNCHANGED <<brSel, brReq, brRsp>>

(***************************************************************************)
(* One clock edge.  wants[p] is req_valid of port p, reqOf[p] its request, *)
(* takes[p] its rsp_ready; hready and rsp come from the arbiter.           *)
(***************************************************************************)
BridgeClock(wants, reqOf, takes, hready, rsp) ==
  \/ Accept(wants, reqOf)
  \/ NothingToAccept(wants)
  \/ PresentAddress(hready)
  \/ AwaitData(hready, rsp)
  \/ HoldResponse(takes)
===============================================================================
