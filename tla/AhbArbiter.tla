------------------------------ MODULE AhbArbiter ------------------------------
(***************************************************************************)
(* The two-master AHB-Lite arbiter (bus/rtl/ahb_arbiter_2m.sv).  Master 0  *)
(* is the core bridge and master 1 the DMA engine.  A transfer takes the   *)
(* arbiter through IDLE, ADDR, WAIT and RESP, and no second transfer       *)
(* starts before the first one has been answered.                          *)
(*                                                                         *)
(* The module describes one clock edge: ArbClock takes the request lines   *)
(* of the masters and the HREADY of the selected slave.  CoreBus conjoins  *)
(* it with the clock edges of the other blocks of the bus.                 *)
(***************************************************************************)
EXTENDS Naturals

VARIABLES
  arbState,   \* state_q: IDLE, ADDR, WAIT or RESP
  owner,      \* owner_q: master of the outstanding transfer
  lastGrant   \* last_grant_q: winner of the last arbitration

arbVars == <<arbState, owner, lastGrant>>

Masters == {0, 1}

ArbTypeOK ==
  /\ arbState \in {"IDLE", "ADDR", "WAIT", "RESP"}
  /\ owner \in Masters
  /\ lastGrant \in Masters

\* Reset: master 0 wins the first tie.
ArbInit ==
  /\ arbState = "IDLE"
  /\ owner = 0
  /\ lastGrant = 1

\* Mutant: master 1 wins every tie.
ChooseIdx_Fixed(req) == IF req[1] THEN 1 ELSE 0

\* The next owner: the only requester, or on a tie the loser of the last one.
ChooseIdx(req) ==
  IF req[0] /\ req[1] THEN 1 - lastGrant
  ELSE IF req[1] THEN 1 ELSE 0

Grant(req) ==
  /\ arbState = "IDLE"
  /\ \E m \in Masters : req[m]
  /\ arbState' = "ADDR"
  /\ owner' = ChooseIdx(req)
  /\ lastGrant' = ChooseIdx(req)

NoRequest(req) ==
  /\ arbState = "IDLE"
  /\ \A m \in Masters : ~req[m]
  /\ UNCHANGED arbVars

AddressPhase ==
  /\ arbState = "ADDR"
  /\ arbState' = "WAIT"
  /\ UNCHANGED <<owner, lastGrant>>

DataPhase(hready) ==
  /\ arbState = "WAIT"
  /\ arbState' = IF hready THEN "RESP" ELSE "WAIT"
  /\ UNCHANGED <<owner, lastGrant>>

ResponsePhase(hready) ==
  /\ arbState = "RESP"
  /\ arbState' = IF hready THEN "IDLE" ELSE "RESP"
  /\ UNCHANGED <<owner, lastGrant>>

ArbClock(req, hready) ==
  \/ Grant(req)
  \/ NoRequest(req)
  \/ AddressPhase
  \/ DataPhase(hready)
  \/ ResponsePhase(hready)

(***************************************************************************)
(* Outputs.  The owner of the outstanding transfer sees one ready pulse in *)
(* ADDR (address accepted) and one in RESP (response valid).  Any other    *)
(* master sees ready exactly when it does not request.                     *)
(***************************************************************************)
\* Mutant: a master that waits for its grant sees ready.
MasterReady_Early(m, req, hready) ==
  IF owner = m /\ arbState # "IDLE"
  THEN arbState = "ADDR" \/ (arbState = "RESP" /\ hready)
  ELSE TRUE

MasterReady(m, req, hready) ==
  IF owner = m /\ arbState # "IDLE"
  THEN arbState = "ADDR" \/ (arbState = "RESP" /\ hready)
  ELSE ~req[m]

\* The slave's data and HRESP reach the owner in RESP; the rest see OKAY and 0.
MasterRsp(m, rsp) ==
  IF owner = m /\ arbState = "RESP" THEN rsp ELSE [data |-> 0, err |-> FALSE]
===============================================================================
