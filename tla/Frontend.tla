------------------------------- MODULE Frontend -------------------------------
(***************************************************************************)
(* The instruction frontend (frontend/rtl): the PC register, the fetch FSM *)
(* with its one outstanding request, and the instruction buffer.  The      *)
(* instruction a PC holds is a function of the PC (see CorePipe), so the   *)
(* buffer keeps PCs.  flush and target are the core's redirect; ready and  *)
(* rsp are the I-cache accepting the request and holding its response.     *)
(***************************************************************************)
EXTENDS Naturals, Sequences

CONSTANT IbufDepth    \* IBUF_DEPTH

ASSUME IbufAssumption == IbufDepth \in Nat \ {0}

VARIABLES
  pcValid,     \* frontend_pc valid_q
  pc,          \* frontend_pc pc_q
  fetchState,  \* frontend_fetch state_q
  fetchPc,     \* frontend_fetch pc_q
  kill,        \* kill_q: drop the outstanding response
  ibuf         \* the buffered PCs, oldest first

frontendVars == <<pcValid, pc, fetchState, fetchPc, kill, ibuf>>

BootPc == 0

FrontendTypeOK ==
  /\ pcValid \in BOOLEAN /\ pc \in Nat
  /\ fetchState \in {"IDLE", "WAIT"}
  /\ fetchPc \in Nat /\ kill \in BOOLEAN
  /\ ibuf \in Seq(Nat) /\ Len(ibuf) <= IbufDepth

FrontendInit ==
  /\ pcValid = FALSE /\ pc = BootPc
  /\ fetchState = "IDLE" /\ fetchPc = 0 /\ kill = FALSE
  /\ ibuf = <<>>

-------------------------------------------------------------------------------
Misaligned == pc % 4 # 0

\* A misaligned PC is answered at once, by a fault, without a request.
MisalignRsp(flush) == fetchState = "IDLE" /\ pcValid /\ Misaligned /\ ~flush
RequestFires(flush, ready) ==
  fetchState = "IDLE" /\ pcValid /\ ~Misaligned /\ ~flush /\ ready

\* Mutant: a full buffer takes one more.
PushReady_Full(flush) == Len(ibuf) <= IbufDepth /\ ~flush

PushReady(flush) == Len(ibuf) < IbufDepth /\ ~flush
RspLive(flush, rsp) == fetchState = "WAIT" /\ ~kill /\ ~flush /\ rsp
Pushes(flush, rsp) == PushReady(flush) /\ (MisalignRsp(flush) \/ RspLive(flush, rsp))
RspFires(flush, rsp) ==
  fetchState = "WAIT" /\ rsp /\ (kill \/ flush \/ PushReady(flush))

\* pc_valid_o /\ pc_ready_o: the PC is consumed.
PcAdvances(flush, ready) ==
  RequestFires(flush, ready) \/ (MisalignRsp(flush) /\ PushReady(flush))

PcClock(flush, target, ready) ==
  /\ pcValid' = TRUE
  /\ pc' = IF flush THEN target
           ELSE IF PcAdvances(flush, ready) THEN pc + 4 ELSE pc

\* Mutant: a flush forgets the outstanding request.
FetchClock_NoKill(flush, ready, rsp) ==
  /\ fetchState' = IF RequestFires(flush, ready) THEN "WAIT"
                   ELSE IF RspFires(flush, rsp) THEN "IDLE" ELSE fetchState
  /\ fetchPc' = IF RequestFires(flush, ready) THEN pc ELSE fetchPc
  /\ kill' = FALSE

\* A flush cannot recall a request: its response is dropped when it comes.
FetchClock(flush, ready, rsp) ==
  /\ fetchState' = IF RequestFires(flush, ready) THEN "WAIT"
                   ELSE IF RspFires(flush, rsp) THEN "IDLE" ELSE fetchState
  /\ fetchPc' = IF RequestFires(flush, ready) THEN pc ELSE fetchPc
  /\ kill' = (fetchState = "WAIT" /\ ~RspFires(flush, rsp) /\ (kill \/ flush))

PopValid(flush) == ibuf # <<>> /\ ~flush
Popped(pop) == IF pop THEN Tail(ibuf) ELSE ibuf

\* Mutant: a flush leaves the buffer as it is.
IbufClock_NoFlush(flush, pop, rsp) ==
  ibuf' = IF Pushes(flush, rsp)
          THEN Append(Popped(pop), IF fetchState = "IDLE" THEN pc ELSE fetchPc)
          ELSE Popped(pop)

IbufClock(flush, pop, rsp) ==
  ibuf' = IF flush THEN <<>>
          ELSE IF Pushes(flush, rsp)
          THEN Append(Popped(pop), IF fetchState = "IDLE" THEN pc ELSE fetchPc)
          ELSE Popped(pop)

FrontendClock(flush, target, pop, ready, rsp) ==
  /\ PcClock(flush, target, ready)
  /\ FetchClock(flush, ready, rsp)
  /\ IbufClock(flush, pop, rsp)
===============================================================================
