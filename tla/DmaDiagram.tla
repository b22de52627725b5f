------------------------------ MODULE DmaDiagram ------------------------------
(***************************************************************************)
(* The DMA engine against its diagrams: the arrows of ahb_dma_fsm, under   *)
(* the conditions and with the register updates in the boxes of the        *)
(* detailed drawing (render_ahb_dma_l3).  The drawing keeps DONE and ERROR *)
(* as states until they are cleared; in the code they are status bits of   *)
(* an idle engine.  A register that a box does not name is held.           *)
(***************************************************************************)
EXTENDS CoreBus, StateDiagrams

DmaNode ==
  CASE dmaState = "READ_ADDR"  -> "ra"
    [] dmaState = "READ_WAIT"  -> "rd"
    [] dmaState = "WRITE_ADDR" -> "wa"
    [] dmaState = "WRITE_RESP" -> "wr"
    [] OTHER -> IF done THEN "done" ELSE IF error THEN "err" ELSE "idle"

Okay == Ready(1) /\ ~Rsp(1).err
BadOperands == len = 0 \/ src % 4 # 0 \/ dst % 4 # 0

\* What is not drawn: while the engine waits for the bus, a START sets ERROR and a
\* CLEAR takes it away, whoever writes them.
ErrorByRegister ==
  error' <=> StartReq(HWData) \/ (error /\ ~Clear(HWData))

Enters(d, e) == (done' <=> d) /\ (error' <=> e)

\* The box of each arrow.
DmaBox(label) ==
  CASE label = "START OK" ->
         /\ StartReq(HWData) /\ ~BadOperands /\ Enters(FALSE, FALSE)
         /\ remaining' = len /\ curSrc' = src /\ curDst' = dst
         /\ UNCHANGED buffer
    [] label = "BAD START" ->
         /\ StartReq(HWData) /\ BadOperands /\ Enters(FALSE, TRUE)
         /\ UNCHANGED <<Transfer, buffer>>
    [] label = "HREADY" ->
         /\ Ready(1) /\ Enters(FALSE, error)
         /\ UNCHANGED <<Transfer, buffer>>
    [] label = "OKAY" ->
         /\ Okay /\ Enters(FALSE, error)
         /\ buffer' = Rsp(1).data /\ UNCHANGED Transfer
    [] label = "ERROR" ->
         /\ Ready(1) /\ Rsp(1).err /\ Enters(FALSE, TRUE)
         /\ UNCHANGED <<Transfer, buffer>>
    [] label = "MORE" ->
         /\ Okay /\ remaining > 1 /\ Enters(FALSE, error)
         /\ curSrc' = curSrc + 4 /\ curDst' = curDst + 4
         /\ remaining' = remaining - 1 /\ UNCHANGED buffer
    [] label = "LAST" ->
         /\ Okay /\ remaining = 1 /\ Enters(TRUE, error)
         /\ UNCHANGED <<Transfer, buffer>>
    [] label = "CLEAR" ->
         /\ Clear(HWData) /\ Enters(FALSE, FALSE)
         /\ UNCHANGED <<Transfer, buffer>>

DmaPaths == Paths(AhbDmaDiagram)

\* The engine stays where it is while none of its arrows may be taken: on the bus
\* without HREADY, at rest without a START, in DONE and ERROR without a CLEAR.
DmaRests ==
  /\ DmaNode' = DmaNode /\ UNCHANGED <<Transfer, buffer>>
  /\ \/ DmaNode \in {"ra", "rd", "wa", "wr"} /\ ~Ready(1) /\ ~done' /\ ErrorByRegister
     \/ /\ DmaNode \in {"idle", "done", "err"} /\ ~StartReq(HWData)
        /\ DmaNode # "idle" => ~Clear(HWData)
        /\ UNCHANGED <<done, error>>

\* What is not drawn either: a START needs no CLEAR before it and takes the status
\* with it, as from IDLE.
StartsOver ==
  /\ DmaNode \in {"done", "err"}
  /\ \/ DmaNode' = "ra" /\ DmaBox("START OK")
     \/ DmaNode' = "err" /\ DmaBox("BAD START")

\* On every edge the engine takes an arrow that is drawn, under the condition and
\* with the updates of its box, or rests because it may take none, or starts
\* over.  Hence DONE is set with the last word that was written and by nothing
\* else, the words' addresses and count change only with START and MORE, and no
\* answer of the bus is missed or taken twice.  ERROR alone changes where no
\* arrow draws it, and only while the engine waits for the bus: a START sets it
\* there, even one with good operands, and a CLEAR takes it (ErrorByRegister).
\* The box of the last word clears it; the engine does not (StatusIsExclusive).
DmaFollowsDiagram ==
  [][\/ DmaRests \/ StartsOver
     \/ FollowsPath(DmaPaths, DmaNode, DmaNode', DmaBox)]_vars
===============================================================================
