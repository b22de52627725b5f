----------------------------- MODULE HartDiagrams ------------------------------
(***************************************************************************)
(* The fetch FSM, the instruction buffer, the pipeline slots and the halt  *)
(* controller against their diagrams, on the edge with inputs in.  Each    *)
(* part takes an arrow, under the condition that labels it and with the    *)
(* updates it stands for, or rests because it may take none.  Redirect is  *)
(* what the drawings of the frontend call FLUSH.                           *)
(***************************************************************************)
EXTENDS Core, StateDiagrams

\* What the buffer gets on an edge: p, behind what is not popped, or nothing.
Pushed(in, p) == ~Redirect(in) /\ ibuf' = Append(Popped(InstrFires(in)), p)
NothingPushed(in) == ibuf' = IF Redirect(in) THEN <<>> ELSE Popped(InstrFires(in))
Room == Len(ibuf) < IbufDepth

-------------------------------------------------------------------------------
(* frontend_fetch.                                                         *)

FetchNode ==
  IF fetchState = "IDLE" THEN "idle" ELSE IF kill THEN "kill" ELSE "wait"

\* In IDLE: there is a PC to request, or one that is answered by a fault at once.
MayRequest(in) == pcValid /\ ~Misaligned /\ ~Redirect(in) /\ in.imemReady
MayFault(in)   == pcValid /\ Misaligned /\ ~Redirect(in) /\ Room

FetchLabel(in, label) ==
  CASE label = "PC_MISALIGNED & READY" -> MayFault(in)
    [] label = "SAME CYCLE"            -> Pushed(in, pc)
    [] label = "REQ_VALID & REQ_READY" ->
         MayRequest(in) /\ fetchPc' = pc /\ NothingPushed(in)
    [] label = "RSP_VALID & !KILL & !FLUSH" -> in.imemRsp /\ ~Redirect(in)
    [] label = "INSTR_READY"           -> Room /\ Pushed(in, fetchPc)
    [] label = "FLUSH"     -> Redirect(in) /\ ~in.imemRsp /\ NothingPushed(in)
    [] label = "RSP_VALID" -> in.imemRsp
    [] label = "CONSUMED"  -> NothingPushed(in)
    [] OTHER               -> FALSE    \* reset

FetchPaths == Paths(FrontendFetchDiagram)

\* A response that comes with the flush is dropped at once.
DroppedAtOnce(in) ==
  /\ FetchNode = "wait" /\ FetchNode' = "idle"
  /\ Redirect(in) /\ in.imemRsp /\ NothingPushed(in)

FetchRests(in) ==
  /\ FetchNode' = FetchNode /\ fetchPc' = fetchPc /\ NothingPushed(in)
  /\ FetchNode = "idle" => ~MayRequest(in) /\ ~MayFault(in)
  /\ FetchNode = "wait" => ~Redirect(in) /\ (in.imemRsp => ~Room)
  /\ FetchNode = "kill" => ~in.imemRsp

FetchFollows(in) ==
  LET Box(label) == FetchLabel(in, label) IN
  \/ FetchRests(in) \/ DroppedAtOnce(in)
  \/ FollowsPath(FetchPaths, FetchNode, FetchNode', Box)

-------------------------------------------------------------------------------
(* frontend_ibuf.                                                          *)

IbufNode == IF ibuf = <<>> THEN "empty"
            ELSE IF Len(ibuf) = IbufDepth THEN "full" ELSE "one"

PushOnly(in) ==
  ~Redirect(in) /\ ~InstrFires(in) /\ \E p \in {pc, fetchPc} : ibuf' = Append(ibuf, p)
PopOnly(in) == InstrFires(in) /\ ibuf' = Tail(ibuf)

IbufLabel(in, label) ==
  CASE label \in {"PUSH_FIRE", "PUSH ONLY"} -> PushOnly(in)
    [] label \in {"POP_FIRE", "POP_ONLY"}   -> PopOnly(in)
    [] label = "PUSH&POP" ->
         InstrFires(in) /\ \E p \in {pc, fetchPc} : ibuf' = Append(Tail(ibuf), p)
    [] label = "FLUSH" -> Redirect(in) /\ ibuf' = <<>>
    [] label = "NEXT"  -> TRUE
    [] OTHER           -> FALSE    \* reset, and the status outputs

\* The flush is drawn as a state of its own, and takes no cycle.
IbufDrawing ==
  [FrontendIbufDiagram EXCEPT !.seq = @ \ {"flush"}, !.comb = @ \union {"flush"}]
IbufPaths == Paths(IbufDrawing)

\* ONE is drawn for the depth of two; a deeper buffer has more between empty and full.
InBetween(in) ==
  IbufNode = "one" /\ IbufNode' = "one" /\ (PushOnly(in) \/ PopOnly(in))

IbufRests(in) == ~Redirect(in) /\ ~InstrFires(in) /\ ibuf' = ibuf

IbufFollows(in) ==
  LET Box(label) == IbufLabel(in, label) IN
  \/ IbufRests(in) \/ InBetween(in)
  \/ FollowsPath(IbufPaths, IbufNode, IbufNode', Box)

-------------------------------------------------------------------------------
(* core_pipe.  The arrows of its drawing are what the two slots are given. *)

FlushArrows(in) == Redirect(in) /\ ~InstrFires(in) /\ id' = Bubble /\ ex' = Bubble

\* The instruction in EX/WB is given up only as it retires.
ExGoes(in) == ~Redirect(in) /\ (ex.valid => Retires(in))

AdvanceArrow(in) ==
  /\ ExGoes(in) /\ ex' = id
  /\ id' = IF InstrFires(in) THEN Fetched(Head(ibuf)) ELSE Bubble
ClearArrow(in) == ExGoes(in) /\ ~InstrFires(in) /\ id' = id /\ ex' = Bubble
HeldByStall(in) ==
  /\ ~Redirect(in) /\ ~InstrFires(in) /\ ~Retires(in)
  /\ id' = id /\ ex' = ex

\* The debugger's words, which the drawing does not show, own an empty pipeline.
WordInjected(in) ==
  /\ Inject(in) /\ ~Redirect(in) /\ ~InstrFires(in)
  /\ ~id.valid /\ ~ex.valid
  /\ id' = Injected(dm.instr) /\ ex' = Bubble

PipeFollows(in) ==
  \/ FlushArrows(in) \/ ClearArrow(in) \/ AdvanceArrow(in) \/ HeldByStall(in)
  \/ WordInjected(in)

-------------------------------------------------------------------------------
(* debug_halt_ctrl.                                                        *)

HaltLabel(label) ==
  CASE label = "START HALT"     -> haltreq /\ ~Halted
    [] label = "START RESUME"   -> ~haltreq /\ resumereq /\ ~Running
    [] label = "DONE OR CANCEL" -> Halted \/ ~haltreq
    [] label = "R DONE"         -> ~haltreq /\ Running
    [] label = "HALT WINS"      -> haltreq /\ ~Halted

HaltPaths == Paths(HaltCtrlDiagram)

\* A halt that finds the hart still halted ends a resume; there is no such arrow.
HaltedStill ==
  /\ haltState = "RESUME_WAIT" /\ haltState' = "IDLE"
  /\ haltreq /\ Halted

HaltRests ==
  /\ haltState' = haltState
  /\ CASE haltState = "IDLE"        -> ~HaltLabel("START HALT") /\ ~HaltLabel("START RESUME")
       [] haltState = "HALT_WAIT"   -> ~HaltLabel("DONE OR CANCEL")
       [] haltState = "RESUME_WAIT" -> ~HaltLabel("R DONE") /\ ~haltreq

\* RESUMEACK PRIORITY: a new resume clears the acknowledgement, a running core
\* sets it, and otherwise it is held.
NewResume  == resumereq /\ haltState # "RESUME_WAIT"
ResumeDone == ~haltreq /\ Running /\ (resumereq \/ haltState = "RESUME_WAIT")
AckFollows ==
  resumeack' <=> ResumeDone \/ (resumeack /\ ~NewResume)

HaltFollows ==
  /\ \/ HaltRests \/ HaltedStill
     \/ FollowsPath(HaltPaths, haltState, haltState', HaltLabel)
  /\ AckFollows

-------------------------------------------------------------------------------
\* The edge may have been the one with these inputs, as frontend and pipeline have
\* it; the debugger's inputs do not matter to them.
WithInputs(in) ==
  /\ in.write = "NONE" /\ in.command.op = "NONE"
  /\ FrontendClock(Redirect(in), RedirectPc(in), InstrFires(in), in.imemReady,
                   in.imemRsp)
  /\ Datapath(in)

\* On every edge, fetch, buffer, pipeline and halt controller each take an arrow
\* that is drawn or rest because they may take none; the exceptions, which are
\* not drawn, are DroppedAtOnce, InBetween, WordInjected and HaltedStill.  Hence
\* a response outstanding at a redirect is never put into the buffer, however
\* late it comes, and any other response is, once, with the PC it was requested
\* for; a redirect empties buffer and slots; an instruction that leaves the
\* buffer enters ID on that edge, and one in ID or EX stays, moves on, or is
\* given up to a redirect or, from EX, as it retires; and halt and resume change
\* over on nothing but the hart's own state and the request.
HartFollowsDiagrams ==
  [][/\ \A in \in Inputs : WithInputs(in) => FetchFollows(in) /\ IbufFollows(in) /\ PipeFollows(in)
     /\ HaltFollows]_vars
===============================================================================
