------------------------------ MODULE MCCoreProofs ------------------------------
(***************************************************************************)
(* What the history variable of MCCore records: how many instructions a    *)
(* single step retires, for every program, buffer depth and debugger.      *)
(***************************************************************************)
EXTENDS MCCore, CoreProofs, DiagramProofs

OneAtMost == ~(id.valid /\ ex.valid)

\* A fetch takes two edges, so the second instruction of a step arrives when the
\* first is in EX, and is accepted only as that one retires.  A misaligned PC is
\* answered at once, by illegal words: the first of them discards the others.
StepFetch ==
  IF Misaligned
  THEN /\ fetchState = "WAIT" => kill
       /\ \A i \in 1 .. Len(ibuf) : ibuf[i] % 4 # 0
       /\ id.valid => id.instr.kind = "TRAP"
       /\ ex.valid => ex.instr.kind = "TRAP"
  ELSE /\ OneAtMost
       /\ id.valid => ibuf = <<>>
       /\ ~ex.valid /\ ibuf # <<>> => fetchState = "IDLE" /\ Len(ibuf) = 1

\* What may yet retire, by how far the step is.
StepInv ==
  /\ stepped \in 0 .. 2 \union {NotStepping}
  /\ stepped # NotStepping =>
       /\ dbgState = "STEP_RUNNING" => stepped = 0 /\ StepFetch
       /\ dbgState = "HALT_PENDING" =>
            OneAtMost /\ (id.valid \/ ex.valid => stepped <= 1)
       /\ dbgState = "RUNNING" => ~id.valid /\ ~ex.valid

-------------------------------------------------------------------------------
\* A hart that steps and goes on stepping is neither stopped nor redirected.
LEMMA SteppingGoesOn ==
  ASSUME CoreInv, NEW in, Clock(in),
         dbgState = "STEP_RUNNING", dbgState' = "STEP_RUNNING"
  PROVE  /\ ~HaltReq /\ ~Trigger(in) /\ ~Retires(in)
         /\ ~Redirect(in) /\ ~Inject(in)
         /\ ~ex.valid => ~DecodeStall(in) /\ (ibuf # <<>> => InstrFires(in))
         /\ ex.valid => ~InstrFires(in) /\ id' = id /\ ex' = ex
<1>1. ~HaltReq /\ ~Trigger(in) /\ ~Retires(in)
  BY DEF Clock, DebugControl, DbgStateClock
<1>2. ~Halted /\ ~InjectValid
  BY DEF Halted, InjectValid, Requests
<1>3. ~Redirect(in) /\ ~Inject(in)
  BY <1>1, <1>2
  DEF Redirect, TrapRedirect, BranchRedirect, HartRetires, Resumes, ResumeRedirect, Inject
<1>4. ~ex.valid => ~DecodeStall(in)
  BY <1>2 DEF DecodeStall, LoadUseStall, LoadUse, LsuWait, MemOp, Ex, Frozen
<1>5. ~ex.valid /\ ibuf # <<>> => InstrFires(in)
  BY <1>1, <1>2, <1>3, <1>4
  DEF InstrFires, Accepts, StopFetch, PopValid, Halted
<1>6. ex.valid => LsuWait(in) /\ DecodeStall(in)
  BY <1>1 DEF Retires, Trigger, DecodeStall
<1>7. ex.valid => ~InstrFires(in) /\ id' = id /\ ex' = ex
  BY <1>3, <1>6 DEF Clock, Datapath, PipeClock, InstrFires, Accepts
<1>8. QED
  BY <1>1, <1>3, <1>4, <1>5, <1>7

\* The frontend on an edge without a redirect.
LEMMA StraightFetch ==
  ASSUME TypeOK, NEW in, Clock(in), ~Redirect(in)
  PROVE  /\ Misaligned' <=> Misaligned
         /\ Misaligned => /\ fetchState' = "WAIT" => fetchState = "WAIT" /\ (kill => kill')
                          /\ Pushes(FALSE, in.imemRsp) => fetchState = "IDLE" \/ ~kill
         /\ ~Misaligned => (Pushes(FALSE, in.imemRsp) =>
                              fetchState = "WAIT" /\ fetchState' = "IDLE")
         /\ ibuf' = IF Pushes(FALSE, in.imemRsp)
                    THEN Append(Popped(InstrFires(in)),
                                IF fetchState = "IDLE" THEN pc ELSE fetchPc)
                    ELSE Popped(InstrFires(in))
<1>1. FrontendClock(FALSE, RedirectPc(in), InstrFires(in), in.imemReady, in.imemRsp)
  BY DEF Clock, FrontendClock, PcClock, FetchClock, IbufClock, Pushes, RequestFires,
         RspFires, PcAdvances, MisalignRsp, RspLive, PushReady
<1>2. /\ pc' \in {pc, pc + 4} /\ pc \in Nat
      /\ fetchState \in {"IDLE", "WAIT"} /\ kill \in BOOLEAN
  BY <1>1 DEF FrontendClock, PcClock, TypeOK, FrontendTypeOK
<1>3. Misaligned' <=> Misaligned
  <2>1. (pc + 4) % 4 = pc % 4
    BY <1>2
  <2>2. pc' % 4 = pc % 4
    BY <1>2, <2>1
  <2>3. QED
    BY <2>2 DEF Misaligned
<1>4. QED
  BY <1>1, <1>2, <1>3 DEF FrontendClock, FetchClock, IbufClock, Pushes, RequestFires, RspFires,
     MisalignRsp, RspLive

LEMMA StepFetchGoesOn ==
  ASSUME CoreInv, StepFetch, NEW in, Clock(in),
         dbgState = "STEP_RUNNING", dbgState' = "STEP_RUNNING"
  PROVE  StepFetch'
<1>1. /\ ~Redirect(in) /\ ~Inject(in)
      /\ ~ex.valid => ~DecodeStall(in) /\ (ibuf # <<>> => InstrFires(in))
      /\ ex.valid => ~InstrFires(in) /\ id' = id /\ ex' = ex
  BY SteppingGoesOn
<1>2. /\ InstrFires(in) => ibuf # <<>>
      /\ ~ex.valid => /\ ex' = id
                      /\ id' = IF InstrFires(in) THEN Fetched(Head(ibuf)) ELSE Bubble
  BY <1>1 DEF Clock, Datapath, PipeClock, InstrFires, PopValid, DecodeStall
<1>3. TypeOK /\ ibuf \in Seq(Nat) /\ pc \in Nat
  BY DEF CoreInv, TypeOK, FrontendTypeOK
<1>4. CASE Misaligned
  <2>1. /\ fetchState = "WAIT" => kill
        /\ \A i \in 1 .. Len(ibuf) : ibuf[i] % 4 # 0
        /\ id.valid => id.instr.kind = "TRAP"
        /\ ex.valid => ex.instr.kind = "TRAP"
    BY <1>4 DEF StepFetch
  <2>2. fetchState' = "WAIT" => kill'
    BY <1>1, <1>3, <1>4, <2>1, StraightFetch
  <2>3. \A i \in 1 .. Len(ibuf') : ibuf'[i] % 4 # 0
    <3>1. \/ ibuf' = Popped(InstrFires(in))
          \/ ibuf' = Append(Popped(InstrFires(in)), pc)
      BY <1>1, <1>3, <1>4, <2>1, StraightFetch DEF TypeOK, FrontendTypeOK
    <3> DEFINE p == Popped(InstrFires(in))
    <3>2. p \in Seq(Nat) /\ \A i \in 1 .. Len(p) : p[i] % 4 # 0
      BY <1>2, <1>3, <2>1 DEF Popped
    <3>3. pc % 4 # 0
      BY <1>4 DEF Misaligned
    <3> HIDE DEF p
    <3>4. CASE ibuf' = p
      BY <3>2, <3>4
    <3>5. CASE ibuf' = Append(p, pc)
      <4> SUFFICES ASSUME NEW i \in 1 .. Len(ibuf') PROVE ibuf'[i] % 4 # 0
        OBVIOUS
      <4>1. Len(ibuf') = Len(p) + 1 /\ ibuf'[i] = IF i = Len(p) + 1 THEN pc ELSE p[i]
        BY <1>3, <3>2, <3>5
      <4>2. QED
        BY <3>2, <3>3, <4>1
    <3>6. QED
      BY <3>1, <3>4, <3>5 DEF p
  <2>4. InstrFires(in) => Fetched(Head(ibuf)).instr.kind = "TRAP"
    <3> SUFFICES ASSUME InstrFires(in) PROVE Fetched(Head(ibuf)).instr.kind = "TRAP"
      OBVIOUS
    <3>1. Head(ibuf) % 4 # 0
      BY <1>2, <1>3, <2>1
    <3>2. Head(ibuf) \notin DOMAIN Program
      BY <3>1, ProgramAssumption DEF ProgramAssumption
    <3>3. QED
      BY <3>2 DEF Fetched, InstrAt, Illegal
  <2>5. /\ id'.valid => id'.instr.kind = "TRAP"
        /\ ex'.valid => ex'.instr.kind = "TRAP"
    BY <1>1, <1>2, <2>1, <2>4 DEF Bubble
  <2>6. Misaligned'
    BY <1>1, <1>3, <1>4, StraightFetch
  <2>7. QED
    BY <2>2, <2>3, <2>5, <2>6 DEF StepFetch
<1>5. CASE ~Misaligned
  <2>1. /\ OneAtMost
        /\ id.valid => ibuf = <<>>
        /\ ~ex.valid /\ ibuf # <<>> => fetchState = "IDLE" /\ Len(ibuf) = 1
    BY <1>5 DEF StepFetch
  <2>2. ~Misaligned'
    BY <1>1, <1>3, <1>5, StraightFetch
  <2>3. CASE ex.valid
    BY <1>1, <2>1, <2>2, <2>3 DEF StepFetch, OneAtMost
  <2>4. CASE ~ex.valid /\ ibuf = <<>>
    <3>1. ~InstrFires(in) /\ ~id'.valid /\ ex' = id
      BY <1>2, <2>4 DEF Bubble
    <3>2. \/ ibuf' = <<>>
          \/ fetchState' = "IDLE" /\ Len(ibuf') = 1
      <4>1. Popped(InstrFires(in)) = <<>>
        BY <2>4, <3>1 DEF Popped
      <4>2. CASE Pushes(FALSE, in.imemRsp)
        <5> DEFINE x == IF fetchState = "IDLE" THEN pc ELSE fetchPc
        <5>1. ibuf' = Append(<<>>, x) /\ fetchState' = "IDLE"
          BY <1>1, <1>3, <1>5, <4>1, <4>2, StraightFetch
        <5> HIDE DEF x
        <5>2. QED
          BY <5>1
      <4>3. CASE ~Pushes(FALSE, in.imemRsp)
        BY <1>1, <1>3, <4>1, <4>3, StraightFetch
      <4>4. QED
        BY <4>2, <4>3
    <3>3. QED
      BY <2>2, <3>1, <3>2 DEF StepFetch, OneAtMost
  <2>5. CASE ~ex.valid /\ ibuf # <<>>
    <3>1. InstrFires(in) /\ ~id.valid /\ fetchState = "IDLE" /\ Len(ibuf) = 1
      BY <1>1, <2>1, <2>5
    <3>2. Popped(InstrFires(in)) = <<>>
      <4>1. Tail(ibuf) \in Seq(Nat) /\ Len(Tail(ibuf)) = 0
        BY <1>3, <2>5, <3>1
      <4>2. Tail(ibuf) = <<>>
        BY <4>1, EmptySeq
      <4>3. QED
        BY <3>1, <4>2 DEF Popped
    <3>3. ibuf' = <<>>
      BY <1>1, <1>3, <1>5, <3>1, <3>2, StraightFetch
    <3>4. ~ex'.valid
      BY <1>2, <2>5, <3>1
    <3>5. QED
      BY <2>2, <3>3, <3>4 DEF StepFetch, OneAtMost
  <2>6. QED
    BY <2>3, <2>4, <2>5
<1>6. QED
  BY <1>4, <1>5

\* A hart that fetches no more: a retirement makes room for nothing.
LEMMA DrainStep ==
  ASSUME CoreInv, OneAtMost, ~Halted, NEW in, Clock(in), StopFetch(HaltReq, Trigger(in))
  PROVE  /\ OneAtMost'
         /\ id'.valid \/ ex'.valid => (id.valid \/ ex.valid) /\ ~Retires(in)
<1>1. ~Accepts(in) /\ ~Inject(in)
  BY DEF Accepts, Inject, InjectValid, Requests
<1>2. CASE Redirect(in)
  BY <1>2, SlotsStep DEF OneAtMost
<1>3. CASE ~Redirect(in)
  <2>1. IF DecodeStall(in)
        THEN /\ id' = id
             /\ ex' = ex \/ ~ex'.valid
        ELSE ex' = id /\ ~id'.valid
    BY <1>1, <1>3, SlotsStep
  <2>2. CASE Retires(in)
    <3>1. ex.valid /\ ~id.valid /\ ~LsuWait(in) /\ ~Frozen
      BY <2>2 DEF Retires, OneAtMost, Frozen
    <3>2. DecodeStall(in) => ex' = Bubble
      BY <3>1 DEF Clock, Datapath, PipeClock, DecodeStall
    <3>3. QED
      BY <2>1, <3>1, <3>2 DEF OneAtMost, Bubble
  <2>3. CASE ~Retires(in)
    BY <2>1, <2>3 DEF OneAtMost
  <2>4. QED
    BY <2>2, <2>3
<1>4. QED
  BY <1>2, <1>3

\* A step that ends, by the retirement it is for or by a halt or a trigger.
LEMMA StepEndsWith ==
  ASSUME CoreInv, StepFetch, NEW in, Clock(in),
         dbgState = "STEP_RUNNING", dbgState' = "HALT_PENDING"
  PROVE  OneAtMost'
<1>1. ~Halted /\ ~Inject(in)
  BY DEF Halted, Inject, InjectValid, Requests
<1>2. CASE Misaligned /\ ex.valid
  <2>1. ex.instr.kind = "TRAP" /\ ~ex.debug
    BY <1>1, <1>2 DEF StepFetch, CoreInv, DebugInv, DebugWorkIsHalted
  <2>2. TrapRedirect(in)
    BY <1>2, <2>1 DEF TrapRedirect, HartRetires, Retires, DataTrigger, LsuWait, MemOp, Ex,
       TrapEntered, SyncTrap
  <2>3. QED
    BY <2>2, SlotsStep DEF Redirect, OneAtMost
<1>3. CASE ~(Misaligned /\ ex.valid)
  <2>1. OneAtMost
    BY <1>3 DEF StepFetch, OneAtMost
  <2>2. CASE HaltReq \/ Trigger(in)
    BY <1>1, <2>1, <2>2, DrainStep DEF StopFetch
  <2>3. CASE ~HaltReq /\ ~Trigger(in)
    <3>1. Retires(in)
      BY <2>3 DEF Clock, DebugControl, DbgStateClock
    <3>2. ~id.valid /\ ~LsuWait(in) /\ ~Frozen
      BY <1>1, <2>1, <3>1 DEF Retires, OneAtMost, Frozen
    <3>3. ex' = Bubble \/ ex' = id
      BY <3>2 DEF Clock, Datapath, PipeClock, DecodeStall
    <3>4. QED
      BY <3>2, <3>3 DEF OneAtMost, Bubble
  <2>4. QED
    BY <2>2, <2>3
<1>4. QED
  BY <1>2, <1>3

LEMMA StepInvStep ==
  ASSUME CoreInv, StepInv, NEW in, Clock(in), RecordStep(in)
  PROVE  StepInv'
<1> USE DEF NotStepping, MaxStepped
<1>1. /\ dbgState \in {"RUNNING", "HALT_PENDING", "HALTED", "STEP_RUNNING"}
      /\ dbgState' \in {"RUNNING", "HALT_PENDING", "HALTED", "STEP_RUNNING"}
      /\ dbgState' = "STEP_RUNNING" => dbgState \in {"STEP_RUNNING", "HALTED"}
      /\ dbgState = "STEP_RUNNING" => dbgState' # "RUNNING"
  BY DEF CoreInv, TypeOK, DebugTypeOK, DbgStates, Clock, DebugControl, DbgStateClock
<1>2. ~Halted => (HartRetires(in) <=> Retires(in))
  BY DEF HartRetires, Retires, CoreInv, DebugInv, DebugWorkIsHalted
<1>3. CASE dbgState = "HALTED"
  <2>1. stepped' = IF dbgState' = "STEP_RUNNING" THEN 0 ELSE NotStepping
    BY <1>3 DEF RecordStep
  <2>2. CASE dbgState' = "STEP_RUNNING"
    <3>1. Redirect(in)
      BY <1>3, <2>2 DEF Clock, DebugControl, DbgStateClock, Redirect, Resumes, ResumeRedirect,
         Halted
    <3>2. ~id'.valid /\ ~ex'.valid
      BY <3>1, SlotsStep
    <3>3. ibuf' = <<>> /\ (fetchState' = "WAIT" => kill')
      BY <3>1 DEF Clock, FrontendClock, IbufClock, FetchClock, RequestFires, CoreInv, TypeOK,
         FrontendTypeOK
    <3>4. StepFetch'
      BY <3>2, <3>3 DEF StepFetch, OneAtMost
    <3>5. QED
      BY <2>1, <2>2, <3>4 DEF StepInv
  <2>3. QED
    BY <2>1, <2>2 DEF StepInv
<1>4. CASE dbgState # "HALTED" /\ stepped = NotStepping
  <2>1. stepped' = NotStepping
    BY <1>4 DEF RecordStep
  <2>2. QED
    BY <2>1 DEF StepInv
<1>5. CASE dbgState = "STEP_RUNNING" /\ stepped # NotStepping
  <2>1. stepped = 0 /\ StepFetch
    BY <1>5 DEF StepInv
  <2>2. stepped' = IF Retires(in) THEN 1 ELSE 0
    BY <1>1, <1>2, <1>5, <2>1 DEF RecordStep, Halted
  <2>3. CASE dbgState' = "STEP_RUNNING"
    BY <1>5, <2>1, <2>2, <2>3, SteppingGoesOn, StepFetchGoesOn DEF StepInv
  <2>4. CASE dbgState' = "HALT_PENDING"
    BY <1>5, <2>1, <2>2, <2>4, StepEndsWith DEF StepInv
  <2>5. CASE dbgState' = "HALTED"
    BY <2>2, <2>5 DEF StepInv
  <2>6. QED
    BY <1>1, <1>5, <2>3, <2>4, <2>5
<1>6. CASE dbgState = "HALT_PENDING" /\ stepped # NotStepping
  <2>1. OneAtMost /\ (id.valid \/ ex.valid => stepped <= 1) /\ stepped \in 0 .. 2
    BY <1>6 DEF StepInv
  <2>2. /\ OneAtMost'
        /\ id'.valid \/ ex'.valid => (id.valid \/ ex.valid) /\ ~Retires(in)
    BY <1>6, <2>1, DrainStep DEF StopFetch, Halted
  <2>3. stepped' = IF Retires(in) THEN stepped + 1
                   ELSE IF dbgState' = "RUNNING" THEN NotStepping ELSE stepped
    BY <1>2, <1>6, <2>1 DEF RecordStep, Halted
  <2>4. Retires(in) => ex.valid
    BY DEF Retires
  <2>5. QED
    BY <1>1, <1>6, <2>1, <2>2, <2>3, <2>4 DEF StepInv
<1>7. CASE dbgState = "RUNNING" /\ stepped # NotStepping
  <2>1. ~id.valid /\ ~ex.valid /\ stepped \in 0 .. 2
    BY <1>7 DEF StepInv
  <2>2. ~Retires(in) /\ ~Trigger(in)
    BY <2>1 DEF Retires, Trigger, DataTrigger, ExecTrigger, MemOp, Ex
  <2>3. stepped' = IF dbgState' = "RUNNING" THEN NotStepping ELSE stepped
    BY <1>2, <1>7, <2>2 DEF RecordStep, Halted
  <2>4. dbgState' # "RUNNING" => HaltReq
    BY <1>7, <2>2 DEF Clock, DebugControl, DbgStateClock
  <2>5. HaltReq => ~id'.valid /\ ~ex'.valid
    BY <1>7, <2>1, DrainStep DEF StopFetch, Halted, OneAtMost
  <2>6. QED
    BY <1>1, <1>7, <2>1, <2>3, <2>4, <2>5 DEF StepInv, OneAtMost
<1>8. QED
  BY <1>1, <1>3, <1>4, <1>5, <1>6, <1>7

\* A single step retires no more than two instructions, however long the first
\* one's access takes, and also when the step is cut short and resumed.
THEOREM StepBounded == MCSpec => []StepIsBounded
<1>1. MCInit => CoreInv /\ StepInv
  BY HartStarts DEF MCInit, StepInv, NotStepping
<1>2. CoreInv /\ StepInv /\ [MCNext]_mcVars => CoreInv' /\ StepInv'
  <2> SUFFICES ASSUME CoreInv, StepInv, [MCNext]_mcVars
               PROVE  CoreInv' /\ StepInv'
    OBVIOUS
  <2>1. CoreInv'
    BY CoreStep DEF MCNext, MCStep, Next, mcVars
  <2>2. CASE MCNext
    <3>1. PICK in \in Inputs : MCStep(in)
      BY <2>2 DEF MCNext
    <3>2. QED
      BY <2>1, <3>1, StepInvStep DEF MCStep
  <2>3. CASE UNCHANGED mcVars
    BY <2>1, <2>3 DEF StepInv, StepFetch, OneAtMost, Misaligned, mcVars, vars, frontendVars,
       pipeVars, debugVars
  <2>4. QED
    BY <2>2, <2>3
<1>3. StepInv => StepIsBounded
  BY DEF StepInv, StepIsBounded, NotStepping
<1>4. QED
  BY <1>1, <1>2, <1>3, PTL DEF MCSpec

-------------------------------------------------------------------------------
(* The diagrams of the hart.                                               *)

LEMMA Shortened ==
  ASSUME NEW s \in Seq(Nat), s # <<>>
  PROVE  Tail(s) \in Seq(Nat) /\ Len(Tail(s)) = Len(s) - 1 /\ Len(s) \in Nat \ {0}
BY HeadTailProperties, EmptySeq, LenProperties

LEMMA Lengthened ==
  ASSUME NEW s \in Seq(Nat), NEW x \in Nat
  PROVE  /\ Append(s, x) \in Seq(Nat) /\ Len(Append(s, x)) = Len(s) + 1
         /\ Append(s, x) # <<>>
BY AppendProperties, LenProperties

LEMMA AlongFetchArrow ==
  ASSUME NEW in, NEW l, NEW s, NEW t, <<s, l, t>> \in FrontendFetchDiagram.arrows,
         s \in FrontendFetchDiagram.seq, t \in FrontendFetchDiagram.seq,
         FetchNode = s, FetchNode' = t, FetchLabel(in, l)
  PROVE  FetchFollows(in)
<1>h. HasPath(FrontendFetchDiagram, s, {l}, t)
  BY OneArrow
<1>1. PICK p \in FetchPaths : p.from = s /\ p.to = t /\ p.labels = {l}
  BY <1>h DEF HasPath, FetchPaths
<1>2. \A k \in p.labels : FetchLabel(in, k)
  BY <1>1
<1> QED BY <1>1, <1>2 DEF FollowsPath, FetchFollows

LEMMA AlongFetchPath ==
  ASSUME NEW in, NEW l, NEW m, NEW s, NEW c, NEW t,
         <<s, l, c>> \in FrontendFetchDiagram.arrows,
         <<c, m, t>> \in FrontendFetchDiagram.arrows,
         s \in FrontendFetchDiagram.seq, c \notin FrontendFetchDiagram.seq,
         t \in FrontendFetchDiagram.seq,
         FetchNode = s, FetchNode' = t, FetchLabel(in, l), FetchLabel(in, m)
  PROVE  FetchFollows(in)
<1>h. HasPath(FrontendFetchDiagram, s, {l, m}, t)
  BY TwoArrows
<1>1. PICK p \in FetchPaths : p.from = s /\ p.to = t /\ p.labels = {l, m}
  BY <1>h DEF HasPath, FetchPaths
<1>2. \A k \in p.labels : FetchLabel(in, k)
  BY <1>1
<1> QED BY <1>1, <1>2 DEF FollowsPath, FetchFollows

LEMMA FetchFollowsStep ==
  ASSUME CoreInv, NEW in, WithInputs(in)
  PROVE  FetchFollows(in)
<1> DEFINE flush == Redirect(in)
           rsp == in.imemRsp
           request == RequestFires(flush, in.imemReady)
           push == Pushes(flush, rsp)
<1>1. /\ fetchState \in {"IDLE", "WAIT"} /\ kill \in BOOLEAN
      /\ FetchClock(flush, in.imemReady, rsp)
      /\ IbufClock(flush, InstrFires(in), rsp)
  BY DEF CoreInv, TypeOK, FrontendTypeOK, WithInputs, FrontendClock
<1>2. ~push => NothingPushed(in)
  BY <1>1 DEF IbufClock, NothingPushed
<1>3. push => Pushed(in, IF fetchState = "IDLE" THEN pc ELSE fetchPc)
  BY <1>1 DEF IbufClock, Pushed, Pushes, PushReady
<1>4. PushReady(flush) <=> Room /\ ~flush
  BY DEF PushReady, Room
<1>a. /\ <<"idle", "REQ_VALID & REQ_READY", "wait">> \in FrontendFetchDiagram.arrows
      /\ <<"idle", "PC_MISALIGNED & READY", "local">> \in FrontendFetchDiagram.arrows
      /\ <<"local", "SAME CYCLE", "idle">> \in FrontendFetchDiagram.arrows
      /\ <<"wait", "FLUSH", "kill">> \in FrontendFetchDiagram.arrows
      /\ <<"wait", "RSP_VALID & !KILL & !FLUSH", "deliver">> \in FrontendFetchDiagram.arrows
      /\ <<"deliver", "INSTR_READY", "idle">> \in FrontendFetchDiagram.arrows
      /\ <<"kill", "RSP_VALID", "drop">> \in FrontendFetchDiagram.arrows
      /\ <<"drop", "CONSUMED", "idle">> \in FrontendFetchDiagram.arrows
  BY DEF FrontendFetchDiagram, Diagram
<1>b. /\ "idle" \in FrontendFetchDiagram.seq /\ "wait" \in FrontendFetchDiagram.seq
      /\ "kill" \in FrontendFetchDiagram.seq /\ "local" \notin FrontendFetchDiagram.seq
      /\ "deliver" \notin FrontendFetchDiagram.seq /\ "drop" \notin FrontendFetchDiagram.seq
  BY DEF FrontendFetchDiagram, Diagram
<1> HIDE DEF flush, rsp, request, push
<1>5. CASE request
  <2>1. fetchState = "IDLE" /\ fetchState' = "WAIT" /\ fetchPc' = pc /\ ~kill'
    BY <1>1, <1>5 DEF FetchClock, RequestFires, request
  <2>2. FetchNode = "idle" /\ FetchNode' = "wait"
    BY <2>1 DEF FetchNode
  <2>3. MayRequest(in) /\ ~push
    BY <1>5 DEF MayRequest, RequestFires, request, flush, push, Pushes, MisalignRsp, RspLive
  <2>4. FetchLabel(in, "REQ_VALID & REQ_READY")
    BY <1>2, <2>1, <2>3 DEF FetchLabel
  <2> QED BY <1>a, <1>b, <2>2, <2>4, AlongFetchArrow
<1>6. CASE fetchState = "IDLE" /\ ~request
  <2>1. fetchState' = "IDLE" /\ fetchPc' = fetchPc
    BY <1>1, <1>6 DEF FetchClock, RspFires, request
  <2>2. FetchNode = "idle" /\ FetchNode' = "idle"
    BY <1>6, <2>1 DEF FetchNode
  <2>3. push <=> MayFault(in)
    BY <1>4, <1>6 DEF push, Pushes, MisalignRsp, RspLive, MayFault, flush
  <2>4. CASE push
    <3>1. FetchLabel(in, "PC_MISALIGNED & READY") /\ FetchLabel(in, "SAME CYCLE")
      BY <1>3, <1>6, <2>3, <2>4 DEF FetchLabel
    <3> QED BY <1>a, <1>b, <2>2, <3>1, AlongFetchPath
  <2>5. CASE ~push
    <3>1. ~MayRequest(in)
      BY <1>6 DEF MayRequest, request, RequestFires, flush
    <3>2. FetchRests(in)
      BY <1>2, <2>1, <2>2, <2>3, <2>5, <3>1 DEF FetchRests
    <3> QED BY <3>2 DEF FetchFollows
  <2> QED BY <2>4, <2>5
<1>7. CASE fetchState = "WAIT"
  <2>1. /\ ~request /\ fetchPc' = fetchPc
        /\ fetchState' = IF RspFires(flush, rsp) THEN "IDLE" ELSE "WAIT"
        /\ kill' <=> ~RspFires(flush, rsp) /\ (kill \/ flush)
    BY <1>1, <1>7 DEF FetchClock, RequestFires, request
  <2>2. /\ RspFires(flush, rsp) <=> rsp /\ (kill \/ flush \/ Room)
        /\ push <=> Room /\ ~kill /\ ~flush /\ rsp
    BY <1>4, <1>7 DEF RspFires, push, Pushes, MisalignRsp, RspLive
  <2>3. FetchNode = (IF kill THEN "kill" ELSE "wait")
        /\ FetchNode' = (IF RspFires(flush, rsp) THEN "idle"
                         ELSE IF kill \/ flush THEN "kill" ELSE "wait")
    <3>1. FetchNode = IF kill THEN "kill" ELSE "wait"
      BY <1>7 DEF FetchNode
    <3>2. CASE RspFires(flush, rsp)
      BY <2>1, <3>1, <3>2 DEF FetchNode
    <3>3. CASE ~RspFires(flush, rsp)
      BY <2>1, <3>1, <3>3 DEF FetchNode
    <3> QED BY <3>2, <3>3
  <2>4. CASE kill /\ rsp
    <3>1. FetchLabel(in, "RSP_VALID") /\ FetchLabel(in, "CONSUMED")
      BY <1>2, <2>2, <2>4 DEF FetchLabel, rsp
    <3> QED BY <1>a, <1>b, <2>2, <2>3, <2>4, <3>1, AlongFetchPath
  <2>5. CASE kill /\ ~rsp
    <3>1. FetchRests(in)
      BY <1>2, <2>1, <2>2, <2>3, <2>5 DEF FetchRests, rsp
    <3> QED BY <3>1 DEF FetchFollows
  <2>6. CASE ~kill /\ flush /\ rsp
    <3>1. DroppedAtOnce(in)
      BY <1>2, <2>2, <2>3, <2>6 DEF DroppedAtOnce, rsp, flush
    <3> QED BY <3>1 DEF FetchFollows
  <2>7. CASE ~kill /\ flush /\ ~rsp
    <3>1. FetchLabel(in, "FLUSH")
      BY <1>2, <2>2, <2>7 DEF FetchLabel, rsp, flush
    <3> QED BY <1>a, <1>b, <2>2, <2>3, <2>7, <3>1, AlongFetchArrow
  <2>8. CASE ~kill /\ ~flush /\ rsp /\ Room
    <3>1. FetchLabel(in, "RSP_VALID & !KILL & !FLUSH") /\ FetchLabel(in, "INSTR_READY")
      BY <1>3, <1>7, <2>2, <2>8 DEF FetchLabel, rsp, flush
    <3> QED BY <1>a, <1>b, <2>2, <2>3, <2>8, <3>1, AlongFetchPath
  <2>9. CASE ~kill /\ ~flush /\ ~(rsp /\ Room)
    <3>1. FetchRests(in)
      BY <1>2, <2>1, <2>2, <2>3, <2>9 DEF FetchRests, rsp, flush
    <3> QED BY <3>1 DEF FetchFollows
  <2> QED BY <2>4, <2>5, <2>6, <2>7, <2>8, <2>9
<1> QED BY <1>1, <1>5, <1>6, <1>7

-------------------------------------------------------------------------------
\* A flush is not a state that the buffer is in.
LEMMA IbufDrawn ==
  /\ IbufDrawing.arrows = FrontendIbufDiagram.arrows
  /\ "empty" \in IbufDrawing.seq /\ "one" \in IbufDrawing.seq /\ "full" \in IbufDrawing.seq
  /\ "flush" \notin IbufDrawing.seq
BY DEF IbufDrawing, FrontendIbufDiagram, Diagram

LEMMA AlongIbufArrow ==
  ASSUME NEW in, NEW l, NEW s, NEW t, <<s, l, t>> \in FrontendIbufDiagram.arrows,
         s \in {"empty", "one", "full"}, t \in {"empty", "one", "full"},
         IbufNode = s, IbufNode' = t, IbufLabel(in, l)
  PROVE  IbufFollows(in)
<1>1. /\ s \in IbufDrawing.seq /\ t \in IbufDrawing.seq
      /\ <<s, l, t>> \in IbufDrawing.arrows
  BY IbufDrawn
<1>h. HasPath(IbufDrawing, s, {l}, t)
  BY <1>1, OneArrow
<1>2. PICK p \in IbufPaths : p.from = s /\ p.to = t /\ p.labels = {l}
  BY <1>h DEF HasPath, IbufPaths
<1>3. \A k \in p.labels : IbufLabel(in, k)
  BY <1>2
<1> QED BY <1>2, <1>3 DEF FollowsPath, IbufFollows

\* A flush that leaves the buffer empty is drawn.
LEMMA AlongFlush ==
  ASSUME IbufNode \in {"empty", "one", "full"}, IbufNode' = "empty",
         NEW in, Redirect(in), ibuf' = <<>>
  PROVE  IbufFollows(in)
<1>1. PICK s \in {"empty", "one", "full"} : s = IbufNode
  OBVIOUS
<1>2. /\ <<s, "FLUSH", "flush">> \in FrontendIbufDiagram.arrows
      /\ <<"flush", "NEXT", "empty">> \in FrontendIbufDiagram.arrows
  BY DEF FrontendIbufDiagram, Diagram
<1>3. /\ s \in IbufDrawing.seq /\ "empty" \in IbufDrawing.seq /\ "flush" \notin IbufDrawing.seq
      /\ <<s, "FLUSH", "flush">> \in IbufDrawing.arrows
      /\ <<"flush", "NEXT", "empty">> \in IbufDrawing.arrows
  BY <1>2, IbufDrawn
<1>h. HasPath(IbufDrawing, s, {"FLUSH", "NEXT"}, "empty")
  BY <1>3, TwoArrows
<1>4. PICK p \in IbufPaths : p.from = s /\ p.to = "empty" /\ p.labels = {"FLUSH", "NEXT"}
  BY <1>h DEF HasPath, IbufPaths
<1>5. IbufLabel(in, "FLUSH") /\ IbufLabel(in, "NEXT")
  BY DEF IbufLabel
<1>6. \A k \in p.labels : IbufLabel(in, k)
  BY <1>4, <1>5
<1> QED BY <1>1, <1>4, <1>6 DEF FollowsPath, IbufFollows

\* The buffer, of two entries or more: with one, PUSH_FIRE would fill it.
LEMMA IbufFollowsStep ==
  ASSUME IbufDepth # 1, CoreInv, NEW in, WithInputs(in)
  PROVE  IbufFollows(in)
<1> DEFINE pop == InstrFires(in)
           push == Pushes(FALSE, in.imemRsp)
           x == IF fetchState = "IDLE" THEN pc ELSE fetchPc
<1>1. /\ ibuf \in Seq(Nat) /\ Len(ibuf) <= IbufDepth /\ x \in Nat
      /\ IbufDepth \in Nat /\ IbufDepth > 1 /\ Len(ibuf) \in Nat
  BY IbufAssumption, LenProperties DEF IbufAssumption, CoreInv, TypeOK, FrontendTypeOK
<1>2. IbufNode = IF Len(ibuf) = 0 THEN "empty" ELSE IF Len(ibuf) = IbufDepth THEN "full" ELSE "one"
  BY <1>1, EmptySeq DEF IbufNode
<1>i. IbufClock(Redirect(in), InstrFires(in), in.imemRsp)
  BY DEF WithInputs, FrontendClock
<1>a. /\ <<"empty", "PUSH_FIRE", "one">> \in FrontendIbufDiagram.arrows
      /\ <<"one", "PUSH ONLY", "full">> \in FrontendIbufDiagram.arrows
      /\ <<"one", "PUSH&POP", "one">> \in FrontendIbufDiagram.arrows
      /\ <<"one", "POP_FIRE", "empty">> \in FrontendIbufDiagram.arrows
      /\ <<"full", "POP_ONLY", "one">> \in FrontendIbufDiagram.arrows
  BY DEF FrontendIbufDiagram, Diagram
<1>3. CASE Redirect(in)
  <2>1. ibuf' = <<>>
    BY <1>3, <1>i DEF IbufClock
  <2>2. IbufNode' = "empty"
    BY <2>1 DEF IbufNode
  <2> QED BY <1>2, <1>3, <2>1, <2>2, AlongFlush
<1>4. CASE ~Redirect(in)
  <2>1. /\ ibuf' = IF push THEN Append(Popped(pop), x) ELSE Popped(pop)
        /\ pop => ibuf # <<>>
        /\ push => Len(ibuf) < IbufDepth
    <3>2. Pushes(Redirect(in), in.imemRsp) <=> push
      BY <1>4 DEF Pushes, PushReady, MisalignRsp, RspLive
    <3>3. push => Len(ibuf) < IbufDepth
      BY DEF Pushes, PushReady
    <3> QED BY <1>4, <1>i, <3>2, <3>3 DEF IbufClock, InstrFires, PopValid
  <2>x. x \in {pc, fetchPc}
    OBVIOUS
  <2>p. pop <=> InstrFires(in)
    OBVIOUS
  <2> HIDE DEF x, pop, push
  <2>2. CASE push /\ pop
    <3>1. PICK s \in Seq(Nat) : s = Tail(ibuf) /\ Len(s) = Len(ibuf) - 1
      BY <1>1, <2>1, <2>2, Shortened
    <3>2. ibuf' = Append(s, x)
      BY <2>1, <2>2, <3>1 DEF Popped
    <3>3. Append(s, x) # <<>> /\ Len(Append(s, x)) = Len(s) + 1
      BY <1>1, Lengthened
    <3>4. ibuf' # <<>> /\ Len(ibuf') = Len(ibuf) /\ ibuf # <<>>
      <4>1. PICK u : u = Append(s, x)
        OBVIOUS
      <4>2. u # <<>> /\ Len(u) = Len(s) + 1
        BY <3>3, <4>1
      <4>3. Len(u) = Len(ibuf)
        BY <1>1, <3>1, <4>2
      <4> QED BY <2>1, <2>2, <3>2, <4>1, <4>2, <4>3
    <3>5. IbufNode = "one" /\ IbufNode' = "one"
      <4>1. Len(ibuf) # IbufDepth
        BY <1>1, <2>1, <2>2
      <4>2. Len(ibuf') # IbufDepth
        BY <3>4, <4>1
      <4> QED BY <3>4, <4>1, <4>2 DEF IbufNode
    <3>6. ibuf' = Append(Tail(ibuf), x)
      BY <3>1, <3>2
    <3>7. IbufLabel(in, "PUSH&POP")
      BY <2>2, <2>p, <2>x, <3>6 DEF IbufLabel
    <3> QED BY <1>a, <3>5, <3>7, AlongIbufArrow
  <2>3. CASE push /\ ~pop
    <3>1. ibuf' = Append(ibuf, x)
      BY <2>1, <2>3 DEF Popped
    <3>2. ibuf' \in Seq(Nat) /\ Len(ibuf') = Len(ibuf) + 1 /\ ibuf' # <<>>
      BY <1>1, <3>1, Lengthened
    <3>3. PushOnly(in)
      BY <1>4, <2>3, <2>p, <2>x, <3>1 DEF PushOnly
    <3>4. IbufLabel(in, "PUSH_FIRE") /\ IbufLabel(in, "PUSH ONLY")
      BY <3>3 DEF IbufLabel
    <3>5. IbufNode' = IF Len(ibuf) + 1 = IbufDepth THEN "full" ELSE "one"
      BY <3>2 DEF IbufNode
    <3>7. CASE Len(ibuf) = 0
      <4>1. IbufNode = "empty" /\ IbufNode' = "one"
        BY <1>1, <1>2, <3>5, <3>7
      <4> QED BY <1>a, <3>4, <4>1, AlongIbufArrow
    <3>8. CASE Len(ibuf) # 0
      <4>1. IbufNode = "one" /\ IbufNode' \in {"one", "full"}
        BY <1>1, <1>2, <2>1, <2>3, <3>5, <3>8
      <4>2. CASE IbufNode' = "full"
        BY <1>a, <3>4, <4>1, <4>2, AlongIbufArrow
      <4>3. CASE IbufNode' = "one"
        BY <3>3, <4>1, <4>3 DEF IbufFollows, InBetween
      <4> QED BY <4>1, <4>2, <4>3
    <3> QED BY <3>7, <3>8
  <2>4. CASE ~push /\ pop
    <3>1. ibuf' = Tail(ibuf)
      BY <2>1, <2>4 DEF Popped
    <3>2. ibuf' \in Seq(Nat) /\ Len(ibuf') = Len(ibuf) - 1 /\ Len(ibuf) \in Nat \ {0}
      BY <1>1, <2>1, <2>4, <3>1, Shortened
    <3>3. ibuf' = <<>> <=> Len(ibuf') = 0
      BY <3>2, EmptySeq
    <3>p. PopOnly(in)
      BY <2>4, <2>p, <3>1 DEF PopOnly
    <3>4. IbufLabel(in, "POP_FIRE") /\ IbufLabel(in, "POP_ONLY")
      BY <3>p DEF IbufLabel
    <3>5. IbufNode' = IF Len(ibuf) = 1 THEN "empty" ELSE "one"
      <4>1. Len(ibuf') = 0 <=> Len(ibuf) = 1
        BY <3>2
      <4>2. Len(ibuf') # IbufDepth
        BY <1>1, <3>2
      <4> QED BY <3>3, <4>1, <4>2 DEF IbufNode
    <3>7. CASE Len(ibuf) = IbufDepth
      <4>1. IbufNode = "full" /\ IbufNode' = "one"
        BY <1>1, <1>2, <3>5, <3>7
      <4> QED BY <1>a, <3>4, <4>1, AlongIbufArrow
    <3>8. CASE Len(ibuf) # IbufDepth
      <4>1. IbufNode = "one" /\ IbufNode' \in {"one", "empty"}
        BY <1>1, <1>2, <3>2, <3>5, <3>8
      <4>2. CASE IbufNode' = "empty"
        BY <1>a, <3>4, <4>1, <4>2, AlongIbufArrow
      <4>3. CASE IbufNode' = "one"
        BY <3>p, <4>1, <4>3 DEF IbufFollows, InBetween
      <4> QED BY <4>1, <4>2, <4>3
    <3> QED BY <3>7, <3>8
  <2>5. CASE ~push /\ ~pop
    <3>1. ibuf' = ibuf
      BY <2>1, <2>5 DEF Popped
    <3>2. IbufRests(in)
      BY <1>4, <2>5, <2>p, <3>1 DEF IbufRests
    <3> QED BY <3>2 DEF IbufFollows
  <2> QED BY <2>2, <2>3, <2>4, <2>5
<1> QED BY <1>3, <1>4

-------------------------------------------------------------------------------
LEMMA AlongHaltArrow ==
  ASSUME NEW l, NEW s, NEW t, <<s, l, t>> \in HaltCtrlDiagram.arrows,
         s \in HaltCtrlDiagram.seq, t \in HaltCtrlDiagram.seq,
         haltState = s, haltState' = t, HaltLabel(l)
  PROVE  FollowsPath(HaltPaths, haltState, haltState', HaltLabel)
<1>h. HasPath(HaltCtrlDiagram, s, {l}, t)
  BY OneArrow
<1>1. PICK p \in HaltPaths : p.from = s /\ p.to = t /\ p.labels = {l}
  BY <1>h DEF HasPath, HaltPaths
<1>2. \A k \in p.labels : HaltLabel(k)
  BY <1>1
<1> QED BY <1>1, <1>2 DEF FollowsPath

LEMMA HaltFollowsStep ==
  ASSUME CoreInv, NEW in, Clock(in)
  PROVE  HaltFollows
<1>1. HaltCtrlClock(Halted, Running) /\ haltState \in {"IDLE", "HALT_WAIT", "RESUME_WAIT"}
  BY DEF CoreInv, TypeOK, HaltTypeOK, Clock, DebugModule, HaltClock
<1>2. AckFollows
  BY <1>1 DEF AckFollows, HaltCtrlClock, NewResume, ResumeDone
<1>3. \/ HaltRests \/ HaltedStill
      \/ FollowsPath(HaltPaths, haltState, haltState', HaltLabel)
  <2>a. /\ <<"IDLE", "START HALT", "HALT_WAIT">> \in HaltCtrlDiagram.arrows
        /\ <<"IDLE", "START RESUME", "RESUME_WAIT">> \in HaltCtrlDiagram.arrows
        /\ <<"HALT_WAIT", "DONE OR CANCEL", "IDLE">> \in HaltCtrlDiagram.arrows
        /\ <<"RESUME_WAIT", "R DONE", "IDLE">> \in HaltCtrlDiagram.arrows
        /\ <<"RESUME_WAIT", "HALT WINS", "HALT_WAIT">> \in HaltCtrlDiagram.arrows
    BY DEF HaltCtrlDiagram, Diagram
  <2>b. /\ "IDLE" \in HaltCtrlDiagram.seq /\ "HALT_WAIT" \in HaltCtrlDiagram.seq
        /\ "RESUME_WAIT" \in HaltCtrlDiagram.seq
    BY DEF HaltCtrlDiagram, Diagram
  <2>1. CASE haltState = "IDLE"
    <3>1. CASE haltreq /\ ~Halted
      <4>1. haltState' = "HALT_WAIT" /\ HaltLabel("START HALT")
        BY <1>1, <2>1, <3>1 DEF HaltCtrlClock, HaltLabel
      <4> QED BY <2>1, <2>a, <2>b, <4>1, AlongHaltArrow
    <3>2. CASE ~haltreq /\ resumereq /\ ~Running
      <4>1. haltState' = "RESUME_WAIT" /\ HaltLabel("START RESUME")
        BY <1>1, <2>1, <3>2 DEF HaltCtrlClock, HaltLabel
      <4> QED BY <2>1, <2>a, <2>b, <4>1, AlongHaltArrow
    <3>3. CASE ~(haltreq /\ ~Halted) /\ ~(~haltreq /\ resumereq /\ ~Running)
      <4>1. haltState' = haltState
        BY <1>1, <2>1, <3>3 DEF HaltCtrlClock
      <4> QED BY <2>1, <3>3, <4>1 DEF HaltRests, HaltLabel
    <3> QED BY <3>1, <3>2, <3>3
  <2>2. CASE haltState = "HALT_WAIT"
    <3>1. CASE ~haltreq \/ Halted
      <4>1. haltState' = "IDLE" /\ HaltLabel("DONE OR CANCEL")
        BY <1>1, <2>2, <3>1 DEF HaltCtrlClock, HaltLabel
      <4> QED BY <2>2, <2>a, <2>b, <4>1, AlongHaltArrow
    <3>2. CASE ~(~haltreq \/ Halted)
      <4>1. haltState' = haltState
        BY <1>1, <2>2, <3>2 DEF HaltCtrlClock
      <4> QED BY <2>2, <3>2, <4>1 DEF HaltRests, HaltLabel
    <3> QED BY <3>1, <3>2
  <2>3. CASE haltState = "RESUME_WAIT"
    <3>1. CASE haltreq /\ Halted
      BY <1>1, <2>3, <3>1 DEF HaltCtrlClock, HaltedStill
    <3>2. CASE haltreq /\ ~Halted
      <4>1. haltState' = "HALT_WAIT" /\ HaltLabel("HALT WINS")
        BY <1>1, <2>3, <3>2 DEF HaltCtrlClock, HaltLabel
      <4> QED BY <2>3, <2>a, <2>b, <4>1, AlongHaltArrow
    <3>3. CASE ~haltreq /\ Running
      <4>1. haltState' = "IDLE" /\ HaltLabel("R DONE")
        BY <1>1, <2>3, <3>3 DEF HaltCtrlClock, HaltLabel
      <4> QED BY <2>3, <2>a, <2>b, <4>1, AlongHaltArrow
    <3>4. CASE ~haltreq /\ ~Running
      <4>1. haltState' = haltState
        BY <1>1, <2>3, <3>4 DEF HaltCtrlClock
      <4> QED BY <2>3, <3>4, <4>1 DEF HaltRests, HaltLabel
    <3> QED BY <3>1, <3>2, <3>3, <3>4
  <2> QED BY <1>1, <2>1, <2>2, <2>3
<1> QED BY <1>2, <1>3 DEF HaltFollows

-------------------------------------------------------------------------------
LEMMA PipeFollowsStep ==
  ASSUME CoreInv, NEW in, WithInputs(in)
  PROVE  PipeFollows(in)
<1> DEFINE bubble == LoadUseStall(in) /\ ~LsuWait(in) /\ ~Frozen
<1>1. PipeClock(Redirect(in), Inject(in), bubble, ~DecodeStall(in), InstrFires(in),
                dm.instr, Fetched(Head(ibuf)))
  BY DEF WithInputs, Datapath
<1>2. InstrFires(in) => ~Redirect(in) /\ ~InjectValid /\ ~DecodeStall(in)
  BY DEF InstrFires, Accepts
<1>3. ~Redirect(in) => ~DataTrigger
  BY DEF Redirect, Trigger
<1>4. CASE Redirect(in)
  BY <1>1, <1>2, <1>4 DEF PipeClock, PipeFollows, FlushArrows
<1>5. CASE ~Redirect(in) /\ Inject(in)
  <2>1. InjectValid /\ ~id.valid /\ ~ex.valid
    BY <1>5 DEF Inject
  <2>2. id' = Injected(dm.instr) /\ ex' = Bubble
    BY <1>1, <1>5 DEF PipeClock
  <2> QED BY <1>2, <1>5, <2>1, <2>2 DEF PipeFollows, WordInjected
<1>6. CASE ~Redirect(in) /\ ~Inject(in) /\ DecodeStall(in)
  <2>1. ~InstrFires(in)
    BY <1>2, <1>6
  <2>2. id' = id /\ ex' = IF bubble THEN Bubble ELSE ex
    BY <1>1, <1>6, <2>1 DEF PipeClock
  <2>3. CASE bubble
    <3>1. ExGoes(in)
      BY <1>3, <1>6, <2>3 DEF ExGoes, Retires
    <3> QED BY <2>1, <2>2, <2>3, <3>1 DEF PipeFollows, ClearArrow
  <2>4. CASE ~bubble
    <3>1. LsuWait(in) \/ Frozen
      BY <1>6, <2>4 DEF DecodeStall
    <3>2. Frozen => ~ex.valid
      BY DEF Frozen, CoreInv, DebugInv, DebugWorkIsHalted
    <3>3. ~Retires(in)
      BY <3>1, <3>2 DEF Retires
    <3> QED BY <1>6, <2>1, <2>2, <2>4, <3>3 DEF PipeFollows, HeldByStall
  <2> QED BY <2>3, <2>4
<1>7. CASE ~Redirect(in) /\ ~Inject(in) /\ ~DecodeStall(in)
  <2>1. ~LsuWait(in) /\ ~bubble
    BY <1>7 DEF DecodeStall
  <2>2. ex' = id /\ id' = IF InstrFires(in) THEN Fetched(Head(ibuf)) ELSE Bubble
    BY <1>1, <1>7, <2>1 DEF PipeClock
  <2>3. ExGoes(in)
    BY <1>3, <1>7, <2>1 DEF ExGoes, Retires
  <2> QED BY <2>2, <2>3 DEF PipeFollows, AdvanceArrow
<1> QED BY <1>4, <1>5, <1>6, <1>7

\* On every edge fetch, buffer, pipeline and halt controller take an arrow drawn or
\* rest because they may take none, for every program and debugger, misfired
\* triggers included, and for every buffer that has room between empty and full.
THEOREM HartFollows ==
  ASSUME IbufDepth # 1
  PROVE  Spec => HartFollowsDiagrams
<1> DEFINE Move ==
             /\ \A in \in Inputs : WithInputs(in) => FetchFollows(in) /\ IbufFollows(in)
                                                       /\ PipeFollows(in)
             /\ HaltFollows
<1>1. CoreInv /\ [Next]_vars => [Move]_vars
  <2> SUFFICES ASSUME CoreInv, Next PROVE Move
    OBVIOUS
  <2>1. PICK in \in Inputs : Clock(in)
    BY DEF Next
  <2>2. HaltFollows
    BY <2>1, HaltFollowsStep
  <2>3. \A i \in Inputs : WithInputs(i) => FetchFollows(i) /\ IbufFollows(i) /\ PipeFollows(i)
    BY FetchFollowsStep, IbufFollowsStep, PipeFollowsStep
  <2> QED BY <2>2, <2>3
<1> QED BY <1>1, CoreInvariant, PTL DEF Spec, HartFollowsDiagrams
===============================================================================
