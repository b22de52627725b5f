----------------------------- MODULE SmokeProofs -----------------------------
(***************************************************************************)
(* Proofs about DebugSmoke, for registers of every length: what the client *)
(* is told is true, and it never fails.  The invariant follows the script  *)
(* by the number of times TCK has risen (Rises), the one request that may  *)
(* be under way by how far it has come (Phase), and the answer by the time *)
(* that is left until it is needed (Needed).                               *)
(***************************************************************************)
EXTENDS DebugSmoke, SequenceTheorems, TLAPS

\* What is assumed of the widths and constants, in a form the provers use.
LEMMA Widths ==
  /\ AddrBits \in Nat /\ AddrBits >= 1 /\ DataBits \in Nat /\ DataBits >= 2
  /\ Dmcontrol \in Bits(AddrBits) /\ Dmstatus \in Bits(AddrBits)
  /\ Dmcontrol # Dmstatus
  /\ Idcode \in Seq({0, 1}) /\ Idcode # << >> /\ DtmcsId \in Seq({0, 1})
BY DtmAssumption

-------------------------------------------------------------------------------
(* Types.                                                                  *)

IdBits == Len(Idcode)
DtmcsBits == Len(DtmcsId) + 4
DmiBits == DataBits + AddrBits + 2

DtmType ==
  [busy : BOOLEAN, stickyBusy : BOOLEAN, stickyError : BOOLEAN,
   addr : Bits(AddrBits), data : Bits(DataBits), resp : Bits(2),
   reqOp : Bits(2), reqAddr : Bits(AddrBits), reqData : Bits(DataBits),
   reqToggle : {0, 1}, meta : {0, 1}, sync : {0, 1}, seen : {0, 1}]
DmiType ==
  [valid : BOOLEAN, wait : BOOLEAN,
   op : Bits(2), addr : Bits(AddrBits), data : Bits(DataBits),
   rspAddr : Bits(AddrBits), rspData : Bits(DataBits), rspResp : Bits(2),
   rspToggle : {0, 1}, meta : {0, 1}, sync : {0, 1}, seen : {0, 1}]
DmType ==
  [active : BOOLEAN, valid : BOOLEAN, resp : Bits(2), data : Bits(DataBits)]

Registers == {"IDCODE", "DTMCS", "DMI", "BYPASS"}
Width(register) ==
  IF register = "IDCODE" THEN IdBits
  ELSE IF register = "DTMCS" THEN DtmcsBits
  ELSE IF register = "DMI" THEN DmiBits
  ELSE 1

\* From the capture to the update the register that is scanned is the one that
\* was captured.
ScanStates == {"SHIFT_DR", "EXIT1_DR", "PAUSE_DR", "EXIT2_DR", "UPDATE_DR"}

ChipType ==
  /\ now \in 0 .. 9 /\ tck \in {0, 1}
  /\ tap \in DOMAIN TapNext /\ ir \in Registers
  /\ irShift \in Bits(5)
  /\ tap \in ScanStates => drShift \in Bits(Width(ir))
  /\ dtm \in DtmType /\ dmi \in DmiType /\ dm \in DmType

-------------------------------------------------------------------------------
(* The request under way.  Phase 0 is none; in 1 to 3 the request's toggle *)
(* crosses to the system clock, in 4 it is presented, in 5 the Debug       *)
(* Module has taken it, in 6 to 8 the toggle of the response crosses back. *)

Phase(k) ==
  /\ dtm.busy <=> k # 0
  /\ dmi.meta = IF k = 1 THEN 1 - dtm.reqToggle ELSE dtm.reqToggle
  /\ dmi.sync = IF k \in {1, 2} THEN 1 - dtm.reqToggle ELSE dtm.reqToggle
  /\ dmi.seen = IF k \in {1, 2, 3} THEN 1 - dtm.reqToggle ELSE dtm.reqToggle
  /\ (dmi.valid <=> k = 4) /\ (dmi.wait <=> k = 5) /\ (dm.valid <=> k = 5)
  /\ dtm.meta = IF k = 6 THEN 1 - dmi.rspToggle ELSE dmi.rspToggle
  /\ dtm.sync = IF k \in {6, 7} THEN 1 - dmi.rspToggle ELSE dmi.rspToggle
  /\ dtm.seen = IF k \in {6, 7, 8} THEN 1 - dmi.rspToggle ELSE dmi.rspToggle

\* Commands until the next edges of the system clock and of TCK have passed.
ToClk == IF now < 5 THEN 5 - now ELSE 15 - now
ToRise == IF part < 3 THEN 3 - part ELSE 7 - part

\* Commands until the request under way is answered, at most.
Needed(k) ==
  IF k = 0 THEN 0
  ELSE IF k < 6 THEN 10 * (5 - k) + ToClk + 12
  ELSE 4 * (8 - k) + ToRise

\* The request under way, or the last one, is r; before it the client's were sent.
GoodData(r, data) == r = ReadStatus => data[1] = 1 /\ data[2] = 1
Under(k, r, before) ==
  /\ dtm.reqOp = r.op /\ dtm.reqAddr = r.addr /\ dtm.reqData = r.data
  /\ k \in {1, 2, 3, 4} => served = before
  /\ k \notin {1, 2, 3, 4} => served = Append(before, r)
  /\ k \in {4, 5} => dmi.op = r.op /\ dmi.addr = r.addr /\ dmi.data = r.data
  /\ k = 5 => dm.resp = Success /\ GoodData(r, dm.data)
  /\ k \in {6, 7, 8} =>
       dmi.rspResp = Success /\ dmi.rspAddr = r.addr /\ GoodData(r, dmi.rspData)
  /\ k = 0 => dtm.resp = Success /\ dtm.addr = r.addr /\ GoodData(r, dtm.data)
  /\ r = ReadStatus \/ k \notin {1, 2, 3, 4} => dm.active

-------------------------------------------------------------------------------
(* The script.                                                             *)

\* The TCK cycles before each part of it: a SetIr takes 11, a ScanDr five more
\* than it has bits.
Setup1 == IdBits + 12
Dtmcs1 == IdBits + 23
First == IdBits + DtmcsBits + 28
Second == First + 2 * DmiBits + 37
Ends == Second + 2 * DmiBits + 37

\* The parts of a transfer that starts after b cycles.
Sent(b) == b + DmiBits + 16
Fetched(b) == b + DmiBits + 32

\* How often TCK has risen, and the commands sent.
Rises == IF part > 2 THEN at ELSE at - 1
Ticks == 4 * at + part

\* Ones that lead from a state to reset.
ToReset ==
  [TEST_LOGIC_RESET |-> 0, SELECT_IR_SCAN |-> 1, SELECT_DR_SCAN |-> 2,
   RUN_TEST_IDLE |-> 3, UPDATE_DR |-> 3, UPDATE_IR |-> 3,
   EXIT1_DR |-> 4, EXIT2_DR |-> 4, EXIT1_IR |-> 4, EXIT2_IR |-> 4,
   CAPTURE_DR |-> 5, SHIFT_DR |-> 5, PAUSE_DR |-> 5,
   CAPTURE_IR |-> 5, SHIFT_IR |-> 5, PAUSE_IR |-> 5]

InReset ==
  /\ Rises < 7 => ToReset[tap] + Rises <= 5 \/ tap = "TEST_LOGIC_RESET"
  /\ Rises = 7 => tap = "RUN_TEST_IDLE" /\ ir = "IDCODE"
  /\ at <= 7 => dataOut = << >>

\* The TAP in a SetIr, and in a ScanDr of n bits, after q rises.
IrState(q) ==
  IF q \in {0, 11} THEN "RUN_TEST_IDLE"
  ELSE IF q = 1 THEN "SELECT_DR_SCAN"
  ELSE IF q = 2 THEN "SELECT_IR_SCAN"
  ELSE IF q = 3 THEN "CAPTURE_IR"
  ELSE IF q = 9 THEN "EXIT1_IR"
  ELSE IF q = 10 THEN "UPDATE_IR"
  ELSE "SHIFT_IR"
DrState(q, n) ==
  IF q \in {0, n + 5} THEN "RUN_TEST_IDLE"
  ELSE IF q = 1 THEN "SELECT_DR_SCAN"
  ELSE IF q = 2 THEN "CAPTURE_DR"
  ELSE IF q = n + 3 THEN "EXIT1_DR"
  ELSE IF q = n + 4 THEN "UPDATE_DR"
  ELSE "SHIFT_DR"

\* The bits still to come out and those that have gone in, after s shifts.
Mixed(cap, bits, n, s) ==
  [i \in 1 .. n |-> IF i + s <= n THEN cap[i + s] ELSE bits[i + s - n]]
Shifts(b, n) == IF Rises - b - 3 <= n THEN Rises - b - 3 ELSE n
TakenBits(b, n) ==
  IF at <= b + 3 THEN 0
  ELSE IF at > b + n + 3 THEN n
  ELSE IF part = 4 THEN at - b - 3 ELSE at - b - 4

InSetIr(b, register) ==
  /\ b <= Rises /\ Rises <= b + 11 => tap = IrState(Rises - b)
  /\ b + 4 <= Rises /\ Rises <= b + 10 =>
       irShift = Mixed(<<1, 0, 0, 0, 0>>, IrBits[register], 5, Shifts(b + 1, 5))
  /\ Rises = b + 11 => ir = register
  /\ b < at /\ at <= b + 11 => dataOut = << >>

\* A scan that captured cap, in the part of the script after b cycles.
ScanData(cap, b, n, bits) ==
  /\ b + 3 <= Rises /\ Rises <= b + n + 4 =>
       drShift = Mixed(cap, bits, n, Shifts(b, n))
  /\ b + 4 <= at /\ at <= b + n + 3 /\ part < 4 => tdo = cap[at - b - 3]
  /\ dataOut = SubSeq(cap, 1, TakenBits(b, n))

InScan(b, n, register, bits, Good) ==
  /\ b <= Rises /\ Rises <= b + n + 5 => tap = DrState(Rises - b, n) /\ ir = register
  /\ b < at /\ Rises < b + 3 => dataOut = << >>
  /\ b + 3 <= Rises /\ at <= b + n + 5 =>
       \E cap \in Good : ScanData(cap, b, n, bits)

\* What has to be captured for the scan to be as expected.
GoodDtmcs ==
  {c \in Bits(DtmcsBits) : \A i \in 1 .. Len(DtmcsId) : c[i] = DtmcsId[i]}
GoodAnswer(r) ==
  {Success \o data \o r.addr : data \in {d \in Bits(DataBits) : GoodData(r, d)}}

InIdle(b) ==
  /\ b <= Rises /\ Rises <= b + 16 => tap = "RUN_TEST_IDLE" /\ ir = "DMI"
  /\ b < at /\ at <= b + 16 => dataOut = << >>

InTransfer(b, r) ==
  /\ InSetIr(b, "DMI")
  /\ InScan(b + 11, DmiBits, "DMI", DmiPacket(r), Bits(DmiBits))
  /\ InIdle(Sent(b))
  /\ InScan(Fetched(b), DmiBits, "DMI", Zeros(DmiBits), GoodAnswer(r))

Checks ==
  IF at <= Setup1 THEN 0
  ELSE IF at <= First THEN 1
  ELSE IF at <= Sent(First) THEN 2
  ELSE IF at <= Second THEN 3
  ELSE IF at <= Sent(Second) THEN 4
  ELSE 5

\* An answer to what was sent by the time TCK had risen b times is there in time.
Timely(k, b) == k = 0 \/ Needed(k) + Ticks <= 4 * b + 65

\* The request: none yet, the first, the second.
InTime(k) ==
  /\ 7 <= Rises /\ Rises < Sent(First) => Timely(k, 7)
  /\ Rises < Sent(First) => served = << >>
  /\ Sent(First) <= Rises /\ Rises < Sent(Second) =>
       Timely(k, Sent(First)) /\ Under(k, Activate, << >>)
  /\ Sent(Second) <= Rises =>
       Timely(k, Sent(Second)) /\ Under(k, ReadStatus, <<Activate>>)
  /\ at \in {Sent(First), Sent(Second)} /\ part > 2 => k \in 1 .. part - 2

InScript(k) ==
  /\ at \in 1 .. Ends /\ part \in 1 .. 4
  /\ part = 2 \/ (part = 1 /\ at # 1) => tck = 0
  /\ part \in {3, 4} => tck = 1
  /\ InReset
  /\ InScan(7, IdBits, "IDCODE", Zeros(IdBits), {Idcode})
  /\ InSetIr(Setup1, "DTMCS")
  /\ InScan(Dtmcs1, DtmcsBits, "DTMCS", Zeros(DtmcsBits), GoodDtmcs)
  /\ InTransfer(First, Activate) /\ InTransfer(Second, ReadStatus)
  /\ passed = Checks
  /\ InTime(k)

Told ==
  /\ passed = 4 => served = <<Activate>>
  /\ passed = 6 => served = Requests

\* The processes.
Processes ==
  /\ port \in {"own", "other"}
  /\ client \in {"none", "running", "passed", "cut"}
  /\ client = "running" => step = "smoke"
  /\ client = "passed" => passed = 6
  /\ step = "wait" => client = "passed"
  /\ step \in {"connect", "smoke", "port", "marker", "gdb", "wait"} => result = "running"
  /\ step \in {"port", "marker", "gdb", "stop openocd"} => harness = "gdb"
  /\ port = "own" /\ sim = "none" => server = "down"
  /\ sim = "exit 0" => port = "own"
  /\ harness = "rbb" /\ result = "pass" /\ sim # "none" => passed = 6 /\ port = "own"

SmokeInv ==
  /\ ChipType /\ Processes
  /\ client # "running" => Told
  /\ \E k \in 0 .. 8 : Phase(k) /\ (client = "running" => InScript(k))

-------------------------------------------------------------------------------
(* Bits and the sequences made of them.                                    *)

LEMMA BitsAreSeqs ==
  ASSUME NEW n \in Nat, NEW u \in Bits(n)
  PROVE  u \in Seq({0, 1}) /\ Len(u) = n /\ DOMAIN u = 1 .. n
BY DEF Bits

LEMMA SeqsAreBits ==
  ASSUME NEW u \in Seq({0, 1})
  PROVE  Len(u) \in Nat /\ u \in Bits(Len(u))
BY DEF Bits

\* Vectors that agree bit by bit are the same.
LEMMA SameBits ==
  ASSUME NEW n \in Nat, NEW u \in Bits(n), NEW v \in Bits(n),
         \A i \in 1 .. n : u[i] = v[i]
  PROVE  u = v
BY DEF Bits

LEMMA ZeroBits == \A n \in Nat : Zeros(n) \in Bits(n)
BY DEF Zeros, Bits

LEMMA PairBits ==
  /\ Nop \in Bits(2) /\ Read \in Bits(2) /\ Write \in Bits(2)
  /\ Success \in Bits(2) /\ Failed \in Bits(2) /\ Busy \in Bits(2)
BY DEF Nop, Read, Write, Success, Failed, Busy, Bits

\* A vector joined of two holds the bits of both, in their places.
LEMMA JoinedBits ==
  ASSUME NEW m \in Nat, NEW n \in Nat, NEW u \in Bits(m), NEW v \in Bits(n)
  PROVE  /\ u \o v \in Bits(m + n)
         /\ \A i \in 1 .. m : (u \o v)[i] = u[i]
         /\ \A i \in 1 .. n : (u \o v)[m + i] = v[i]
<1>1. /\ u \in Seq({0, 1}) /\ v \in Seq({0, 1}) /\ Len(u) = m /\ Len(v) = n
  BY BitsAreSeqs
<1>2. /\ u \o v \in Seq({0, 1}) /\ Len(u \o v) = m + n
      /\ \A i \in 1 .. m + n : (u \o v)[i] = IF i <= m THEN u[i] ELSE v[i - m]
  BY <1>1
<1>3. u \o v \in Bits(m + n)
  BY <1>2, SeqsAreBits
<1> QED BY <1>2, <1>3

\* A part of a vector holds the bits of that part.
LEMMA PartOfBits ==
  ASSUME NEW n \in Nat, NEW u \in Bits(n), NEW a \in 1 .. n, NEW b \in a - 1 .. n
  PROVE  /\ SubSeq(u, a, b) \in Bits(b - a + 1)
         /\ \A i \in 1 .. b - a + 1 : SubSeq(u, a, b)[i] = u[a + i - 1]
<1>1. u \in Seq({0, 1}) /\ Len(u) = n
  BY BitsAreSeqs
<1>2. SubSeq(u, a, b) = [i \in 1 .. b - a + 1 |-> u[a + i - 1]]
  BY <1>1, SubSeqProperties
<1>3. \A i \in 1 .. b - a + 1 : u[a + i - 1] \in {0, 1}
  BY DEF Bits
<1> QED BY <1>2, <1>3 DEF Bits

\* A shift moves every bit one place down and lets a new one in at the top.
LEMMA ShiftedBits ==
  ASSUME NEW n \in Nat \ {0}, NEW u \in Bits(n), NEW x \in {0, 1}
  PROVE  /\ Shifted(u, x) \in Bits(n)
         /\ \A i \in 1 .. n : Shifted(u, x)[i] = IF i < n THEN u[i + 1] ELSE x
<1>1. u \in Seq({0, 1}) /\ Len(u) = n
  BY BitsAreSeqs
<1>2. /\ Tail(u) \in Seq({0, 1}) /\ Len(Tail(u)) = n - 1
      /\ \A i \in 1 .. n - 1 : Tail(u)[i] = u[i + 1]
  BY <1>1
<1>3. /\ Shifted(u, x) \in Seq({0, 1}) /\ Len(Shifted(u, x)) = n
      /\ \A i \in 1 .. n : Shifted(u, x)[i] = IF i < n THEN Tail(u)[i] ELSE x
  BY <1>2 DEF Shifted
<1> QED BY <1>2, <1>3, SeqsAreBits

LEMMA MixedBits ==
  ASSUME NEW n \in Nat \ {0}, NEW cap \in Bits(n), NEW bits \in Bits(n),
         NEW s \in 0 .. n
  PROVE  Mixed(cap, bits, n, s) \in Bits(n)
<1>1. \A i \in 1 .. n :
        (IF i + s <= n THEN cap[i + s] ELSE bits[i + s - n]) \in {0, 1}
  BY DEF Bits
<1> QED BY <1>1 DEF Mixed, Bits

\* Before the first shift a scanned register holds what it captured,
LEMMA NothingMixed ==
  ASSUME NEW n \in Nat \ {0}, NEW cap \in Bits(n), NEW bits \in Bits(n)
  PROVE  Mixed(cap, bits, n, 0) = cap
BY DEF Mixed, Bits

\* after the last one what was sent to it,
LEMMA AllMixed ==
  ASSUME NEW n \in Nat \ {0}, NEW cap \in Bits(n), NEW bits \in Bits(n)
  PROVE  Mixed(cap, bits, n, n) = bits
BY DEF Mixed, Bits

\* and each shift between takes in the next bit of that.
LEMMA MixesOn ==
  ASSUME NEW n \in Nat \ {0}, NEW cap \in Bits(n), NEW bits \in Bits(n),
         NEW s \in 0 .. n - 1
  PROVE  Shifted(Mixed(cap, bits, n, s), bits[s + 1]) = Mixed(cap, bits, n, s + 1)
<1> DEFINE u == Mixed(cap, bits, n, s)
           v == Mixed(cap, bits, n, s + 1)
<1>0. s \in 0 .. n /\ s + 1 \in 0 .. n
  OBVIOUS
<1>1. u \in Bits(n) /\ v \in Bits(n)
  BY <1>0, MixedBits
<1>2. bits[s + 1] \in {0, 1}
  BY DEF Bits
<1>3. /\ \A i \in 1 .. n : u[i] = IF i + s <= n THEN cap[i + s] ELSE bits[i + s - n]
      /\ \A i \in 1 .. n :
           v[i] = IF i + s + 1 <= n THEN cap[i + s + 1] ELSE bits[i + s + 1 - n]
  BY DEF Mixed
<1> HIDE DEF u, v
<1>4. /\ Shifted(u, bits[s + 1]) \in Bits(n)
      /\ \A i \in 1 .. n :
           Shifted(u, bits[s + 1])[i] = IF i < n THEN u[i + 1] ELSE bits[s + 1]
  BY <1>1, <1>2, ShiftedBits
<1>5. ASSUME NEW i \in 1 .. n
      PROVE  Shifted(u, bits[s + 1])[i] = v[i]
  <2>1. CASE i < n
    <3>1. u[i + 1] = IF i + 1 + s <= n THEN cap[i + 1 + s] ELSE bits[i + 1 + s - n]
      BY <1>3, <2>1
    <3>2. i + 1 + s = i + s + 1
      OBVIOUS
    <3> QED BY <1>3, <1>4, <2>1, <3>1, <3>2
  <2>2. CASE i = n
    <3>1. ~(i + s + 1 <= n) /\ i + s + 1 - n = s + 1
      BY <2>2
    <3> QED BY <1>3, <1>4, <2>2, <3>1
  <2> QED BY <2>1, <2>2
<1>6. Shifted(u, bits[s + 1]) = v
  BY <1>1, <1>4, <1>5, SameBits
<1> QED BY <1>6 DEF u, v

\* The three fields of the register of DMI.
LEMMA PacketBits ==
  ASSUME NEW o \in Bits(2), NEW d \in Bits(DataBits), NEW a \in Bits(AddrBits)
  PROVE  /\ o \o d \o a \in Bits(DmiBits)
         /\ SubSeq(o \o d \o a, 1, 2) = o
         /\ SubSeq(o \o d \o a, 3, DataBits + 2) = d
         /\ SubSeq(o \o d \o a, DataBits + 3, DataBits + AddrBits + 2) = a
<1> DEFINE u == o \o d
           p == u \o a
<1>0. /\ DataBits \in Nat /\ AddrBits \in Nat /\ 2 \in Nat
      /\ DataBits >= 2 /\ AddrBits >= 1
  BY Widths
<1>1. /\ u \in Bits(2 + DataBits)
      /\ \A i \in 1 .. 2 : u[i] = o[i]
      /\ \A i \in 1 .. DataBits : u[2 + i] = d[i]
  BY <1>0, JoinedBits
<1> HIDE DEF u
<1>2. /\ p \in Bits(DmiBits)
      /\ \A i \in 1 .. 2 + DataBits : p[i] = u[i]
      /\ \A i \in 1 .. AddrBits : p[2 + DataBits + i] = a[i]
  <2>1. 2 + DataBits \in Nat /\ (2 + DataBits) + AddrBits = DmiBits
    BY <1>0 DEF DmiBits
  <2> QED BY <1>0, <1>1, <2>1, JoinedBits
<1>n. DmiBits \in Nat /\ DmiBits = DataBits + AddrBits + 2
  BY <1>0 DEF DmiBits
<1> HIDE DEF p
<1>3. SubSeq(p, 1, 2) = o
  <2>1. /\ SubSeq(p, 1, 2) \in Bits(2)
        /\ \A i \in 1 .. 2 : SubSeq(p, 1, 2)[i] = p[i]
    <3>1. 1 \in 1 .. DmiBits /\ 2 \in 1 - 1 .. DmiBits /\ 2 - 1 + 1 = 2
      BY <1>0, <1>n
    <3> QED BY <1>2, <1>n, <3>1, PartOfBits
  <2>2. \A i \in 1 .. 2 : SubSeq(p, 1, 2)[i] = o[i]
    BY <1>0, <1>1, <1>2, <2>1
  <2> QED BY <2>1, <2>2, SameBits
<1>4. SubSeq(p, 3, DataBits + 2) = d
  <2> DEFINE v == SubSeq(p, 3, DataBits + 2)
  <2>1. v \in Bits(DataBits) /\ \A i \in 1 .. DataBits : v[i] = p[2 + i]
    <3>1. /\ 3 \in 1 .. DmiBits /\ DataBits + 2 \in 3 - 1 .. DmiBits
          /\ (DataBits + 2) - 3 + 1 = DataBits /\ \A i \in Int : 3 + i - 1 = 2 + i
      BY <1>0, <1>n
    <3> QED BY <1>2, <1>n, <3>1, PartOfBits
  <2> HIDE DEF v
  <2>2. \A i \in 1 .. DataBits : v[i] = d[i]
    <3>1. \A i \in 1 .. DataBits : 2 + i \in 1 .. 2 + DataBits
      BY <1>0
    <3> QED BY <1>1, <1>2, <2>1, <3>1
  <2>3. v = d
    BY <1>0, <2>1, <2>2, SameBits
  <2> QED BY <2>3 DEF v
<1>5. SubSeq(p, DataBits + 3, DataBits + AddrBits + 2) = a
  <2> DEFINE v == SubSeq(p, DataBits + 3, DataBits + AddrBits + 2)
  <2>1. v \in Bits(AddrBits) /\ \A i \in 1 .. AddrBits : v[i] = p[2 + DataBits + i]
    <3>1. PICK x \in 1 .. DmiBits : x = DataBits + 3
      BY <1>0, <1>n
    <3>2. PICK y \in x - 1 .. DmiBits : y = DataBits + AddrBits + 2
      BY <1>0, <1>n, <3>1
    <3>3. /\ SubSeq(p, x, y) \in Bits(y - x + 1)
          /\ \A i \in 1 .. y - x + 1 : SubSeq(p, x, y)[i] = p[x + i - 1]
      BY <1>2, <1>n, PartOfBits
    <3>4. y - x + 1 = AddrBits
      BY <1>0, <3>1, <3>2
    <3>5. v = SubSeq(p, x, y)
      BY <3>1, <3>2
    <3> HIDE DEF v
    <3>6. v \in Bits(AddrBits) /\ \A i \in 1 .. AddrBits : v[i] = p[x + i - 1]
      BY <3>3, <3>4, <3>5
    <3>7. \A i \in 1 .. AddrBits : x + i - 1 = 2 + DataBits + i
      BY <1>0, <3>1
    <3> QED BY <3>6, <3>7
  <2> HIDE DEF v
  <2>2. \A i \in 1 .. AddrBits : v[i] = a[i]
    BY <1>2, <2>1
  <2>3. v = a
    BY <1>0, <2>1, <2>2, SameBits
  <2> QED BY <2>3 DEF v
<1>6. p = o \o d \o a
  BY DEF p, u
<1> QED BY <1>2, <1>3, <1>4, <1>5, <1>6

-------------------------------------------------------------------------------
(* The TCK cycles of the script.                                           *)

Checked == {"none", "idcode", "dtmcs", "dmcontrol", "dmstatus", "request"}
TckCycle == [tms : {0, 1}, tdi : {0, 1}, keep : BOOLEAN, check : Checked]
TckCycles(n) == [1 .. n -> TckCycle]

\* After b cycles the script s goes on with the n cycles of u.
Holds(s, b, n, u) == \A i \in 1 .. n : s[b + i] = u[i]

\* What the cycles of each part are, in the script after b cycles.
ResetPart(s) ==
  \A q \in 1 .. 7 :
    /\ s[q].tms = IF q < 7 THEN 1 ELSE 0
    /\ s[q].tdi \in {0, 1} /\ ~s[q].keep /\ s[q].check = "none"
IrPart(s, b, register) ==
  \A q \in 1 .. 11 :
    /\ s[b + q].tms = IF q \in {1, 2, 9, 10} THEN 1 ELSE 0
    /\ s[b + q].tdi = IF q \in 5 .. 9 THEN IrBits[register][q - 4] ELSE 0
    /\ ~s[b + q].keep /\ s[b + q].check = "none"
DrPart(s, b, n, bits, check) ==
  \A q \in 1 .. n + 5 :
    /\ s[b + q].tms = IF q \in {1, n + 3, n + 4} THEN 1 ELSE 0
    /\ s[b + q].tdi = IF q \in 4 .. n + 3 THEN bits[q - 3] ELSE 0
    /\ s[b + q].keep <=> q \in 4 .. n + 3
    /\ s[b + q].check = IF q = n + 5 THEN check ELSE "none"
IdlePart(s, b) ==
  \A q \in 1 .. 16 :
    /\ s[b + q].tms = 0 /\ s[b + q].tdi = 0
    /\ ~s[b + q].keep /\ s[b + q].check = "none"

\* A script joined of two plays the first and then the second.
LEMMA JoinedCycles ==
  ASSUME NEW m \in Nat, NEW n \in Nat, NEW u \in TckCycles(m), NEW v \in TckCycles(n)
  PROVE  /\ u \o v \in TckCycles(m + n)
         /\ \A i \in 1 .. m : (u \o v)[i] = u[i]
         /\ \A i \in 1 .. n : (u \o v)[m + i] = v[i]
<1> DEFINE C == TckCycle
<1>1. u \in [1 .. m -> C] /\ v \in [1 .. n -> C]
  BY DEF TckCycles
<1> SUFFICES /\ u \o v \in [1 .. m + n -> C]
             /\ \A i \in 1 .. m : (u \o v)[i] = u[i]
             /\ \A i \in 1 .. n : (u \o v)[m + i] = v[i]
  BY DEF TckCycles
<1> HIDE DEF C
<1>2. u \in Seq(C) /\ v \in Seq(C) /\ Len(u) = m /\ Len(v) = n
  BY <1>1
<1>3. /\ u \o v \in Seq(C) /\ Len(u \o v) = m + n
      /\ \A i \in 1 .. m + n : (u \o v)[i] = IF i <= m THEN u[i] ELSE v[i - m]
  BY <1>2
<1>4. u \o v \in [1 .. m + n -> C]
  <2>1. PICK w \in Seq(C) : w = u \o v
    BY <1>3
  <2>2. Len(w) = m + n
    BY <1>3, <2>1
  <2>3. w \in [1 .. m + n -> C]
    BY <2>2
  <2> QED BY <2>1, <2>3
<1> QED BY <1>3, <1>4

LEMMA CyclesLength ==
  ASSUME NEW n \in Nat, NEW u \in TckCycles(n)
  PROVE  Len(u) = n
BY DEF TckCycles

\* A script that holds a joined one at some place holds both halves, one after
\* the other.
LEMMA HoldsBoth ==
  ASSUME NEW s, NEW b \in Nat, NEW m \in Nat, NEW n \in Nat,
         NEW u \in TckCycles(m), NEW v \in TckCycles(n), Holds(s, b, m + n, u \o v)
  PROVE  Holds(s, b, m, u) /\ Holds(s, b + m, n, v)
<1>1. /\ \A i \in 1 .. m : (u \o v)[i] = u[i]
      /\ \A i \in 1 .. n : (u \o v)[m + i] = v[i]
  BY JoinedCycles
<1>2. \A i \in 1 .. m + n : s[b + i] = (u \o v)[i]
  BY DEF Holds
<1>3. ASSUME NEW i \in 1 .. m
      PROVE  s[b + i] = u[i]
  <2>1. i \in 1 .. m + n
    OBVIOUS
  <2> QED BY <1>1, <1>2, <2>1
<1>4. ASSUME NEW i \in 1 .. n
      PROVE  s[(b + m) + i] = v[i]
  <2>1. m + i \in 1 .. m + n /\ (b + m) + i = b + (m + i)
    OBVIOUS
  <2>2. s[b + (m + i)] = (u \o v)[m + i]
    BY <1>2, <2>1
  <2> QED BY <1>1, <2>1, <2>2
<1> QED BY <1>3, <1>4 DEF Holds

LEMMA CyclesAre ==
  ASSUME NEW n \in Nat, NEW tms \in {0, 1}
  PROVE  /\ Cycles(n, tms) \in TckCycles(n)
         /\ \A i \in 1 .. n : Cycles(n, tms)[i] = Cycle(tms, 0)
<1>1. Cycle(tms, 0) \in TckCycle
  BY DEF Cycle, TckCycle, Checked
<1> DEFINE c == Cycle(tms, 0)
           C == TckCycle
<1>2. c \in C /\ Cycles(n, tms) = [i \in 1 .. n |-> c]
  BY <1>1 DEF Cycles
<1> HIDE DEF c, C
<1>3. /\ Cycles(n, tms) \in [1 .. n -> C]
      /\ \A i \in 1 .. n : Cycles(n, tms)[i] = c
  BY <1>2
<1> QED BY <1>3 DEF c, C, TckCycles

\* A shift sends one bit with each cycle and raises TMS on the last.
LEMMA ShiftIs ==
  ASSUME NEW n \in Nat, NEW bits \in Bits(n), NEW keep \in BOOLEAN
  PROVE  /\ Shift(bits, keep) \in TckCycles(n)
         /\ \A i \in 1 .. n :
              Shift(bits, keep)[i] =
                [tms |-> IF i = n THEN 1 ELSE 0, tdi |-> bits[i],
                 keep |-> keep, check |-> "none"]
<1> DEFINE c(i) == [tms |-> IF i = n THEN 1 ELSE 0, tdi |-> bits[i],
                    keep |-> keep, check |-> "none"]
           C == TckCycle
<1>1. Len(bits) = n
  BY BitsAreSeqs
<1>2. \A i \in 1 .. n : c(i) \in C
  BY DEF TckCycle, Checked, Bits
<1>3. Shift(bits, keep) = [i \in 1 .. n |-> c(i)]
  <2>1. \A i \in 1 .. n :
          [Cycle(IF i = n THEN 1 ELSE 0, bits[i]) EXCEPT !.keep = keep] = c(i)
    BY DEF Cycle
  <2> HIDE DEF c
  <2> QED BY <1>1, <2>1 DEF Shift
<1> HIDE DEF c, C
<1>4. /\ Shift(bits, keep) \in [1 .. n -> C]
      /\ \A i \in 1 .. n : Shift(bits, keep)[i] = c(i)
  BY <1>2, <1>3
<1> QED BY <1>4 DEF c, C, TckCycles

LEMMA LastCycle ==
  ASSUME NEW check \in Checked
  PROVE  LET last == <<[Cycle(0, 0) EXCEPT !.check = check]>> IN
         /\ last \in TckCycles(1)
         /\ last[1].tms = 0 /\ last[1].tdi = 0
         /\ ~last[1].keep /\ last[1].check = check
<1> DEFINE c == [Cycle(0, 0) EXCEPT !.check = check]
           C == TckCycle
<1>1. Cycle(0, 0) \in TckCycle
  BY DEF Cycle, TckCycle, Checked
<1>2. c \in C /\ c.tms = 0 /\ c.tdi = 0 /\ ~c.keep /\ c.check = check
  BY <1>1 DEF TckCycle, Cycle
<1> HIDE DEF c, C
<1>3. <<c>> \in [1 .. 1 -> C] /\ <<c>>[1] = c
  BY <1>2
<1> QED BY <1>2, <1>3 DEF c, C, TckCycles

\* The cycles of reset_to_idle (wasp1_rbb_smoke.py:60),
LEMMA ResetCycles ==
  /\ ResetToIdle \in TckCycles(7)
  /\ \A s : Holds(s, 0, 7, ResetToIdle) => ResetPart(s)
<1> DEFINE u == Cycles(6, 1)
           v == Cycles(1, 0)
<1>1. u \in TckCycles(6) /\ \A i \in 1 .. 6 : u[i] = Cycle(1, 0)
  BY CyclesAre
<1>2. v \in TckCycles(1) /\ \A i \in 1 .. 1 : v[i] = Cycle(0, 0)
  BY CyclesAre
<1>3. ResetToIdle = u \o v
  BY DEF ResetToIdle
<1> HIDE DEF u, v
<1>4. ResetToIdle \in TckCycles(6 + 1)
  BY <1>1, <1>2, <1>3, JoinedCycles
<1>5. ASSUME NEW s, Holds(s, 0, 7, ResetToIdle)
      PROVE  ResetPart(s)
  <2>1. Holds(s, 0, 6 + 1, u \o v)
    BY <1>3, <1>5
  <2>2. Holds(s, 0, 6, u) /\ Holds(s, 0 + 6, 1, v)
    BY <1>1, <1>2, <2>1, HoldsBoth
  <2>3. (\A i \in 1 .. 6 : s[i] = Cycle(1, 0)) /\ s[7] = Cycle(0, 0)
    BY <1>1, <1>2, <2>2 DEF Holds
  <2> QED BY <2>3 DEF ResetPart, Cycle
<1> QED BY <1>4, <1>5

\* of idle (wasp1_rbb_smoke.py:87),
LEMMA IdleCycles ==
  /\ Idle(16) \in TckCycles(16)
  /\ \A s : \A b \in Nat : Holds(s, b, 16, Idle(16)) => IdlePart(s, b)
<1>1. Idle(16) \in TckCycles(16) /\ \A i \in 1 .. 16 : Idle(16)[i] = Cycle(0, 0)
  BY CyclesAre DEF Idle
<1>2. ASSUME NEW s, NEW b \in Nat, Holds(s, b, 16, Idle(16))
      PROVE  IdlePart(s, b)
  <2>1. \A i \in 1 .. 16 : s[b + i] = Cycle(0, 0)
    BY <1>1, <1>2 DEF Holds
  <2> QED BY <2>1 DEF IdlePart, Cycle
<1> QED BY <1>1, <1>2

LEMMA IrRegisters ==
  \A register \in {"DTMCS", "DMI"} : IrBits[register] \in Bits(5)
<1>1. IrBits["DTMCS"] = <<0, 0, 0, 0, 1>> /\ IrBits["DMI"] = <<1, 0, 0, 0, 1>>
  BY DEF IrBits
<1>2. <<0, 0, 0, 0, 1>> \in Bits(5) /\ <<1, 0, 0, 0, 1>> \in Bits(5)
  BY DEF Bits
<1> QED BY <1>1, <1>2

\* of set_ir (wasp1_rbb_smoke.py:65),
LEMMA IrCycles ==
  ASSUME NEW register \in {"DTMCS", "DMI"}
  PROVE  /\ SetIr(register) \in TckCycles(11)
         /\ \A s : \A b \in Nat :
              Holds(s, b, 11, SetIr(register)) => IrPart(s, b, register)
<1> DEFINE bits == IrBits[register]
           ones == Cycles(2, 1)
           zeros == Cycles(2, 0)
           shift == Shift(bits, FALSE)
           one == Cycles(1, 1)
           zero == Cycles(1, 0)
           shifted(i) == [tms |-> IF i = 5 THEN 1 ELSE 0, tdi |-> bits[i],
                          keep |-> FALSE, check |-> "none"]
<1>0. bits \in Bits(5)
  BY IrRegisters
<1>6. SetIr(register) = (((ones \o zeros) \o shift) \o one) \o zero
  BY DEF SetIr
<1>1. ones \in TckCycles(2) /\ \A i \in 1 .. 2 : ones[i] = Cycle(1, 0)
  BY CyclesAre
<1>2. zeros \in TckCycles(2) /\ \A i \in 1 .. 2 : zeros[i] = Cycle(0, 0)
  BY CyclesAre
<1> HIDE DEF bits
<1>3. shift \in TckCycles(5)
  BY <1>0, ShiftIs
<1>13. \A i \in 1 .. 5 : shift[i] = shifted(i)
  BY <1>0, ShiftIs
<1>4. one \in TckCycles(1) /\ \A i \in 1 .. 1 : one[i] = Cycle(1, 0)
  BY CyclesAre
<1>5. zero \in TckCycles(1) /\ \A i \in 1 .. 1 : zero[i] = Cycle(0, 0)
  BY CyclesAre
<1> HIDE DEF ones, zeros, shift, one, zero
<1> DEFINE u2 == ones \o zeros
           u3 == u2 \o shift
           u4 == u3 \o one
           u5 == u4 \o zero
<1>7. u2 \in TckCycles(2 + 2)
  BY <1>1, <1>2, JoinedCycles
<1> HIDE DEF u2
<1>8. u3 \in TckCycles(4 + 5)
  BY <1>3, <1>7, JoinedCycles
<1> HIDE DEF u3
<1>9. u4 \in TckCycles(9 + 1)
  BY <1>4, <1>8, JoinedCycles
<1> HIDE DEF u4
<1>10. u5 \in TckCycles(10 + 1)
  BY <1>5, <1>9, JoinedCycles
<1>11. ASSUME NEW s, NEW b \in Nat, Holds(s, b, 10 + 1, u5)
       PROVE  IrPart(s, b, register)
  <2>1. Holds(s, b, 9 + 1, u4) /\ Holds(s, b + 10, 1, zero)
    BY <1>11, <1>5, <1>9, HoldsBoth
  <2>2. Holds(s, b, 4 + 5, u3) /\ Holds(s, b + 9, 1, one)
    BY <2>1, <1>4, <1>8, HoldsBoth DEF u4
  <2>3. Holds(s, b, 2 + 2, u2) /\ Holds(s, b + 4, 5, shift)
    BY <2>2, <1>3, <1>7, HoldsBoth DEF u3
  <2>4. Holds(s, b, 2, ones) /\ Holds(s, b + 2, 2, zeros)
    BY <2>3, <1>1, <1>2, HoldsBoth DEF u2
  <2>5. s[b + 1] = Cycle(1, 0) /\ s[b + 2] = Cycle(1, 0)
    BY <2>4, <1>1 DEF Holds
  <2>6. s[b + 3] = Cycle(0, 0) /\ s[b + 4] = Cycle(0, 0)
    <3>1. s[(b + 2) + 1] = Cycle(0, 0) /\ s[(b + 2) + 2] = Cycle(0, 0)
      BY <2>4, <1>2 DEF Holds
    <3> QED BY <3>1
  <2>7. \A q \in 5 .. 9 : s[b + q] = shifted(q - 4)
    <3>1. \A i \in 1 .. 5 : s[(b + 4) + i] = shifted(i)
      BY <2>3, <1>13 DEF Holds
    <3>2. \A q \in 5 .. 9 : q - 4 \in 1 .. 5 /\ (b + 4) + (q - 4) = b + q
      OBVIOUS
    <3> HIDE DEF shifted
    <3> QED BY <3>1, <3>2
  <2>8. s[b + 10] = Cycle(1, 0) /\ s[b + 11] = Cycle(0, 0)
    <3>1. s[(b + 9) + 1] = Cycle(1, 0) /\ s[(b + 10) + 1] = Cycle(0, 0)
      BY <2>1, <2>2, <1>4, <1>5 DEF Holds
    <3> QED BY <3>1
  <2>9. ASSUME NEW q \in 1 .. 11
        PROVE  /\ s[b + q].tms = IF q \in {1, 2, 9, 10} THEN 1 ELSE 0
               /\ s[b + q].tdi = IF q \in 5 .. 9 THEN bits[q - 4] ELSE 0
               /\ ~s[b + q].keep /\ s[b + q].check = "none"
    <3>1. CASE q \in 5 .. 9
      BY <2>7, <3>1
    <3>2. CASE q \in {1, 2, 10}
      BY <2>5, <2>8, <3>2 DEF Cycle
    <3>3. CASE q \in {3, 4, 11}
      BY <2>6, <2>8, <3>3 DEF Cycle
    <3> QED BY <3>1, <3>2, <3>3
  <2> QED BY <2>9 DEF IrPart, bits
<1>12. SetIr(register) = u5
  BY <1>6 DEF u2, u3, u4
<1> HIDE DEF u5
<1> QED BY <1>10, <1>11, <1>12

\* of scan_dr (wasp1_rbb_smoke.py:75),
LEMMA DrCycles ==
  ASSUME NEW n \in Nat \ {0}, NEW bits \in Bits(n), NEW check \in Checked
  PROVE  /\ ScanDr(bits, check) \in TckCycles(n + 5)
         /\ \A s : \A b \in Nat :
              Holds(s, b, n + 5, ScanDr(bits, check)) => DrPart(s, b, n, bits, check)
<1> DEFINE one == Cycles(1, 1)
           zeros == Cycles(2, 0)
           shift == Shift(bits, TRUE)
           last == <<[Cycle(0, 0) EXCEPT !.check = check]>>
           c == last[1]
           shifted(i) == [tms |-> IF i = n THEN 1 ELSE 0, tdi |-> bits[i],
                          keep |-> TRUE, check |-> "none"]
<1>6. ScanDr(bits, check) = (((one \o zeros) \o shift) \o one) \o last
  BY DEF ScanDr
<1>1. one \in TckCycles(1) /\ \A i \in 1 .. 1 : one[i] = Cycle(1, 0)
  BY CyclesAre
<1>2. zeros \in TckCycles(2) /\ \A i \in 1 .. 2 : zeros[i] = Cycle(0, 0)
  BY CyclesAre
<1>3. shift \in TckCycles(n)
  BY ShiftIs
<1>13. \A i \in 1 .. n : shift[i] = shifted(i)
  BY ShiftIs
<1>5. /\ last \in TckCycles(1)
      /\ c.tms = 0 /\ c.tdi = 0 /\ ~c.keep /\ c.check = check
  BY LastCycle
<1> HIDE DEF one, zeros, shift, last
<1> DEFINE u2 == one \o zeros
           u3 == u2 \o shift
           u4 == u3 \o one
           u5 == u4 \o last
<1>7. u2 \in TckCycles(1 + 2)
  BY <1>1, <1>2, JoinedCycles
<1> HIDE DEF u2
<1>8. u3 \in TckCycles(3 + n)
  BY <1>3, <1>7, JoinedCycles
<1> HIDE DEF u3
<1>0. 3 + n \in Nat /\ (3 + n) + 1 \in Nat /\ ((3 + n) + 1) + 1 = n + 5
  OBVIOUS
<1>9. u4 \in TckCycles((3 + n) + 1)
  BY <1>0, <1>1, <1>8, JoinedCycles
<1> HIDE DEF u4
<1>10. u5 \in TckCycles(((3 + n) + 1) + 1)
  BY <1>0, <1>5, <1>9, JoinedCycles
<1>11. ASSUME NEW s, NEW b \in Nat, Holds(s, b, ((3 + n) + 1) + 1, u5)
       PROVE  DrPart(s, b, n, bits, check)
  <2>1. Holds(s, b, (3 + n) + 1, u4) /\ Holds(s, b + ((3 + n) + 1), 1, last)
    BY <1>11, <1>0, <1>5, <1>9, HoldsBoth
  <2>2. Holds(s, b, 3 + n, u3) /\ Holds(s, b + (3 + n), 1, one)
    BY <2>1, <1>0, <1>1, <1>8, HoldsBoth DEF u4
  <2>3. Holds(s, b, 1 + 2, u2) /\ Holds(s, b + 3, n, shift)
    BY <2>2, <1>3, <1>7, HoldsBoth DEF u3
  <2>4. Holds(s, b, 1, one) /\ Holds(s, b + 1, 2, zeros)
    BY <2>3, <1>1, <1>2, HoldsBoth DEF u2
  <2>5. s[b + 1] = Cycle(1, 0)
    BY <2>4, <1>1 DEF Holds
  <2>6. s[b + 2] = Cycle(0, 0) /\ s[b + 3] = Cycle(0, 0)
    <3>1. s[(b + 1) + 1] = Cycle(0, 0) /\ s[(b + 1) + 2] = Cycle(0, 0)
      BY <2>4, <1>2 DEF Holds
    <3> QED BY <3>1
  <2>7. \A q \in 4 .. n + 3 : s[b + q] = shifted(q - 3)
    <3>1. \A i \in 1 .. n : s[(b + 3) + i] = shifted(i)
      BY <2>3, <1>13 DEF Holds
    <3>2. \A q \in 4 .. n + 3 : q - 3 \in 1 .. n /\ (b + 3) + (q - 3) = b + q
      OBVIOUS
    <3> HIDE DEF shifted
    <3> QED BY <3>1, <3>2
  <2>8. s[b + (n + 4)] = Cycle(1, 0) /\ s[b + (n + 5)] = c
    <3>1. s[(b + (3 + n)) + 1] = Cycle(1, 0) /\ s[(b + ((3 + n) + 1)) + 1] = c
      BY <2>1, <2>2, <1>1, <1>5 DEF Holds
    <3>2. /\ (b + (3 + n)) + 1 = b + (n + 4)
          /\ (b + ((3 + n) + 1)) + 1 = b + (n + 5)
      OBVIOUS
    <3> QED BY <3>1, <3>2
  <2>9. ASSUME NEW q \in 1 .. n + 5
        PROVE  /\ s[b + q].tms = IF q \in {1, n + 3, n + 4} THEN 1 ELSE 0
               /\ s[b + q].tdi = IF q \in 4 .. n + 3 THEN bits[q - 3] ELSE 0
               /\ s[b + q].keep <=> q \in 4 .. n + 3
               /\ s[b + q].check = IF q = n + 5 THEN check ELSE "none"
    <3>1. CASE q \in 4 .. n + 3
      <4>1. s[b + q] = shifted(q - 3)
        BY <2>7, <3>1
      <4>2. (q \in {1, n + 3, n + 4} <=> q - 3 = n) /\ q # n + 5
        BY <3>1
      <4> QED BY <3>1, <4>1, <4>2
    <3>2. CASE q = 1
      BY <2>5, <3>2 DEF Cycle
    <3>3. CASE q = n + 4
      BY <2>8, <3>3 DEF Cycle
    <3>4. CASE q \in {2, 3}
      BY <2>6, <3>4 DEF Cycle
    <3>5. CASE q = n + 5
      BY <1>5, <2>8, <3>5
    <3> QED BY <3>1, <3>2, <3>3, <3>4, <3>5
  <2> QED BY <2>9 DEF DrPart
<1>12. ScanDr(bits, check) = u5
  BY <1>6 DEF u2, u3, u4
<1> HIDE DEF u5
<1> QED BY <1>0, <1>10, <1>11, <1>12

LEMMA Counts ==
  /\ IdBits \in Nat /\ IdBits >= 1 /\ DtmcsBits \in Nat /\ DtmcsBits >= 4
  /\ DmiBits \in Nat /\ DmiBits >= 5 /\ DmiBits = DataBits + AddrBits + 2
  /\ Idcode \in Bits(IdBits)
  /\ DtmcsId \in Bits(DtmcsBits - 4) /\ DtmcsBits - 4 = Len(DtmcsId)
<1>1. Len(Idcode) >= 1
  BY Widths
<1>2. Len(Idcode) \in Nat /\ Len(DtmcsId) \in Nat
  BY Widths
<1>3. Idcode \in Bits(Len(Idcode)) /\ DtmcsId \in Bits(Len(DtmcsId))
  BY Widths, SeqsAreBits
<1>4. DtmcsBits - 4 = Len(DtmcsId)
  BY <1>2 DEF DtmcsBits
<1> QED BY <1>1, <1>2, <1>3, <1>4, Widths DEF IdBits, DtmcsBits, DmiBits

LEMMA RequestBits ==
  /\ Activate.op = Write /\ Activate.addr = Dmcontrol
  /\ Activate.data \in Bits(DataBits) /\ Activate.data[1] = 1
  /\ ReadStatus.op = Read /\ ReadStatus.addr = Dmstatus
  /\ ReadStatus.data \in Bits(DataBits)
  /\ \A r \in {Activate, ReadStatus} :
       /\ r.op \in Bits(2) /\ r.op # Nop
       /\ r.addr \in Bits(AddrBits) /\ r.data \in Bits(DataBits)
       /\ r = Request(r.op, r.addr, r.data)
<1>1. Zeros(DataBits) \in Bits(DataBits)
  BY Widths, ZeroBits
<1>2. /\ [Zeros(DataBits) EXCEPT ![1] = 1] \in Bits(DataBits)
      /\ [Zeros(DataBits) EXCEPT ![1] = 1][1] = 1
  BY <1>1, Widths DEF Bits
<1>3. Write \in Bits(2) /\ Read \in Bits(2) /\ Write # Nop /\ Read # Nop
  <2>1. Write[2] = 1 /\ Read[1] = 1 /\ Nop[1] = 0 /\ Nop[2] = 0
    BY DEF Write, Read, Nop
  <2> QED BY <2>1, PairBits
<1> QED BY <1>1, <1>2, <1>3, Widths DEF Activate, ReadStatus, Request

\* The Debug Module interface finds the request's fields in the packet where
\* dmi_packet put them.
LEMMA PacketOf ==
  ASSUME NEW r \in {Activate, ReadStatus}
  PROVE  /\ DmiPacket(r) \in Bits(DmiBits) /\ Len(DmiPacket(r)) = DmiBits
         /\ SubSeq(DmiPacket(r), 1, 2) = r.op
         /\ SubSeq(DmiPacket(r), 3, DataBits + 2) = r.data
         /\ SubSeq(DmiPacket(r), DataBits + 3, DataBits + AddrBits + 2) = r.addr
<1>1. PICK o \in Bits(2), d \in Bits(DataBits), a \in Bits(AddrBits) :
        o = r.op /\ d = r.data /\ a = r.addr
  BY RequestBits
<1>2. /\ o \o d \o a \in Bits(DmiBits)
      /\ SubSeq(o \o d \o a, 1, 2) = o
      /\ SubSeq(o \o d \o a, 3, DataBits + 2) = d
      /\ SubSeq(o \o d \o a, DataBits + 3, DataBits + AddrBits + 2) = a
  BY PacketBits, Widths
<1>3. DmiPacket(r) = o \o d \o a
  BY <1>1 DEF DmiPacket
<1>4. DmiPacket(r) \in Bits(DmiBits)
  BY <1>2, <1>3
<1>5. Len(DmiPacket(r)) = DmiBits
  BY <1>4, BitsAreSeqs, Counts
<1> QED BY <1>1, <1>2, <1>3, <1>4, <1>5

TransferPart(s, b, r, check) ==
  /\ IrPart(s, b, "DMI")
  /\ DrPart(s, b + 11, DmiBits, DmiPacket(r), "request")
  /\ IdlePart(s, Sent(b))
  /\ DrPart(s, Fetched(b), DmiBits, Zeros(DmiBits), check)

\* and of dmi_transfer (wasp1_rbb_smoke.py:98), place by place.
LEMMA TransferCycles ==
  ASSUME NEW r \in {Activate, ReadStatus}, NEW check \in Checked
  PROVE  /\ DmiTransfer(r, check) \in TckCycles(2 * DmiBits + 37)
         /\ \A s : \A b \in Nat :
              Holds(s, b, 2 * DmiBits + 37, DmiTransfer(r, check)) =>
                TransferPart(s, b, r, check)
<1> DEFINE n == DmiBits
           set == SetIr("DMI")
           send == ScanDr(DmiPacket(r), "request")
           wait == Idle(16)
           fetch == ScanDr(Zeros(DmiBits), check)
<1>0. n \in Nat \ {0}
  BY Counts
<1>1. DmiTransfer(r, check) = ((set \o send) \o wait) \o fetch
  BY PacketOf DEF DmiTransfer
<1>2. /\ set \in TckCycles(11)
      /\ \A s : \A b \in Nat : Holds(s, b, 11, set) => IrPart(s, b, "DMI")
  BY IrCycles
<1>3. /\ send \in TckCycles(n + 5)
      /\ \A s : \A b \in Nat :
           Holds(s, b, n + 5, send) => DrPart(s, b, n, DmiPacket(r), "request")
  <2>1. "request" \in Checked /\ DmiPacket(r) \in Bits(n)
    BY PacketOf DEF Checked
  <2> HIDE DEF n
  <2> QED BY <1>0, <2>1, DrCycles
<1>4. /\ wait \in TckCycles(16)
      /\ \A s : \A b \in Nat : Holds(s, b, 16, wait) => IdlePart(s, b)
  BY IdleCycles
<1>5. /\ fetch \in TckCycles(n + 5)
      /\ \A s : \A b \in Nat :
           Holds(s, b, n + 5, fetch) => DrPart(s, b, n, Zeros(DmiBits), check)
  <2>1. Zeros(DmiBits) \in Bits(n)
    BY <1>0, ZeroBits
  <2> HIDE DEF n
  <2> QED BY <1>0, <2>1, DrCycles
<1> HIDE DEF n, set, send, wait, fetch
<1> DEFINE u2 == set \o send
           u3 == u2 \o wait
           u4 == u3 \o fetch
<1>6. /\ n + 5 \in Nat /\ 11 + (n + 5) \in Nat /\ (11 + (n + 5)) + 16 \in Nat
      /\ ((11 + (n + 5)) + 16) + (n + 5) = 2 * n + 37
  BY <1>0
<1>7. u2 \in TckCycles(11 + (n + 5))
  BY <1>2, <1>3, <1>6, JoinedCycles
<1> HIDE DEF u2
<1>8. u3 \in TckCycles((11 + (n + 5)) + 16)
  BY <1>4, <1>6, <1>7, JoinedCycles
<1> HIDE DEF u3
<1>9. u4 \in TckCycles(((11 + (n + 5)) + 16) + (n + 5))
  BY <1>5, <1>6, <1>8, JoinedCycles
<1>10. ASSUME NEW s, NEW b \in Nat, Holds(s, b, ((11 + (n + 5)) + 16) + (n + 5), u4)
       PROVE  /\ IrPart(s, b, "DMI")
              /\ DrPart(s, b + 11, n, DmiPacket(r), "request")
              /\ IdlePart(s, b + n + 16)
              /\ DrPart(s, b + n + 32, n, Zeros(DmiBits), check)
  <2>1. /\ Holds(s, b, (11 + (n + 5)) + 16, u3)
        /\ Holds(s, b + ((11 + (n + 5)) + 16), n + 5, fetch)
    BY <1>10, <1>5, <1>6, <1>8, HoldsBoth
  <2>2. Holds(s, b, 11 + (n + 5), u2) /\ Holds(s, b + (11 + (n + 5)), 16, wait)
    BY <2>1, <1>4, <1>6, <1>7, HoldsBoth DEF u3
  <2>3. Holds(s, b, 11, set) /\ Holds(s, b + 11, n + 5, send)
    BY <2>2, <1>2, <1>3, <1>6, HoldsBoth DEF u2
  <2>4. /\ b + 11 \in Nat /\ b + n + 16 \in Nat /\ b + n + 32 \in Nat
        /\ b + (11 + (n + 5)) = b + n + 16
        /\ b + ((11 + (n + 5)) + 16) = b + n + 32
    BY <1>0
  <2> QED BY <1>2, <1>3, <1>4, <1>5, <2>1, <2>2, <2>3, <2>4
<1>11. DmiTransfer(r, check) = u4
  BY <1>1 DEF u2, u3
<1> HIDE DEF u4
<1> QED BY <1>6, <1>9, <1>10, <1>11 DEF TransferPart, Sent, Fetched, n

LEMMA Offsets ==
  /\ Setup1 = IdBits + 12 /\ Dtmcs1 = Setup1 + 11 /\ First = Dtmcs1 + (DtmcsBits + 5)
  /\ Second = First + (2 * DmiBits + 37) /\ Ends = Second + (2 * DmiBits + 37)
  /\ \A b \in Nat :
       /\ Sent(b) = b + DmiBits + 16 /\ Sent(b) \in Nat
       /\ Fetched(b) = b + DmiBits + 32 /\ Fetched(b) \in Nat
  /\ Setup1 \in Nat /\ Dtmcs1 \in Nat /\ First \in Nat /\ Second \in Nat /\ Ends \in Nat
<1>1. IdBits \in Nat /\ DtmcsBits \in Nat /\ DmiBits \in Nat
  BY Counts
<1>2. \A b \in Nat :
        /\ Sent(b) = b + DmiBits + 16 /\ Sent(b) \in Nat
        /\ Fetched(b) = b + DmiBits + 32 /\ Fetched(b) \in Nat
  BY <1>1 DEF Sent, Fetched
<1>3. /\ Setup1 = IdBits + 12 /\ Dtmcs1 = Setup1 + 11
      /\ Setup1 \in Nat /\ Dtmcs1 \in Nat
  BY <1>1 DEF Setup1, Dtmcs1
<1>4. First = Dtmcs1 + (DtmcsBits + 5) /\ First \in Nat
  BY <1>1 DEF First, Dtmcs1
<1>5. Second = First + (2 * DmiBits + 37) /\ Second \in Nat
  BY <1>1, <1>4 DEF Second
<1>6. Ends = Second + (2 * DmiBits + 37) /\ Ends \in Nat
  BY <1>1, <1>5 DEF Ends
<1> QED BY <1>2, <1>3, <1>4, <1>5, <1>6

\* The script of run_smoke, part by part, for registers of any length.
LEMMA ScriptParts ==
  /\ Len(Script) = Ends /\ Script \in TckCycles(Ends)
  /\ ResetPart(Script)
  /\ DrPart(Script, 7, IdBits, Zeros(IdBits), "idcode")
  /\ IrPart(Script, Setup1, "DTMCS")
  /\ DrPart(Script, Dtmcs1, DtmcsBits, Zeros(DtmcsBits), "dtmcs")
  /\ TransferPart(Script, First, Activate, "dmcontrol")
  /\ TransferPart(Script, Second, ReadStatus, "dmstatus")
<1> DEFINE reset == ResetToIdle
           id == ScanDr(Zeros(IdBits), "idcode")
           set == SetIr("DTMCS")
           info == ScanDr(Zeros(DtmcsBits), "dtmcs")
           t1 == DmiTransfer(Activate, "dmcontrol")
           t2 == DmiTransfer(ReadStatus, "dmstatus")
           i == IdBits
           d == DtmcsBits
           n == 2 * DmiBits + 37
<1>0. /\ i \in Nat \ {0} /\ d \in Nat \ {0} /\ n \in Nat
      /\ {"idcode", "dtmcs", "dmcontrol", "dmstatus"} \subseteq Checked
  BY Counts DEF Checked
<1>1. Script = ((((reset \o id) \o set) \o info) \o t1) \o t2
  BY DEF Script, IdBits, DtmcsBits
<1>2. reset \in TckCycles(7) /\ \A s : Holds(s, 0, 7, reset) => ResetPart(s)
  BY ResetCycles
<1>3. /\ id \in TckCycles(i + 5)
      /\ \A s : \A b \in Nat :
           Holds(s, b, i + 5, id) => DrPart(s, b, i, Zeros(IdBits), "idcode")
  <2>1. Zeros(IdBits) \in Bits(i)
    BY <1>0, ZeroBits
  <2> HIDE DEF i
  <2> QED BY <1>0, <2>1, DrCycles
<1>4. /\ set \in TckCycles(11)
      /\ \A s : \A b \in Nat : Holds(s, b, 11, set) => IrPart(s, b, "DTMCS")
  BY IrCycles
<1>5. /\ info \in TckCycles(d + 5)
      /\ \A s : \A b \in Nat :
           Holds(s, b, d + 5, info) => DrPart(s, b, d, Zeros(DtmcsBits), "dtmcs")
  <2>1. Zeros(DtmcsBits) \in Bits(d)
    BY <1>0, ZeroBits
  <2> HIDE DEF d
  <2> QED BY <1>0, <2>1, DrCycles
<1>6. /\ t1 \in TckCycles(n)
      /\ \A s : \A b \in Nat :
           Holds(s, b, n, t1) => TransferPart(s, b, Activate, "dmcontrol")
  BY <1>0, TransferCycles
<1>7. /\ t2 \in TckCycles(n)
      /\ \A s : \A b \in Nat :
           Holds(s, b, n, t2) => TransferPart(s, b, ReadStatus, "dmstatus")
  BY <1>0, TransferCycles
<1> HIDE DEF reset, id, set, info, t1, t2
<1> DEFINE u2 == reset \o id
           u3 == u2 \o set
           u4 == u3 \o info
           u5 == u4 \o t1
           u6 == u5 \o t2
           c2 == 7 + (i + 5)
           c3 == c2 + 11
           c4 == c3 + (d + 5)
           c5 == c4 + n
           c6 == c5 + n
<1>8. /\ i + 5 \in Nat /\ d + 5 \in Nat
      /\ c2 \in Nat /\ c3 \in Nat /\ c4 \in Nat /\ c5 \in Nat /\ c6 \in Nat
      /\ c2 = Setup1 /\ c3 = Dtmcs1 /\ c4 = First /\ c5 = Second /\ c6 = Ends
  <2> HIDE DEF n
  <2> QED BY <1>0, Offsets DEF n
<1>9. Script = u6
  BY <1>1
<1> HIDE DEF i, d, n
<1>10. u2 \in TckCycles(c2)
  BY <1>2, <1>3, <1>8, JoinedCycles
<1> HIDE DEF u2, c2
<1>11. u3 \in TckCycles(c3)
  BY <1>4, <1>8, <1>10, JoinedCycles
<1> HIDE DEF u3, c3
<1>12. u4 \in TckCycles(c4)
  BY <1>5, <1>8, <1>11, JoinedCycles
<1> HIDE DEF u4, c4
<1>13. u5 \in TckCycles(c5)
  BY <1>0, <1>6, <1>8, <1>12, JoinedCycles
<1> HIDE DEF u5, c5
<1>14. u6 \in TckCycles(c6)
  BY <1>0, <1>7, <1>8, <1>13, JoinedCycles
<1>15. Len(Script) = Ends /\ Script \in TckCycles(Ends)
  <2> HIDE DEF u6, c6
  <2> QED BY <1>8, <1>9, <1>14, CyclesLength
<1> DEFINE s == Script
<1>16. Holds(s, 0, c6, u6)
  <2> HIDE DEF u6, c6
  <2> QED BY <1>8, <1>9 DEF Holds
<1> HIDE DEF s
<1>17. Holds(s, 0, c5, u5) /\ Holds(s, 0 + c5, n, t2)
  BY <1>0, <1>7, <1>8, <1>13, <1>16, HoldsBoth
<1>18. Holds(s, 0, c4, u4) /\ Holds(s, 0 + c4, n, t1)
  BY <1>0, <1>6, <1>8, <1>12, <1>17, HoldsBoth DEF u5, c5
<1>19. Holds(s, 0, c3, u3) /\ Holds(s, 0 + c3, d + 5, info)
  BY <1>5, <1>8, <1>11, <1>18, HoldsBoth DEF u4, c4
<1>20. Holds(s, 0, c2, u2) /\ Holds(s, 0 + c2, 11, set)
  BY <1>4, <1>8, <1>10, <1>19, HoldsBoth DEF u3, c3
<1>21. Holds(s, 0, 7, reset) /\ Holds(s, 0 + 7, i + 5, id)
  BY <1>2, <1>3, <1>8, <1>20, HoldsBoth DEF u2, c2
<1>22. 0 + c5 = Second /\ 0 + c4 = First /\ 0 + c3 = Dtmcs1 /\ 0 + c2 = Setup1
  BY <1>8
<1>23. /\ ResetPart(s) /\ DrPart(s, 7, i, Zeros(IdBits), "idcode")
       /\ IrPart(s, Setup1, "DTMCS") /\ DrPart(s, Dtmcs1, d, Zeros(DtmcsBits), "dtmcs")
       /\ TransferPart(s, First, Activate, "dmcontrol")
       /\ TransferPart(s, Second, ReadStatus, "dmstatus")
  BY <1>2, <1>3, <1>4, <1>5, <1>6, <1>7, <1>17, <1>18, <1>19, <1>20, <1>21, <1>22,
     Offsets
<1> QED BY <1>15, <1>23 DEF s, i, d

-------------------------------------------------------------------------------
(* The TAP controller.                                                     *)

\* A register is scanned only after it was captured.
LEMMA TapMoves ==
  ASSUME NEW t \in DOMAIN TapNext, NEW m \in {0, 1}
  PROVE  /\ TapNext[t][m + 1] \in DOMAIN TapNext
         /\ TapNext[t][m + 1] \in ScanStates => t \in ScanStates \union {"CAPTURE_DR"}
BY DEF TapNext, ScanStates

\* From wherever a client left the TAP five cycles with TMS high bring it home.
LEMMA ResetMoves ==
  ASSUME NEW t \in DOMAIN TapNext
  PROVE  /\ ToReset[t] \in 0 .. 5
         /\ ToReset[t] = 0 => t = "TEST_LOGIC_RESET"
         /\ t = "TEST_LOGIC_RESET" => TapNext[t][1 + 1] = "TEST_LOGIC_RESET"
         /\ t # "TEST_LOGIC_RESET" => ToReset[TapNext[t][1 + 1]] <= ToReset[t] - 1
         /\ TapNext["TEST_LOGIC_RESET"][0 + 1] = "RUN_TEST_IDLE"
BY DEF TapNext, ToReset

\* The states the TAP goes through during set_ir,
LEMMA IrMoves ==
  ASSUME NEW q \in 0 .. 10
  PROVE  TapNext[IrState(q)][(IF q + 1 \in {1, 2, 9, 10} THEN 1 ELSE 0) + 1]
           = IrState(q + 1)
BY DEF TapNext, IrState

\* and during scan_dr.
LEMMA DrMoves ==
  ASSUME NEW n \in Nat \ {0}, NEW q \in 0 .. n + 4
  PROVE  TapNext[DrState(q, n)][(IF q + 1 \in {1, n + 3, n + 4} THEN 1 ELSE 0) + 1]
           = DrState(q + 1, n)
BY DEF TapNext, DrState

LEMMA Selects ==
  /\ \A bits : Selected(bits) \in Registers
  /\ \A register \in {"DTMCS", "DMI"} : Selected(IrBits[register]) = register
<1>1. DOMAIN IrBits = Registers
  BY DEF IrBits, Registers
<1>2. \A bits : Selected(bits) \in Registers
  BY <1>1 DEF Selected, Registers
<1>3. ASSUME NEW register \in {"DTMCS", "DMI"}, NEW r \in Registers,
             IrBits[r] = IrBits[register]
      PROVE  r = register
  <2>1. /\ IrBits["IDCODE"] = <<1, 0, 0, 0, 0>> /\ IrBits["DTMCS"] = <<0, 0, 0, 0, 1>>
        /\ IrBits["DMI"] = <<1, 0, 0, 0, 1>> /\ IrBits["BYPASS"] = <<1, 1, 1, 1, 1>>
    BY DEF IrBits
  <2>2. /\ IrBits["IDCODE"][1] = 1 /\ IrBits["IDCODE"][5] = 0
        /\ IrBits["DTMCS"][1] = 0 /\ IrBits["DTMCS"][5] = 1
        /\ IrBits["DMI"][1] = 1 /\ IrBits["DMI"][2] = 0 /\ IrBits["DMI"][5] = 1
        /\ IrBits["BYPASS"][1] = 1 /\ IrBits["BYPASS"][2] = 1
    BY <2>1
  <2> QED BY <1>3, <2>2 DEF Registers
<1> QED BY <1>1, <1>2, <1>3 DEF Selected, Registers

-------------------------------------------------------------------------------
(* The edges of the clocks keep the types.                                 *)

\* What is captured is as long as the register selected.
LEMMA CapturedBits ==
  ASSUME ChipType
  PROVE  Captured \in Bits(Width(ir))
<1>1. /\ dtm.busy \in BOOLEAN /\ dtm.resp \in Bits(2)
      /\ dtm.data \in Bits(DataBits) /\ dtm.addr \in Bits(AddrBits)
  BY DEF ChipType, DtmType
<1>2. CASE ir = "IDCODE"
  BY <1>2, Counts DEF Captured, Width
<1>3. CASE ir = "DTMCS"
  <2>1. PICK o \in Bits(2) :
          o = IF dtm.stickyBusy THEN Busy
              ELSE IF dtm.stickyError THEN Failed ELSE Success
    BY PairBits
  <2>2. <<0, 0>> \in Bits(2) /\ 2 \in Nat
    BY DEF Bits
  <2>3. DtmcsId \o o \in Bits((DtmcsBits - 4) + 2) /\ DtmcsBits - 4 \in Nat
    BY <2>2, Counts, JoinedBits
  <2>4. (DtmcsId \o o) \o <<0, 0>> \in Bits(((DtmcsBits - 4) + 2) + 2)
    BY <2>2, <2>3, JoinedBits
  <2>5. ((DtmcsBits - 4) + 2) + 2 = DtmcsBits
    BY Counts
  <2>6. Captured = (DtmcsId \o o) \o <<0, 0>>
    BY <1>3, <2>1 DEF Captured, Dtmcs
  <2> QED BY <1>3, <2>4, <2>5, <2>6 DEF Width
<1>4. CASE ir = "DMI"
  <2>1. PICK o \in Bits(2), d \in Bits(DataBits), a \in Bits(AddrBits) :
          /\ o = IF dtm.busy THEN Busy ELSE dtm.resp
          /\ d = dtm.data /\ a = dtm.addr
    BY <1>1, PairBits
  <2>2. o \o d \o a \in Bits(DmiBits)
    BY PacketBits, Widths
  <2>3. Captured = o \o d \o a
    BY <1>4, <2>1 DEF Captured
  <2> QED BY <1>4, <2>2, <2>3 DEF Width
<1>5. CASE ir = "BYPASS"
  <2>1. <<0>> \in Bits(1)
    BY DEF Bits
  <2> QED BY <1>5, <2>1 DEF Captured, Width
<1> QED BY <1>2, <1>3, <1>4, <1>5 DEF ChipType, Registers

LEMMA WidthsOfRegisters == \A r \in Registers : Width(r) \in Nat \ {0}
BY Counts DEF Registers, Width

\* What the TCK side takes from the system clock side on a rising edge,
LEMMA ListenedType ==
  ASSUME dtm \in DtmType, dmi \in DmiType
  PROVE  /\ Listened \in DtmType
         /\ Listened.meta = dmi.rspToggle /\ Listened.sync = dtm.meta
         /\ Listened.seen = dtm.sync
         /\ Listened.reqToggle = dtm.reqToggle
         /\ Listened.reqOp = dtm.reqOp /\ Listened.reqAddr = dtm.reqAddr
         /\ Listened.reqData = dtm.reqData
         /\ dtm.sync = dtm.seen =>
              /\ Listened.busy = dtm.busy /\ Listened.addr = dtm.addr
              /\ Listened.data = dtm.data /\ Listened.resp = dtm.resp
         /\ dtm.sync # dtm.seen =>
              /\ Listened.busy = FALSE /\ Listened.addr = dmi.rspAddr
              /\ Listened.data = dmi.rspData /\ Listened.resp = dmi.rspResp
BY DEF Listened, DtmType, DmiType

\* what DMIRESET clears,
LEMMA ClearedType ==
  ASSUME NEW d \in DtmType
  PROVE  /\ Cleared(d) \in DtmType
         /\ Cleared(d).busy = d.busy /\ Cleared(d).meta = d.meta
         /\ Cleared(d).sync = d.sync /\ Cleared(d).seen = d.seen
         /\ Cleared(d).reqToggle = d.reqToggle
BY PairBits DEF Cleared, DtmType

\* and what a request changes: nothing while another is under way.
LEMMA RequestedType ==
  ASSUME dtm \in DtmType, NEW d \in DtmType, drShift \in Bits(DmiBits)
  PROVE  /\ Requested(d) \in DtmType
         /\ Requested(d).meta = d.meta
         /\ Requested(d).sync = d.sync /\ Requested(d).seen = d.seen
         /\ SubSeq(drShift, 1, 2) = Nop => Requested(d) = d
         /\ SubSeq(drShift, 1, 2) # Nop /\ dtm.busy =>
              Requested(d).busy = d.busy /\ Requested(d).reqToggle = d.reqToggle
         /\ SubSeq(drShift, 1, 2) # Nop /\ ~dtm.busy =>
              /\ Requested(d).busy = TRUE
              /\ Requested(d).reqToggle = 1 - d.reqToggle
              /\ Requested(d).reqOp = SubSeq(drShift, 1, 2)
              /\ Requested(d).reqData = SubSeq(drShift, 3, DataBits + 2)
              /\ Requested(d).reqAddr = SubSeq(drShift, DataBits + 3,
                                               DataBits + AddrBits + 2)
<1>1. PICK o \in Bits(2), w \in Bits(DataBits), a \in Bits(AddrBits) :
        /\ o = SubSeq(drShift, 1, 2) /\ w = SubSeq(drShift, 3, DataBits + 2)
        /\ a = SubSeq(drShift, DataBits + 3, DataBits + AddrBits + 2)
  <2>1. SubSeq(drShift, 1, 2) \in Bits(2)
    <3>1. 1 \in 1 .. DmiBits /\ 2 \in 1 - 1 .. DmiBits /\ 2 - 1 + 1 = 2
      BY Counts
    <3> QED BY <3>1, Counts, PartOfBits
  <2>2. SubSeq(drShift, 3, DataBits + 2) \in Bits(DataBits)
    <3>1. /\ 3 \in 1 .. DmiBits /\ DataBits + 2 \in 3 - 1 .. DmiBits
          /\ (DataBits + 2) - 3 + 1 = DataBits
      BY Counts, Widths
    <3> QED BY <3>1, Counts, PartOfBits
  <2>3. SubSeq(drShift, DataBits + 3, DataBits + AddrBits + 2) \in Bits(AddrBits)
    <3>1. PICK x \in 1 .. DmiBits : x = DataBits + 3
      BY Counts, Widths
    <3>2. PICK y \in x - 1 .. DmiBits : y = DataBits + AddrBits + 2
      BY Counts, Widths, <3>1
    <3>3. SubSeq(drShift, x, y) \in Bits(y - x + 1)
      BY Counts, PartOfBits
    <3>4. y - x + 1 = AddrBits
      BY Widths, <3>1, <3>2
    <3> QED BY <3>1, <3>2, <3>3, <3>4
  <2> QED BY <2>1, <2>2, <2>3
<1>2. Requested(d) =
        IF o = Nop THEN d
        ELSE IF dtm.busy THEN [d EXCEPT !.stickyBusy = TRUE, !.resp = Busy]
        ELSE [d EXCEPT !.busy = TRUE, !.reqToggle = 1 - @, !.reqOp = o,
                       !.reqData = w, !.reqAddr = a]
  BY <1>1 DEF Requested
<1>3. CASE o = Nop
  BY <1>1, <1>2, <1>3
<1>4. CASE o # Nop /\ dtm.busy
  BY <1>1, <1>2, <1>4, PairBits DEF DtmType
<1>5. CASE o # Nop /\ ~dtm.busy
  <2>1. /\ Requested(d) \in DtmType
        /\ Requested(d).meta = d.meta
        /\ Requested(d).sync = d.sync /\ Requested(d).seen = d.seen
        /\ Requested(d).busy = TRUE /\ Requested(d).reqToggle = 1 - d.reqToggle
        /\ Requested(d).reqOp = o /\ Requested(d).reqData = w
        /\ Requested(d).reqAddr = a
    <3> DEFINE e == [d EXCEPT !.busy = TRUE, !.reqToggle = 1 - @, !.reqOp = o]
    <3>1. e \in DtmType
      <4>1. PICK x \in {0, 1} : x = 1 - d.reqToggle
        BY DEF DtmType
      <4>2. e = [d EXCEPT !.busy = TRUE, !.reqToggle = x, !.reqOp = o]
        BY <4>1
      <4> HIDE DEF e
      <4> QED BY <4>2 DEF DtmType
    <3>2. /\ e.meta = d.meta /\ e.sync = d.sync /\ e.seen = d.seen
          /\ e.busy = TRUE /\ e.reqToggle = 1 - d.reqToggle /\ e.reqOp = o
      BY DEF DtmType
    <3>3. Requested(d) = [e EXCEPT !.reqData = w, !.reqAddr = a]
      BY <1>2, <1>5
    <3> HIDE DEF e
    <3>4. Requested(d) \in DtmType
      BY <3>1, <3>3 DEF DtmType
    <3>5. /\ Requested(d).meta = e.meta /\ Requested(d).sync = e.sync
          /\ Requested(d).seen = e.seen /\ Requested(d).busy = e.busy
          /\ Requested(d).reqToggle = e.reqToggle /\ Requested(d).reqOp = e.reqOp
          /\ Requested(d).reqData = w /\ Requested(d).reqAddr = a
      BY <3>1, <3>3 DEF DtmType
    <3> QED BY <3>2, <3>4, <3>5
  <2> QED BY <1>1, <1>5, <2>1
<1> QED BY <1>3, <1>4, <1>5 DEF DtmType

LEMMA TckRiseType ==
  ASSUME ChipType, NEW tms \in {0, 1}, NEW tdi \in {0, 1}, TckRise(tms, tdi)
  PROVE  /\ tap' \in DOMAIN TapNext /\ ir' \in Registers /\ irShift' \in Bits(5)
         /\ tap' \in ScanStates => drShift' \in Bits(Width(ir'))
         /\ dtm' \in DtmType
<1>1. tap' \in DOMAIN TapNext /\ (tap' \in ScanStates => tap \in ScanStates \union {"CAPTURE_DR"})
  BY TapMoves DEF ChipType, TckRise
<1>2. ir' \in Registers
  <2>1. "IDCODE" \in Registers /\ ir \in Registers
    BY DEF ChipType, Registers
  <2> QED BY <2>1, Selects DEF TckRise
<1>3. irShift' \in Bits(5)
  <2>1. irShift \in Bits(5) /\ <<1, 0, 0, 0, 0>> \in Bits(5) /\ 5 \in Nat \ {0}
    BY DEF ChipType, Bits
  <2>2. Shifted(irShift, tdi) \in Bits(5)
    BY <2>1, ShiftedBits
  <2> QED BY <2>1, <2>2 DEF TckRise
<1>4. ASSUME tap' \in ScanStates
      PROVE  drShift' \in Bits(Width(ir'))
  <2>1. ir' = ir
    BY <1>1, <1>4 DEF TckRise, ScanStates
  <2>2. CASE tap = "CAPTURE_DR"
    BY <2>1, <2>2, CapturedBits DEF TckRise
  <2>3. CASE tap \in ScanStates
    <3>1. drShift \in Bits(Width(ir)) /\ Width(ir) \in Nat \ {0}
      BY <2>3, WidthsOfRegisters DEF ChipType
    <3>2. Shifted(drShift, tdi) \in Bits(Width(ir))
      BY <3>1, ShiftedBits
    <3> QED BY <2>1, <2>3, <3>1, <3>2 DEF TckRise, ScanStates
  <2> QED BY <1>1, <1>4, <2>2, <2>3
<1>5. dtm' \in DtmType
  <2>1. Listened \in DtmType
    BY ListenedType DEF ChipType
  <2>2. Cleared(Listened) \in DtmType
    BY <2>1, ClearedType
  <2>3. tap = "UPDATE_DR" /\ ir = "DMI" => Requested(Listened) \in DtmType
    <3>1. tap = "UPDATE_DR" /\ ir = "DMI" => drShift \in Bits(DmiBits)
      BY DEF ChipType, ScanStates, Width
    <3> QED BY <2>1, <3>1, RequestedType DEF ChipType
  <2> QED BY <2>1, <2>2, <2>3 DEF TckRise
<1> QED BY <1>1, <1>2, <1>3, <1>4, <1>5

\* The four things the system clock can do to the request.
Presented == dmi.sync # dmi.seen /\ ~dmi.valid /\ ~dmi.wait

\* An edge of the system clock: the toggles cross, a request is presented, taken
\* or answered.
LEMMA DmiMoves ==
  ASSUME dmi \in DmiType, dtm \in DtmType, dm \in DmType, DmiClock
  PROVE  /\ dmi' \in DmiType
         /\ dmi'.meta = dtm.reqToggle /\ dmi'.sync = dmi.meta
         /\ RequestTaken =>
              /\ ~dmi'.valid /\ dmi'.wait /\ dmi'.seen = dmi.seen
              /\ dmi'.rspToggle = dmi.rspToggle
              /\ dmi'.op = dmi.op /\ dmi'.addr = dmi.addr /\ dmi'.data = dmi.data
         /\ ~RequestTaken /\ ResponseTaken =>
              /\ (dmi'.valid <=> dmi.valid) /\ ~dmi'.wait /\ dmi'.seen = dmi.seen
              /\ dmi'.rspToggle = 1 - dmi.rspToggle /\ dmi'.rspAddr = dmi.addr
              /\ dmi'.rspData = dm.data /\ dmi'.rspResp = dm.resp
         /\ ~RequestTaken /\ ~ResponseTaken /\ Presented =>
              /\ dmi'.valid /\ (dmi'.wait <=> dmi.wait) /\ dmi'.seen = dmi.sync
              /\ dmi'.rspToggle = dmi.rspToggle /\ dmi'.op = dtm.reqOp
              /\ dmi'.addr = dtm.reqAddr /\ dmi'.data = dtm.reqData
         /\ ~RequestTaken /\ ~ResponseTaken /\ ~Presented =>
              /\ (dmi'.valid <=> dmi.valid) /\ (dmi'.wait <=> dmi.wait)
              /\ dmi'.seen = dmi.seen /\ dmi'.rspToggle = dmi.rspToggle
              /\ dmi'.op = dmi.op /\ dmi'.addr = dmi.addr /\ dmi'.data = dmi.data
              /\ dmi'.rspAddr = dmi.rspAddr /\ dmi'.rspData = dmi.rspData
              /\ dmi'.rspResp = dmi.rspResp
<1> DEFINE e == [dmi EXCEPT !.meta = dtm.reqToggle, !.sync = dmi.meta]
<1>1. e \in DmiType
  BY DEF DmiType, DtmType
<1>2. /\ e.meta = dtm.reqToggle /\ e.sync = dmi.meta
      /\ e.valid = dmi.valid /\ e.wait = dmi.wait
      /\ e.seen = dmi.seen /\ e.rspToggle = dmi.rspToggle
      /\ e.op = dmi.op /\ e.addr = dmi.addr /\ e.data = dmi.data
      /\ e.rspAddr = dmi.rspAddr /\ e.rspData = dmi.rspData
      /\ e.rspResp = dmi.rspResp
  BY DEF DmiType, DtmType
<1>3. dmi' = IF RequestTaken THEN [e EXCEPT !.valid = FALSE, !.wait = TRUE]
             ELSE IF ResponseTaken
               THEN [e EXCEPT !.wait = FALSE, !.rspAddr = dmi.addr,
                              !.rspData = dm.data, !.rspResp = dm.resp,
                              !.rspToggle = 1 - @]
             ELSE IF Presented
               THEN [e EXCEPT !.seen = dmi.sync, !.valid = TRUE, !.op = dtm.reqOp,
                              !.addr = dtm.reqAddr, !.data = dtm.reqData]
             ELSE e
  BY DEF DmiClock, Presented
<1> HIDE DEF e
<1>4. CASE RequestTaken
  <2>1. dmi' = [e EXCEPT !.valid = FALSE, !.wait = TRUE]
    BY <1>3, <1>4
  <2>2. dmi' \in DmiType
    BY <1>1, <2>1 DEF DmiType
  <2>3. /\ dmi'.meta = e.meta /\ dmi'.sync = e.sync
        /\ dmi'.valid = FALSE /\ dmi'.wait = TRUE /\ dmi'.seen = e.seen
        /\ dmi'.rspToggle = e.rspToggle
        /\ dmi'.op = e.op /\ dmi'.addr = e.addr /\ dmi'.data = e.data
    BY <1>1, <2>1 DEF DmiType
  <2> QED BY <1>2, <1>4, <2>2, <2>3
<1>5. CASE ~RequestTaken /\ ResponseTaken
  <2> DEFINE f == [e EXCEPT !.wait = FALSE, !.rspAddr = dmi.addr, !.rspData = dm.data]
  <2>1. dmi' = [f EXCEPT !.rspResp = dm.resp, !.rspToggle = 1 - @]
    BY <1>3, <1>5
  <2>2. f \in DmiType
    BY <1>1 DEF DmiType, DmType
  <2>3. /\ f.meta = e.meta /\ f.sync = e.sync /\ f.valid = e.valid
        /\ f.wait = FALSE /\ f.seen = e.seen /\ f.rspToggle = e.rspToggle
        /\ f.rspAddr = dmi.addr /\ f.rspData = dm.data
    BY <1>1 DEF DmiType
  <2> HIDE DEF f
  <2>4. dmi' \in DmiType
    <3>1. PICK x \in {0, 1} : x = 1 - f.rspToggle
      BY <2>2 DEF DmiType
    <3>2. dm.resp \in Bits(2)
      BY DEF DmType
    <3>3. dmi' = [f EXCEPT !.rspResp = dm.resp, !.rspToggle = x]
      BY <2>1, <3>1
    <3> QED BY <2>2, <3>2, <3>3 DEF DmiType
  <2>5. /\ dmi'.meta = f.meta /\ dmi'.sync = f.sync /\ dmi'.valid = f.valid
        /\ dmi'.wait = f.wait /\ dmi'.seen = f.seen
        /\ dmi'.rspToggle = 1 - f.rspToggle /\ dmi'.rspAddr = f.rspAddr
        /\ dmi'.rspData = f.rspData /\ dmi'.rspResp = dm.resp
    BY <2>1, <2>2 DEF DmiType
  <2> QED BY <1>2, <1>5, <2>3, <2>4, <2>5
<1>6. CASE ~RequestTaken /\ ~ResponseTaken /\ Presented
  <2> DEFINE f == [e EXCEPT !.seen = dmi.sync, !.valid = TRUE, !.op = dtm.reqOp]
  <2>1. dmi' = [f EXCEPT !.addr = dtm.reqAddr, !.data = dtm.reqData]
    BY <1>3, <1>6
  <2>2. f \in DmiType
    BY <1>1 DEF DmiType, DtmType
  <2>3. /\ f.meta = e.meta /\ f.sync = e.sync /\ f.valid = TRUE
        /\ f.wait = e.wait /\ f.seen = dmi.sync /\ f.rspToggle = e.rspToggle
        /\ f.op = dtm.reqOp
    BY <1>1 DEF DmiType
  <2> HIDE DEF f
  <2>4. dmi' \in DmiType
    BY <2>1, <2>2 DEF DmiType, DtmType
  <2>5. /\ dmi'.meta = f.meta /\ dmi'.sync = f.sync /\ dmi'.valid = f.valid
        /\ dmi'.wait = f.wait /\ dmi'.seen = f.seen
        /\ dmi'.rspToggle = f.rspToggle /\ dmi'.op = f.op
        /\ dmi'.addr = dtm.reqAddr /\ dmi'.data = dtm.reqData
    BY <2>1, <2>2 DEF DmiType
  <2> QED BY <1>2, <1>6, <2>3, <2>4, <2>5
<1>7. CASE ~RequestTaken /\ ~ResponseTaken /\ ~Presented
  <2>1. dmi' = e
    BY <1>3, <1>7
  <2> QED BY <1>1, <1>2, <1>7, <2>1
<1> QED BY <1>4, <1>5, <1>6, <1>7

LEMMA ClkRiseType ==
  ASSUME ChipType, ClkRise
  PROVE  dmi' \in DmiType /\ dm' \in DmType
<1>1. dmi' \in DmiType
  BY DmiMoves DEF ChipType, ClkRise
<1>2. dm' \in DmType
  <2>1. Zeros(DataBits) \in Bits(DataBits)
    BY Widths, ZeroBits
  <2>2. ReadData \in Bits(DataBits)
    <3>1. /\ Zeros(DataBits - 1) \in Bits(DataBits - 1) /\ DataBits - 1 \in Nat
          /\ Zeros(DataBits - 2) \in Bits(DataBits - 2) /\ DataBits - 2 \in Nat
          /\ 1 + (DataBits - 1) = DataBits /\ 2 + (DataBits - 2) = DataBits
          /\ 1 \in Nat /\ 2 \in Nat
      BY Widths, ZeroBits
    <3>2. PICK active \in {0, 1} : active = IF dm.active THEN 1 ELSE 0
      OBVIOUS
    <3>3. <<active>> \in Bits(1) /\ <<1, active>> \in Bits(2)
      BY DEF Bits
    <3>4. <<active>> \o Zeros(DataBits - 1) \in Bits(1 + (DataBits - 1))
      BY <3>1, <3>3, JoinedBits
    <3>5. <<1, active>> \o Zeros(DataBits - 2) \in Bits(2 + (DataBits - 2))
      BY <3>1, <3>3, JoinedBits
    <3> QED BY <3>1, <3>2, <3>4, <3>5 DEF ReadData
  <2> HIDE DEF ReadData
  <2>3. PICK d \in Bits(DataBits) :
          d = IF Supported /\ dmi.op = Read THEN ReadData ELSE Zeros(DataBits)
    BY <2>1, <2>2
  <2>4. PICK a \in BOOLEAN :
          a = IF Supported /\ dmi.op = Write /\ dmi.addr = Dmcontrol
                THEN dmi.data[1] = 1 ELSE dm.active
    BY DEF ChipType, DmType
  <2>5. PICK o \in Bits(2) : o = IF Supported THEN Success ELSE Failed
    BY PairBits
  <2>6. CASE RequestTaken
    <3>1. dm' = [active |-> a, valid |-> TRUE, resp |-> o, data |-> d]
      BY <2>3, <2>4, <2>5, <2>6 DEF ClkRise, DmClock
    <3> QED BY <3>1 DEF DmType
  <2>7. CASE ~RequestTaken
    BY <2>7 DEF ClkRise, DmClock, ChipType, DmType, DmiType
  <2> QED BY <2>6, <2>7
<1> QED BY <1>1, <1>2

-------------------------------------------------------------------------------
(* The request under way.                                                  *)

\* A scan of DMI ends that is not a NOP; a request, unless one is under way.
Sends == tap = "UPDATE_DR" /\ ir = "DMI" /\ SubSeq(drShift, 1, 2) # Nop
Clears ==
  \/ tap = "TEST_LOGIC_RESET"
  \/ tap = "UPDATE_DR" /\ ir = "DTMCS"

\* An edge of TCK: the toggles cross, a request is sent or an answer taken.
LEMMA TckMoves ==
  ASSUME ChipType, NEW tms \in {0, 1}, NEW tdi \in {0, 1}, TckRise(tms, tdi)
  PROVE  /\ dtm'.meta = dmi.rspToggle /\ dtm'.sync = dtm.meta
         /\ dtm'.seen = dtm.sync
         /\ ~Sends \/ dtm.busy =>
              /\ dtm'.reqToggle = dtm.reqToggle
              /\ dtm'.busy <=> dtm.busy /\ dtm.sync = dtm.seen
         /\ Sends /\ ~dtm.busy =>
              /\ dtm'.busy = TRUE /\ dtm'.reqToggle = 1 - dtm.reqToggle
              /\ dtm'.reqOp = SubSeq(drShift, 1, 2)
              /\ dtm'.reqData = SubSeq(drShift, 3, DataBits + 2)
              /\ dtm'.reqAddr = SubSeq(drShift, DataBits + 3, DataBits + AddrBits + 2)
         /\ ~Sends /\ ~Clears =>
              /\ dtm'.reqOp = dtm.reqOp /\ dtm'.reqAddr = dtm.reqAddr
              /\ dtm'.reqData = dtm.reqData
              /\ dtm.sync = dtm.seen =>
                   /\ dtm'.addr = dtm.addr /\ dtm'.data = dtm.data
                   /\ dtm'.resp = dtm.resp
              /\ dtm.sync # dtm.seen =>
                   /\ dtm'.addr = dmi.rspAddr /\ dtm'.data = dmi.rspData
                   /\ dtm'.resp = dmi.rspResp
<1> DEFINE d == Listened
           c == Cleared(Listened)
           q == Requested(Listened)
<1>1. dtm \in DtmType /\ dmi \in DmiType
  BY DEF ChipType
<1>2. /\ d \in DtmType
      /\ d.meta = dmi.rspToggle /\ d.sync = dtm.meta /\ d.seen = dtm.sync
      /\ d.reqToggle = dtm.reqToggle
      /\ d.reqOp = dtm.reqOp /\ d.reqAddr = dtm.reqAddr /\ d.reqData = dtm.reqData
  BY <1>1, ListenedType
<1>3. dtm.sync = dtm.seen =>
        /\ d.busy = dtm.busy /\ d.addr = dtm.addr
        /\ d.data = dtm.data /\ d.resp = dtm.resp
  BY <1>1, ListenedType
<1>4. dtm.sync # dtm.seen =>
        /\ d.busy = FALSE /\ d.addr = dmi.rspAddr
        /\ d.data = dmi.rspData /\ d.resp = dmi.rspResp
  BY <1>1, ListenedType
<1>5. /\ c.busy = d.busy /\ c.meta = d.meta
      /\ c.sync = d.sync /\ c.seen = d.seen /\ c.reqToggle = d.reqToggle
  BY <1>2, ClearedType
<1>6. CASE ~(tap = "UPDATE_DR" /\ ir = "DMI")
  <2>1. dtm' = c \/ dtm' = d
    BY <1>6 DEF TckRise
  <2>2. ~Clears => dtm' = d
    BY <1>6 DEF TckRise, Clears
  <2> HIDE DEF c, d
  <2> QED BY <1>2, <1>3, <1>4, <1>5, <1>6, <2>1, <2>2 DEF Sends
<1>7. CASE tap = "UPDATE_DR" /\ ir = "DMI"
  <2>1. drShift \in Bits(DmiBits)
    BY <1>7 DEF ChipType, ScanStates, Width
  <2>2. dtm' = q
    BY <1>7 DEF TckRise
  <2> HIDE DEF d
  <2>3. /\ q.meta = d.meta /\ q.sync = d.sync /\ q.seen = d.seen
        /\ SubSeq(drShift, 1, 2) = Nop => q = d
        /\ SubSeq(drShift, 1, 2) # Nop /\ dtm.busy =>
             q.busy = d.busy /\ q.reqToggle = d.reqToggle
    BY <1>1, <1>2, <2>1, RequestedType DEF d
  <2>4. SubSeq(drShift, 1, 2) # Nop /\ ~dtm.busy =>
          /\ q.busy = TRUE /\ q.reqToggle = 1 - d.reqToggle
          /\ q.reqOp = SubSeq(drShift, 1, 2)
          /\ q.reqData = SubSeq(drShift, 3, DataBits + 2)
          /\ q.reqAddr = SubSeq(drShift, DataBits + 3, DataBits + AddrBits + 2)
    BY <1>1, <1>2, <2>1, RequestedType, Widths DEF d
  <2> HIDE DEF q
  <2> QED BY <1>2, <1>3, <1>4, <1>7, <2>2, <2>3, <2>4 DEF Sends
<1> QED BY <1>6, <1>7

\* How far the request has come after a command.
NextPhase(k) ==
  IF k = 0 THEN IF part = 2 /\ Sends THEN 1 ELSE 0
  ELSE IF k < 6 THEN IF now = 4 THEN k + 1 ELSE k
  ELSE IF part # 2 THEN k
  ELSE IF k = 8 THEN 0 ELSE k + 1

\* What a command does to the two sides of the request.
TckSide ==
  IF part = 2 THEN \E tms \in {0, 1} : \E tdi \in {0, 1} : TckRise(tms, tdi)
  ELSE UNCHANGED <<scanVars, dtm>>
ClkSide == IF now = 4 THEN ClkRise ELSE UNCHANGED <<dmi, dm>>

\* The request under way goes from each phase to the next and is never lost,
\* doubled or mixed up with another, whichever of the clocks rises.
LEMMA PhaseMoves ==
  ASSUME ChipType, NEW k \in 0 .. 8, Phase(k), TckSide, ClkSide,
         NEW m \in 0 .. 8, m = NextPhase(k)
  PROVE  Phase(m)'
<1>1. /\ dtm.busy \in BOOLEAN /\ dtm.reqToggle \in {0, 1}
      /\ dtm.meta \in {0, 1} /\ dtm.sync \in {0, 1} /\ dtm.seen \in {0, 1}
      /\ dmi.valid \in BOOLEAN /\ dmi.wait \in BOOLEAN /\ dm.valid \in BOOLEAN
      /\ dmi.rspToggle \in {0, 1}
      /\ dmi.meta \in {0, 1} /\ dmi.sync \in {0, 1} /\ dmi.seen \in {0, 1}
  BY DEF ChipType, DtmType, DmiType, DmType
<1>2. /\ dtm.busy <=> k # 0
      /\ dmi.meta = IF k = 1 THEN 1 - dtm.reqToggle ELSE dtm.reqToggle
      /\ dmi.sync = IF k \in {1, 2} THEN 1 - dtm.reqToggle ELSE dtm.reqToggle
      /\ dmi.seen = IF k \in {1, 2, 3} THEN 1 - dtm.reqToggle ELSE dtm.reqToggle
      /\ dtm.meta = IF k = 6 THEN 1 - dmi.rspToggle ELSE dmi.rspToggle
      /\ dtm.sync = IF k \in {6, 7} THEN 1 - dmi.rspToggle ELSE dmi.rspToggle
      /\ dtm.seen = IF k \in {6, 7, 8} THEN 1 - dmi.rspToggle ELSE dmi.rspToggle
  BY DEF Phase
<1>3. (dmi.valid <=> k = 4) /\ (dmi.wait <=> k = 5) /\ (dm.valid <=> k = 5)
  BY DEF Phase
<1>4. /\ dtm'.meta = IF part = 2 THEN dmi.rspToggle ELSE dtm.meta
      /\ dtm'.sync = IF part = 2 THEN dtm.meta ELSE dtm.sync
      /\ dtm'.seen = IF part = 2 THEN dtm.sync ELSE dtm.seen
      /\ dtm'.reqToggle =
           IF part = 2 /\ Sends /\ k = 0 THEN 1 - dtm.reqToggle ELSE dtm.reqToggle
      /\ dtm'.busy <=> IF part = 2 THEN IF k = 0 THEN Sends ELSE k # 8 ELSE k # 0
  <2>1. CASE part = 2
    <3>1. PICK tms \in {0, 1}, tdi \in {0, 1} : TckRise(tms, tdi)
      BY <2>1 DEF TckSide
    <3>2. /\ dtm'.meta = dmi.rspToggle /\ dtm'.sync = dtm.meta
          /\ dtm'.seen = dtm.sync
          /\ ~Sends \/ dtm.busy =>
               /\ dtm'.reqToggle = dtm.reqToggle
               /\ dtm'.busy <=> dtm.busy /\ dtm.sync = dtm.seen
          /\ Sends /\ ~dtm.busy =>
               dtm'.busy = TRUE /\ dtm'.reqToggle = 1 - dtm.reqToggle
      BY <3>1, TckMoves
    <3>3. dtm.sync = dtm.seen <=> k # 8
      BY <1>1, <1>2
    <3> QED BY <1>2, <2>1, <3>2, <3>3
  <2>2. CASE part # 2
    BY <1>2, <2>2 DEF TckSide
  <2> QED BY <2>1, <2>2
<1>5. /\ RequestTaken <=> k = 4
      /\ ResponseTaken <=> k = 5
      /\ Presented <=> k = 3
  BY <1>1, <1>2, <1>3 DEF RequestTaken, ResponseTaken, Presented
<1>6. /\ dmi'.meta = IF now = 4 THEN dtm.reqToggle ELSE dmi.meta
      /\ dmi'.sync = IF now = 4 THEN dmi.meta ELSE dmi.sync
      /\ dmi'.seen = IF now = 4 /\ k = 3 THEN dmi.sync ELSE dmi.seen
      /\ dmi'.rspToggle =
           IF now = 4 /\ k = 5 THEN 1 - dmi.rspToggle ELSE dmi.rspToggle
      /\ dmi'.valid <=> IF now = 4 THEN k = 3 ELSE k = 4
      /\ dmi'.wait <=> IF now = 4 THEN k = 4 ELSE k = 5
  <2>1. CASE now = 4
    <3>1. dmi \in DmiType /\ dtm \in DtmType /\ dm \in DmType /\ DmiClock
      BY <2>1 DEF ChipType, ClkSide, ClkRise
    <3>2. dmi'.meta = dtm.reqToggle /\ dmi'.sync = dmi.meta
      BY <3>1, DmiMoves
    <3>3. CASE k = 4
      <4>1. RequestTaken
        BY <1>5, <3>3
      <4> QED BY <1>3, <2>1, <3>1, <3>2, <3>3, <4>1, DmiMoves
    <3>4. CASE k = 5
      <4>1. ~RequestTaken /\ ResponseTaken
        BY <1>5, <3>4
      <4> QED BY <1>3, <2>1, <3>1, <3>2, <3>4, <4>1, DmiMoves
    <3>5. CASE k = 3
      <4>1. ~RequestTaken /\ ~ResponseTaken /\ Presented
        BY <1>5, <3>5
      <4> QED BY <1>3, <2>1, <3>1, <3>2, <3>5, <4>1, DmiMoves
    <3>6. CASE k \notin {3, 4, 5}
      <4>1. ~RequestTaken /\ ~ResponseTaken /\ ~Presented
        BY <1>5, <3>6
      <4> QED BY <1>3, <2>1, <3>1, <3>2, <3>6, <4>1, DmiMoves
    <3> QED BY <3>3, <3>4, <3>5, <3>6
  <2>2. CASE now # 4
    BY <1>3, <2>2 DEF ClkSide
  <2> QED BY <2>1, <2>2
<1>7. dm'.valid <=> IF now = 4 THEN k = 4 ELSE k = 5
  <2>1. CASE now = 4 /\ k = 4
    BY <1>5, <2>1 DEF ClkSide, ClkRise, DmClock
  <2>2. CASE now = 4 /\ k # 4
    <3>1. dm' = [dm EXCEPT !.valid = @ /\ ~dmi.wait]
      BY <1>5, <2>2 DEF ClkSide, ClkRise, DmClock
    <3>2. dm'.valid <=> dm.valid /\ ~dmi.wait
      BY <3>1 DEF ChipType, DmType
    <3> QED BY <1>3, <2>2, <3>2
  <2>3. CASE now # 4
    BY <1>3, <2>3 DEF ClkSide
  <2> QED BY <2>1, <2>2, <2>3
<1>8. m = IF k = 0 THEN IF part = 2 /\ Sends THEN 1 ELSE 0
          ELSE IF k < 6 THEN IF now = 4 THEN k + 1 ELSE k
          ELSE IF part # 2 THEN k
          ELSE IF k = 8 THEN 0 ELSE k + 1
  BY DEF NextPhase
<1>9. /\ dtm'.busy <=> m # 0
      /\ dmi'.valid <=> m = 4
      /\ dmi'.wait <=> m = 5
      /\ dm'.valid <=> m = 5
  BY <1>4, <1>6, <1>7, <1>8
<1>10. /\ dmi'.meta = IF m = 1 THEN 1 - dtm'.reqToggle ELSE dtm'.reqToggle
       /\ dmi'.sync = IF m \in {1, 2} THEN 1 - dtm'.reqToggle ELSE dtm'.reqToggle
       /\ dmi'.seen = IF m \in {1, 2, 3} THEN 1 - dtm'.reqToggle ELSE dtm'.reqToggle
  BY <1>1, <1>2, <1>4, <1>6, <1>8
<1>11. /\ dtm'.meta = IF m = 6 THEN 1 - dmi'.rspToggle ELSE dmi'.rspToggle
       /\ dtm'.sync = IF m \in {6, 7} THEN 1 - dmi'.rspToggle ELSE dmi'.rspToggle
       /\ dtm'.seen = IF m \in {6, 7, 8} THEN 1 - dmi'.rspToggle ELSE dmi'.rspToggle
  BY <1>1, <1>2, <1>4, <1>6, <1>8
<1> QED BY <1>9, <1>10, <1>11 DEF Phase

-------------------------------------------------------------------------------
(* A command of the script, part by part.                                  *)

\* The client goes on, with what its commands do to the TAP and what it reads.
Goes ==
  /\ at \in Nat \ {0} /\ part \in 1 .. 4
  /\ part' = IF part = 4 THEN 1 ELSE part + 1
  /\ at' = IF part = 4 THEN at + 1 ELSE at
TapSide ==
  IF part = 2 THEN TckRise(Script[at].tms, Script[at].tdi) ELSE UNCHANGED scanVars
ReadSide ==
  /\ part \in {2, 3} \/ (part = 1 /\ at # 1) => tdo' = tdo
  /\ part = 4 => TckFall
  /\ dataOut' =
       IF part = 3 /\ Script[at].keep THEN Append(dataOut, tdo)
       ELSE IF part = 4 /\ Script[at].check # "none" THEN << >> ELSE dataOut

\* TCK rises once with each cycle of the script.
LEMMA RisesMove ==
  ASSUME Goes
  PROVE  /\ Rises \in Nat /\ Rises = IF part > 2 THEN at ELSE at - 1
         /\ Rises' = IF part = 2 THEN Rises + 1 ELSE Rises
         /\ Rises' = IF part' > 2 THEN at' ELSE at' - 1
BY DEF Goes, Rises

\* The TAP, the shift register and the bits read keep up with the script through
\* reset_to_idle,
LEMMA ResetStep ==
  ASSUME ChipType, Goes, TapSide, ReadSide, InReset
  PROVE  InReset' /\ (at = 7 /\ part = 4 => dataOut' = << >>)
<1>1. /\ Rises \in Nat /\ Rises = IF part > 2 THEN at ELSE at - 1
      /\ Rises' = IF part = 2 THEN Rises + 1 ELSE Rises
  BY RisesMove
<1>2. \A q \in 1 .. 7 :
        /\ Script[q].tms = IF q < 7 THEN 1 ELSE 0
        /\ ~Script[q].keep /\ Script[q].check = "none"
  BY ScriptParts DEF ResetPart
<1>3. at <= 7 => dataOut' = dataOut /\ dataOut = << >>
  BY <1>2 DEF Goes, ReadSide, InReset
<1>4. CASE part = 2
  <2>1. tap \in DOMAIN TapNext /\ tap' = TapNext[tap][Script[at].tms + 1]
    BY <1>4 DEF ChipType, TapSide, TckRise
  <2>2. ASSUME Rises' < 7
        PROVE  ToReset[tap'] + Rises' <= 5 \/ tap' = "TEST_LOGIC_RESET"
    <3>1. Script[at].tms = 1 /\ Rises < 7 /\ Rises' = Rises + 1
      BY <1>1, <1>2, <1>4, <2>2 DEF Goes
    <3>2. tap' = TapNext[tap][1 + 1]
      BY <2>1, <3>1
    <3>3. ToReset[tap] + Rises <= 5 \/ tap = "TEST_LOGIC_RESET"
      BY <3>1 DEF InReset
    <3>4. ToReset[tap] \in 0 .. 5 /\ ToReset[tap'] \in 0 .. 5
      <4>1. tap' \in DOMAIN TapNext
        BY <2>1, <3>2, TapMoves
      <4> QED BY <2>1, <4>1, ResetMoves
    <3>5. CASE tap = "TEST_LOGIC_RESET"
      BY <2>1, <3>2, <3>5, ResetMoves
    <3>6. CASE tap # "TEST_LOGIC_RESET"
      <4>1. ToReset[tap'] <= ToReset[tap] - 1
        BY <2>1, <3>2, <3>6, ResetMoves
      <4> QED BY <1>1, <3>1, <3>3, <3>4, <3>6, <4>1
    <3> QED BY <3>5, <3>6
  <2>3. ASSUME Rises' = 7
        PROVE  tap' = "RUN_TEST_IDLE" /\ ir' = "IDCODE"
    <3>1. at = 7 /\ Rises = 6 /\ Script[at].tms = 0
      BY <1>1, <1>2, <1>4, <2>3 DEF Goes
    <3>2. tap = "TEST_LOGIC_RESET"
      BY <3>1, <2>1, ResetMoves DEF InReset
    <3>3. ir' = "IDCODE"
      BY <3>2, <1>4 DEF TapSide, TckRise
    <3> QED BY <2>1, <3>1, <3>2, <3>3, ResetMoves
  <2> QED BY <1>3, <1>4, <2>2, <2>3 DEF InReset, Goes
<1>5. CASE part # 2
  <2>1. tap' = tap /\ ir' = ir /\ Rises' = Rises
    BY <1>1, <1>5 DEF TapSide, scanVars
  <2>2. at' <= 7 => at <= 7
    BY DEF Goes
  <2> QED BY <1>3, <2>1, <2>2 DEF InReset
<1> QED BY <1>4, <1>5

\* through set_ir,
LEMMA IrStep ==
  ASSUME ChipType, Goes, TapSide, ReadSide,
         NEW b \in Nat, NEW register \in {"DTMCS", "DMI"},
         IrPart(Script, b, register), InSetIr(b, register),
         Rises' = b => tap' = "RUN_TEST_IDLE",
         at = b /\ part = 4 => dataOut' = << >>
  PROVE  InSetIr(b, register)' /\ (at = b + 11 /\ part = 4 => dataOut' = << >>)
<1>1. /\ Rises \in Nat /\ Rises = IF part > 2 THEN at ELSE at - 1
      /\ Rises' = IF part = 2 THEN Rises + 1 ELSE Rises
  BY RisesMove
<1> DEFINE bits == IrBits[register]
           cap == <<1, 0, 0, 0, 0>>
<1>2. \A q \in 1 .. 11 :
        /\ Script[b + q].tms = IF q \in {1, 2, 9, 10} THEN 1 ELSE 0
        /\ Script[b + q].tdi = IF q \in 5 .. 9 THEN bits[q - 4] ELSE 0
        /\ ~Script[b + q].keep /\ Script[b + q].check = "none"
  BY DEF IrPart
<1>3. bits \in Bits(5) /\ cap \in Bits(5) /\ 5 \in Nat \ {0}
  <2>1. cap \in Bits(5)
    BY DEF Bits
  <2> QED BY <2>1, IrRegisters
<1> HIDE DEF bits, cap
<1>4. b < at /\ at <= b + 11 => dataOut' = dataOut /\ dataOut = << >>
  <2>1. ASSUME b < at, at <= b + 11
        PROVE  ~Script[at].keep /\ Script[at].check = "none"
    <3>1. PICK q \in 1 .. 11 : at = b + q
      <4>1. at - b \in 1 .. 11 /\ at = b + (at - b)
        BY <2>1 DEF Goes
      <4> QED BY <4>1
    <3> QED BY <1>2, <3>1
  <2> QED BY <2>1 DEF ReadSide, InSetIr
<1>5. (b < at' /\ at' <= b + 11 => dataOut' = << >>)
      /\ (at = b + 11 /\ part = 4 => dataOut' = << >>)
  BY <1>4 DEF Goes
<1>6. CASE part = 2 /\ b <= Rises /\ Rises <= b + 10
  <2>1. PICK q \in 0 .. 10 : Rises = b + q /\ at = b + (q + 1) /\ q = Rises - b
    <3>1. Rises - b \in 0 .. 10 /\ Rises = b + (Rises - b)
          /\ at = b + ((Rises - b) + 1)
      BY <1>1, <1>6 DEF Goes
    <3> QED BY <3>1
  <2>2. Rises' = b + (q + 1)
    BY <1>1, <1>6, <2>1
  <2>3. /\ Script[at].tms = IF q + 1 \in {1, 2, 9, 10} THEN 1 ELSE 0
        /\ Script[at].tdi = IF q + 1 \in 5 .. 9 THEN bits[(q + 1) - 4] ELSE 0
    <3>1. q + 1 \in 1 .. 11
      OBVIOUS
    <3> QED BY <1>2, <2>1, <3>1
  <2>4. tap = IrState(q)
    BY <2>1, <1>6 DEF InSetIr
  <2>5. tap' = IrState(q + 1)
    <3>1. tap' = TapNext[IrState(q)][Script[at].tms + 1]
      BY <1>6, <2>4 DEF TapSide, TckRise
    <3> QED BY <2>3, <3>1, IrMoves
  <2>6. Rises' - b = q + 1
    BY <2>2
  <2>7. ASSUME b + 4 <= Rises', Rises' <= b + 10
        PROVE  irShift' = Mixed(cap, bits, 5, Shifts(b + 1, 5)')
    <3>1. q \in 3 .. 9
      BY <2>2, <2>7
    <3>2. Shifts(b + 1, 5)' = IF q - 3 <= 5 THEN q - 3 ELSE 5
      BY <2>2, <3>1 DEF Shifts
    <3>3. CASE q = 3
      <4>1. irShift' = cap
        BY <1>6, <2>4, <3>3 DEF TapSide, TckRise, IrState, cap
      <4>2. Shifts(b + 1, 5)' = 0
        BY <3>2, <3>3
      <4> QED BY <1>3, <4>1, <4>2, NothingMixed
    <3>4. CASE q \in 4 .. 8
      <4>1. irShift = Mixed(cap, bits, 5, q - 4)
        <5>1. Shifts(b + 1, 5) = q - 4
          BY <2>1, <3>4 DEF Shifts
        <5> QED BY <2>1, <3>4, <5>1 DEF InSetIr, cap, bits
      <4>2. Script[at].tdi = bits[(q - 4) + 1]
        <5>1. q + 1 \in 5 .. 9 /\ (q + 1) - 4 = (q - 4) + 1
          BY <3>4
        <5> QED BY <2>3, <5>1
      <4>3. irShift' = Shifted(irShift, Script[at].tdi)
        BY <1>6, <2>4, <3>4 DEF TapSide, TckRise, IrState
      <4>4. q - 4 \in 0 .. 5 - 1
        BY <3>4
      <4>5. Shifted(Mixed(cap, bits, 5, q - 4), bits[(q - 4) + 1]) = Mixed(cap, bits, 5, (q - 4) + 1)
        BY <1>3, <4>4, MixesOn
      <4>6. Shifts(b + 1, 5)' = (q - 4) + 1
        BY <3>2, <3>4
      <4> QED BY <4>1, <4>2, <4>3, <4>5, <4>6
    <3>5. CASE q = 9
      <4>1. irShift' = irShift
        BY <1>6, <2>4, <3>5 DEF TapSide, TckRise, IrState
      <4>2. Shifts(b + 1, 5) = 5 /\ Shifts(b + 1, 5)' = 5
        BY <2>1, <3>2, <3>5 DEF Shifts
      <4> QED BY <2>1, <3>5, <4>1, <4>2 DEF InSetIr, cap, bits
    <3> QED BY <3>1, <3>3, <3>4, <3>5
  <2>8. ASSUME Rises' = b + 11
        PROVE  ir' = register
    <3>1. q = 10 /\ Shifts(b + 1, 5) = 5
      BY <2>1, <2>2, <2>8 DEF Shifts
    <3>2. irShift = Mixed(cap, bits, 5, 5)
      BY <2>1, <3>1 DEF InSetIr, cap, bits
    <3>3. irShift = bits
      BY <1>3, <3>2, AllMixed
    <3>4. ir' = Selected(bits)
      BY <1>6, <2>4, <3>1, <3>3 DEF TapSide, TckRise, IrState
    <3> QED BY <3>4, Selects DEF bits
  <2>9. tap' = IrState(Rises' - b)
    BY <2>5, <2>6
  <2> QED BY <1>5, <2>7, <2>8, <2>9 DEF InSetIr, cap, bits
<1>7. CASE part = 2 /\ ~(b <= Rises /\ Rises <= b + 10)
  <2>1. b <= Rises' /\ Rises' <= b + 11 => Rises' = b
    BY <1>1, <1>7 DEF Goes
  <2>2. Rises' = b => tap' = IrState(Rises' - b)
    <3>1. IrState(0) = "RUN_TEST_IDLE"
      BY DEF IrState
    <3>2. b - b = 0
      OBVIOUS
    <3> QED BY <3>1, <3>2
  <2>3. ~(b + 4 <= Rises' /\ Rises' <= b + 10) /\ Rises' # b + 11
    BY <1>1, <1>7, <2>1
  <2> QED BY <1>5, <2>1, <2>2, <2>3 DEF InSetIr
<1>8. CASE part # 2
  <2>1. tap' = tap /\ ir' = ir /\ irShift' = irShift /\ Rises' = Rises
    BY <1>1, <1>8 DEF TapSide, scanVars
  <2>2. Shifts(b + 1, 5)' = Shifts(b + 1, 5)
    BY <2>1 DEF Shifts
  <2> QED BY <1>5, <2>1, <2>2 DEF InSetIr
<1> QED BY <1>6, <1>7, <1>8

\* through idle,
LEMMA IdleStep ==
  ASSUME ChipType, Goes, TapSide, ReadSide,
         NEW b \in Nat, IdlePart(Script, b), InIdle(b),
         Rises' = b => tap' = "RUN_TEST_IDLE" /\ ir' = "DMI",
         at = b /\ part = 4 => dataOut' = << >>
  PROVE  InIdle(b)' /\ (at = b + 16 /\ part = 4 => dataOut' = << >>)
<1>1. /\ Rises \in Nat /\ Rises = IF part > 2 THEN at ELSE at - 1
      /\ Rises' = IF part = 2 THEN Rises + 1 ELSE Rises
  BY RisesMove
<1>2. ASSUME b < at, at <= b + 16
      PROVE  /\ Script[at].tms = 0 /\ ~Script[at].keep
             /\ Script[at].check = "none"
  <2>1. PICK q \in 1 .. 16 : at = b + q
    <3>1. at - b \in 1 .. 16 /\ at = b + (at - b)
      BY <1>2 DEF Goes
    <3> QED BY <3>1
  <2> QED BY <2>1 DEF IdlePart
<1>3. b < at /\ at <= b + 16 => dataOut' = dataOut /\ dataOut = << >>
  BY <1>2 DEF ReadSide, InIdle
<1>4. (b < at' /\ at' <= b + 16 => dataOut' = << >>)
      /\ (at = b + 16 /\ part = 4 => dataOut' = << >>)
  BY <1>3 DEF Goes
<1>5. CASE part = 2
  <2>1. ASSUME b <= Rises', Rises' <= b + 16, Rises' # b
        PROVE  tap' = "RUN_TEST_IDLE" /\ ir' = "DMI"
    <3>1. b < at /\ at <= b + 16 /\ b <= Rises /\ Rises <= b + 16
      BY <1>1, <1>5, <2>1 DEF Goes
    <3>2. tap = "RUN_TEST_IDLE" /\ ir = "DMI" /\ Script[at].tms = 0
      BY <1>2, <3>1 DEF InIdle
    <3> QED BY <1>5, <3>2 DEF TapSide, TckRise, TapNext
  <2> QED BY <1>4, <2>1 DEF InIdle
<1>6. CASE part # 2
  <2>1. tap' = tap /\ ir' = ir /\ Rises' = Rises
    BY <1>1, <1>6 DEF TapSide, scanVars
  <2> QED BY <1>4, <2>1 DEF InIdle
<1> QED BY <1>5, <1>6

\* The bits read so far are the beginning of what was captured.
LEMMA TakenSoFar ==
  ASSUME NEW n \in Nat, NEW cap \in Bits(n)
  PROVE  /\ SubSeq(cap, 1, 0) = << >>
         /\ SubSeq(cap, 1, n) = cap
         /\ \A j \in 0 .. n - 1 :
              Append(SubSeq(cap, 1, j), cap[j + 1]) = SubSeq(cap, 1, j + 1)
<1>1. cap \in Seq({0, 1}) /\ Len(cap) = n
  BY BitsAreSeqs
<1>2. SubSeq(cap, 1, 0) = << >>
  BY <1>1
<1>3. SubSeq(cap, 1, n) = cap
  BY <1>1
<1>4. ASSUME NEW j \in 0 .. n - 1
      PROVE  Append(SubSeq(cap, 1, j), cap[j + 1]) = SubSeq(cap, 1, j + 1)
  <2>1. SubSeq(cap, 1, j) = [i \in 1 .. j |-> cap[i]]
    BY <1>1
  <2>2. SubSeq(cap, 1, j + 1) = [i \in 1 .. j + 1 |-> cap[i]]
    BY <1>1
  <2>3. \A i \in 1 .. n : cap[i] \in {0, 1}
    BY DEF Bits
  <2> DEFINE u == [i \in 1 .. j |-> cap[i]]
             v == [i \in 1 .. j + 1 |-> cap[i]]
  <2>4. u \in Seq({0, 1}) /\ Len(u) = j /\ \A i \in 1 .. j : u[i] = cap[i]
    <3>1. u \in Bits(j) /\ j \in Nat
      BY <2>3 DEF Bits
    <3> QED BY <3>1, BitsAreSeqs
  <2>5. /\ v \in Seq({0, 1}) /\ Len(v) = j + 1
        /\ \A i \in 1 .. j + 1 : v[i] = cap[i]
    <3>1. v \in Bits(j + 1) /\ j + 1 \in Nat
      BY <2>3 DEF Bits
    <3> QED BY <3>1, BitsAreSeqs
  <2>6. cap[j + 1] \in {0, 1}
    BY <2>3
  <2> HIDE DEF u, v
  <2>7. Append(u, cap[j + 1]) = v
    <3> DEFINE w == Append(u, cap[j + 1])
    <3>1. /\ w \in Seq({0, 1}) /\ Len(w) = j + 1
          /\ \A i \in 1 .. j + 1 : w[i] = IF i <= j THEN u[i] ELSE cap[j + 1]
      BY <2>4, <2>6
    <3>2. w \in Bits(j + 1) /\ v \in Bits(j + 1) /\ j + 1 \in Nat
      BY <3>1, <2>5, SeqsAreBits
    <3> HIDE DEF w
    <3>3. \A i \in 1 .. j + 1 : w[i] = v[i]
      BY <2>4, <2>5, <3>1
    <3>4. w = v
      BY <3>2, <3>3, SameBits
    <3> QED BY <3>4 DEF w
  <2> QED BY <2>1, <2>2, <2>7 DEF u, v
<1> QED BY <1>2, <1>3, <1>4

\* through scan_dr, which returns what was captured if that was good,
LEMMA ScanStep ==
  ASSUME ChipType, Goes, TapSide, ReadSide,
         NEW b \in Nat \ {0}, NEW n \in Nat \ {0}, NEW register \in Registers,
         NEW bits \in Bits(n), NEW check \in Checked, check # "none",
         NEW Good \in SUBSET Bits(n),
         DrPart(Script, b, n, bits, check), InScan(b, n, register, bits, Good),
         Rises' = b => tap' = "RUN_TEST_IDLE" /\ ir' = register,
         at = b /\ part = 4 => dataOut' = << >>,
         part = 2 /\ Rises = b + 2 => Captured \in Good
  PROVE  /\ InScan(b, n, register, bits, Good)'
         /\ at = b + n + 5 /\ part = 4 => dataOut' = << >>
<1>1. /\ Rises \in Nat /\ Rises = IF part > 2 THEN at ELSE at - 1
      /\ Rises' = IF part = 2 THEN Rises + 1 ELSE Rises
      /\ Rises' = IF part' > 2 THEN at' ELSE at' - 1
  BY RisesMove
<1>2. \A q \in 1 .. n + 5 :
        /\ Script[b + q].tms = IF q \in {1, n + 3, n + 4} THEN 1 ELSE 0
        /\ Script[b + q].tdi = IF q \in 4 .. n + 3 THEN bits[q - 3] ELSE 0
        /\ Script[b + q].keep <=> q \in 4 .. n + 3
        /\ Script[b + q].check = IF q = n + 5 THEN check ELSE "none"
  BY DEF DrPart
<1>3. ASSUME NEW q \in 0 .. n + 4, at = b + (q + 1)
      PROVE  /\ Script[at].tms = IF q + 1 \in {1, n + 3, n + 4} THEN 1 ELSE 0
             /\ Script[at].tdi = IF q + 1 \in 4 .. n + 3 THEN bits[(q + 1) - 3] ELSE 0
             /\ Script[at].keep <=> q + 1 \in 4 .. n + 3
             /\ Script[at].check = IF q + 1 = n + 5 THEN check ELSE "none"
  <2>1. q + 1 \in 1 .. n + 5
    OBVIOUS
  <2> QED BY <1>2, <1>3, <2>1
<1>4. ASSUME b < at, at <= b + n + 5
      PROVE  \E q \in 0 .. n + 4 : at = b + (q + 1)
  <2>1. at - b - 1 \in 0 .. n + 4 /\ at = b + ((at - b - 1) + 1)
    BY <1>4 DEF Goes
  <2> QED BY <2>1
<1>5. b <= Rises' /\ Rises' <= b + n + 5 =>
        tap' = DrState(Rises' - b, n) /\ ir' = register
  <2>1. CASE part = 2 /\ b <= Rises /\ Rises <= b + n + 4
    <3>1. PICK q \in 0 .. n + 4 : Rises = b + q /\ at = b + (q + 1) /\ q = Rises - b
      <4>1. Rises - b \in 0 .. n + 4 /\ Rises = b + (Rises - b)
            /\ at = b + ((Rises - b) + 1)
        BY <1>1, <2>1 DEF Goes
      <4> QED BY <4>1
    <3>2. tap = DrState(q, n) /\ ir = register
      BY <2>1, <3>1 DEF InScan
    <3>3. tap' = TapNext[DrState(q, n)][Script[at].tms + 1]
      BY <2>1, <3>2 DEF TapSide, TckRise
    <3>4. tap' = DrState(q + 1, n)
      BY <1>3, <3>1, <3>3, DrMoves
    <3>5. ir' = ir
      BY <2>1, <3>2 DEF TapSide, TckRise, DrState
    <3>6. Rises' - b = q + 1
      BY <1>1, <2>1, <3>1
    <3> QED BY <3>2, <3>4, <3>5, <3>6
  <2>2. CASE part = 2 /\ ~(b <= Rises /\ Rises <= b + n + 4)
    <3>1. b <= Rises' /\ Rises' <= b + n + 5 => Rises' = b
      BY <1>1, <2>2 DEF Goes
    <3>2. DrState(b - b, n) = "RUN_TEST_IDLE"
      BY DEF DrState
    <3> QED BY <3>1, <3>2
  <2>3. CASE part # 2
    BY <1>1, <2>3 DEF TapSide, scanVars, InScan
  <2> QED BY <2>1, <2>2, <2>3
<1>6. b < at' /\ Rises' < b + 3 => dataOut' = << >>
  <2>1. ASSUME b < at, Rises < b + 3
        PROVE  dataOut' = << >>
    <3>1. at <= b + 3
      BY <1>1, <2>1 DEF Goes
    <3>4. at <= b + n + 5
      BY <3>1 DEF Goes
    <3>2. PICK q \in 0 .. n + 4 : at = b + (q + 1)
      BY <1>4, <2>1, <3>4
    <3>3. ~Script[at].keep /\ Script[at].check = "none"
      BY <1>3, <3>1, <3>2 DEF Goes
    <3> QED BY <2>1, <3>3 DEF ReadSide, InScan
  <2>2. b < at' /\ Rises' < b + 3 => (b < at /\ Rises < b + 3) \/ (at = b /\ part = 4)
    BY <1>1 DEF Goes
  <2> QED BY <2>1, <2>2
<1>7. at = b + n + 5 /\ part = 4 => dataOut' = << >>
  <2>1. at = b + n + 5 => Script[at].check # "none"
    <3>1. n + 5 \in 1 .. n + 5 /\ b + n + 5 = b + (n + 5)
      OBVIOUS
    <3> QED BY <1>2, <3>1
  <2> QED BY <2>1 DEF ReadSide
<1>8. ASSUME b + 3 <= Rises', at' <= b + n + 5
      PROVE  \E cap \in Good : ScanData(cap, b, n, bits)'
  <2>1. CASE part = 2 /\ Rises = b + 2
    <3>1. PICK cap \in Good : cap = Captured
      BY <2>1
    <3>2. cap \in Bits(n)
      OBVIOUS
    <3>3. at' = b + 3 /\ Rises' = b + 3 /\ part' = 3 /\ at = b + 3
      BY <1>1, <2>1 DEF Goes
    <3>4. drShift' = cap
      <4>1. tap = DrState(Rises - b, n) /\ Rises - b = 2
        BY <2>1 DEF InScan
      <4>2. tap = "CAPTURE_DR"
        BY <4>1 DEF DrState
      <4> QED BY <2>1, <3>1, <4>2 DEF TapSide, TckRise
    <3>5. Shifts(b, n)' = 0 /\ TakenBits(b, n)' = 0
      BY <3>3 DEF Shifts, TakenBits
    <3>6. dataOut' = << >>
      <4>1. dataOut = << >>
        BY <2>1, <3>3 DEF InScan
      <4> QED BY <2>1, <4>1 DEF ReadSide
    <3>7. drShift' = Mixed(cap, bits, n, Shifts(b, n)')
      BY <3>2, <3>4, <3>5, NothingMixed
    <3>8. dataOut' = SubSeq(cap, 1, TakenBits(b, n)')
      BY <3>2, <3>5, <3>6, TakenSoFar
    <3>9. ~(b + 4 <= at')
      BY <3>3
    <3> QED BY <3>7, <3>8, <3>9 DEF ScanData
  <2>2. CASE ~(part = 2 /\ Rises = b + 2)
    <3>1. b + 3 <= Rises /\ at <= b + n + 5 /\ b + 3 <= at /\ at # 1
      BY <1>1, <1>8, <2>2 DEF Goes
    <3>2. PICK cap \in Good : ScanData(cap, b, n, bits)
      BY <3>1 DEF InScan
    <3>3. cap \in Bits(n)
      OBVIOUS
    <3>4. PICK q \in 0 .. n + 4 : at = b + (q + 1)
      BY <1>4, <3>1 DEF Goes
    <3>5. CASE part = 1
      <4>1. /\ at' = at /\ part' = 2 /\ Rises' = Rises /\ drShift' = drShift
            /\ tdo' = tdo /\ dataOut' = dataOut
        BY <1>1, <3>1, <3>5 DEF Goes, TapSide, scanVars, ReadSide
      <4>2. Shifts(b, n)' = Shifts(b, n) /\ TakenBits(b, n)' = TakenBits(b, n)
        BY <3>5, <4>1 DEF Shifts, TakenBits
      <4>3. b + 3 <= Rises' /\ Rises' <= b + n + 4 =>
              drShift' = Mixed(cap, bits, n, Shifts(b, n)')
        BY <3>2, <4>1, <4>2 DEF ScanData
      <4>4. b + 4 <= at' /\ at' <= b + n + 3 => tdo' = cap[at' - b - 3]
        BY <3>2, <3>5, <4>1 DEF ScanData
      <4>5. dataOut' = SubSeq(cap, 1, TakenBits(b, n)')
        BY <3>2, <4>1, <4>2 DEF ScanData
      <4> QED BY <4>3, <4>4, <4>5 DEF ScanData
    <3>6. CASE part = 2
      <4>1. /\ at' = at /\ part' = 3 /\ Rises' = Rises + 1
            /\ tdo' = tdo /\ dataOut' = dataOut /\ Rises = b + q
        BY <1>1, <3>4, <3>6 DEF Goes, ReadSide
      <4>2. TakenBits(b, n)' = TakenBits(b, n)
        BY <3>6, <4>1 DEF TakenBits
      <4>3. tap = DrState(q, n) /\ q >= 3
        <5>1. Rises - b = q
          BY <4>1
        <5> QED BY <3>1, <4>1, <5>1 DEF InScan
      <4>4. ASSUME Rises' <= b + n + 4
            PROVE  drShift' = Mixed(cap, bits, n, Shifts(b, n)')
        <5>1. CASE q <= n + 2
          <6>1. drShift = Mixed(cap, bits, n, q - 3)
            <7>1. Shifts(b, n) = q - 3
              BY <4>1, <4>3, <5>1 DEF Shifts
            <7> QED BY <3>1, <3>2, <4>1, <5>1, <7>1 DEF ScanData
          <6>2. Script[at].tdi = bits[(q - 3) + 1]
            <7>1. q + 1 \in 4 .. n + 3 /\ (q + 1) - 3 = (q - 3) + 1
              BY <4>3, <5>1
            <7> QED BY <1>3, <3>4, <7>1
          <6>3. tap = "SHIFT_DR"
            BY <4>3, <5>1 DEF DrState
          <6>4. drShift' = Shifted(drShift, Script[at].tdi)
            BY <3>6, <6>3 DEF TapSide, TckRise
          <6>5. q - 3 \in 0 .. n - 1
            BY <4>3, <5>1
          <6>6. Shifted(Mixed(cap, bits, n, q - 3), bits[(q - 3) + 1])
                  = Mixed(cap, bits, n, (q - 3) + 1)
            BY <3>3, <6>5, MixesOn
          <6>7. Shifts(b, n)' = (q - 3) + 1
            BY <4>1, <4>3, <5>1 DEF Shifts
          <6> QED BY <6>1, <6>2, <6>4, <6>6, <6>7
        <5>2. CASE q = n + 3
          <6>1. tap = "EXIT1_DR"
            BY <4>3, <5>2 DEF DrState
          <6>2. drShift' = drShift
            BY <3>6, <6>1 DEF TapSide, TckRise
          <6>3. Shifts(b, n)' = n /\ Shifts(b, n) = n
            BY <4>1, <5>2 DEF Shifts
          <6>4. drShift = Mixed(cap, bits, n, Shifts(b, n))
            BY <3>1, <3>2, <4>1, <5>2 DEF ScanData
          <6> QED BY <6>2, <6>3, <6>4
        <5> QED BY <4>1, <4>4, <5>1, <5>2
      <4>5. b + 4 <= at' /\ at' <= b + n + 3 => tdo' = cap[at' - b - 3]
        BY <3>2, <3>6, <4>1 DEF ScanData
      <4>6. dataOut' = SubSeq(cap, 1, TakenBits(b, n)')
        BY <3>2, <4>1, <4>2 DEF ScanData
      <4> QED BY <4>4, <4>5, <4>6 DEF ScanData
    <3>7. CASE part = 3
      <4>1. /\ at' = at /\ part' = 4 /\ Rises' = Rises /\ drShift' = drShift
        BY <1>1, <3>7 DEF Goes, TapSide, scanVars
      <4>2. Shifts(b, n)' = Shifts(b, n)
        BY <4>1 DEF Shifts
      <4>3. dataOut' = SubSeq(cap, 1, TakenBits(b, n)')
        <5>1. CASE q + 1 \in 4 .. n + 3
          <6>1. Script[at].keep
            BY <1>3, <3>4, <5>1
          <6>2. tdo = cap[(q - 3) + 1]
            <7>1. b + 4 <= at /\ at <= b + n + 3 /\ at - b - 3 = (q - 3) + 1
              BY <3>4, <5>1
            <7> QED BY <3>2, <3>7, <7>1 DEF ScanData
          <6>3. TakenBits(b, n) = q - 3 /\ TakenBits(b, n)' = (q - 3) + 1
            BY <3>4, <3>7, <4>1, <5>1 DEF TakenBits
          <6>4. q - 3 \in 0 .. n - 1
            BY <5>1
          <6>5. dataOut = SubSeq(cap, 1, q - 3)
            BY <3>2, <6>3 DEF ScanData
          <6>6. Append(SubSeq(cap, 1, q - 3), cap[(q - 3) + 1])
                  = SubSeq(cap, 1, (q - 3) + 1)
            BY <3>3, <6>4, TakenSoFar
          <6>7. dataOut' = Append(dataOut, tdo)
            BY <3>7, <6>1 DEF ReadSide
          <6> QED BY <6>2, <6>3, <6>5, <6>6, <6>7
        <5>2. CASE q + 1 \notin 4 .. n + 3
          <6>1. ~Script[at].keep
            BY <1>3, <3>4, <5>2
          <6>2. TakenBits(b, n)' = TakenBits(b, n)
            BY <3>4, <3>7, <4>1, <5>2 DEF TakenBits
          <6>3. dataOut' = dataOut
            BY <3>7, <6>1 DEF ReadSide
          <6> QED BY <3>2, <6>2, <6>3 DEF ScanData
        <5> QED BY <5>1, <5>2
      <4>4. b + 3 <= Rises' /\ Rises' <= b + n + 4 =>
              drShift' = Mixed(cap, bits, n, Shifts(b, n)')
        BY <3>2, <4>1, <4>2 DEF ScanData
      <4>5. ScanData(cap, b, n, bits)'
        BY <4>1, <4>3, <4>4 DEF ScanData
      <4> QED BY <4>5
    <3>8. CASE part = 4
      <4>1. /\ at' = at + 1 /\ part' = 1 /\ Rises' = Rises /\ drShift' = drShift
            /\ Rises = at /\ TckFall
        BY <1>1, <3>8 DEF Goes, TapSide, scanVars, ReadSide
      <4>2. Shifts(b, n)' = Shifts(b, n)
        BY <4>1 DEF Shifts
      <4>3. dataOut' = SubSeq(cap, 1, TakenBits(b, n)')
        <5>1. q + 1 # n + 5
          BY <1>8, <3>4, <4>1
        <5>2. Script[at].check = "none"
          BY <1>3, <3>4, <5>1
        <5>3. dataOut' = dataOut
          BY <3>8, <5>2 DEF ReadSide
        <5>4. TakenBits(b, n)' = TakenBits(b, n)
          BY <3>1, <3>4, <3>8, <4>1, <5>1 DEF TakenBits
        <5> QED BY <3>2, <5>3, <5>4 DEF ScanData
      <4>4. ASSUME b + 4 <= at', at' <= b + n + 3
            PROVE  tdo' = cap[at' - b - 3]
        <5>1. q + 1 \in 3 .. n + 2 /\ Rises - b = q + 1
          BY <3>1, <3>4, <4>1, <4>4
        <5>2. tap = "SHIFT_DR"
          <6>1. tap = DrState(q + 1, n)
            BY <3>1, <3>4, <4>1, <5>1 DEF InScan
          <6> QED BY <5>1, <6>1 DEF DrState
        <5>3. tdo' = drShift[1]
          BY <4>1, <5>2 DEF TckFall
        <5>4. drShift = Mixed(cap, bits, n, (q + 1) - 3)
          <6>1. Shifts(b, n) = (q + 1) - 3
            BY <4>1, <5>1 DEF Shifts
          <6> QED BY <3>1, <3>2, <3>4, <4>1, <5>1, <6>1 DEF ScanData
        <5>5. drShift[1] = cap[1 + ((q + 1) - 3)]
          BY <5>1, <5>4 DEF Mixed
        <5>6. 1 + ((q + 1) - 3) = at' - b - 3
          BY <3>4, <4>1
        <5> QED BY <5>3, <5>5, <5>6
      <4>5. b + 3 <= Rises' /\ Rises' <= b + n + 4 =>
              drShift' = Mixed(cap, bits, n, Shifts(b, n)')
        BY <3>2, <4>1, <4>2 DEF ScanData
      <4> QED BY <4>3, <4>4, <4>5 DEF ScanData
    <3> QED BY <3>5, <3>6, <3>7, <3>8 DEF Goes
  <2> QED BY <2>1, <2>2
<1> QED BY <1>5, <1>6, <1>7, <1>8 DEF InScan

\* At its last command a scan has read what it captured.
LEMMA ScanEnds ==
  ASSUME NEW b \in Nat, NEW n \in Nat \ {0}, NEW register, NEW bits,
         NEW Good \in SUBSET Bits(n), InScan(b, n, register, bits, Good),
         at = b + n + 5, part = 4
  PROVE  dataOut \in Good
<1>1. Rises = b + n + 5
  BY DEF Rises
<1>2. PICK cap \in Good : ScanData(cap, b, n, bits)
  BY <1>1 DEF InScan
<1>3. TakenBits(b, n) = n
  BY DEF TakenBits
<1>4. cap \in Bits(n)
  OBVIOUS
<1> QED BY <1>2, <1>3, <1>4, TakenSoFar DEF ScanData

-------------------------------------------------------------------------------
(* The time until an answer is there.                                      *)

\* An answer takes no more than 62 ticks of the simulator, and some while a
\* request is under way,
LEMMA NeededBound ==
  ASSUME now \in 0 .. 9, part \in 1 .. 4, NEW k \in 0 .. 8
  PROVE  Needed(k) \in 0 .. 62 /\ (k # 0 => Needed(k) >= 1)
<1>1. ToClk \in 1 .. 10 /\ ToRise \in 1 .. 4
  BY DEF ToClk, ToRise
<1>2. CASE k = 0
  BY <1>2 DEF Needed
<1>3. CASE k \in 1 .. 5
  BY <1>1, <1>3 DEF Needed
<1>4. CASE k \in 6 .. 8
  BY <1>1, <1>4 DEF Needed
<1> QED BY <1>2, <1>3, <1>4

\* A request is answered no later than it was before a command.
LEMMA TimePasses ==
  ASSUME Goes, now \in 0 .. 9, now' = (now + 1) % 10,
         NEW k \in 0 .. 8, k # 0, NEW b \in Nat, Timely(k, b),
         NEW m \in 0 .. 8, m = NextPhase(k)
  PROVE  Timely(m, b)'
<1>1. now' \in 0 .. 9 /\ now' = IF now = 9 THEN 0 ELSE now + 1
  OBVIOUS
<1>2. /\ ToClk \in 1 .. 10 /\ ToClk' \in 1 .. 10
      /\ ToClk' = IF now = 4 THEN 10 ELSE ToClk - 1
  BY <1>1 DEF ToClk
<1>3. /\ ToRise \in 1 .. 4 /\ ToRise' \in 1 .. 4 /\ part \in 1 .. 4
      /\ ToRise' = IF part = 2 THEN 4 ELSE ToRise - 1
      /\ part = 2 => ToRise = 1
      /\ now = 4 => ToClk = 1
  BY DEF Goes, ToRise, ToClk
<1>4. Ticks \in Nat /\ Ticks' = Ticks + 1
  BY DEF Goes, Ticks
<1>5. Needed(k) + Ticks <= 4 * b + 65
  BY DEF Timely
<1>6. m = 0 \/ Needed(m)' <= Needed(k) - 1
  <2>1. CASE k \in 1 .. 4
    BY <1>2, <2>1 DEF Needed, NextPhase
  <2>2. CASE k = 5
    BY <1>2, <1>3, <2>2 DEF Needed, NextPhase
  <2>3. CASE k \in 6 .. 8
    BY <1>3, <2>3 DEF Needed, NextPhase
  <2> QED BY <2>1, <2>2, <2>3
<1>7. m = 0 \/ Needed(m)' \in Nat
  <2>1. CASE m \in 1 .. 5
    BY <1>2, <2>1 DEF Needed
  <2>2. CASE m \in 6 .. 8
    BY <1>3, <2>2 DEF Needed
  <2> QED BY <2>1, <2>2
<1>8. m = 0 \/ Needed(m)' + Ticks' <= 4 * b + 65
  <2>1. CASE k \in 1 .. 5
    <3>1. Needed(k) \in Nat
      BY <1>2, <2>1 DEF Needed
    <3> QED BY <1>4, <1>5, <1>6, <1>7, <3>1
  <2>2. CASE k \in 6 .. 8
    <3>1. Needed(k) \in Nat
      BY <1>3, <2>2 DEF Needed
    <3> QED BY <1>4, <1>5, <1>6, <1>7, <3>1
  <2> QED BY <2>1, <2>2
<1> QED BY <1>8 DEF Timely

\* There is time enough when TCK has just risen for the bth time.
LEMMA TimeStarts ==
  ASSUME Goes, part = 2, now \in 0 .. 9, now' = (now + 1) % 10,
         NEW b \in Nat, at = b, NEW m \in 0 .. 8
  PROVE  Timely(m, b)'
<1>1. now' \in 0 .. 9 /\ part' = 3 /\ at' = b
  BY DEF Goes
<1>2. ToClk' \in 1 .. 10 /\ ToRise' = 4
  BY <1>1 DEF ToClk, ToRise
<1> DEFINE needed == IF m = 0 THEN 0
                     ELSE IF m < 6 THEN 10 * (5 - m) + ToClk' + 12
                     ELSE 4 * (8 - m) + ToRise'
<1>3. needed \in 0 .. 62
  <2>1. \A x \in 0 .. 8 : \A c \in 1 .. 10 : \A e \in 1 .. 4 :
          (IF x = 0 THEN 0 ELSE IF x < 6 THEN 10 * (5 - x) + c + 12
           ELSE 4 * (8 - x) + e) \in 0 .. 62
    <3> TAKE x \in 0 .. 8
    <3> TAKE c \in 1 .. 10
    <3> TAKE e \in 1 .. 4
    <3>1. CASE x = 0
      BY <3>1
    <3>2. CASE x \in 1 .. 5
      BY <3>2
    <3>3. CASE x \in 6 .. 8
      BY <3>3
    <3> QED BY <3>1, <3>2, <3>3
  <2>2. PICK c \in 1 .. 10, e \in 1 .. 4 : ToClk' = c /\ ToRise' = e
    BY <1>2
  <2>3. needed = IF m = 0 THEN 0 ELSE IF m < 6 THEN 10 * (5 - m) + c + 12
                 ELSE 4 * (8 - m) + e
    BY <2>2
  <2> HIDE DEF needed
  <2> QED BY <2>1, <2>3
<1>4. Ticks' = 4 * b + 3
  BY <1>1 DEF Ticks
<1>5. m = 0 \/ needed + Ticks' <= 4 * b + 65
  BY <1>3, <1>4
<1> QED BY <1>5 DEF Timely, Needed

\* so that it is there when 65 ticks, of the 16 idle cycles, have passed.
LEMMA Answered ==
  ASSUME now \in 0 .. 9, part \in 1 .. 4, NEW k \in 0 .. 8,
         NEW b \in Nat, Timely(k, b), Ticks \in Nat, Ticks >= 4 * b + 65
  PROVE  k = 0
BY NeededBound DEF Timely

-------------------------------------------------------------------------------
(* What happens to the request.                                            *)

\* The Debug Module carries out a request of the client as the client expects,
LEMMA Takes ==
  ASSUME ChipType, RequestTaken, DmClock,
         NEW r \in {Activate, ReadStatus},
         dmi.op = r.op, dmi.addr = r.addr, dmi.data = r.data,
         r = ReadStatus => dm.active
  PROVE  dm'.active /\ dm'.resp = Success /\ GoodData(r, dm'.data)
<1>1. Supported
  BY RequestBits DEF Supported
<1>2. Dmcontrol # Dmstatus /\ Write # Read
  BY Widths DEF Read, Write
<1>3. CASE r = Activate
  <2>1. dmi.op = Write /\ dmi.addr = Dmcontrol /\ dmi.data[1] = 1 /\ r # ReadStatus
    BY <1>2, <1>3, RequestBits
  <2> QED BY <1>1, <2>1 DEF DmClock, GoodData
<1>4. CASE r = ReadStatus
  <2>1. dmi.op = Read /\ dmi.addr # Dmcontrol /\ dmi.op # Write /\ dm.active
    BY <1>2, <1>4, RequestBits
  <2>2. /\ dm'.active = dm.active /\ dm'.resp = Success /\ dm'.data = ReadData
    BY <1>1, <2>1 DEF DmClock
  <2>3. ReadData = <<1, 1>> \o Zeros(DataBits - 2)
    BY <2>1 DEF ReadData
  <2>4. ReadData[1] = 1 /\ ReadData[2] = 1
    <3>1. DataBits - 2 \in Nat /\ Zeros(DataBits - 2) \in Bits(DataBits - 2)
      BY Widths, ZeroBits
    <3>2. <<1, 1>> \in Bits(2) /\ 2 \in Nat
      BY DEF Bits
    <3>3. \A i \in 1 .. 2 : (<<1, 1>> \o Zeros(DataBits - 2))[i] = <<1, 1>>[i]
      BY <3>1, <3>2, JoinedBits
    <3> QED BY <2>3, <3>3
  <2> QED BY <2>1, <2>2, <2>4 DEF GoodData
<1> QED BY <1>3, <1>4

\* and changes nothing without one.
LEMMA Keeps ==
  ASSUME dm \in DmType, ~RequestTaken, DmClock
  PROVE  dm'.active = dm.active /\ dm'.resp = dm.resp /\ dm'.data = dm.data
BY DEF DmClock, DmType

\* What the Debug Module takes while the client waits for its own requests.
ServedSide ==
  served' = IF now = 4 /\ RequestTaken /\ OwnRequestSent
              THEN Append(served, Request(dmi.op, dmi.addr, dmi.data))
              ELSE served

\* What a phase says of the signals that move a request.
LEMMA PhaseSignals ==
  ASSUME ChipType, NEW k \in 0 .. 8, Phase(k)
  PROVE  /\ RequestTaken <=> k = 4
         /\ ResponseTaken <=> k = 5
         /\ Presented <=> k = 3
         /\ dtm.sync # dtm.seen <=> k = 8
         /\ dtm.busy <=> k # 0
<1>1. dtm.reqToggle \in {0, 1} /\ dmi.rspToggle \in {0, 1}
  BY DEF ChipType, DtmType, DmiType
<1>2. dtm.reqToggle # 1 - dtm.reqToggle /\ dmi.rspToggle # 1 - dmi.rspToggle
  BY <1>1
<1>3. (dmi.valid <=> k = 4) /\ (dmi.wait <=> k = 5) /\ (dm.valid <=> k = 5)
      /\ (dtm.busy <=> k # 0)
  BY DEF Phase
<1>4. dmi.sync # dmi.seen <=> k = 3
  BY <1>2 DEF Phase
<1>5. dtm.sync # dtm.seen <=> k = 8
  BY <1>2 DEF Phase
<1> QED BY <1>3, <1>4, <1>5 DEF RequestTaken, ResponseTaken, Presented

\* The request under way stays the client's, and its answer is the one to it.
LEMMA UnderStep ==
  ASSUME ChipType, TckSide, ClkSide, ServedSide,
         NEW k \in 0 .. 8, Phase(k), NEW m \in 0 .. 8, m = NextPhase(k),
         NEW r \in {Activate, ReadStatus}, NEW before \in Seq({Activate}),
         Under(k, r, before),
         part = 2 => ~Sends /\ ~Clears,
         k = 4 => OwnRequestSent
  PROVE  Under(m, r, before)'
<1>1. /\ RequestTaken <=> k = 4
      /\ ResponseTaken <=> k = 5
      /\ Presented <=> k = 3
      /\ dtm.sync # dtm.seen <=> k = 8
  BY PhaseSignals
<1>2. dtm \in DtmType /\ dmi \in DmiType /\ dm \in DmType /\ now \in 0 .. 9
  BY DEF ChipType
<1>3. /\ dtm.reqOp = r.op /\ dtm.reqAddr = r.addr /\ dtm.reqData = r.data
      /\ k \in {1, 2, 3, 4} => served = before
      /\ k \notin {1, 2, 3, 4} => served = Append(before, r)
      /\ k \in {4, 5} => dmi.op = r.op /\ dmi.addr = r.addr /\ dmi.data = r.data
      /\ k = 5 => dm.resp = Success /\ GoodData(r, dm.data)
      /\ k \in {6, 7, 8} =>
           dmi.rspResp = Success /\ dmi.rspAddr = r.addr /\ GoodData(r, dmi.rspData)
      /\ k = 0 => dtm.resp = Success /\ dtm.addr = r.addr /\ GoodData(r, dtm.data)
      /\ r = ReadStatus \/ k \notin {1, 2, 3, 4} => dm.active
  BY DEF Under
<1>4. /\ dtm'.reqOp = r.op /\ dtm'.reqAddr = r.addr /\ dtm'.reqData = r.data
      /\ part = 2 /\ k = 8 =>
           /\ dtm'.resp = dmi.rspResp /\ dtm'.addr = dmi.rspAddr
           /\ dtm'.data = dmi.rspData
      /\ ~(part = 2 /\ k = 8) =>
           dtm'.resp = dtm.resp /\ dtm'.addr = dtm.addr /\ dtm'.data = dtm.data
  <2>1. CASE part = 2
    <3>1. PICK tms \in {0, 1}, tdi \in {0, 1} : TckRise(tms, tdi)
      BY <2>1 DEF TckSide
    <3>2. /\ dtm'.reqOp = dtm.reqOp /\ dtm'.reqAddr = dtm.reqAddr
          /\ dtm'.reqData = dtm.reqData
          /\ dtm.sync = dtm.seen =>
               /\ dtm'.addr = dtm.addr /\ dtm'.data = dtm.data
               /\ dtm'.resp = dtm.resp
          /\ dtm.sync # dtm.seen =>
               /\ dtm'.addr = dmi.rspAddr /\ dtm'.data = dmi.rspData
               /\ dtm'.resp = dmi.rspResp
      BY <2>1, <3>1, TckMoves
    <3> QED BY <1>1, <1>3, <2>1, <3>2
  <2>2. CASE part # 2
    BY <1>3, <2>2 DEF TckSide
  <2> QED BY <2>1, <2>2
<1>5. /\ now = 4 /\ k = 3 =>
           dmi'.op = dtm.reqOp /\ dmi'.addr = dtm.reqAddr /\ dmi'.data = dtm.reqData
      /\ ~(now = 4 /\ k = 3) /\ k \in {4, 5} /\ ~(now = 4 /\ k = 5) =>
             dmi'.op = dmi.op /\ dmi'.addr = dmi.addr /\ dmi'.data = dmi.data
      /\ now = 4 /\ k = 5 =>
           dmi'.rspAddr = dmi.addr /\ dmi'.rspData = dm.data /\ dmi'.rspResp = dm.resp
      /\ k \in {6, 7, 8} =>
           /\ dmi'.rspAddr = dmi.rspAddr /\ dmi'.rspData = dmi.rspData
           /\ dmi'.rspResp = dmi.rspResp
  <2>1. CASE now = 4
    <3>1. DmiClock
      BY <2>1 DEF ClkSide, ClkRise
    <3> QED BY <1>1, <1>2, <2>1, <3>1, DmiMoves
  <2>2. CASE now # 4
    BY <2>2 DEF ClkSide
  <2> QED BY <2>1, <2>2
<1>6. /\ now = 4 /\ k = 4 =>
           dm'.active /\ dm'.resp = Success /\ GoodData(r, dm'.data)
      /\ ~(now = 4 /\ k = 4) =>
           dm'.active = dm.active /\ dm'.resp = dm.resp /\ dm'.data = dm.data
  <2>1. CASE now = 4
    <3>1. DmClock
      BY <2>1 DEF ClkSide, ClkRise
    <3>2. CASE k = 4
      <4>1. RequestTaken /\ dmi.op = r.op /\ dmi.addr = r.addr /\ dmi.data = r.data
            /\ (r = ReadStatus => dm.active)
        BY <1>1, <1>3, <3>2
      <4> QED BY <3>1, <3>2, <2>1, <4>1, Takes
    <3>3. CASE k # 4
      BY <1>1, <1>2, <3>1, <3>3, Keeps
    <3> QED BY <3>2, <3>3
  <2>2. CASE now # 4
    BY <2>2 DEF ClkSide
  <2> QED BY <2>1, <2>2
<1>7. served' = IF now = 4 /\ k = 4 THEN Append(before, r) ELSE served
  <2>1. CASE now = 4 /\ k = 4
    <3>1. Request(dmi.op, dmi.addr, dmi.data) = r
      BY <1>3, <2>1, RequestBits
    <3> QED BY <1>1, <1>3, <2>1, <3>1 DEF ServedSide
  <2>2. CASE ~(now = 4 /\ k = 4)
    BY <1>1, <2>2 DEF ServedSide
  <2> QED BY <2>1, <2>2
<1>8. m = IF k = 0 THEN 0
          ELSE IF k < 6 THEN IF now = 4 THEN k + 1 ELSE k
          ELSE IF part # 2 THEN k
          ELSE IF k = 8 THEN 0 ELSE k + 1
  BY DEF NextPhase
<1>9. /\ m \in {1, 2, 3, 4} => served' = before
      /\ m \notin {1, 2, 3, 4} => served' = Append(before, r)
  BY <1>3, <1>7, <1>8
<1>10. m \in {4, 5} => dmi'.op = r.op /\ dmi'.addr = r.addr /\ dmi'.data = r.data
  BY <1>3, <1>5, <1>8
<1>11. m = 5 => dm'.resp = Success /\ GoodData(r, dm'.data)
  BY <1>3, <1>6, <1>8
<1>12. m \in {6, 7, 8} =>
         dmi'.rspResp = Success /\ dmi'.rspAddr = r.addr /\ GoodData(r, dmi'.rspData)
  BY <1>3, <1>5, <1>8
<1>13. m = 0 => dtm'.resp = Success /\ dtm'.addr = r.addr /\ GoodData(r, dtm'.data)
  BY <1>3, <1>4, <1>8
<1>14. r = ReadStatus \/ m \notin {1, 2, 3, 4} => dm'.active
  BY <1>3, <1>6, <1>8
<1> QED BY <1>4, <1>9, <1>10, <1>11, <1>12, <1>13, <1>14 DEF Under

\* A request that is handed over when none is under way.
LEMMA UnderStarts ==
  ASSUME ChipType, TckSide, part = 2, ClkSide, ServedSide,
         Phase(0), Sends,
         NEW r \in {Activate, ReadStatus}, NEW before \in Seq({Activate}),
         drShift = DmiPacket(r), served = before, r = ReadStatus => dm.active
  PROVE  Under(1, r, before)'
<1>1. ~RequestTaken /\ ~dtm.busy
  BY PhaseSignals
<1>2. PICK tms \in {0, 1}, tdi \in {0, 1} : TckRise(tms, tdi)
  BY DEF TckSide
<1>3. /\ dtm'.reqOp = SubSeq(drShift, 1, 2)
      /\ dtm'.reqData = SubSeq(drShift, 3, DataBits + 2)
      /\ dtm'.reqAddr = SubSeq(drShift, DataBits + 3, DataBits + AddrBits + 2)
  BY <1>1, <1>2, TckMoves
<1>4. dtm'.reqOp = r.op /\ dtm'.reqAddr = r.addr /\ dtm'.reqData = r.data
  BY <1>3, PacketOf
<1>5. served' = before
  BY <1>1 DEF ServedSide
<1>6. dm'.active = dm.active
  <2>1. CASE now = 4
    BY <1>1, <2>1, Keeps DEF ClkSide, ClkRise, ChipType
  <2>2. CASE now # 4
    BY <2>2 DEF ClkSide
  <2> QED BY <2>1, <2>2
<1> QED BY <1>4, <1>5, <1>6 DEF Under

-------------------------------------------------------------------------------
(* When the TAP hands over a request or resets the transport.              *)

\* During set_ir no request is sent, nothing is reset and nothing captured.
LEMMA IrCalm ==
  ASSUME NEW b \in Nat, NEW register, InSetIr(b, register),
         Rises \in Nat, b <= Rises, Rises <= b + 10
  PROVE  tap \notin {"UPDATE_DR", "TEST_LOGIC_RESET", "CAPTURE_DR"}
BY DEF InSetIr, IrState

\* During a scan nothing is reset, and what the update finds is what was sent.
LEMMA ScanCalm ==
  ASSUME NEW b \in Nat, NEW n \in Nat \ {0}, NEW register, NEW bits \in Bits(n),
         NEW Good \in SUBSET Bits(n), InScan(b, n, register, bits, Good),
         Rises \in Nat, b <= Rises, Rises <= b + n + 4,
         at \in Nat, at <= b + n + 5
  PROVE  /\ tap # "TEST_LOGIC_RESET" /\ ir = register
         /\ tap = "UPDATE_DR" <=> Rises = b + n + 4
         /\ Rises = b + n + 4 => drShift = bits
<1>1. PICK q \in 0 .. n + 4 : Rises = b + q /\ Rises - b = q
  <2>1. Rises - b \in 0 .. n + 4 /\ Rises = b + (Rises - b)
    OBVIOUS
  <2> QED BY <2>1
<1>2. tap = DrState(q, n) /\ ir = register
  BY <1>1 DEF InScan
<1>3. tap # "TEST_LOGIC_RESET" /\ (tap = "UPDATE_DR" <=> q = n + 4)
  BY <1>2 DEF DrState
<1>4. ASSUME q = n + 4
      PROVE  drShift = bits
  <2>1. b + 3 <= Rises /\ at <= b + n + 5 /\ Rises <= b + n + 4 /\ Rises - b - 3 > n
    BY <1>1, <1>4
  <2>2. PICK cap \in Good : ScanData(cap, b, n, bits)
    BY <2>1 DEF InScan
  <2>3. drShift = Mixed(cap, bits, n, Shifts(b, n))
    BY <2>1, <2>2 DEF ScanData
  <2>4. Shifts(b, n) = n /\ cap \in Bits(n)
    BY <2>1 DEF Shifts
  <2> QED BY <2>3, <2>4, AllMixed
<1> QED BY <1>1, <1>2, <1>3, <1>4

\* The packet of the second scan of a transfer asks for nothing.
LEMMA NoRequest ==
  SubSeq(Zeros(DmiBits), 1, 2) = Nop
<1>1. /\ DmiBits \in Nat /\ Zeros(DmiBits) \in Bits(DmiBits)
      /\ 1 \in 1 .. DmiBits /\ 2 \in 1 - 1 .. DmiBits /\ 2 - 1 + 1 = 2
  BY Counts, ZeroBits
<1>2. /\ SubSeq(Zeros(DmiBits), 1, 2) \in Bits(2)
      /\ \A i \in 1 .. 2 : SubSeq(Zeros(DmiBits), 1, 2)[i] = Zeros(DmiBits)[1 + i - 1]
  BY <1>1, PartOfBits
<1>3. \A i \in 1 .. 2 : Zeros(DmiBits)[1 + i - 1] = 0
  BY <1>1, Counts DEF Zeros
<1>4. Nop \in Bits(2) /\ \A i \in 1 .. 2 : Nop[i] = 0
  BY PairBits DEF Nop
<1>5. 2 \in Nat
  OBVIOUS
<1>6. \A i \in 1 .. 2 : SubSeq(Zeros(DmiBits), 1, 2)[i] = Nop[i]
  BY <1>2, <1>3, <1>4
<1> QED BY <1>2, <1>4, <1>5, <1>6, SameBits

LEMMA GoodBits ==
  /\ GoodDtmcs \in SUBSET Bits(DtmcsBits) /\ {Idcode} \in SUBSET Bits(IdBits)
  /\ \A r \in {Activate, ReadStatus} : GoodAnswer(r) \in SUBSET Bits(DmiBits)
  /\ Bits(DmiBits) \in SUBSET Bits(DmiBits)
<1>1. GoodDtmcs \in SUBSET Bits(DtmcsBits) /\ {Idcode} \in SUBSET Bits(IdBits)
  BY Counts DEF GoodDtmcs
<1>2. ASSUME NEW r \in {Activate, ReadStatus}, NEW c \in GoodAnswer(r)
      PROVE  c \in Bits(DmiBits)
  <2>1. PICK data \in Bits(DataBits) : c = Success \o data \o r.addr
    BY DEF GoodAnswer
  <2> QED BY <2>1, PacketBits, PairBits, RequestBits
<1> QED BY <1>1, <1>2

\* A transfer sends exactly one request, on its first update, and it is the
\* client's.
LEMMA TransferCalm ==
  ASSUME NEW b \in Nat, NEW r \in {Activate, ReadStatus}, InTransfer(b, r),
         part = 2, at \in b + 1 .. b + (2 * DmiBits + 37)
  PROVE  /\ tap # "TEST_LOGIC_RESET" /\ ~(tap = "UPDATE_DR" /\ ir = "DTMCS")
         /\ Sends <=> at = Sent(b)
         /\ at = Sent(b) => drShift = DmiPacket(r)
<1>1. /\ DmiBits \in Nat \ {0} /\ Sent(b) = b + DmiBits + 16 /\ Sent(b) \in Nat
      /\ Fetched(b) = b + DmiBits + 32 /\ Fetched(b) \in Nat
      /\ b + 11 \in Nat
  BY Counts, Offsets
<1>2. at \in Nat /\ Rises = at - 1 /\ Rises \in Nat
  BY <1>1 DEF Rises
<1>3. /\ InSetIr(b, "DMI")
      /\ InScan(b + 11, DmiBits, "DMI", DmiPacket(r), Bits(DmiBits))
      /\ InIdle(Sent(b))
      /\ InScan(Fetched(b), DmiBits, "DMI", Zeros(DmiBits), GoodAnswer(r))
  BY DEF InTransfer
<1>4. CASE at <= b + 11
  <2>1. Rises <= b + 10 /\ b <= Rises /\ at # Sent(b)
    BY <1>1, <1>2, <1>4
  <2>2. tap \notin {"UPDATE_DR", "TEST_LOGIC_RESET", "CAPTURE_DR"}
    BY <1>2, <1>3, <2>1, IrCalm
  <2> QED BY <2>1, <2>2 DEF Sends
<1>5. CASE b + 11 < at /\ at <= Sent(b)
  <2>1. /\ b + 11 <= Rises /\ Rises <= (b + 11) + DmiBits + 4
        /\ at <= (b + 11) + DmiBits + 5
        /\ at = Sent(b) <=> Rises = (b + 11) + DmiBits + 4
    BY <1>1, <1>2, <1>5
  <2>2. DmiPacket(r) \in Bits(DmiBits) /\ SubSeq(DmiPacket(r), 1, 2) # Nop
    BY PacketOf, RequestBits
  <2>3. /\ tap # "TEST_LOGIC_RESET" /\ ir = "DMI"
        /\ tap = "UPDATE_DR" <=> Rises = (b + 11) + DmiBits + 4
        /\ Rises = (b + 11) + DmiBits + 4 => drShift = DmiPacket(r)
    BY <1>1, <1>2, <1>3, <2>1, <2>2, ScanCalm, GoodBits
  <2> QED BY <2>1, <2>2, <2>3 DEF Sends
<1>6. CASE Sent(b) < at /\ at <= Fetched(b)
  <2>1. Sent(b) <= Rises /\ Rises <= Sent(b) + 16
    BY <1>1, <1>2, <1>6
  <2>2. tap = "RUN_TEST_IDLE"
    BY <1>3, <2>1 DEF InIdle
  <2> QED BY <1>1, <1>2, <1>6, <2>2 DEF Sends
<1>7. CASE Fetched(b) < at
  <2>1. /\ Fetched(b) <= Rises /\ Rises <= Fetched(b) + DmiBits + 4
        /\ at <= Fetched(b) + DmiBits + 5 /\ at # Sent(b)
    BY <1>1, <1>2, <1>7
  <2>2. Zeros(DmiBits) \in Bits(DmiBits)
    BY <1>1, ZeroBits
  <2>3. /\ tap # "TEST_LOGIC_RESET" /\ ir = "DMI"
        /\ tap = "UPDATE_DR" <=> Rises = Fetched(b) + DmiBits + 4
        /\ Rises = Fetched(b) + DmiBits + 4 => drShift = Zeros(DmiBits)
    BY <1>1, <1>2, <1>3, <2>1, <2>2, ScanCalm, GoodBits
  <2> QED BY <2>1, <2>3, NoRequest DEF Sends
<1> QED BY <1>1, <1>2, <1>4, <1>5, <1>6, <1>7

\* A request is handed over where the script says, and nowhere else once the TAP
\* has been reset; and from the first on nothing resets the transport.
LEMMA Calm ==
  ASSUME NEW k, InScript(k), part = 2, 7 <= Rises
  PROVE  /\ Sends <=> at \in {Sent(First), Sent(Second)}
         /\ at = Sent(First) => drShift = DmiPacket(Activate)
         /\ at = Sent(Second) => drShift = DmiPacket(ReadStatus)
         /\ First < at => ~Clears
<1>1. /\ Setup1 = IdBits + 12 /\ Dtmcs1 = Setup1 + 11 /\ First = Dtmcs1 + (DtmcsBits + 5)
      /\ Second = First + (2 * DmiBits + 37) /\ Ends = Second + (2 * DmiBits + 37)
      /\ Sent(First) = First + DmiBits + 16 /\ Sent(Second) = Second + DmiBits + 16
      /\ Setup1 \in Nat /\ Dtmcs1 \in Nat /\ First \in Nat /\ Second \in Nat
      /\ IdBits \in Nat \ {0} /\ DtmcsBits \in Nat \ {0} /\ DmiBits \in Nat \ {0}
      /\ Ends \in Nat
  <2>1. /\ Setup1 = IdBits + 12 /\ Dtmcs1 = Setup1 + 11
        /\ First = Dtmcs1 + (DtmcsBits + 5)
        /\ Second = First + (2 * DmiBits + 37) /\ Ends = Second + (2 * DmiBits + 37)
        /\ Setup1 \in Nat /\ Dtmcs1 \in Nat /\ First \in Nat /\ Second \in Nat
        /\ Ends \in Nat
    BY Offsets
  <2>2. Sent(First) = First + DmiBits + 16 /\ Sent(Second) = Second + DmiBits + 16
    BY <2>1, Offsets
  <2>3. IdBits \in Nat \ {0} /\ DtmcsBits \in Nat \ {0} /\ DmiBits \in Nat \ {0}
    BY Counts
  <2> QED BY <2>1, <2>2, <2>3
<1>2. /\ at \in 1 .. Ends /\ Rises = at - 1 /\ Rises \in Nat /\ at \in Nat
  BY <1>1 DEF InScript, Rises
<1>3. CASE at <= First
  <2>1. at # Sent(First) /\ at # Sent(Second) /\ ~(First < at)
    BY <1>1, <1>2, <1>3
  <2>2. tap = "UPDATE_DR" => ir # "DMI"
    <3>1. CASE at <= Setup1
      <4>1. 7 <= Rises /\ Rises <= 7 + IdBits + 4 /\ at <= 7 + IdBits + 5
        BY <1>1, <1>2, <3>1
      <4>2. Zeros(IdBits) \in Bits(IdBits) /\ 7 \in Nat
        BY <1>1, ZeroBits
      <4>3. InScan(7, IdBits, "IDCODE", Zeros(IdBits), {Idcode})
        BY DEF InScript
      <4>4. ir = "IDCODE"
        BY <1>1, <1>2, <4>1, <4>2, <4>3, ScanCalm, GoodBits
      <4> QED BY <4>4
    <3>2. CASE Setup1 < at /\ at <= Dtmcs1
      <4>1. Setup1 <= Rises /\ Rises <= Setup1 + 10
        BY <1>1, <1>2, <3>2
      <4>2. InSetIr(Setup1, "DTMCS")
        BY DEF InScript
      <4> QED BY <1>1, <1>2, <4>1, <4>2, IrCalm
    <3>3. CASE Dtmcs1 < at
      <4>1. /\ Dtmcs1 <= Rises /\ Rises <= Dtmcs1 + DtmcsBits + 4
            /\ at <= Dtmcs1 + DtmcsBits + 5
        BY <1>1, <1>2, <1>3, <3>3
      <4>2. Zeros(DtmcsBits) \in Bits(DtmcsBits)
        BY <1>1, ZeroBits
      <4>3. InScan(Dtmcs1, DtmcsBits, "DTMCS", Zeros(DtmcsBits), GoodDtmcs)
        BY DEF InScript
      <4>4. ir = "DTMCS"
        BY <1>1, <1>2, <4>1, <4>2, <4>3, ScanCalm, GoodBits
      <4> QED BY <4>4
    <3> QED BY <1>1, <1>2, <3>1, <3>2, <3>3
  <2> QED BY <2>1, <2>2 DEF Sends
<1>4. CASE First < at /\ at <= Second
  <2>1. at \in First + 1 .. First + (2 * DmiBits + 37) /\ at # Sent(Second)
    BY <1>1, <1>2, <1>4
  <2>2. InTransfer(First, Activate)
    BY DEF InScript
  <2> QED BY <1>1, <2>1, <2>2, TransferCalm DEF Clears
<1>5. CASE Second < at
  <2>1. at \in Second + 1 .. Second + (2 * DmiBits + 37) /\ at # Sent(First)
    BY <1>1, <1>2, <1>5
  <2>2. InTransfer(Second, ReadStatus)
    BY DEF InScript
  <2> QED BY <1>1, <2>1, <2>2, TransferCalm DEF Clears
<1> QED BY <1>1, <1>2, <1>3, <1>4, <1>5

\* While a request is under way, and after it, nothing else happens to it.
LEMMA RequestStep ==
  ASSUME ChipType, Goes, now' = (now + 1) % 10, TckSide, ClkSide, ServedSide,
         NEW k \in 0 .. 8, Phase(k), NEW m \in 0 .. 8, m = NextPhase(k),
         NEW r \in {Activate, ReadStatus}, NEW before \in Seq({Activate}),
         NEW b \in Nat, Timely(k, b), Under(k, r, before),
         part = 2 => ~Sends /\ ~Clears,
         k = 4 => OwnRequestSent
  PROVE  Timely(m, b)' /\ Under(m, r, before)'
<1>1. Under(m, r, before)'
  BY UnderStep
<1>2. Timely(m, b)'
  <2>1. CASE k = 0
    <3>1. m = 0
      BY <2>1 DEF NextPhase
    <3> QED BY <3>1 DEF Timely
  <2>2. CASE k # 0
    BY <2>2, TimePasses DEF ChipType
  <2> QED BY <2>1, <2>2
<1> QED BY <1>1, <1>2

\* The places of the two requests.
LEMMA Places ==
  /\ First \in Nat /\ Sent(First) \in Nat /\ Sent(Second) \in Nat /\ Ends \in Nat
  /\ 30 <= First /\ First + 21 <= Sent(First)
  /\ Sent(First) + 47 <= Sent(Second) /\ Sent(Second) < Ends
  /\ Second \in Nat /\ Sent(First) < Second /\ Second < Sent(Second)
<1>1. /\ First = IdBits + DtmcsBits + 28
      /\ Second = First + 2 * DmiBits + 37 /\ Ends = Second + 2 * DmiBits + 37
      /\ Sent(First) = First + DmiBits + 16 /\ Sent(Second) = Second + DmiBits + 16
  BY DEF First, Second, Ends, Sent
<1>2. /\ IdBits \in Nat /\ IdBits >= 1 /\ DtmcsBits \in Nat /\ DtmcsBits >= 4
      /\ DmiBits \in Nat /\ DmiBits >= 5
  BY Counts
<1> QED BY <1>1, <1>2

\* A request that is under way is answered before its answer is scanned, and the
\* answer is there until then.
LEMMA TimeStep ==
  ASSUME ChipType, Goes, now' = (now + 1) % 10, TckSide, ClkSide, ServedSide,
         NEW k \in 0 .. 8, Phase(k), InScript(k), NEW m \in 0 .. 8, m = NextPhase(k)
  PROVE  InTime(m)'
<1> DEFINE S1 == Sent(First)
           S2 == Sent(Second)
<1>1. /\ First \in Nat /\ S1 \in Nat /\ S2 \in Nat /\ 30 <= First /\ First + 21 <= S1
      /\ S1 + 47 <= S2 /\ Second \in Nat /\ S1 < Second /\ Second < S2
  BY Places
<1>2. /\ Rises \in Nat /\ Rises = IF part > 2 THEN at ELSE at - 1
      /\ Rises' = IF part = 2 THEN Rises + 1 ELSE Rises
      /\ Rises' = IF part' > 2 THEN at' ELSE at' - 1
  BY RisesMove
<1>3. /\ at \in Nat /\ part \in 1 .. 4
      /\ part' = IF part = 4 THEN 1 ELSE part + 1
      /\ at' = IF part = 4 THEN at + 1 ELSE at
  BY DEF Goes
<1>4. now \in 0 .. 9 /\ passed = Checks
  BY DEF ChipType, InScript
<1>5. /\ 7 <= Rises /\ Rises < S1 => Timely(k, 7)
      /\ Rises < S1 => served = << >>
      /\ S1 <= Rises /\ Rises < S2 => Timely(k, S1) /\ Under(k, Activate, << >>)
      /\ S2 <= Rises => Timely(k, S2) /\ Under(k, ReadStatus, <<Activate>>)
      /\ at \in {S1, S2} /\ part > 2 => k \in 1 .. part - 2
  BY DEF InScript, InTime
<1>6. 7 <= Rises /\ part = 2 =>
        /\ Sends <=> at \in {S1, S2}
        /\ at = S1 => drShift = DmiPacket(Activate)
        /\ at = S2 => drShift = DmiPacket(ReadStatus)
        /\ First < at => ~Clears
  BY Calm
<1>7. /\ << >> \in Seq({Activate}) /\ <<Activate>> \in Seq({Activate})
      /\ Append(<< >>, Activate) = <<Activate>> /\ Activate # ReadStatus
  <2>1. Activate # ReadStatus
    BY RequestBits DEF Read, Write
  <2> QED BY <2>1
<1>8. OwnRequestSent <=> at > S1
  <2>1. passed >= 3 <=> at > S1
    <3>1. Setup1 \in Nat /\ Setup1 <= First
      BY Offsets, Counts
    <3> QED BY <1>1, <1>3, <1>4, <3>1 DEF Checks
  <2> QED BY <2>1 DEF OwnRequestSent
<1> HIDE DEF S1, S2
<1>9. ASSUME Rises' < S1
      PROVE  served' = << >> /\ (7 <= Rises' => Timely(m, 7)')
             /\ ~(at' \in {S1, S2} /\ part' > 2)
  <2>1. Rises < S1 /\ ~(at > S1)
    BY <1>1, <1>2, <1>3, <1>9
  <2>2. served' = << >>
    BY <1>5, <1>8, <2>1 DEF ServedSide
  <2>3. ASSUME 7 <= Rises'
        PROVE  Timely(m, 7)'
    <3>1. CASE 7 <= Rises
      <4>1. part = 2 => at < S1
        BY <1>1, <1>2, <1>3, <1>9
      <4>2. Timely(k, 7)
        BY <1>5, <2>1, <3>1
      <4>3. CASE k = 0
        <5>1. part = 2 => ~Sends
          BY <1>1, <1>6, <3>1, <4>1
        <5>2. m = 0
          BY <4>3, <5>1 DEF NextPhase
        <5> QED BY <5>2 DEF Timely
      <4>4. CASE k # 0
        BY <1>4, <4>2, <4>4, TimePasses
      <4> QED BY <4>3, <4>4
    <3>2. CASE Rises < 7
      <4>1. part = 2 /\ at = 7 /\ 7 \in Nat
        BY <1>2, <1>3, <2>3, <3>2
      <4> QED BY <1>4, <4>1, TimeStarts
    <3> QED BY <1>2, <3>1, <3>2
  <2>4. ~(at' \in {S1, S2} /\ part' > 2)
    <3>1. part' > 2 => at' < S1
      BY <1>2, <1>9
    <3> QED BY <1>1, <1>3, <3>1
  <2> QED BY <2>2, <2>3, <2>4
<1>10. ASSUME part = 2, at = S1
       PROVE  /\ Rises' = S1 /\ m = 1 /\ part' = 3
              /\ Timely(m, S1)' /\ Under(m, Activate, << >>)'
  <2>1. 7 <= Rises /\ Rises < S1 /\ Rises' = S1 /\ part' = 3
    BY <1>1, <1>2, <1>3, <1>10
  <2>2. k = 0
    <3>1. Ticks = 4 * S1 + 2 /\ Ticks \in Nat /\ Ticks >= 4 * 7 + 65 /\ 7 \in Nat
      BY <1>1, <1>10 DEF Ticks
    <3> QED BY <1>3, <1>4, <1>5, <2>1, <3>1, Answered
  <2>3. Sends /\ drShift = DmiPacket(Activate)
    BY <1>6, <1>10, <2>1
  <2>4. m = 1
    BY <1>10, <2>2, <2>3 DEF NextPhase
  <2>5. Timely(m, S1)'
    BY <1>1, <1>4, <1>10, TimeStarts
  <2>6. Under(1, Activate, << >>)'
    <3>1. Phase(0) /\ served = << >>
      BY <1>5, <2>1, <2>2
    <3> QED BY <1>7, <1>10, <2>3, <3>1, UnderStarts
  <2> QED BY <2>1, <2>4, <2>5, <2>6
<1>11. ASSUME S1 <= Rises, Rises' < S2
       PROVE  /\ Timely(m, S1)' /\ Under(m, Activate, << >>)'
              /\ at' \in {S1, S2} /\ part' > 2 => m \in 1 .. part' - 2
  <2>1. /\ Rises < S2 /\ S1 <= at /\ 7 <= Rises /\ First < at
        /\ part = 2 => at \notin {S1, S2}
        /\ at = S1 => part > 2
    BY <1>1, <1>2, <1>3, <1>11
  <2>2. Timely(k, S1) /\ Under(k, Activate, << >>)
    BY <1>5, <1>11, <2>1
  <2>3. part = 2 => ~Sends /\ ~Clears
    BY <1>6, <2>1
  <2>4. at = S1 => k \in 1 .. part - 2
    BY <1>5, <2>1
  <2>5. k = 4 => OwnRequestSent
    BY <1>1, <1>3, <1>8, <2>1, <2>4
  <2>6. Timely(m, S1)' /\ Under(m, Activate, << >>)'
    BY <1>1, <1>7, <2>2, <2>3, <2>5, RequestStep
  <2>7. ASSUME at' \in {S1, S2}, part' > 2
        PROVE  m \in 1 .. part' - 2
    <3>1. at = S1 /\ part = 3 /\ part' = 4
      BY <1>1, <1>2, <1>3, <1>11, <2>1, <2>7
    <3>2. k = 1
      BY <2>4, <3>1
    <3> QED BY <3>1, <3>2 DEF NextPhase
  <2> QED BY <2>6, <2>7
<1>12. ASSUME part = 2, at = S2
       PROVE  /\ Rises' = S2 /\ m = 1 /\ part' = 3
              /\ Timely(m, S2)' /\ Under(m, ReadStatus, <<Activate>>)'
  <2>1. 7 <= Rises /\ S1 <= Rises /\ Rises < S2 /\ Rises' = S2 /\ part' = 3
    BY <1>1, <1>2, <1>3, <1>12
  <2>2. Timely(k, S1) /\ Under(k, Activate, << >>)
    BY <1>5, <2>1
  <2>3. k = 0
    <3>1. Ticks = 4 * S2 + 2 /\ Ticks \in Nat /\ Ticks >= 4 * S1 + 65
      BY <1>1, <1>12 DEF Ticks
    <3> QED BY <1>1, <1>3, <1>4, <2>2, <3>1, Answered
  <2>4. Sends /\ drShift = DmiPacket(ReadStatus)
    BY <1>6, <1>12, <2>1
  <2>5. m = 1
    BY <1>12, <2>3, <2>4 DEF NextPhase
  <2>6. Timely(m, S2)'
    BY <1>1, <1>4, <1>12, TimeStarts
  <2>7. Under(1, ReadStatus, <<Activate>>)'
    <3>1. Phase(0) /\ served = <<Activate>> /\ dm.active
      BY <1>7, <2>2, <2>3 DEF Under
    <3> QED BY <1>7, <1>12, <2>4, <3>1, UnderStarts
  <2> QED BY <2>1, <2>5, <2>6, <2>7
<1>13. ASSUME S2 <= Rises
       PROVE  /\ Timely(m, S2)' /\ Under(m, ReadStatus, <<Activate>>)'
              /\ at' \in {S1, S2} /\ part' > 2 => m \in 1 .. part' - 2
  <2>1. /\ S2 <= at /\ S1 < at /\ 7 <= Rises /\ First < at
        /\ part = 2 => at \notin {S1, S2}
        /\ at = S2 => part > 2
    BY <1>1, <1>2, <1>3, <1>13
  <2>2. Timely(k, S2) /\ Under(k, ReadStatus, <<Activate>>)
    BY <1>5, <1>13
  <2>3. part = 2 => ~Sends /\ ~Clears
    BY <1>6, <2>1
  <2>4. at = S2 => k \in 1 .. part - 2
    BY <1>5, <2>1
  <2>5. OwnRequestSent
    BY <1>8, <2>1
  <2>6. Timely(m, S2)' /\ Under(m, ReadStatus, <<Activate>>)'
    BY <1>1, <1>7, <2>2, <2>3, <2>5, RequestStep
  <2>7. ASSUME at' \in {S1, S2}, part' > 2
        PROVE  m \in 1 .. part' - 2
    <3>1. at = S2 /\ part = 3 /\ part' = 4
      BY <1>1, <1>2, <1>3, <1>13, <2>1, <2>7
    <3>2. k = 1
      BY <2>4, <3>1
    <3> QED BY <3>1, <3>2 DEF NextPhase
  <2> QED BY <2>6, <2>7
<1>14. Rises' \in Nat
  BY <1>2
<1>15. \/ Rises' < S1
       \/ part = 2 /\ at = S1
       \/ S1 <= Rises /\ Rises' < S2
       \/ part = 2 /\ at = S2
       \/ S2 <= Rises
  BY <1>1, <1>2, <1>3
<1>16. /\ 7 <= Rises' /\ Rises' < S1 => Timely(m, 7)'
       /\ Rises' < S1 => served' = << >>
       /\ S1 <= Rises' /\ Rises' < S2 => Timely(m, S1)' /\ Under(m, Activate, << >>)'
       /\ S2 <= Rises' => Timely(m, S2)' /\ Under(m, ReadStatus, <<Activate>>)'
       /\ at' \in {S1, S2} /\ part' > 2 => m \in 1 .. part' - 2
  <2>1. CASE Rises' < S1
    BY <1>1, <1>9, <1>14, <2>1
  <2>2. CASE part = 2 /\ at = S1
    BY <1>1, <1>10, <2>2
  <2>3. CASE S1 <= Rises /\ Rises' < S2
    BY <1>1, <1>2, <1>11, <2>3
  <2>4. CASE part = 2 /\ at = S2
    BY <1>1, <1>12, <2>4
  <2>5. CASE S2 <= Rises
    BY <1>1, <1>2, <1>13, <2>5
  <2> QED BY <1>15, <2>1, <2>2, <2>3, <2>4, <2>5
<1> QED BY <1>16 DEF InTime, S1, S2

-------------------------------------------------------------------------------
(* The parts of the script one after the other.                            *)

\* and through dmi_transfer.
LEMMA TransferStep ==
  ASSUME ChipType, Goes, TapSide, ReadSide,
         NEW b \in Nat \ {0}, NEW r \in {Activate, ReadStatus},
         NEW check \in Checked, check # "none",
         TransferPart(Script, b, r, check), InTransfer(b, r),
         Rises' = b => tap' = "RUN_TEST_IDLE",
         at = b /\ part = 4 => dataOut' = << >>,
         part = 2 /\ Rises = Fetched(b) + 2 => Captured \in GoodAnswer(r)
  PROVE  /\ InTransfer(b, r)'
         /\ at = b + (2 * DmiBits + 37) /\ part = 4 => dataOut' = << >>
         /\ Rises' = b + (2 * DmiBits + 37) => tap' = "RUN_TEST_IDLE"
<1>1. /\ DmiBits \in Nat \ {0} /\ b + 11 \in Nat \ {0}
      /\ Sent(b) \in Nat \ {0} /\ Sent(b) = (b + 11) + DmiBits + 5
      /\ Fetched(b) \in Nat \ {0} /\ Fetched(b) = Sent(b) + 16
      /\ Fetched(b) + DmiBits + 5 = b + (2 * DmiBits + 37)
  <2>1. DmiBits \in Nat \ {0}
    BY Counts
  <2>2. Sent(b) = b + DmiBits + 16 /\ Fetched(b) = b + DmiBits + 32
    BY DEF Sent, Fetched
  <2> QED BY <2>1, <2>2
<1>2. /\ Rises \in Nat /\ Rises = IF part > 2 THEN at ELSE at - 1
      /\ Rises' = IF part = 2 THEN Rises + 1 ELSE Rises
      /\ Rises' \in Nat
  BY RisesMove
<1>3. /\ IrPart(Script, b, "DMI")
      /\ DrPart(Script, b + 11, DmiBits, DmiPacket(r), "request")
      /\ IdlePart(Script, Sent(b))
      /\ DrPart(Script, Fetched(b), DmiBits, Zeros(DmiBits), check)
  BY DEF TransferPart
<1>4. /\ InSetIr(b, "DMI")
      /\ InScan(b + 11, DmiBits, "DMI", DmiPacket(r), Bits(DmiBits))
      /\ InIdle(Sent(b))
      /\ InScan(Fetched(b), DmiBits, "DMI", Zeros(DmiBits), GoodAnswer(r))
  BY DEF InTransfer
<1>5. InSetIr(b, "DMI")' /\ (at = b + 11 /\ part = 4 => dataOut' = << >>)
  <2>1. "DMI" \in {"DTMCS", "DMI"} /\ b \in Nat
    OBVIOUS
  <2> QED BY <1>3, <1>4, <2>1, IrStep
<1>6. Rises' = b + 11 => tap' = "RUN_TEST_IDLE" /\ ir' = "DMI"
  <2>1. ASSUME Rises' = b + 11
        PROVE  tap' = "RUN_TEST_IDLE" /\ ir' = "DMI"
    <3>1. b <= Rises' /\ Rises' <= b + 11 /\ Rises' - b = 11
      BY <1>2, <2>1
    <3>2. tap' = IrState(11) /\ ir' = "DMI"
      BY <1>5, <2>1, <3>1 DEF InSetIr
    <3> QED BY <3>2 DEF IrState
  <2> QED BY <2>1
<1>7. DmiPacket(r) \in Bits(DmiBits) /\ Zeros(DmiBits) \in Bits(DmiBits)
  BY <1>1, PacketOf, ZeroBits
<1>8. /\ "DMI" \in Registers /\ "request" \in Checked /\ "request" # "none"
      /\ Bits(DmiBits) \in SUBSET Bits(DmiBits)
      /\ GoodAnswer(r) \in SUBSET Bits(DmiBits)
  BY GoodBits DEF Registers, Checked
<1>9. part = 2 /\ Rises = (b + 11) + 2 => Captured \in Bits(DmiBits)
  <2>1. ASSUME part = 2, Rises = (b + 11) + 2
        PROVE  Captured \in Bits(DmiBits)
    <3>1. b + 11 <= Rises /\ Rises <= (b + 11) + DmiBits + 5
      BY <1>1, <2>1
    <3>2. ir = "DMI"
      BY <1>4, <3>1 DEF InScan
    <3>3. Captured \in Bits(Width(ir))
      BY CapturedBits
    <3> QED BY <3>2, <3>3 DEF Width
  <2> QED BY <2>1
<1>10. /\ InScan(b + 11, DmiBits, "DMI", DmiPacket(r), Bits(DmiBits))'
       /\ at = (b + 11) + DmiBits + 5 /\ part = 4 => dataOut' = << >>
  BY <1>1, <1>3, <1>4, <1>5, <1>6, <1>7, <1>8, <1>9, ScanStep
<1>11. Rises' = Sent(b) => tap' = "RUN_TEST_IDLE" /\ ir' = "DMI"
  <2>1. ASSUME Rises' = Sent(b)
        PROVE  tap' = "RUN_TEST_IDLE" /\ ir' = "DMI"
    <3>1. /\ b + 11 <= Rises' /\ Rises' <= (b + 11) + DmiBits + 5
          /\ Rises' - (b + 11) = DmiBits + 5
      BY <1>1, <2>1
    <3>2. tap' = DrState(DmiBits + 5, DmiBits) /\ ir' = "DMI"
      BY <1>10, <3>1 DEF InScan
    <3> QED BY <3>2 DEF DrState
  <2> QED BY <2>1
<1>12. InIdle(Sent(b))' /\ (at = Sent(b) + 16 /\ part = 4 => dataOut' = << >>)
  <2>1. at = Sent(b) /\ part = 4 => dataOut' = << >>
    BY <1>1, <1>10
  <2> QED BY <1>1, <1>3, <1>4, <1>11, <2>1, IdleStep
<1>13. Rises' = Fetched(b) => tap' = "RUN_TEST_IDLE" /\ ir' = "DMI"
  <2>1. ASSUME Rises' = Fetched(b)
        PROVE  tap' = "RUN_TEST_IDLE" /\ ir' = "DMI"
    <3>1. Sent(b) <= Rises' /\ Rises' <= Sent(b) + 16
      BY <1>1, <2>1
    <3> QED BY <1>12, <3>1 DEF InIdle
  <2> QED BY <2>1
<1>14. /\ InScan(Fetched(b), DmiBits, "DMI", Zeros(DmiBits), GoodAnswer(r))'
       /\ at = Fetched(b) + DmiBits + 5 /\ part = 4 => dataOut' = << >>
  <2>1. at = Fetched(b) /\ part = 4 => dataOut' = << >>
    BY <1>1, <1>12
  <2> QED BY <1>1, <1>3, <1>4, <1>7, <1>8, <1>13, <2>1, ScanStep
<1>15. Rises' = Fetched(b) + DmiBits + 5 => tap' = "RUN_TEST_IDLE"
  <2>1. ASSUME Rises' = Fetched(b) + DmiBits + 5
        PROVE  tap' = "RUN_TEST_IDLE"
    <3>1. /\ Fetched(b) <= Rises' /\ Rises' <= Fetched(b) + DmiBits + 5
          /\ Rises' - Fetched(b) = DmiBits + 5
      BY <1>1, <2>1
    <3>2. tap' = DrState(DmiBits + 5, DmiBits)
      BY <1>14, <3>1 DEF InScan
    <3> QED BY <3>2 DEF DrState
  <2> QED BY <2>1
<1>16. InTransfer(b, r)'
  BY <1>5, <1>10, <1>12, <1>14 DEF InTransfer
<1> QED BY <1>1, <1>14, <1>15, <1>16

\* An answer is there when it is fetched, and it is the right one.
LEMMA AnswerThere ==
  ASSUME ChipType, NEW k \in 0 .. 8, Phase(k), InTime(k), at \in Nat, part = 2
  PROVE  /\ Rises = Fetched(First) + 2 /\ ir = "DMI" =>
              Captured \in GoodAnswer(Activate)
         /\ Rises = Fetched(Second) + 2 /\ ir = "DMI" =>
              Captured \in GoodAnswer(ReadStatus)
<1>1. /\ Sent(First) \in Nat /\ Sent(Second) \in Nat
      /\ Fetched(First) = Sent(First) + 16 /\ Fetched(Second) = Sent(Second) + 16
      /\ Sent(First) + 47 <= Sent(Second)
  <2>1. /\ First \in Nat /\ Second \in Nat /\ DmiBits \in Nat
        /\ Sent(First) + 47 <= Sent(Second)
    BY Places, Counts
  <2> QED BY <2>1 DEF Sent, Fetched
<1>2. Rises = at - 1 /\ Ticks = 4 * at + 2 /\ Ticks \in Nat /\ part \in 1 .. 4
      /\ now \in 0 .. 9
  BY DEF Rises, Ticks, ChipType
<1>3. ASSUME NEW b \in Nat, NEW r, NEW before, Rises = Sent(b) + 18, Sent(b) \in Nat,
             Timely(k, Sent(b)), Under(k, r, before), ir = "DMI"
      PROVE  Captured \in GoodAnswer(r)
  <2>1. Ticks >= 4 * Sent(b) + 65
    BY <1>2, <1>3
  <2>2. k = 0
    BY <1>2, <1>3, <2>1, Answered
  <2>3. dtm.resp = Success /\ dtm.addr = r.addr /\ GoodData(r, dtm.data)
    BY <1>3, <2>2 DEF Under
  <2>4. ~dtm.busy /\ dtm.data \in Bits(DataBits)
    BY <2>2 DEF Phase, ChipType, DtmType
  <2>5. Captured = Success \o dtm.data \o r.addr
    BY <1>3, <2>3, <2>4 DEF Captured
  <2> QED BY <2>3, <2>4, <2>5 DEF GoodAnswer
<1>4. ASSUME Rises = Fetched(First) + 2, ir = "DMI"
      PROVE  Captured \in GoodAnswer(Activate)
  <2>1. Rises = Sent(First) + 18 /\ Sent(First) <= Rises /\ Rises < Sent(Second)
    BY <1>1, <1>4
  <2>2. Timely(k, Sent(First)) /\ Under(k, Activate, << >>) /\ First \in Nat
    BY <2>1, Places DEF InTime
  <2> QED BY <1>1, <1>3, <1>4, <2>1, <2>2
<1>5. ASSUME Rises = Fetched(Second) + 2, ir = "DMI"
      PROVE  Captured \in GoodAnswer(ReadStatus)
  <2>1. Rises = Sent(Second) + 18 /\ Sent(Second) <= Rises
    BY <1>1, <1>5
  <2>2. Timely(k, Sent(Second)) /\ Under(k, ReadStatus, <<Activate>>) /\ Second \in Nat
    BY <2>1, Places DEF InTime
  <2> QED BY <1>1, <1>3, <1>5, <2>1, <2>2
<1> QED BY <1>4, <1>5

\* A command keeps the client's place in the script.
LEMMA ScriptStep ==
  ASSUME ChipType, Goes, TapSide, ReadSide,
         NEW k \in 0 .. 8, Phase(k), InScript(k)
  PROVE  /\ InReset'
         /\ InScan(7, IdBits, "IDCODE", Zeros(IdBits), {Idcode})'
         /\ InSetIr(Setup1, "DTMCS")'
         /\ InScan(Dtmcs1, DtmcsBits, "DTMCS", Zeros(DtmcsBits), GoodDtmcs)'
         /\ InTransfer(First, Activate)' /\ InTransfer(Second, ReadStatus)'
<1>1. /\ 7 \in Nat \ {0} /\ Setup1 \in Nat \ {0} /\ Dtmcs1 \in Nat \ {0}
      /\ First \in Nat \ {0} /\ Second \in Nat \ {0}
      /\ IdBits \in Nat \ {0} /\ DtmcsBits \in Nat \ {0} /\ DmiBits \in Nat
      /\ Setup1 = 7 + IdBits + 5 /\ Dtmcs1 = Setup1 + 11
      /\ First = Dtmcs1 + DtmcsBits + 5 /\ Second = First + (2 * DmiBits + 37)
  <2>1. IdBits \in Nat \ {0} /\ DtmcsBits \in Nat \ {0} /\ DmiBits \in Nat
    BY Counts
  <2> QED BY <2>1, Offsets
<1>2. Rises \in Nat /\ Rises' \in Nat
  BY RisesMove
<1>3. /\ InReset
      /\ InScan(7, IdBits, "IDCODE", Zeros(IdBits), {Idcode})
      /\ InSetIr(Setup1, "DTMCS")
      /\ InScan(Dtmcs1, DtmcsBits, "DTMCS", Zeros(DtmcsBits), GoodDtmcs)
      /\ InTransfer(First, Activate) /\ InTransfer(Second, ReadStatus)
      /\ InTime(k)
  BY DEF InScript
<1>4. /\ DrPart(Script, 7, IdBits, Zeros(IdBits), "idcode")
      /\ IrPart(Script, Setup1, "DTMCS")
      /\ DrPart(Script, Dtmcs1, DtmcsBits, Zeros(DtmcsBits), "dtmcs")
      /\ TransferPart(Script, First, Activate, "dmcontrol")
      /\ TransferPart(Script, Second, ReadStatus, "dmstatus")
  BY ScriptParts
<1>5. /\ {"idcode", "dtmcs", "dmcontrol", "dmstatus"} \subseteq Checked \ {"none"}
      /\ {"IDCODE", "DTMCS", "DMI"} \subseteq Registers
      /\ Zeros(IdBits) \in Bits(IdBits) /\ Zeros(DtmcsBits) \in Bits(DtmcsBits)
      /\ {Idcode} \in SUBSET Bits(IdBits) /\ GoodDtmcs \in SUBSET Bits(DtmcsBits)
  BY <1>1, ZeroBits, GoodBits DEF Checked, Registers
<1>6. InReset' /\ (at = 7 /\ part = 4 => dataOut' = << >>)
  BY <1>3, ResetStep
<1>7. /\ InScan(7, IdBits, "IDCODE", Zeros(IdBits), {Idcode})'
      /\ at = 7 + IdBits + 5 /\ part = 4 => dataOut' = << >>
  <2>1. Rises' = 7 => tap' = "RUN_TEST_IDLE" /\ ir' = "IDCODE"
    BY <1>6 DEF InReset
  <2>2. ASSUME part = 2, Rises = 7 + 2
        PROVE  Captured \in {Idcode}
    <3>1. 7 <= Rises /\ Rises <= 7 + IdBits + 5
      BY <1>1, <2>2
    <3>2. ir = "IDCODE"
      BY <1>3, <3>1 DEF InScan
    <3> QED BY <3>2 DEF Captured
  <2> QED BY <1>1, <1>3, <1>4, <1>5, <1>6, <2>1, <2>2, ScanStep
<1>8. Rises' = Setup1 => tap' = "RUN_TEST_IDLE"
  <2>1. ASSUME Rises' = Setup1
        PROVE  tap' = "RUN_TEST_IDLE"
    <3>1. 7 <= Rises' /\ Rises' <= 7 + IdBits + 5 /\ Rises' - 7 = IdBits + 5
      BY <1>1, <2>1
    <3>2. tap' = DrState(IdBits + 5, IdBits)
      BY <1>7, <3>1 DEF InScan
    <3> QED BY <3>2 DEF DrState
  <2> QED BY <2>1
<1>9. InSetIr(Setup1, "DTMCS")' /\ (at = Setup1 + 11 /\ part = 4 => dataOut' = << >>)
  <2>1. at = Setup1 /\ part = 4 => dataOut' = << >>
    BY <1>1, <1>7
  <2>2. "DTMCS" \in {"DTMCS", "DMI"} /\ Setup1 \in Nat
    BY <1>1
  <2> QED BY <1>3, <1>4, <1>8, <2>1, <2>2, IrStep
<1>10. Rises' = Dtmcs1 => tap' = "RUN_TEST_IDLE" /\ ir' = "DTMCS"
  <2>1. ASSUME Rises' = Dtmcs1
        PROVE  tap' = "RUN_TEST_IDLE" /\ ir' = "DTMCS"
    <3>1. Setup1 <= Rises' /\ Rises' <= Setup1 + 11 /\ Rises' - Setup1 = 11
          /\ Rises' = Setup1 + 11
      BY <1>1, <2>1
    <3>2. tap' = IrState(11) /\ ir' = "DTMCS"
      BY <1>9, <3>1 DEF InSetIr
    <3> QED BY <3>2 DEF IrState
  <2> QED BY <2>1
<1>11. /\ InScan(Dtmcs1, DtmcsBits, "DTMCS", Zeros(DtmcsBits), GoodDtmcs)'
       /\ at = Dtmcs1 + DtmcsBits + 5 /\ part = 4 => dataOut' = << >>
  <2>1. at = Dtmcs1 /\ part = 4 => dataOut' = << >>
    BY <1>1, <1>9
  <2>2. ASSUME part = 2, Rises = Dtmcs1 + 2
        PROVE  Captured \in GoodDtmcs
    <3>1. Dtmcs1 <= Rises /\ Rises <= Dtmcs1 + DtmcsBits + 5
      BY <1>1, <2>2
    <3>2. ir = "DTMCS"
      BY <1>3, <3>1 DEF InScan
    <3>3. Captured = Dtmcs /\ Captured \in Bits(DtmcsBits)
      <4>1. Captured \in Bits(Width(ir))
        BY CapturedBits
      <4> QED BY <3>2, <4>1 DEF Captured, Width
    <3>4. \A i \in 1 .. Len(DtmcsId) : Dtmcs[i] = DtmcsId[i]
      <4> DEFINE st == IF dtm.stickyBusy THEN Busy
                       ELSE IF dtm.stickyError THEN Failed ELSE Success
      <4>1. st \in Seq({0, 1}) /\ <<0, 0>> \in Seq({0, 1}) /\ DtmcsId \in Seq({0, 1})
        <5>1. st \in Bits(2) /\ <<0, 0>> \in Bits(2) /\ 2 \in Nat
          BY PairBits DEF Nop
        <5> QED BY <5>1, BitsAreSeqs, Widths
      <4>2. Dtmcs = DtmcsId \o st \o <<0, 0>>
        BY DEF Dtmcs
      <4> HIDE DEF st
      <4>3. /\ DtmcsId \o st \in Seq({0, 1})
            /\ Len(DtmcsId \o st) = Len(DtmcsId) + Len(st)
            /\ \A i \in 1 .. Len(DtmcsId) : (DtmcsId \o st)[i] = DtmcsId[i]
        BY <4>1
      <4> QED BY <4>1, <4>2, <4>3
    <3> QED BY <3>3, <3>4 DEF GoodDtmcs
  <2> QED BY <1>1, <1>3, <1>4, <1>5, <1>10, <2>1, <2>2, ScanStep
<1>12. Rises' = First => tap' = "RUN_TEST_IDLE"
  <2>1. ASSUME Rises' = First
        PROVE  tap' = "RUN_TEST_IDLE"
    <3>1. /\ Dtmcs1 <= Rises' /\ Rises' <= Dtmcs1 + DtmcsBits + 5
          /\ Rises' - Dtmcs1 = DtmcsBits + 5
      BY <1>1, <2>1
    <3>2. tap' = DrState(DtmcsBits + 5, DtmcsBits)
      BY <1>11, <3>1 DEF InScan
    <3> QED BY <3>2 DEF DrState
  <2> QED BY <2>1
<1>13. ASSUME NEW b \in Nat, NEW r, InTransfer(b, r), part = 2, Rises = Fetched(b) + 2
       PROVE  ir = "DMI"
  <2>1. Fetched(b) = b + DmiBits + 32
    BY DEF Fetched
  <2>2. Fetched(b) <= Rises /\ Rises <= Fetched(b) + DmiBits + 5
    BY <1>1, <1>13, <2>1
  <2>3. InScan(Fetched(b), DmiBits, "DMI", Zeros(DmiBits), GoodAnswer(r))
    BY <1>13 DEF InTransfer
  <2> QED BY <2>2, <2>3 DEF InScan
<1>14. /\ part = 2 /\ Rises = Fetched(First) + 2 => Captured \in GoodAnswer(Activate)
       /\ part = 2 /\ Rises = Fetched(Second) + 2 => Captured \in GoodAnswer(ReadStatus)
  <2>1. at \in Nat
    BY DEF Goes
  <2> QED BY <1>1, <1>3, <1>13, <2>1, AnswerThere
<1>15. /\ InTransfer(First, Activate)'
       /\ at = First + (2 * DmiBits + 37) /\ part = 4 => dataOut' = << >>
       /\ Rises' = First + (2 * DmiBits + 37) => tap' = "RUN_TEST_IDLE"
  <2>1. at = First /\ part = 4 => dataOut' = << >>
    BY <1>1, <1>11
  <2> QED BY <1>1, <1>3, <1>4, <1>5, <1>12, <1>14, <2>1, TransferStep
<1>16. InTransfer(Second, ReadStatus)'
  BY <1>1, <1>3, <1>4, <1>5, <1>14, <1>15, TransferStep
<1> QED BY <1>6, <1>7, <1>9, <1>11, <1>15, <1>16

-------------------------------------------------------------------------------
(* What the client asserts of what it has read.                            *)

\* Where the script checks what it has scanned,
LEMMA ChecksAre ==
  ASSUME at \in 1 .. Ends
  PROVE  Script[at].check =
           IF at = Setup1 THEN "idcode"
           ELSE IF at = First THEN "dtmcs"
           ELSE IF at = Second THEN "dmcontrol"
           ELSE IF at = Ends THEN "dmstatus"
           ELSE IF at \in {Sent(First), Sent(Second)} THEN "request"
           ELSE "none"
<1>1. /\ Setup1 = 7 + (IdBits + 5) /\ Dtmcs1 = Setup1 + 11
      /\ First = Dtmcs1 + (DtmcsBits + 5)
      /\ Second = First + (2 * DmiBits + 37) /\ Ends = Second + (2 * DmiBits + 37)
      /\ \A b \in Nat : Sent(b) = b + DmiBits + 16 /\ Fetched(b) = b + DmiBits + 32
      /\ IdBits \in Nat \ {0} /\ DtmcsBits \in Nat \ {0} /\ DmiBits \in Nat \ {0}
  <2>1. IdBits \in Nat \ {0} /\ DtmcsBits \in Nat \ {0} /\ DmiBits \in Nat \ {0}
    BY Counts
  <2> QED BY <2>1, Offsets
<1>2. /\ Setup1 \in Nat /\ Dtmcs1 \in Nat /\ First \in Nat /\ Second \in Nat
      /\ Ends \in Nat /\ at \in Nat
  BY Offsets
<1>3. /\ ResetPart(Script)
      /\ DrPart(Script, 7, IdBits, Zeros(IdBits), "idcode")
      /\ IrPart(Script, Setup1, "DTMCS")
      /\ DrPart(Script, Dtmcs1, DtmcsBits, Zeros(DtmcsBits), "dtmcs")
      /\ TransferPart(Script, First, Activate, "dmcontrol")
      /\ TransferPart(Script, Second, ReadStatus, "dmstatus")
  BY ScriptParts
<1>4. ASSUME NEW b \in Nat, NEW n \in Nat, NEW bits, NEW check,
             DrPart(Script, b, n, bits, check), b < at, at <= b + (n + 5)
      PROVE  Script[at].check = IF at = b + (n + 5) THEN check ELSE "none"
  <2>1. PICK q \in 1 .. n + 5 : at = b + q
    <3>1. at - b \in 1 .. n + 5 /\ at = b + (at - b)
      BY <1>2, <1>4
    <3> QED BY <3>1
  <2>2. Script[b + q].check = IF q = n + 5 THEN check ELSE "none"
    BY <1>4 DEF DrPart
  <2> QED BY <1>2, <2>1, <2>2
<1>5. ASSUME NEW b \in Nat, NEW register, IrPart(Script, b, register),
             b < at, at <= b + 11
      PROVE  Script[at].check = "none"
  <2>1. PICK q \in 1 .. 11 : at = b + q
    <3>1. at - b \in 1 .. 11 /\ at = b + (at - b)
      BY <1>2, <1>5
    <3> QED BY <3>1
  <2> QED BY <1>5, <2>1 DEF IrPart
<1>6. ASSUME NEW b \in Nat, NEW r, NEW check, TransferPart(Script, b, r, check),
             b < at, at <= b + (2 * DmiBits + 37)
      PROVE  Script[at].check =
               IF at = b + (2 * DmiBits + 37) THEN check
               ELSE IF at = Sent(b) THEN "request" ELSE "none"
  <2>1. /\ IrPart(Script, b, "DMI")
        /\ DrPart(Script, b + 11, DmiBits, DmiPacket(r), "request")
        /\ IdlePart(Script, Sent(b))
        /\ DrPart(Script, Fetched(b), DmiBits, Zeros(DmiBits), check)
    BY <1>6 DEF TransferPart
  <2>2. /\ Sent(b) = (b + 11) + (DmiBits + 5) /\ Fetched(b) = Sent(b) + 16
        /\ Fetched(b) + (DmiBits + 5) = b + (2 * DmiBits + 37)
        /\ b + 11 \in Nat /\ Sent(b) \in Nat /\ Fetched(b) \in Nat
    BY <1>1
  <2>3. CASE at <= b + 11
    BY <1>1, <1>2, <1>5, <1>6, <2>1, <2>2, <2>3
  <2>4. CASE b + 11 < at /\ at <= Sent(b)
    <3>1. Script[at].check = IF at = (b + 11) + (DmiBits + 5) THEN "request" ELSE "none"
      BY <1>1, <1>4, <2>1, <2>2, <2>4
    <3> QED BY <1>1, <1>2, <2>2, <2>4, <3>1
  <2>5. CASE Sent(b) < at /\ at <= Fetched(b)
    <3>1. PICK q \in 1 .. 16 : at = Sent(b) + q
      <4>1. at - Sent(b) \in 1 .. 16 /\ at = Sent(b) + (at - Sent(b))
        BY <1>2, <2>2, <2>5
      <4> QED BY <4>1
    <3>2. Script[at].check = "none"
      BY <2>1, <3>1 DEF IdlePart
    <3> QED BY <1>1, <1>2, <2>2, <2>5, <3>2
  <2>6. CASE Fetched(b) < at
    <3>0. DmiBits \in Nat /\ at <= Fetched(b) + (DmiBits + 5)
      BY <1>1, <1>6, <2>2
    <3>1. Script[at].check =
            IF at = Fetched(b) + (DmiBits + 5) THEN check ELSE "none"
      BY <1>4, <2>1, <2>2, <2>6, <3>0
    <3> QED BY <1>1, <1>2, <2>2, <2>6, <3>1
  <2> QED BY <1>2, <2>2, <2>3, <2>4, <2>5, <2>6
<1>7. /\ Sent(First) = First + DmiBits + 16 /\ Sent(Second) = Second + DmiBits + 16
      /\ 7 \in Nat
  BY <1>1, <1>2
<1>8. CASE at <= 7
  <2>1. Script[at].check = "none"
    BY <1>2, <1>3, <1>8 DEF ResetPart
  <2> QED BY <1>1, <1>2, <1>7, <1>8, <2>1
<1>9. CASE 7 < at /\ at <= Setup1
  <2>1. Script[at].check = IF at = 7 + (IdBits + 5) THEN "idcode" ELSE "none"
    BY <1>1, <1>3, <1>4, <1>7, <1>9
  <2> QED BY <1>1, <1>2, <1>7, <1>9, <2>1
<1>10. CASE Setup1 < at /\ at <= Dtmcs1
  <2>1. Script[at].check = "none"
    BY <1>1, <1>2, <1>3, <1>5, <1>10
  <2> QED BY <1>1, <1>2, <1>7, <1>10, <2>1
<1>11. CASE Dtmcs1 < at /\ at <= First
  <2>1. Script[at].check = IF at = Dtmcs1 + (DtmcsBits + 5) THEN "dtmcs" ELSE "none"
    BY <1>1, <1>2, <1>3, <1>4, <1>11
  <2> QED BY <1>1, <1>2, <1>7, <1>11, <2>1
<1>12. CASE First < at /\ at <= Second
  <2>1. Script[at].check = IF at = First + (2 * DmiBits + 37) THEN "dmcontrol"
                           ELSE IF at = Sent(First) THEN "request" ELSE "none"
    BY <1>1, <1>2, <1>3, <1>6, <1>12
  <2> QED BY <1>1, <1>2, <1>7, <1>12, <2>1
<1>13. CASE Second < at
  <2>1. at <= Second + (2 * DmiBits + 37)
    BY <1>1, <1>2
  <2>2. Script[at].check = IF at = Second + (2 * DmiBits + 37) THEN "dmstatus"
                           ELSE IF at = Sent(Second) THEN "request" ELSE "none"
    BY <1>1, <1>2, <1>3, <1>6, <1>13, <2>1
  <2> QED BY <1>1, <1>2, <1>7, <1>13, <2>2
<1> QED BY <1>2, <1>8, <1>9, <1>10, <1>11, <1>12, <1>13

\* what is good passes the check,
LEMMA GoodScans ==
  /\ AsExpected("idcode", Idcode)
  /\ \A c \in GoodDtmcs : AsExpected("dtmcs", c)
  /\ \A c : AsExpected("request", c)
  /\ \A c \in GoodAnswer(Activate) : AsExpected("dmcontrol", c)
  /\ \A c \in GoodAnswer(ReadStatus) : AsExpected("dmstatus", c)
<1>1. ASSUME NEW c \in GoodDtmcs
      PROVE  AsExpected("dtmcs", c)
  <2>1. /\ DtmcsBits \in Nat /\ Len(DtmcsId) \in Nat
        /\ 1 \in 1 .. DtmcsBits /\ Len(DtmcsId) \in 1 - 1 .. DtmcsBits
        /\ Len(DtmcsId) - 1 + 1 = Len(DtmcsId)
        /\ DtmcsId \in Bits(Len(DtmcsId))
    BY Counts, Widths, SeqsAreBits
  <2>2. c \in Bits(DtmcsBits) /\ \A i \in 1 .. Len(DtmcsId) : c[i] = DtmcsId[i]
    BY DEF GoodDtmcs
  <2>3. /\ SubSeq(c, 1, Len(DtmcsId)) \in Bits(Len(DtmcsId))
        /\ \A i \in 1 .. Len(DtmcsId) : SubSeq(c, 1, Len(DtmcsId))[i] = c[1 + i - 1]
    BY <2>1, <2>2, PartOfBits
  <2>4. \A i \in 1 .. Len(DtmcsId) : SubSeq(c, 1, Len(DtmcsId))[i] = DtmcsId[i]
    <3> TAKE i \in 1 .. Len(DtmcsId)
    <3>1. 1 + i - 1 = i
      BY <2>1
    <3> QED BY <2>2, <2>3, <3>1
  <2>5. SubSeq(c, 1, Len(DtmcsId)) = DtmcsId
    BY <2>1, <2>3, <2>4, SameBits
  <2> QED BY <2>5 DEF AsExpected
<1>2. ASSUME NEW r \in {Activate, ReadStatus}, NEW c \in GoodAnswer(r)
      PROVE  /\ SubSeq(c, 1, 2) = Success
             /\ SubSeq(c, DataBits + 3, DataBits + AddrBits + 2) = r.addr
             /\ GoodData(r, SubSeq(c, 3, DataBits + 2))
  <2>1. PICK data \in Bits(DataBits) : GoodData(r, data) /\ c = Success \o data \o r.addr
    BY DEF GoodAnswer
  <2>2. Success \in Bits(2) /\ r.addr \in Bits(AddrBits)
    BY PairBits, RequestBits
  <2>3. /\ SubSeq(c, 1, 2) = Success
        /\ SubSeq(c, 3, DataBits + 2) = data
        /\ SubSeq(c, DataBits + 3, DataBits + AddrBits + 2) = r.addr
    <3> DEFINE u == Success \o data \o r.addr
    <3>1. /\ SubSeq(u, 1, 2) = Success
          /\ SubSeq(u, 3, DataBits + 2) = data
          /\ SubSeq(u, DataBits + 3, DataBits + AddrBits + 2) = r.addr
      <4>1. PICK o \in Bits(2), a \in Bits(AddrBits) : o = Success /\ a = r.addr
        BY <2>2
      <4>2. /\ SubSeq(o \o data \o a, 1, 2) = o
            /\ SubSeq(o \o data \o a, 3, DataBits + 2) = data
            /\ SubSeq(o \o data \o a, DataBits + 3, DataBits + AddrBits + 2) = a
        BY PacketBits, Widths
      <4> QED BY <4>1, <4>2
    <3>2. c = u
      BY <2>1
    <3> HIDE DEF u
    <3> QED BY <3>1, <3>2
  <2> QED BY <2>1, <2>3
<1>3. ASSUME NEW c \in GoodAnswer(Activate)
      PROVE  AsExpected("dmcontrol", c)
  BY <1>2, RequestBits DEF AsExpected
<1>4. ASSUME NEW c \in GoodAnswer(ReadStatus)
      PROVE  AsExpected("dmstatus", c)
  BY <1>2, RequestBits DEF AsExpected, GoodData
<1> QED BY <1>1, <1>3, <1>4 DEF AsExpected

\* Every scan of the script is as the client expects.
LEMMA Expected ==
  ASSUME NEW k, InScript(k), part = 4, Script[at].check # "none"
  PROVE  AsExpected(Script[at].check, dataOut)
<1>1. /\ at \in 1 .. Ends
      /\ InScan(7, IdBits, "IDCODE", Zeros(IdBits), {Idcode})
      /\ InScan(Dtmcs1, DtmcsBits, "DTMCS", Zeros(DtmcsBits), GoodDtmcs)
      /\ InScan(Fetched(First), DmiBits, "DMI", Zeros(DmiBits), GoodAnswer(Activate))
      /\ InScan(Fetched(Second), DmiBits, "DMI", Zeros(DmiBits), GoodAnswer(ReadStatus))
  BY DEF InScript, InTransfer
<1>2. /\ IdBits \in Nat \ {0} /\ DtmcsBits \in Nat \ {0} /\ DmiBits \in Nat \ {0}
      /\ Dtmcs1 \in Nat /\ Fetched(First) \in Nat /\ Fetched(Second) \in Nat /\ 7 \in Nat
      /\ Setup1 = 7 + IdBits + 5 /\ First = Dtmcs1 + DtmcsBits + 5
      /\ Second = Fetched(First) + DmiBits + 5 /\ Ends = Fetched(Second) + DmiBits + 5
  <2>1. IdBits \in Nat \ {0} /\ DtmcsBits \in Nat \ {0} /\ DmiBits \in Nat \ {0}
    BY Counts
  <2>2. /\ First \in Nat /\ Second \in Nat /\ Dtmcs1 \in Nat /\ Setup1 = IdBits + 12
        /\ Second = First + (2 * DmiBits + 37) /\ Ends = Second + (2 * DmiBits + 37)
        /\ First = Dtmcs1 + (DtmcsBits + 5)
    BY Offsets
  <2>3. /\ Fetched(First) = First + DmiBits + 32
        /\ Fetched(Second) = Second + DmiBits + 32
    BY DEF Fetched
  <2> QED BY <2>1, <2>2, <2>3
<1>3. CASE at = Setup1
  <2>1. dataOut \in {Idcode}
    BY <1>1, <1>2, <1>3, GoodBits, ScanEnds
  <2>2. Script[at].check = "idcode"
    BY <1>1, <1>3, ChecksAre
  <2> QED BY <2>1, <2>2, GoodScans
<1>4. CASE at = First /\ at # Setup1
  <2>1. dataOut \in GoodDtmcs
    BY <1>1, <1>2, <1>4, GoodBits, ScanEnds
  <2>2. Script[at].check = "dtmcs"
    BY <1>1, <1>4, ChecksAre
  <2> QED BY <2>1, <2>2, GoodScans
<1>5. CASE at = Second /\ at \notin {Setup1, First}
  <2>1. dataOut \in GoodAnswer(Activate)
    BY <1>1, <1>2, <1>5, GoodBits, ScanEnds
  <2>2. Script[at].check = "dmcontrol"
    BY <1>1, <1>5, ChecksAre
  <2> QED BY <2>1, <2>2, GoodScans
<1>6. CASE at = Ends /\ at \notin {Setup1, First, Second}
  <2>1. dataOut \in GoodAnswer(ReadStatus)
    BY <1>1, <1>2, <1>6, GoodBits, ScanEnds
  <2>2. Script[at].check = "dmstatus"
    BY <1>1, <1>6, ChecksAre
  <2> QED BY <2>1, <2>2, GoodScans
<1>7. CASE at \notin {Setup1, First, Second, Ends}
  <2>1. Script[at].check = "request"
    BY <1>1, <1>7, ChecksAre
  <2> QED BY <2>1, GoodScans
<1> QED BY <1>3, <1>4, <1>5, <1>6, <1>7

-------------------------------------------------------------------------------
(* A command.                                                              *)

\* and the count of what was checked follows.
LEMMA ChecksMove ==
  ASSUME Goes, at \in 1 .. Ends
  PROVE  /\ Checks \in 0 .. 5
         /\ ~(at = Ends /\ part = 4) =>
              Checks' = IF part = 4 /\ Script[at].check # "none"
                          THEN Checks + 1 ELSE Checks
         /\ at = Ends => Checks = 5 /\ Script[at].check # "none"
<1>1. /\ Setup1 \in Nat /\ First \in Nat /\ Sent(First) \in Nat
      /\ Second \in Nat /\ Sent(Second) \in Nat /\ Ends \in Nat
      /\ Setup1 < First /\ First < Sent(First) /\ Sent(First) < Second
      /\ Second < Sent(Second) /\ Sent(Second) < Ends
  <2>1. Setup1 \in Nat /\ Setup1 < First
    BY Offsets, Counts
  <2> QED BY <2>1, Places
<1>2. Script[at].check # "none" <=>
        at \in {Setup1, First, Sent(First), Second, Sent(Second), Ends}
  BY ChecksAre
<1>3. at \in Nat /\ at' = IF part = 4 THEN at + 1 ELSE at
  BY DEF Goes
<1>4. /\ Checks = IF at <= Setup1 THEN 0 ELSE IF at <= First THEN 1
                  ELSE IF at <= Sent(First) THEN 2 ELSE IF at <= Second THEN 3
                  ELSE IF at <= Sent(Second) THEN 4 ELSE 5
      /\ Checks' = IF at' <= Setup1 THEN 0 ELSE IF at' <= First THEN 1
                   ELSE IF at' <= Sent(First) THEN 2 ELSE IF at' <= Second THEN 3
                   ELSE IF at' <= Sent(Second) THEN 4 ELSE 5
  BY DEF Checks
<1>5. at = Ends => Checks = 5 /\ Script[at].check # "none"
  BY <1>1, <1>2, <1>4
<1>6. CASE part # 4
  BY <1>1, <1>3, <1>4, <1>5, <1>6
<1>7. CASE part = 4 /\ at \in {Setup1, First, Sent(First), Second, Sent(Second)}
  <2>1. Checks' = Checks + 1 /\ Checks \in 0 .. 5
    <3>0. at' = at + 1 /\ ~(at' <= at)
      BY <1>3, <1>7
    <3>1. ASSUME at = Setup1
          PROVE  Checks = 0 /\ Checks' = 1
      BY <1>1, <1>3, <1>4, <3>0, <3>1
    <3>2. ASSUME at = First
          PROVE  Checks = 1 /\ Checks' = 2
      BY <1>1, <1>3, <1>4, <3>0, <3>2
    <3>3. ASSUME at = Sent(First)
          PROVE  Checks = 2 /\ Checks' = 3
      BY <1>1, <1>3, <1>4, <3>0, <3>3
    <3>4. ASSUME at = Second
          PROVE  Checks = 3 /\ Checks' = 4
      BY <1>1, <1>3, <1>4, <3>0, <3>4
    <3>5. ASSUME at = Sent(Second)
          PROVE  Checks = 4 /\ Checks' = 5
      BY <1>1, <1>3, <1>4, <3>0, <3>5
    <3> QED BY <1>7, <3>1, <3>2, <3>3, <3>4, <3>5
  <2> QED BY <1>2, <1>5, <1>7, <2>1
<1>8. CASE part = 4 /\ at \notin {Setup1, First, Sent(First), Second, Sent(Second), Ends}
  <2>1. Checks' = Checks /\ Checks \in 0 .. 5
    BY <1>1, <1>3, <1>4, <1>8
  <2> QED BY <1>2, <1>5, <1>8, <2>1
<1>9. CASE part = 4 /\ at = Ends
  BY <1>5, <1>9
<1> QED BY <1>6, <1>7, <1>8, <1>9

\* The clock, the pins and the client's side of a command.
LEMMA CommandMoves ==
  ASSUME ChipType, NEW k \in 0 .. 8, InScript(k), Command
  PROVE  /\ now' \in 0 .. 9 /\ now' = (now + 1) % 10 /\ ClkSide /\ ServedSide
         /\ TckSide /\ TapSide
         /\ tck' = IF part \in {2, 3} THEN 1 ELSE 0
         /\ ~(at = Ends /\ part = 4) =>
              /\ Goes /\ ReadSide /\ client' = "running"
              /\ passed' = IF part = 4 /\ Script[at].check # "none"
                             THEN passed + 1 ELSE passed
         /\ at = Ends /\ part = 4 => client' = "passed" /\ passed' = passed + 1
<1>1. /\ now \in 0 .. 9 /\ at \in 1 .. Ends /\ at \in Nat /\ part \in 1 .. 4
      /\ part = 2 \/ (part = 1 /\ at # 1) => tck = 0
      /\ part \in {3, 4} => tck = 1
      /\ tck \in {0, 1} /\ client = "running"
  BY Places DEF ChipType, InScript, Command
<1>2. /\ Script[at].tms \in {0, 1} /\ Script[at].tdi \in {0, 1}
      /\ Len(Script) = Ends
  BY <1>1, ScriptParts DEF TckCycles, TckCycle
<1>3. Tick
  BY DEF Command, SetPins
<1>4. /\ now' = (now + 1) % 10 /\ now' \in 0 .. 9 /\ (now' = 5 <=> now = 4)
      /\ ClockPeriod \div 2 = 5
  BY <1>1, <1>3 DEF Tick, ClockPeriod
<1>5. ClkSide /\ ServedSide
  BY <1>3, <1>4 DEF Tick, ClkSide, ServedSide
<1>6. /\ part = 2 => TckRise(Script[at].tms, Script[at].tdi) /\ UNCHANGED tdo
      /\ part # 2 => UNCHANGED <<scanVars, dtm>>
      /\ part = 4 => TckFall
      /\ part = 3 \/ (part = 1 /\ at # 1) => UNCHANGED tdo
      /\ tck' = IF part \in {2, 3} THEN 1 ELSE 0
  <2>1. CASE part = 1
    <3>1. SetPins(0, Script[at].tms, Script[at].tdi)
      BY <2>1 DEF Command
    <3> QED BY <1>1, <2>1, <3>1 DEF SetPins
  <2>2. CASE part = 2
    <3>1. SetPins(1, Script[at].tms, Script[at].tdi)
      BY <2>2 DEF Command
    <3> QED BY <1>1, <2>2, <3>1 DEF SetPins
  <2>3. CASE part = 3
    BY <1>1, <2>3 DEF Command
  <2>4. CASE part = 4
    <3>1. SetPins(0, Script[at].tms, Script[at].tdi)
      BY <2>4 DEF Command
    <3> QED BY <1>1, <2>4, <3>1 DEF SetPins
  <2> QED BY <1>1, <2>1, <2>2, <2>3, <2>4
<1>7. TckSide /\ TapSide
  BY <1>2, <1>6 DEF TckSide, TapSide
<1>8. CASE part # 4
  <2>1. /\ part' = part + 1 /\ at' = at /\ client' = client /\ passed' = passed
        /\ dataOut' = IF part = 3 /\ Script[at].keep THEN Append(dataOut, tdo)
                      ELSE dataOut
    <3>1. CASE part \in {1, 2}
      BY <3>1 DEF Command
    <3>2. CASE part = 3
      BY <3>2 DEF Command
    <3> QED BY <1>1, <1>8, <3>1, <3>2
  <2>2. Goes
    BY <1>1, <1>8, <2>1 DEF Goes
  <2>3. ReadSide
    BY <1>1, <1>6, <1>8, <2>1 DEF ReadSide
  <2> QED BY <1>1, <1>4, <1>5, <1>6, <1>7, <1>8, <2>1, <2>2, <2>3
<1>9. CASE part = 4
  <2>1. CycleEnds
    BY <1>9 DEF Command
  <2>2. CASE Script[at].check = "none"
    <3>1. at # Ends
      BY <1>1, <2>2, ChecksAre, Places, Offsets
    <3>2. at' = at + 1 /\ part' = 1 /\ client' = client /\ dataOut' = dataOut
          /\ passed' = passed
      BY <2>1, <2>2 DEF CycleEnds
    <3>3. Goes
      BY <1>1, <1>9, <3>2 DEF Goes
    <3>4. ReadSide
      BY <1>6, <1>9, <2>2, <3>2 DEF ReadSide
    <3> QED BY <1>1, <1>4, <1>5, <1>6, <1>7, <1>9, <2>2, <3>1, <3>2, <3>3, <3>4
  <2>3. CASE Script[at].check # "none"
    <3>1. AsExpected(Script[at].check, dataOut)
      BY <1>9, <2>3, Expected
    <3>2. /\ passed' = passed + 1
          /\ IF at = Ends THEN ClientCloses("passed")
             ELSE at' = at + 1 /\ part' = 1 /\ dataOut' = << >> /\ client' = client
      BY <1>2, <2>1, <2>3, <3>1 DEF CycleEnds
    <3>3. CASE at = Ends
      BY <1>4, <1>5, <1>6, <1>7, <1>9, <3>2, <3>3 DEF ClientCloses
    <3>4. CASE at # Ends
      <4>1. at' = at + 1 /\ part' = 1 /\ dataOut' = << >> /\ client' = client
        BY <3>2, <3>4
      <4>2. Goes
        BY <1>1, <1>9, <4>1 DEF Goes
      <4>3. ReadSide
        BY <1>6, <1>9, <2>3, <4>1 DEF ReadSide
      <4> QED BY <1>1, <1>4, <1>5, <1>6, <1>7, <1>9, <2>3, <3>2, <3>4, <4>1, <4>2, <4>3
    <3> QED BY <3>3, <3>4
  <2> QED BY <2>2, <2>3
<1> QED BY <1>8, <1>9

\* The types hold on.
LEMMA CommandType ==
  ASSUME ChipType, NEW k \in 0 .. 8, InScript(k), Command
  PROVE  ChipType'
<1>1. /\ now' \in 0 .. 9 /\ ClkSide /\ TckSide
      /\ tck' = IF part \in {2, 3} THEN 1 ELSE 0
  BY CommandMoves
<1>2. /\ tap' \in DOMAIN TapNext /\ ir' \in Registers /\ irShift' \in Bits(5)
      /\ tap' \in ScanStates => drShift' \in Bits(Width(ir'))
      /\ dtm' \in DtmType
  <2>1. CASE part = 2
    <3>1. PICK tms \in {0, 1}, tdi \in {0, 1} : TckRise(tms, tdi)
      BY <1>1, <2>1 DEF TckSide
    <3> QED BY <3>1, TckRiseType
  <2>2. CASE part # 2
    <3>1. UNCHANGED <<tap, ir, irShift, drShift, dtm>>
      BY <1>1, <2>2 DEF TckSide, scanVars
    <3> QED BY <3>1 DEF ChipType
  <2> QED BY <2>1, <2>2
<1>3. dmi' \in DmiType /\ dm' \in DmType
  <2>1. CASE now = 4
    BY <1>1, <2>1, ClkRiseType DEF ClkSide
  <2>2. CASE now # 4
    BY <1>1, <2>2 DEF ClkSide, ChipType
  <2> QED BY <2>1, <2>2
<1>4. tck' \in {0, 1}
  BY <1>1
<1> QED BY <1>1, <1>2, <1>3, <1>4 DEF ChipType

\* What the client has been told, while it runs.
LEMMA ToldInScript ==
  ASSUME ChipType, NEW k \in 0 .. 8, InScript(k)
  PROVE  Told /\ (at = Ends /\ part = 4 => k = 0 /\ served = Requests)
<1>1. /\ First \in Nat /\ Second \in Nat /\ Ends \in Nat
      /\ Sent(First) \in Nat /\ Sent(Second) \in Nat
      /\ Sent(First) + 26 <= Second /\ Second < Sent(Second)
      /\ Sent(Second) + 26 <= Ends /\ Setup1 \in Nat /\ Setup1 < First
      /\ First < Sent(First) /\ Sent(First) < Second
  <2>1. /\ Sent(First) = First + DmiBits + 16 /\ Sent(Second) = Second + DmiBits + 16
        /\ Second = First + (2 * DmiBits + 37) /\ Ends = Second + (2 * DmiBits + 37)
    BY Offsets
  <2>2. DmiBits \in Nat /\ DmiBits >= 5
    BY Counts
  <2>3. Setup1 \in Nat /\ Setup1 < First
    BY Offsets, Counts
  <2> QED BY <2>1, <2>2, <2>3, Places
<1>2. /\ at \in 1 .. Ends /\ at \in Nat /\ part \in 1 .. 4 /\ now \in 0 .. 9
      /\ passed = Checks
      /\ Sent(First) <= Rises /\ Rises < Sent(Second) =>
           Timely(k, Sent(First)) /\ Under(k, Activate, << >>)
      /\ Sent(Second) <= Rises =>
           Timely(k, Sent(Second)) /\ Under(k, ReadStatus, <<Activate>>)
      /\ at \in {Sent(First), Sent(Second)} /\ part > 2 => k \in 1 .. part - 2
  BY <1>1 DEF ChipType, InScript, InTime
<1>3. Rises = IF part > 2 THEN at ELSE at - 1
  BY DEF Rises
<1>4. Ticks = 4 * at + part /\ Ticks \in Nat
  BY <1>2 DEF Ticks
<1>5. passed # 6
  BY <1>1, <1>2 DEF Checks
<1>6. ASSUME passed = 4
      PROVE  served = <<Activate>>
  <2>1. Second < at /\ at <= Sent(Second)
    BY <1>1, <1>2, <1>6 DEF Checks
  <2>2. CASE Rises < Sent(Second)
    <3>1. Sent(First) <= Rises /\ Ticks >= 4 * Sent(First) + 65
      BY <1>1, <1>2, <1>3, <1>4, <2>1
    <3>2. Timely(k, Sent(First)) /\ Under(k, Activate, << >>)
      BY <1>2, <2>2, <3>1
    <3>3. k = 0
      BY <1>1, <1>2, <1>4, <3>1, <3>2, Answered
    <3>4. served = Append(<< >>, Activate)
      BY <3>2, <3>3 DEF Under
    <3> QED BY <3>4
  <2>3. CASE ~(Rises < Sent(Second))
    <3>1. at = Sent(Second) /\ part > 2 /\ Sent(Second) <= Rises
      BY <1>1, <1>2, <1>3, <2>1, <2>3
    <3>2. k \in 1 .. part - 2 /\ Under(k, ReadStatus, <<Activate>>)
      BY <1>2, <3>1
    <3>3. k \in {1, 2, 3, 4}
      BY <1>2, <3>2
    <3> QED BY <3>2, <3>3 DEF Under
  <2> QED BY <2>2, <2>3
<1>7. ASSUME at = Ends, part = 4
      PROVE  k = 0 /\ served = Requests
  <2>1. Sent(Second) <= Rises /\ Ticks >= 4 * Sent(Second) + 65
    BY <1>1, <1>2, <1>3, <1>4, <1>7
  <2>2. Timely(k, Sent(Second)) /\ Under(k, ReadStatus, <<Activate>>)
    BY <1>2, <2>1
  <2>3. k = 0
    BY <1>1, <1>2, <1>4, <2>1, <2>2, Answered
  <2>4. served = Append(<<Activate>>, ReadStatus)
    BY <2>2, <2>3 DEF Under
  <2>5. Append(<<Activate>>, ReadStatus) = <<Activate, ReadStatus>>
    <3> DEFINE S == {Activate, ReadStatus}
    <3>1. ASSUME NEW x \in S, NEW y \in S
          PROVE  Append(<<x>>, y) = <<x, y>>
      <4>1. <<x>> \in Seq(S) /\ Len(<<x>>) = 1 /\ <<x>>[1] = x
        OBVIOUS
      <4>2. /\ Append(<<x>>, y) \in Seq(S) /\ Len(Append(<<x>>, y)) = 2
            /\ Append(<<x>>, y)[1] = x /\ Append(<<x>>, y)[2] = y
        BY <4>1, AppendProperties
      <4>3. /\ <<x, y>> \in Seq(S) /\ Len(<<x, y>>) = 2
            /\ <<x, y>>[1] = x /\ <<x, y>>[2] = y
        OBVIOUS
      <4>4. \A i \in 1 .. 2 : Append(<<x>>, y)[i] = <<x, y>>[i]
        BY <4>2, <4>3
      <4> QED BY <4>2, <4>3, <4>4, SeqEqual
    <3> QED BY <3>1
  <2> QED BY <2>3, <2>4, <2>5 DEF Requests
<1> QED BY <1>5, <1>6, <1>7 DEF Told

\* Each command of the client keeps the invariant, and the last one passes.
LEMMA CommandStep ==
  ASSUME ChipType, NEW k \in 0 .. 8, Phase(k), InScript(k), Command
  PROVE  /\ ChipType' /\ client' \in {"running", "passed"}
         /\ client' = "passed" => passed' = 6 /\ Told'
         /\ \E j \in 0 .. 8 : Phase(j)' /\ (client' = "running" => InScript(j)')
<1>1. PICK m \in 0 .. 8 : m = NextPhase(k)
  BY DEF NextPhase
<1>2. /\ now' \in 0 .. 9 /\ now' = (now + 1) % 10 /\ ClkSide /\ ServedSide
      /\ TckSide /\ TapSide
      /\ tck' = IF part \in {2, 3} THEN 1 ELSE 0
      /\ ~(at = Ends /\ part = 4) =>
           /\ Goes /\ ReadSide /\ client' = "running"
           /\ passed' = IF part = 4 /\ Script[at].check # "none"
                          THEN passed + 1 ELSE passed
      /\ at = Ends /\ part = 4 => client' = "passed" /\ passed' = passed + 1
  BY CommandMoves
<1>3. ChipType'
  BY CommandType
<1>4. Phase(m)'
  BY <1>1, <1>2, PhaseMoves
<1>5. /\ at \in 1 .. Ends /\ at \in Nat /\ part \in 1 .. 4 /\ passed = Checks
      /\ Ends \in Nat
  BY Places DEF InScript
<1>6. CASE at = Ends /\ part = 4
  <2>1. client' = "passed" /\ passed' = Checks + 1
    BY <1>2, <1>5, <1>6
  <2>2. Checks = 5
    <3>1. Sent(Second) < Ends /\ Second < Ends /\ Sent(First) < Ends
          /\ First < Ends /\ Setup1 < Ends
          /\ Setup1 \in Nat /\ First \in Nat /\ Second \in Nat
          /\ Sent(First) \in Nat /\ Sent(Second) \in Nat
      <4>1. Setup1 \in Nat /\ Setup1 < First
        BY Offsets, Counts
      <4> QED BY <4>1, Places
    <3> QED BY <1>5, <1>6, <3>1 DEF Checks
  <2>3. served' = served /\ served = Requests
    <3>1. k = 0 /\ served = Requests
      BY <1>6, ToldInScript
    <3>2. ~RequestTaken
      BY <3>1, PhaseSignals
    <3> QED BY <1>2, <3>1, <3>2 DEF ServedSide
  <2>4. passed' = 6
    BY <2>1, <2>2
  <2>5. Told'
    BY <2>3, <2>4 DEF Told, Requests
  <2> QED BY <1>3, <1>4, <2>1, <2>4, <2>5
<1>7. CASE ~(at = Ends /\ part = 4)
  <2>1. Goes /\ ReadSide /\ client' = "running" /\ TapSide
    BY <1>2, <1>7
  <2>2. /\ InReset'
        /\ InScan(7, IdBits, "IDCODE", Zeros(IdBits), {Idcode})'
        /\ InSetIr(Setup1, "DTMCS")'
        /\ InScan(Dtmcs1, DtmcsBits, "DTMCS", Zeros(DtmcsBits), GoodDtmcs)'
        /\ InTransfer(First, Activate)' /\ InTransfer(Second, ReadStatus)'
    BY <2>1, ScriptStep
  <2>3. InTime(m)'
    BY <1>1, <1>2, <2>1, TimeStep
  <2>4. passed' = Checks'
    BY <1>2, <1>5, <1>7, <2>1, ChecksMove
  <2>5. /\ at' \in 1 .. Ends /\ part' \in 1 .. 4
        /\ part' = 2 \/ (part' = 1 /\ at' # 1) => tck' = 0
        /\ part' \in {3, 4} => tck' = 1
    BY <1>2, <1>5, <1>7, <2>1 DEF Goes
  <2>6. InScript(m)'
    BY <2>2, <2>3, <2>4, <2>5 DEF InScript
  <2> QED BY <1>3, <1>4, <2>1, <2>6
<1> QED BY <1>6, <1>7

-------------------------------------------------------------------------------
(* The processes.                                                          *)

\* Nothing of the chip or the client changes.
LEMMA SameChip ==
  ASSUME ChipType, UNCHANGED <<now, tck, dtmVars>>, NEW k \in 0 .. 8, Phase(k)
  PROVE  ChipType' /\ Phase(k)'
<1>1. UNCHANGED <<now, tck, tap, ir, irShift, drShift, dtm, dmi, dm>>
  BY DEF dtmVars, scanVars
<1>2. ChipType'
  BY <1>1 DEF ChipType
<1>3. Phase(k)'
  BY <1>1 DEF Phase
<1> QED BY <1>2, <1>3

\* What the client has reached changes only with its commands.
LEMMA SameScript ==
  ASSUME UNCHANGED rbbVars, NEW k \in 0 .. 8, InScript(k)
  PROVE  InScript(k)'
<1>1. /\ UNCHANGED <<now, tck, at, part, dataOut, passed, served>>
      /\ UNCHANGED <<tap, ir, irShift, drShift, tdo, dtm, dmi, dm>>
  BY DEF rbbVars, clientVars, dtmVars, scanVars
<1>2. Rises' = Rises /\ Ticks' = Ticks /\ ToClk' = ToClk /\ ToRise' = ToRise
      /\ Checks' = Checks
  BY <1>1 DEF Rises, Ticks, ToClk, ToRise, Checks
<1>3. ASSUME InReset PROVE InReset'
  BY <1>1, <1>2, <1>3 DEF InReset
<1>4. ASSUME NEW b, NEW register, InSetIr(b, register)
      PROVE  InSetIr(b, register)'
  BY <1>1, <1>2, <1>4 DEF InSetIr, Shifts
<1>5. ASSUME NEW b, NEW n, NEW register, NEW bits, NEW Good,
             InScan(b, n, register, bits, Good)
      PROVE  InScan(b, n, register, bits, Good)'
  BY <1>1, <1>2, <1>5 DEF InScan, ScanData, Shifts, TakenBits
<1>6. ASSUME NEW b, InIdle(b)
      PROVE  InIdle(b)'
  BY <1>1, <1>2, <1>6 DEF InIdle
<1>7. ASSUME NEW b, NEW r, InTransfer(b, r)
      PROVE  InTransfer(b, r)'
  BY <1>4, <1>5, <1>6, <1>7 DEF InTransfer
<1>8. InTime(k)'
  <2>1. InTime(k)
    BY DEF InScript
  <2>2. ASSUME NEW b, Timely(k, b)
        PROVE  Timely(k, b)'
    BY <1>2, <2>2 DEF Timely, Needed
  <2>3. ASSUME NEW r, NEW before, Under(k, r, before)
        PROVE  Under(k, r, before)'
    BY <1>1, <2>3 DEF Under
  <2> QED BY <1>1, <1>2, <2>1, <2>2, <2>3 DEF InTime
<1>9. /\ InReset' /\ InSetIr(Setup1, "DTMCS")'
      /\ InScan(7, IdBits, "IDCODE", Zeros(IdBits), {Idcode})'
      /\ InScan(Dtmcs1, DtmcsBits, "DTMCS", Zeros(DtmcsBits), GoodDtmcs)'
      /\ InTransfer(First, Activate)' /\ InTransfer(Second, ReadStatus)'
  BY <1>3, <1>4, <1>5, <1>7 DEF InScript
<1> QED BY <1>1, <1>2, <1>8, <1>9 DEF InScript

\* Out of reset there is no request.
LEMMA ResetTypes ==
  /\ DtmReset \in DtmType /\ DmiReset \in DmiType /\ DmReset \in DmType
  /\ Zeros(5) \in Bits(5)
<1>1. /\ Zeros(5) \in Bits(5) /\ Zeros(AddrBits) \in Bits(AddrBits)
      /\ Zeros(DataBits) \in Bits(DataBits)
  BY Widths, ZeroBits
<1>2. Nop \in Bits(2) /\ Success \in Bits(2)
  BY PairBits
<1>3. DtmReset \in DtmType
  BY <1>1, <1>2 DEF DtmReset, DtmType
<1>4. DmiReset \in DmiType
  BY <1>1, <1>2 DEF DmiReset, DmiType
<1>5. DmReset \in DmType
  BY <1>1, <1>2 DEF DmReset, DmType
<1> QED BY <1>1, <1>3, <1>4, <1>5

\* Whatever the clients cut off before left behind, the script starts over it.
LEMMA Initially == Init => SmokeInv
<1> SUFFICES ASSUME Init PROVE SmokeInv
  OBVIOUS
<1>1. /\ now = 0 /\ tck = 0 /\ tap = "TEST_LOGIC_RESET" /\ ir = "IDCODE"
      /\ irShift = Zeros(5) /\ dtm = DtmReset /\ dmi = DmiReset /\ dm = DmReset
  BY DEF Init, ChipInit, DtmInit
<1>2. ChipType
  <2>1. tap \in DOMAIN TapNext /\ tap \notin ScanStates /\ ir \in Registers
    BY <1>1 DEF TapNext, ScanStates, Registers
  <2>2. dtm \in DtmType /\ dmi \in DmiType /\ dm \in DmType /\ irShift \in Bits(5)
    BY <1>1, ResetTypes
  <2>3. now \in 0 .. 9 /\ tck \in {0, 1}
    BY <1>1
  <2> QED BY <2>1, <2>2, <2>3 DEF ChipType
<1>3. Phase(0)
  BY <1>1 DEF Phase, DtmReset, DmiReset, DmReset
<1>4. Processes /\ Told /\ client # "running"
  BY DEF Init, ClientInit, Processes, Told
<1> QED BY <1>2, <1>3, <1>4 DEF SmokeInv

\* The script begins, whatever state the TAP and the channel are in.
LEMMA ScriptBegins ==
  ASSUME ChipType, UNCHANGED chipVars, ClientStarts, NEW k \in 0 .. 8
  PROVE  InScript(k)'
<1>1. /\ at' = 1 /\ part' = 1 /\ dataOut' = << >> /\ passed' = 0 /\ served' = << >>
      /\ tap' = tap
  BY DEF ClientStarts, chipVars, dtmVars, scanVars
<1>2. Rises' = 0
  BY <1>1 DEF Rises
<1>3. /\ Setup1 \in Nat /\ Dtmcs1 \in Nat /\ First \in Nat /\ Second \in Nat
      /\ Ends \in Nat /\ 1 < Setup1 /\ 1 < Dtmcs1 /\ 1 < First /\ 1 < Second /\ 1 < Ends
      /\ IdBits \in Nat /\ DtmcsBits \in Nat /\ DmiBits \in Nat
      /\ Sent(First) \in Nat /\ Sent(Second) \in Nat
      /\ 1 < Sent(First) /\ 1 < Sent(Second)
  <2>1. IdBits \in Nat /\ IdBits >= 1 /\ DtmcsBits \in Nat /\ DmiBits \in Nat
    BY Counts
  <2>2. Setup1 = IdBits + 12 /\ Dtmcs1 = Setup1 + 11
    BY Offsets
  <2> QED BY <2>1, <2>2, Places
<1>4. InReset'
  <2>1. ToReset[tap] \in 0 .. 5
    BY ResetMoves DEF ChipType
  <2>2. ToReset[tap'] + 0 <= 5
    BY <1>1, <2>1
  <2> QED BY <1>1, <1>2, <2>2 DEF InReset
<1>5. ASSUME NEW b \in Nat, 1 < b, NEW register
      PROVE  InSetIr(b, register)'
  BY <1>1, <1>2, <1>5 DEF InSetIr
<1>6. ASSUME NEW b \in Nat, 1 < b, NEW n, NEW register, NEW bits, NEW Good
      PROVE  InScan(b, n, register, bits, Good)'
  BY <1>1, <1>2, <1>6 DEF InScan
<1>7. ASSUME NEW b \in Nat, 1 < b, NEW r
      PROVE  InTransfer(b, r)'
  <2>1. /\ b + 11 \in Nat /\ 1 < b + 11
        /\ Sent(b) \in Nat /\ 1 < Sent(b) /\ Fetched(b) \in Nat /\ 1 < Fetched(b)
    BY <1>3, <1>7 DEF Sent, Fetched
  <2>2. InSetIr(b, "DMI")'
    BY <1>5, <1>7
  <2>3. InScan(b + 11, DmiBits, "DMI", DmiPacket(r), Bits(DmiBits))'
    BY <1>6, <2>1
  <2>4. InScan(Fetched(b), DmiBits, "DMI", Zeros(DmiBits), GoodAnswer(r))'
    BY <1>6, <2>1
  <2>5. InIdle(Sent(b))'
    BY <1>1, <1>2, <2>1 DEF InIdle
  <2> QED BY <2>2, <2>3, <2>4, <2>5 DEF InTransfer
<1>8. InTime(k)'
  BY <1>1, <1>2, <1>3 DEF InTime
<1>9. passed' = Checks'
  BY <1>1, <1>3 DEF Checks
<1>10. /\ InSetIr(Setup1, "DTMCS")'
       /\ InScan(7, IdBits, "IDCODE", Zeros(IdBits), {Idcode})'
       /\ InScan(Dtmcs1, DtmcsBits, "DTMCS", Zeros(DtmcsBits), GoodDtmcs)'
       /\ InTransfer(First, Activate)' /\ InTransfer(Second, ReadStatus)'
  BY <1>3, <1>5, <1>6, <1>7
<1>11. at' \in 1 .. Ends /\ part' \in 1 .. 4
  BY <1>1, <1>3
<1> QED BY <1>1, <1>4, <1>8, <1>9, <1>10, <1>11 DEF InScript

\* A step that changes neither the chip nor the client.
LEMMA OthersStep ==
  ASSUME SmokeInv, UNCHANGED rbbVars, Processes'
  PROVE  SmokeInv'
<1>1. PICK k \in 0 .. 8 : Phase(k) /\ (client = "running" => InScript(k))
  BY DEF SmokeInv
<1>2. /\ UNCHANGED <<now, tck, dtmVars>>
      /\ client' = client /\ passed' = passed /\ served' = served
  BY DEF rbbVars, clientVars
<1>3. ChipType' /\ Phase(k)'
  BY <1>1, <1>2, SameChip DEF SmokeInv
<1>4. client' = "running" => InScript(k)'
  BY <1>1, <1>2, SameScript
<1>5. client' # "running" => Told'
  BY <1>2 DEF SmokeInv, Told, Requests
<1> QED BY <1>3, <1>4, <1>5 DEF SmokeInv

\* The invariant is kept by whatever client, simulator and harness do.
LEMMA SmokeStep == SmokeInv /\ [Next]_vars => SmokeInv'
<1> SUFFICES ASSUME SmokeInv, [Next]_vars PROVE SmokeInv'
  OBVIOUS
<1>0. Processes /\ ChipType /\ (client # "running" => Told)
  BY DEF SmokeInv
<1>1. PICK k \in 0 .. 8 : Phase(k) /\ (client = "running" => InScript(k))
  BY DEF SmokeInv
<1>2. CASE Starts
  <2>1. /\ client' = "none" /\ passed' = 0 /\ served' = << >> /\ port' = port
        /\ step' \in {"connect", "port"} /\ result' = "running" /\ sim' = "running"
        /\ step' = "port" => harness' = "gdb"
    BY <1>2 DEF Starts, Goto
  <2>2. Processes'
    BY <1>0, <2>1 DEF Processes
  <2>3. Told'
    BY <2>1 DEF Told
  <2>4. CASE port = "other"
    <3>1. UNCHANGED <<now, tck, dtmVars>>
      BY <1>2, <2>4 DEF Starts, chipVars
    <3>2. ChipType' /\ Phase(k)'
      BY <1>0, <1>1, <3>1, SameChip
    <3> QED BY <2>1, <2>2, <2>3, <3>2 DEF SmokeInv
  <2>5. CASE port # "other"
    <3>1. /\ now' = 0 /\ tck' = 0 /\ tap' = "TEST_LOGIC_RESET" /\ ir' = "IDCODE"
          /\ irShift' = Zeros(5) /\ dtm' = DtmReset /\ dmi' = DmiReset /\ dm' = DmReset
      BY <1>2, <2>5 DEF Starts
    <3>2. ChipType'
      <4>1. tap' \in DOMAIN TapNext /\ tap' \notin ScanStates /\ ir' \in Registers
        BY <3>1 DEF TapNext, ScanStates, Registers
      <4>2. dtm' \in DtmType /\ dmi' \in DmiType /\ dm' \in DmType /\ irShift' \in Bits(5)
        BY <3>1, ResetTypes
      <4>3. now' \in 0 .. 9 /\ tck' \in {0, 1}
        BY <3>1
      <4> QED BY <4>1, <4>2, <4>3 DEF ChipType
    <3>3. Phase(0)'
      BY <3>1 DEF Phase, DtmReset, DmiReset, DmReset
    <3> QED BY <2>1, <2>2, <2>3, <3>2, <3>3 DEF SmokeInv
  <2> QED BY <2>4, <2>5
<1>3. CASE Simulator
  <2>1. UNCHANGED <<rbbVars, port, harness, step, result>>
    BY <1>3 DEF Simulator, SimStarts, Accepts, ServerLeavesClient
  <2>2. /\ sim' # sim => sim # "none" /\ (sim' = "exit 1" \/ (sim' = "exit 0" /\ port # "other"))
        /\ server' # server /\ server' # "down" => sim' # "none" \/ port = "other"
    <3>1. CASE SimStarts
      BY <1>0, <3>1 DEF SimStarts, Processes
    <3>2. CASE Accepts
      BY <1>0, <3>2 DEF Accepts, Processes
    <3>3. CASE ServerLeavesClient
      BY <1>0, <3>3 DEF ServerLeavesClient, Down, Keepalive, Processes
    <3> QED BY <1>3, <3>1, <3>2, <3>3 DEF Simulator
  <2>3. client' = client /\ passed' = passed
    BY <2>1 DEF rbbVars, clientVars
  <2>4. Processes'
    BY <1>0, <2>1, <2>2, <2>3 DEF Processes
  <2> QED BY <2>1, <2>4, OthersStep
<1>4. CASE SignalEndsAccept
  <2>1. /\ UNCHANGED <<rbbVars, port, harness, step, result>> /\ port = "own"
        /\ server = "accepting" /\ server' = "down"
    BY <1>4 DEF SignalEndsAccept, Down
  <2>2. client' = client /\ passed' = passed
    BY <2>1 DEF rbbVars, clientVars
  <2>3. Processes'
    BY <1>0, <2>1, <2>2 DEF Processes
  <2> QED BY <2>1, <2>3, OthersStep
<1>5. CASE TerminatesSim \/ Reaps \/ SmokeReturns \/ WaitsForSim \/ RbbGivesUp
           \/ ProbesPort \/ AwaitsMarker \/ AwaitsGdb \/ StopsOpenocd \/ KillsSim
  <2>1. UNCHANGED rbbVars
    BY <1>5 DEF TerminatesSim, Reaps, SmokeReturns, WaitsForSim, RbbGivesUp,
       ProbesPort, AwaitsMarker, AwaitsGdb, StopsOpenocd, KillsSim
  <2>2. client' = client /\ passed' = passed
    BY <2>1 DEF rbbVars, clientVars
  <2>3. Processes'
    <3>1. CASE TerminatesSim \/ Reaps \/ StopsOpenocd
      BY <1>0, <2>2, <3>1 DEF TerminatesSim, Reaps, StopsOpenocd, Processes, serverVars
    <3>2. CASE SmokeReturns
      BY <1>0, <2>2, <3>2 DEF SmokeReturns, Processes, Goto, serverVars
    <3>3. CASE WaitsForSim
      BY <1>0, <2>2, <3>3 DEF WaitsForSim, Processes, Goto, serverVars
    <3>4. CASE RbbGivesUp \/ KillsSim
      BY <1>0, <2>2, <3>4 DEF RbbGivesUp, KillsSim, Processes, Goto, Down,
         serverVars
    <3>5. CASE ProbesPort \/ AwaitsMarker
      BY <1>0, <2>2, <3>5 DEF ProbesPort, AwaitsMarker, Processes, Goto, serverVars
    <3>6. CASE AwaitsGdb
      BY <1>0, <2>2, <3>6 DEF AwaitsGdb, Processes, Goto, serverVars
    <3> QED BY <1>5, <3>1, <3>2, <3>3, <3>4, <3>5, <3>6
  <2> QED BY <2>1, <2>3, OthersStep
<1>6. CASE RbbConnects
  <2>1. /\ step = "connect" /\ UNCHANGED <<chipVars, port, harness, sim, server>>
        /\ \/ ClientStarts /\ step' = "smoke" /\ result' = result
           \/ step' = "terminate" /\ result' = "error" /\ UNCHANGED clientVars
    BY <1>6 DEF RbbConnects, Goto
  <2>2. CASE ClientStarts /\ step' = "smoke" /\ result' = result
    <3>1. client' = "running" /\ passed' = 0
      BY <2>2 DEF ClientStarts
    <3>2. Processes'
      BY <1>0, <2>1, <2>2, <3>1 DEF Processes
    <3>3. InScript(k)'
      BY <1>0, <2>1, <2>2, ScriptBegins
    <3>4. UNCHANGED <<now, tck, dtmVars>>
      BY <2>1 DEF chipVars
    <3>5. ChipType' /\ Phase(k)'
      BY <1>0, <1>1, <3>4, SameChip
    <3> QED BY <3>1, <3>2, <3>3, <3>5 DEF SmokeInv
  <2>3. CASE step' = "terminate" /\ result' = "error" /\ UNCHANGED clientVars
    <3>1. UNCHANGED rbbVars
      BY <2>1, <2>3 DEF chipVars, rbbVars
    <3>2. Processes'
      BY <1>0, <2>1, <2>3 DEF Processes, clientVars
    <3> QED BY <3>1, <3>2, OthersStep
  <2> QED BY <2>1, <2>2, <2>3
<1>7. CASE RbbCommand
  <2>1. /\ Command /\ client = "running"
        /\ UNCHANGED <<port, harness, step, result, sim, server>>
    BY <1>7 DEF RbbCommand, Command, processVars, serverVars
  <2>2. /\ ChipType' /\ client' \in {"running", "passed"}
        /\ client' = "passed" => passed' = 6 /\ Told'
        /\ \E j \in 0 .. 8 : Phase(j)' /\ (client' = "running" => InScript(j)')
    BY <1>0, <1>1, <2>1, CommandStep
  <2>3. Processes'
    <3>1. step = "smoke" /\ result = "running"
      BY <1>0, <2>1 DEF Processes
    <3> QED BY <1>0, <2>1, <2>2, <3>1 DEF Processes
  <2>4. PICK j \in 0 .. 8 : Phase(j)' /\ (client' = "running" => InScript(j)')
    BY <2>2
  <2>5. client' # "running" => Told'
    BY <2>2
  <2> QED BY <2>2, <2>3, <2>4, <2>5 DEF SmokeInv
<1>8. CASE OpenocdConnects \/ OpenocdReady \/ OpenocdExits \/ GdbExits
  <2>1. UNCHANGED <<rbbVars, port, harness, step, result, sim, server>>
    BY <1>8 DEF OpenocdConnects, OpenocdReady, OpenocdExits, GdbExits, serverVars
  <2>2. Processes'
    BY <1>0, <2>1 DEF Processes, rbbVars, clientVars
  <2> QED BY <2>1, <2>2, OthersStep
<1>9. CASE ClientCut
  <2>1. /\ client = "running" /\ client' = "cut"
        /\ UNCHANGED <<passed, served, chipVars, port, harness, step, result, sim,
                        server>>
    BY <1>9 DEF ClientCut, ClientCloses, processVars, serverVars
  <2>2. Told
    BY <1>0, <1>1, <2>1, ToldInScript
  <2>3. Told'
    BY <2>1, <2>2 DEF Told, Requests
  <2>4. UNCHANGED <<now, tck, dtmVars>>
    BY <2>1 DEF chipVars
  <2>5. ChipType' /\ Phase(k)'
    BY <1>0, <1>1, <2>4, SameChip
  <2>6. Processes'
    BY <1>0, <2>1 DEF Processes
  <2> QED BY <2>1, <2>3, <2>5, <2>6 DEF SmokeInv
<1>10. CASE UNCHANGED vars
  <2>1. UNCHANGED <<rbbVars, port, harness, step, result, sim, server>>
    BY <1>10 DEF vars, processVars, serverVars
  <2>2. Processes'
    BY <1>0, <2>1 DEF Processes, rbbVars, clientVars
  <2> QED BY <2>1, <2>2, OthersStep
<1> QED BY <1>2, <1>3, <1>4, <1>5, <1>6, <1>7, <1>8, <1>9, <1>10 DEF Next, Harness

\* At any time the chip is where the script is, at most one request is under way,
\* it will be answered in time, and what was answered is what the client expects:
\* the invariant, for registers and requests of every width and any number of
\* clients cut off before (wasp1_rbb_smoke.py:119, debug_jtag_dtm.sv:352).
THEOREM SmokeHolds == Spec => []SmokeInv
BY Initially, SmokeStep, PTL DEF Spec

LEMMA InvAnswers == SmokeInv => AnswersAreReal /\ NoFalseAlarm
<1> SUFFICES ASSUME SmokeInv PROVE AnswersAreReal /\ NoFalseAlarm
  OBVIOUS
<1>1. Processes /\ ChipType
  BY DEF SmokeInv
<1>2. Told
  <2>1. CASE client = "running"
    <3>1. PICK k \in 0 .. 8 : InScript(k)
      BY <2>1 DEF SmokeInv
    <3> QED BY <1>1, <3>1, ToldInScript
  <2>2. CASE client # "running"
    BY <2>2 DEF SmokeInv
  <2> QED BY <2>1, <2>2
<1>3. SubSeq(Requests, 1, 1) = <<Activate>>
  <2> DEFINE S == {Activate, ReadStatus}
             s == SubSeq(Requests, 1, 1)
  <2>1. Requests \in Seq(S) /\ Len(Requests) = 2 /\ Requests[1] = Activate
    BY DEF Requests
  <2>2. s \in Seq(S) /\ Len(s) = 1 /\ s[1] = Activate
    BY <2>1, SubSeqProperties
  <2>3. <<Activate>> \in Seq(S) /\ Len(<<Activate>>) = 1 /\ <<Activate>>[1] = Activate
    OBVIOUS
  <2>4. \A i \in 1 .. 1 : s[i] = <<Activate>>[i]
    BY <2>2, <2>3
  <2> HIDE DEF s
  <2>5. s = <<Activate>>
    BY <2>2, <2>3, <2>4, SeqEqual
  <2> QED BY <2>5 DEF s
<1>4. AnswersAreReal
  BY <1>1, <1>2, <1>3 DEF AnswersAreReal, Told, Processes
<1>5. NoFalseAlarm
  BY <1>1 DEF NoFalseAlarm, Processes
<1> QED BY <1>4, <1>5

\* What the client has been told is true for registers of every length, whatever
\* earlier clients left in the transport (wasp1_rbb_smoke.py:119): an answer it has
\* taken is the answer to its own request, which the Debug Module has carried out
\* once, in order; and wasp1_rbb_smoke.py passes only on a simulator of its own.
THEOREM AnswersReal == Spec => []AnswersAreReal
BY SmokeHolds, InvAnswers, PTL

\* The client never fails for registers of every length: six ones bring the TAP
\* to reset from every state, and an answer is there before it is fetched, at
\* every phase of the clocks (wasp1_rbb_smoke.py:60, wasp1_rbb_smoke.py:98).
THEOREM NoFalseAlarms == Spec => []NoFalseAlarm
BY SmokeHolds, InvAnswers, PTL
===============================================================================
