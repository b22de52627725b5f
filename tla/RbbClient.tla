------------------------------ MODULE RbbClient ------------------------------
(***************************************************************************)
(* The remote-bitbang smoke client (wasp1_rbb_smoke.py, run_smoke) at the  *)
(* pins of the simulated chip (wasp1_remote_bitbang_main.cpp,              *)
(* process_client).  Each command the client sends is one step: the server *)
(* sets the pins or sends TDO, and lets a nanosecond pass.  The system     *)
(* clock has a period of ten and rises in the middle of it.                *)
(***************************************************************************)
EXTENDS JtagDtm

VARIABLES
  now,      \* g_time_ns, modulo the clock period
  tck,      \* jtag_tck_i
  client,   \* "none", "running", "passed", "failed" or "cut"
  at,       \* the TCK cycle of the script the client has come to
  part,     \* the command of that cycle: low, high, read, low
  dataOut,  \* the bits read in the scan under way
  passed,   \* the scans whose result was as expected
  served    \* the requests the Debug Module took once the client had sent one

clientVars == <<client, at, part, dataOut, passed, served>>
rbbVars == <<now, tck, clientVars, dtmVars>>

ClockPeriod == 10

-------------------------------------------------------------------------------
(* The script: a sequence of TCK cycles.                                   *)

Cycle(tms, tdi) == [tms |-> tms, tdi |-> tdi, keep |-> FALSE, check |-> "none"]
Cycles(n, tms) == [i \in 1 .. n |-> Cycle(tms, 0)]

\* A value goes in bit by bit; TMS leaves the shift state with the last.
Shift(bits, keep) ==
  [i \in 1 .. Len(bits) |->
     [Cycle(IF i = Len(bits) THEN 1 ELSE 0, bits[i]) EXCEPT !.keep = keep]]

\* Mutant: too few ones to leave every state of the TAP.
ResetToIdle_Short == Cycles(4, 1) \o Cycles(1, 0)
ResetToIdle == Cycles(6, 1) \o Cycles(1, 0)

SetIr(register) ==
  Cycles(2, 1) \o Cycles(2, 0) \o Shift(IrBits[register], FALSE)
    \o Cycles(1, 1) \o Cycles(1, 0)

ScanDr(bits, check) ==
  Cycles(1, 1) \o Cycles(2, 0) \o Shift(bits, TRUE)
    \o Cycles(1, 1) \o <<[Cycle(0, 0) EXCEPT !.check = check]>>

Idle(cycles) == Cycles(cycles, 0)

Request(op, addr, data) == [op |-> op, addr |-> addr, data |-> data]
DmiPacket(r) == r.op \o r.data \o r.addr

\* The request, sixteen idle cycles, and a NOP to fetch the answer.
DmiTransfer(r, check) ==
  SetIr("DMI") \o ScanDr(DmiPacket(r), "request") \o Idle(16)
    \o ScanDr(Zeros(Len(DmiPacket(r))), check)

Activate == Request(Write, Dmcontrol, [Zeros(DataBits) EXCEPT ![1] = 1])
ReadStatus == Request(Read, Dmstatus, Zeros(DataBits))
Requests == <<Activate, ReadStatus>>

Script ==
  ResetToIdle
    \o ScanDr(Zeros(Len(Idcode)), "idcode")
    \o SetIr("DTMCS") \o ScanDr(Zeros(Len(DtmcsId) + 4), "dtmcs")
    \o DmiTransfer(Activate, "dmcontrol") \o DmiTransfer(ReadStatus, "dmstatus")

\* What run_smoke asserts of each scan.
AsExpected(check, bits) ==
  LET Response == SubSeq(bits, 1, 2)
      Data == SubSeq(bits, 3, DataBits + 2)
      Addr == SubSeq(bits, DataBits + 3, DataBits + AddrBits + 2)
  IN  CASE check = "idcode" -> bits = Idcode
        [] check = "dtmcs" -> SubSeq(bits, 1, Len(DtmcsId)) = DtmcsId
        [] check = "dmcontrol" -> Response = Success /\ Addr = Dmcontrol
        [] check = "dmstatus" ->
             /\ Response = Success /\ Addr = Dmstatus
             /\ Data[1] = 1 /\ Data[2] = 1
        [] check = "request" -> TRUE

ChipInit == now = 0 /\ tck = 0 /\ DtmInit
ClientInit ==
  /\ client = "none" /\ at = 1 /\ part = 1
  /\ dataOut = << >> /\ passed = 0 /\ served = << >>

ClientStarts ==
  /\ client' = "running"
  /\ at' = 1 /\ part' = 1 /\ dataOut' = << >> /\ passed' = 0
  /\ served' = << >>

ClientCloses(result) ==
  client' = result /\ at' = 1 /\ part' = 1 /\ dataOut' = << >>

-------------------------------------------------------------------------------
(* The server, a command at a time.                                        *)

OwnRequestSent == passed >= 3

\* advance_time by one: the system clock rises halfway through its period.
Tick ==
  /\ now' = (now + 1) % ClockPeriod
  /\ IF now' = ClockPeriod \div 2 THEN ClkRise ELSE UNCHANGED <<dmi, dm>>
  /\ served' = IF now' = ClockPeriod \div 2 /\ RequestTaken /\ OwnRequestSent
                 THEN Append(served, Request(dmi.op, dmi.addr, dmi.data))
                 ELSE served

SetPins(level, tms, tdi) ==
  /\ tck' = level
  /\ IF tck < level THEN TckRise(tms, tdi) ELSE UNCHANGED <<scanVars, dtm>>
  /\ IF tck > level THEN TckFall ELSE UNCHANGED tdo
  /\ Tick

CycleEnds ==
  LET check == Script[at].check
  IN  IF check = "none"
        THEN at' = at + 1 /\ part' = 1 /\ UNCHANGED <<client, dataOut, passed>>
      ELSE IF ~AsExpected(check, dataOut)
        THEN ClientCloses("failed") /\ UNCHANGED passed
      ELSE /\ passed' = passed + 1
           /\ IF at = Len(Script) THEN ClientCloses("passed")
              ELSE /\ at' = at + 1 /\ part' = 1 /\ dataOut' = << >>
                   /\ UNCHANGED client

Command ==
  /\ client = "running"
  /\ \/ /\ part \in {1, 2}
        /\ SetPins(part - 1, Script[at].tms, Script[at].tdi)
        /\ part' = part + 1
        /\ UNCHANGED <<client, at, dataOut, passed>>
     \/ /\ part = 3
        /\ dataOut' = IF Script[at].keep THEN Append(dataOut, tdo) ELSE dataOut
        /\ Tick
        /\ part' = 4
        /\ UNCHANGED <<client, at, passed, tck, scanVars, dtm, tdo>>
     \/ /\ part = 4
        /\ SetPins(0, Script[at].tms, Script[at].tdi)
        /\ CycleEnds
===============================================================================
