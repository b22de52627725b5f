------------------------------ MODULE DebugSmoke -----------------------------
(***************************************************************************)
(* The two debug smoke tests and the processes they run: a simulator each, *)
(* and wasp1_rbb_smoke.py its own client, wasp1_openocd_gdb_smoke.py       *)
(* OpenOCD and GDB.  The port may be held by another simulator, started    *)
(* with +rbb-keepalive as wasp1_remote_bitbang.cfg says; what one client   *)
(* leaves behind there the next one meets.                                 *)
(***************************************************************************)
EXTENDS RbbClient

CONSTANT MaxCuts  \* a bound on the clients that are cut off

ASSUME MaxCutsAssumption == MaxCuts \in Nat

VARIABLES
  port,      \* whose simulator gets the port: "own" or "other"
  harness,   \* the test that runs or ran last: "rbb" or "gdb"
  step,      \* where its main has come to; "ended" when it has returned
  result,    \* "running", "pass" or "error"
  sim,       \* the simulator it started: "none", "running", "exit 0", "exit 1", "killed"
  stopping,  \* g_stop_requested of that simulator
  server,    \* the simulator that has the port: "down", "accepting" or "serving"
  pending,   \* the connections its socket holds for accept
  peer,      \* the one it serves
  open,      \* the connections whose client has not closed them
  cuts,      \* the clients cut off so far
  openocd,   \* "none", "starting", "connected", "ready" or "exited"
  gdb        \* "none", "running" or "exited"

serverVars == <<server, pending, peer>>
childVars == <<openocd, gdb>>
processVars == <<port, harness, step, result, sim, stopping, serverVars, open,
                 childVars>>
vars == <<rbbVars, processVars, cuts>>
chipVars == <<now, tck, dtmVars>>

Init ==
  /\ ChipInit /\ ClientInit
  /\ port \in {"own", "other"}
  /\ server = IF port = "own" THEN "down" ELSE "accepting"
  /\ harness = "rbb" /\ step = "ended" /\ result = "pass"
  /\ sim = "none" /\ stopping = FALSE
  /\ pending = << >> /\ peer = "none" /\ open = {}
  /\ openocd = "none" /\ gdb = "none"
  /\ cuts = 0

Exited == sim \notin {"none", "running"}
Listening == server # "down"
Keepalive == port = "other" \/ harness = "gdb"

-------------------------------------------------------------------------------
(* The simulator (main).                                                   *)

Down == server' = "down" /\ pending' = << >> /\ peer' = "none"

\* The socket is opened, or another has the port, which nobody notices before
\* the test waits for its simulator.
SimStarts ==
  /\ sim = "running"
  /\ \/ server = "down"
     \/ port = "other" /\ step \notin {"connect", "smoke"}
  /\ IF port = "other" THEN sim' = "exit 1" /\ UNCHANGED server
     ELSE IF stopping THEN sim' = "exit 0" /\ UNCHANGED server
     ELSE server' = "accepting" /\ UNCHANGED sim
  /\ UNCHANGED <<rbbVars, port, harness, step, result, stopping, pending, peer,
                 open, childVars>>

Accepts ==
  /\ server = "accepting" /\ pending # << >>
  /\ server' = "serving" /\ peer' = Head(pending) /\ pending' = Tail(pending)
  /\ UNCHANGED <<rbbVars, port, harness, step, result, sim, stopping, open,
                 childVars>>

\* The end of the client's stream, then the next client or the end.
ServerLeavesClient ==
  /\ server = "serving" /\ peer \notin open
  /\ IF Keepalive /\ ~(stopping /\ port = "own")
       THEN server' = "accepting" /\ peer' = "none" /\ UNCHANGED <<pending, sim>>
       ELSE Down /\ sim' = "exit 0"
  /\ UNCHANGED <<rbbVars, port, harness, step, result, stopping, open, childVars>>

\* Whether a signal ends a blocked accept is for the C library to say.
SignalEndsAccept ==
  /\ server = "accepting" /\ port = "own" /\ stopping
  /\ Down /\ sim' = "exit 0"
  /\ UNCHANGED <<rbbVars, port, harness, step, result, stopping, open, childVars>>

Simulator == SimStarts \/ Accepts \/ ServerLeavesClient

-------------------------------------------------------------------------------
(* What the two tests have in common.                                      *)

Goto(next, outcome) == step' = next /\ result' = outcome
Connects(who) == pending' = Append(pending, who)

\* Popen of the simulator: a new chip, unless the port is another's.  A chip that
\* OpenOCD has used is not used again: what OpenOCD does to it is not modelled.
Starts ==
  /\ step = "ended" /\ sim # "running"
  /\ port = "other" => server = "accepting" /\ pending = << >>
  /\ \E h \in IF port = "own" THEN {"rbb", "gdb"} ELSE {"rbb"} :
       harness' = h /\ Goto(IF h = "rbb" THEN "connect" ELSE "port", "running")
  /\ sim' = "running" /\ stopping' = FALSE
  /\ openocd' = "none" /\ gdb' = "none"
  /\ client' = "none" /\ passed' = 0 /\ served' = << >>
  /\ UNCHANGED <<at, part, dataOut, port, serverVars, open>>
  /\ IF port = "other" THEN UNCHANGED chipVars
     ELSE /\ now' = 0 /\ tck' = 0
          /\ tap' = "TEST_LOGIC_RESET" /\ ir' = "IDCODE"
          /\ irShift' = Zeros(5) /\ drShift' = <<0>> /\ tdo' = 0
          /\ dtm' = DtmReset /\ dmi' = DmiReset /\ dm' = DmReset

\* SIGTERM, unless the simulator has already exited.
TerminatesSim ==
  /\ step = "terminate"
  /\ IF Exited THEN step' = "ended" /\ UNCHANGED stopping
     ELSE step' = "reap" /\ stopping' = TRUE
  /\ UNCHANGED <<rbbVars, port, harness, result, sim, serverVars, open, childVars>>

Reaps ==
  /\ step = "reap" /\ Exited
  /\ step' = "ended"
  /\ UNCHANGED <<rbbVars, port, harness, result, sim, stopping, serverVars, open,
                 childVars>>

-------------------------------------------------------------------------------
(* wasp1_rbb_smoke.py.                                                     *)

\* connect_with_retry.
RbbConnects ==
  /\ step = "connect"
  /\ \/ /\ Listening
        /\ Connects("rbb") /\ open' = open \union {"rbb"}
        /\ ClientStarts
        /\ step' = "smoke" /\ UNCHANGED result
     \/ /\ Goto("terminate", "error")
        /\ UNCHANGED <<clientVars, pending, open>>
  /\ UNCHANGED <<chipVars, port, harness, sim, stopping, server, peer, childVars>>

\* run_smoke returns or raises; the client closes its connection.
SmokeReturns ==
  /\ step = "smoke" /\ client # "running"
  /\ open' = open \ {"rbb"}
  /\ IF client = "passed" THEN Goto("wait", "running")
     ELSE Goto("terminate", "error")
  /\ UNCHANGED <<rbbVars, port, harness, sim, stopping, serverVars, childVars>>

\* proc.wait(5): the simulator exits with 0, with something else, or too late.
WaitsForSim ==
  /\ step = "wait"
  /\ \/ Exited /\ Goto("terminate", IF sim = "exit 0" THEN "pass" ELSE "error")
     \/ ~Exited /\ Goto("terminate", "error")
  /\ UNCHANGED <<rbbVars, port, harness, sim, stopping, serverVars, open, childVars>>

\* proc.wait(5) of the finally clause raises.
RbbGivesUp ==
  /\ harness = "rbb" /\ step = "reap" /\ ~Exited
  /\ Goto("ended", "error")
  /\ UNCHANGED <<rbbVars, port, harness, sim, stopping, serverVars, open, childVars>>

-------------------------------------------------------------------------------
(* wasp1_openocd_gdb_smoke.py.                                             *)

\* wait_for_port: a connection that is closed at once.
ProbesPort ==
  /\ step = "port"
  /\ \/ Listening /\ Connects("probe") /\ openocd' = "starting"
        /\ Goto("marker", "running")
     \/ Goto("terminate", "error") /\ UNCHANGED <<pending, openocd>>
  /\ UNCHANGED <<rbbVars, port, harness, sim, stopping, server, peer, open, gdb>>

\* wait_for_log_text: OpenOCD is ready, has exited, or takes too long.
AwaitsMarker ==
  /\ step = "marker"
  /\ \/ openocd = "ready" /\ gdb' = "running" /\ Goto("gdb", "running")
     \/ openocd # "ready" /\ UNCHANGED gdb /\ Goto("stop openocd", "error")
  /\ UNCHANGED <<rbbVars, port, harness, sim, stopping, serverVars, open, openocd>>

\* run_checked kills GDB at its timeout; then its exit code and both logs are read.
AwaitsGdb ==
  /\ step = "gdb"
  /\ gdb' = "exited"
  /\ \/ gdb = "exited" /\ \E r \in {"pass", "error"} : Goto("stop openocd", r)
     \/ gdb = "running" /\ Goto("stop openocd", "error")
  /\ UNCHANGED <<rbbVars, port, harness, sim, stopping, serverVars, open, openocd>>

\* terminate_process of OpenOCD: it exits on the signal or is killed.
StopsOpenocd ==
  /\ step = "stop openocd"
  /\ step' = "terminate"
  /\ openocd' = "exited" /\ open' = open \ {"openocd"}
  /\ UNCHANGED <<rbbVars, port, harness, result, sim, stopping, serverVars, gdb>>

\* Mutant: no kill after the signal.
KillsSim_NoKill ==
  /\ harness = "gdb" /\ step = "reap" /\ ~Exited
  /\ step' = "ended"
  /\ UNCHANGED <<rbbVars, port, harness, result, sim, stopping, serverVars, open,
                 childVars>>
\* terminate_process of the simulator: it is killed when it does not exit.
KillsSim ==
  /\ harness = "gdb" /\ step = "reap" /\ ~Exited
  /\ step' = "ended"
  /\ sim' = "killed"
  /\ IF port = "own" THEN Down ELSE UNCHANGED serverVars
  /\ UNCHANGED <<rbbVars, port, harness, result, stopping, open, childVars>>

Harness ==
  \/ TerminatesSim \/ Reaps
  \/ RbbConnects \/ SmokeReturns \/ WaitsForSim \/ RbbGivesUp
  \/ ProbesPort \/ AwaitsMarker \/ AwaitsGdb \/ StopsOpenocd \/ KillsSim

-------------------------------------------------------------------------------
(* The client, and the other programs.                                     *)

RbbCommand ==
  /\ server = "serving" /\ peer = "rbb"
  /\ Command
  /\ UNCHANGED processVars

\* A timeout of the socket, or an interrupt from the keyboard.
ClientCut ==
  /\ client = "running" /\ cuts < MaxCuts
  /\ cuts' = cuts + 1
  /\ ClientCloses("cut") /\ UNCHANGED <<passed, served>>
  /\ UNCHANGED <<chipVars, processVars>>

OpenocdConnects ==
  /\ openocd = "starting" /\ Listening
  /\ openocd' = "connected"
  /\ Connects("openocd") /\ open' = open \union {"openocd"}
  /\ UNCHANGED <<rbbVars, port, harness, step, result, sim, stopping, server,
                 peer, gdb>>

OpenocdReady ==
  /\ openocd = "connected" /\ server = "serving" /\ peer = "openocd"
  /\ openocd' = "ready"
  /\ UNCHANGED <<rbbVars, port, harness, step, result, sim, stopping, serverVars,
                 open, gdb>>

OpenocdExits ==
  /\ openocd \in {"starting", "connected", "ready"}
  /\ openocd' = "exited" /\ open' = open \ {"openocd"}
  /\ UNCHANGED <<rbbVars, port, harness, step, result, sim, stopping, serverVars,
                 gdb>>

GdbExits ==
  /\ gdb = "running" /\ gdb' = "exited"
  /\ UNCHANGED <<rbbVars, port, harness, step, result, sim, stopping, serverVars,
                 open, openocd>>

Next ==
  \/ /\ \/ Starts \/ Simulator \/ SignalEndsAccept \/ Harness
        \/ RbbCommand
        \/ OpenocdConnects \/ OpenocdReady \/ OpenocdExits \/ GdbExits
     /\ UNCHANGED cuts
  \/ ClientCut

Spec == Init /\ [][Next]_vars

\* The processes run, and a wait ends at the latest when its timeout does.
FairSpec ==
  /\ Spec
  /\ WF_vars(Simulator /\ UNCHANGED cuts)
  /\ WF_vars(Harness /\ UNCHANGED cuts)
  /\ WF_vars(RbbCommand /\ UNCHANGED cuts)

-------------------------------------------------------------------------------

\* What a client has been told is true, whatever earlier clients left in the
\* transport, and whatever TCK and the system clock were doing: when it has
\* taken an answer, the Debug Module has carried out its requests so far, each
\* once and in order, and nobody else's since; and the test passes only when
\* its own simulator gave all the answers (run_smoke, main).
AnswersAreReal ==
  /\ passed = 4 => served = SubSeq(Requests, 1, 1)
  /\ passed = 6 => served = Requests
  /\ harness = "rbb" /\ result = "pass" /\ sim # "none" =>
       passed = 6 /\ port = "own"

\* There is no false alarm: whatever state a client that was cut off left the
\* TAP and the request channel in, and at any phase of the clocks, the six ones
\* of reset_to_idle and the sixteen idle cycles of dmi_transfer are enough.
NoFalseAlarm == client # "failed"

\* A test that is started ends, and its children end: the simulator too, except
\* one that wasp1_rbb_smoke.py never came to be connected to.
TestsEnd ==
  step = "connect" \/ step = "port" ~>
    /\ step = "ended"
    /\ openocd \in {"none", "exited"} /\ gdb # "running"
    /\ sim = "running" => harness = "rbb" /\ client = "none"
===============================================================================
