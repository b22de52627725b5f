---------------------------- MODULE StateDiagrams -----------------------------
(***************************************************************************)
(* The state diagrams that docs/tools/render_state_pngs.py draws of the    *)
(* hardware, as the graphs they are.  A node that is drawn SEQ is a state  *)
(* or a register, a node drawn COMB is logic between them; arrows may also *)
(* meet other units.  An arrow is <<from, label, to>>.  The operators of   *)
(* the first section say what it means for a state machine to follow its   *)
(* diagram, and for a diagram to make sense.                               *)
(***************************************************************************)
EXTENDS Naturals, FiniteSets

Diagram(seq, comb, arrows) == [seq |-> seq, comb |-> comb, arrows |-> arrows]

-------------------------------------------------------------------------------
(* Following a diagram.                                                    *)

\* Logic between two states is at most this long in the diagrams.
MaxLogic == 3

Hop(a) == [from |-> a[1], labels |-> {a[2]}, to |-> a[3]]
Onward(p, a) ==
  [from |-> p.from, labels |-> p.labels \union {a[2]}, to |-> a[3]]

\* The ways from a state through logic to a state, with the labels met.
Paths(d) ==
  LET f[n \in 0 .. MaxLogic] ==
        IF n = 0 THEN {Hop(a) : a \in {b \in d.arrows : b[1] \in d.seq}}
        ELSE LET short == f[n - 1] IN
             short \union
               UNION {{Onward(p, a) : a \in {b \in d.arrows : b[1] = p.to}} :
                      p \in {q \in short : q.to \notin d.seq}}
  IN  {p \in f[MaxLogic] : p.to \in d.seq}

\* Going from s to t follows one of the paths, under the conditions that its
\* labels stand for.  A state that stays what it is follows no path, unless a
\* loop is drawn: when a machine may rest is for its own module to say.
FollowsPath(paths, s, t, Holds(_)) ==
  \E p \in paths : p.from = s /\ p.to = t /\ \A l \in p.labels : Holds(l)

-------------------------------------------------------------------------------
(* Making sense.                                                           *)

NodesOf(d) == d.seq \union d.comb \union {a[1] : a \in d.arrows}
                 \union {a[3] : a \in d.arrows}

\* The nodes from which the arrows lead to one of ends.
Leading(arrows, ends, nodes) ==
  LET f[n \in 0 .. Cardinality(nodes)] ==
        IF n = 0 THEN ends
        ELSE LET near == f[n - 1] IN
             near \union {a[1] : a \in {b \in arrows : b[3] \in near}}
  IN  f[Cardinality(nodes)]

\* No signal depends on itself in the cycle it is computed in.
NoCombinationalLoop(d) ==
  LET arrows == {a \in d.arrows : a[1] \in d.comb /\ a[3] \in d.comb} IN
  \A a \in arrows : a[3] \notin Leading(arrows, {a[1]}, d.comb)

\* Whatever state it is in, the machine can get back to its state of rest.
ComesToRest(d, rest) == d.seq \subseteq Leading(d.arrows, {rest}, NodesOf(d))

-------------------------------------------------------------------------------
(* The frontend.                                                           *)

FrontendFetchDiagram == Diagram(
  {"reset", "idle", "wait", "kill"},
  {"local", "deliver", "drop"},
  {<<"reset", "RST RELEASE", "idle">>, <<"idle", "PC_MISALIGNED & READY", "local">>,
   <<"local", "SAME CYCLE", "idle">>, <<"idle", "REQ_VALID & REQ_READY", "wait">>,
   <<"wait", "RSP_VALID & !KILL & !FLUSH", "deliver">>,
   <<"deliver", "INSTR_READY", "idle">>, <<"wait", "FLUSH", "kill">>,
   <<"kill", "RSP_VALID", "drop">>, <<"drop", "CONSUMED", "idle">>})

FrontendPcDiagram == Diagram(
  {"reset", "valid", "advance", "hold", "redir"},
  {},
  {<<"reset", "RST RELEASE", "valid">>,
   <<"valid", "VALID & READY & !STALL", "advance">>, <<"advance", "NEXT", "valid">>,
   <<"valid", "STALL OR !READY", "hold">>, <<"hold", "UNSTALL/READY", "valid">>,
   <<"valid", "REDIRECT", "redir">>, <<"hold", "REDIRECT", "redir">>,
   <<"advance", "REDIRECT WINS", "redir">>, <<"redir", "NEXT", "valid">>})

FrontendIbufDiagram == Diagram(
  {"reset", "empty", "one", "full", "flush"},
  {"comb"},
  {<<"reset", "RST RELEASE", "empty">>, <<"empty", "PUSH_FIRE", "one">>,
   <<"one", "POP_FIRE", "empty">>, <<"one", "PUSH ONLY", "full">>,
   <<"full", "POP_ONLY", "one">>, <<"one", "PUSH&POP", "one">>,
   <<"empty", "FLUSH", "flush">>, <<"one", "FLUSH", "flush">>,
   <<"full", "FLUSH", "flush">>, <<"flush", "NEXT", "empty">>,
   <<"comb", "EMPTY STATUS", "empty">>, <<"comb", "DATA FROM RD_PTR", "one">>,
   <<"comb", "FULL STATUS", "full">>})

FrontendDiagram == Diagram(
  {"pc", "fetch_seq", "ibuf_seq"},
  {"fetch_comb", "ibuf_comb", "flush"},
  {<<"ctrl", "BOOT STALL REDIR", "pc">>, <<"pc", "PC VALID/READY", "fetch_comb">>,
   <<"fetch_comb", "CAPTURE/KILL", "fetch_seq">>,
   <<"fetch_seq", "STATE", "fetch_comb">>,
   <<"fetch_comb", "FETCH RSP", "ibuf_comb">>,
   <<"ibuf_comb", "PUSH/POP", "ibuf_seq">>,
   <<"ibuf_seq", "FIFO STATE", "ibuf_comb">>,
   <<"ibuf_comb", "INSTR VALID/READY", "core">>,
   <<"fetch_comb", "REQ/RSP", "imem">>, <<"ctrl", "REDIRECT_VALID", "flush">>,
   <<"flush", "DROP STALE", "fetch_seq">>, <<"flush", "CLEAR QUEUE", "ibuf_seq">>})

-------------------------------------------------------------------------------
(* The caches.                                                             *)

IcacheTagDiagram == Diagram(
  {"reset", "invalid", "valid", "inv"},
  {"lookup", "miss"},
  {<<"reset", "RST RELEASE", "invalid">>, <<"invalid", "REFILL OK", "valid">>,
   <<"valid", "REFILL ERROR", "invalid">>,
   <<"valid", "REFILL SAME/NEW TAG", "valid">>,
   <<"valid", "VALID && TAG EQ", "lookup">>, <<"invalid", "!VALID", "miss">>,
   <<"valid", "TAG NE", "miss">>, <<"valid", "INVALIDATE", "inv">>,
   <<"invalid", "INVALIDATE", "inv">>, <<"inv", "NEXT", "invalid">>})

IcacheDataDiagram == Diagram(
  {"ram"},
  {"decode", "mux"},
  {<<"lookup_if", "ADDR", "decode">>, <<"decode", "INDEX", "ram">>,
   <<"ram", "LINE", "mux">>, <<"decode", "WORD OFFSET", "mux">>,
   <<"mux", "WORD/LINE", "rsp">>, <<"refill", "VALID LINE", "ram">>})

IcacheRefillDiagram == Diagram(
  {"idle", "req", "wait", "done"},
  {"align", "reqc", "store", "flush"},
  {<<"idle", "START_VALID", "align">>, <<"align", "CAPTURE BASE", "req">>,
   <<"req", "REQ_VALID", "reqc">>, <<"reqc", "REQ_READY", "wait">>,
   <<"wait", "RSP_VALID", "store">>, <<"store", "NOT LAST", "req">>,
   <<"store", "LAST BEAT", "done">>, <<"done", "LINE_VALID", "line">>,
   <<"line", "LINE_READY", "idle">>, <<"req", "FLUSH", "flush">>,
   <<"wait", "FLUSH", "flush">>, <<"done", "FLUSH", "flush">>,
   <<"flush", "NEXT", "idle">>})

DcacheTagDiagram == Diagram(
  {"reset", "invalid", "valid", "inv"},
  {"lookup", "miss"},
  {<<"reset", "RST RELEASE", "invalid">>, <<"invalid", "REFILL OK", "valid">>,
   <<"valid", "REFILL ERROR", "invalid">>, <<"valid", "REFILL NEW TAG", "valid">>,
   <<"valid", "VALID && TAG EQ", "lookup">>, <<"invalid", "!VALID", "miss">>,
   <<"valid", "TAG NE", "miss">>, <<"valid", "INVALIDATE", "inv">>,
   <<"invalid", "INVALIDATE", "inv">>, <<"inv", "NEXT", "invalid">>})

DcacheDataDiagram == Diagram(
  {"ram"},
  {"decode", "mux", "merge", "prio"},
  {<<"lookup_if", "ADDR", "decode">>, <<"decode", "INDEX", "ram">>,
   <<"ram", "LINE", "mux">>, <<"decode", "WORD OFFSET", "mux">>,
   <<"mux", "WORD/LINE", "rsp">>, <<"refill", "FULL LINE", "prio">>,
   <<"store_if", "STORE HIT", "merge">>, <<"ram", "OLD LINE", "merge">>,
   <<"merge", "MERGED LINE", "prio">>, <<"prio", "REFILL > STORE", "ram">>})

\* The D-cache fills a line as the I-cache does.
DcacheRefillDiagram == IcacheRefillDiagram

DcacheStoreDiagram == Diagram(
  {"idle", "req", "wait", "done"},
  {"capture", "reqc", "rspc", "flush"},
  {<<"idle", "START_VALID", "capture">>, <<"capture", "START_READY", "req">>,
   <<"req", "REQ_VALID", "reqc">>, <<"reqc", "REQ_READY", "wait">>,
   <<"reqc", "WRITE DATA", "mem_if">>, <<"mem_if", "RSP PATH", "wait">>,
   <<"wait", "RSP_VALID", "rspc">>, <<"rspc", "ERR CAPTURED", "done">>,
   <<"done", "DONE_VALID", "done_if">>, <<"done_if", "DONE_READY", "idle">>,
   <<"req", "FLUSH", "flush">>, <<"wait", "FLUSH", "flush">>,
   <<"done", "FLUSH", "flush">>, <<"flush", "NEXT", "idle">>})

DcacheCtrlDiagram == Diagram(
  {"idle", "lreq", "lwait", "sreq", "swait", "resp"},
  {"class", "refill", "store", "rspmux", "flush"},
  {<<"idle", "REQ_FIRE", "class">>, <<"class", "LOOKUP_ADDR", "lookup">>,
   <<"lookup", "TAG_HIT DATA_WORD", "class">>,
   <<"class", "INVALID OR LOAD HIT", "resp">>, <<"class", "LOAD MISS", "lreq">>,
   <<"lreq", "REFILL_START_READY", "lwait">>, <<"lwait", "LINE_VALID", "refill">>,
   <<"refill", "WORD/ERR CAPTURE", "resp">>, <<"class", "STORE", "sreq">>,
   <<"sreq", "STORE_START_READY", "swait">>, <<"swait", "STORE_DONE", "store">>,
   <<"store", "ERR CAPTURE", "resp">>, <<"resp", "RSP_VALID", "rspmux">>,
   <<"rspmux", "RSP_READY", "core">>, <<"core", "NEXT REQ", "idle">>,
   <<"lreq", "FLUSH", "flush">>, <<"lwait", "FLUSH", "flush">>,
   <<"sreq", "FLUSH", "flush">>, <<"swait", "FLUSH", "flush">>,
   <<"resp", "FLUSH", "flush">>, <<"flush", "NEXT", "idle">>})

-------------------------------------------------------------------------------
(* The tile and the core.                                                  *)

TileDiagram == Diagram(
  {"front_seq", "core_seq", "ic_seq", "dc_seq"},
  {"if_comb", "redirect", "d_comb"},
  {<<"boot", "BOOT/CLK/RST", "front_seq">>,
   <<"front_seq", "INSTR VALID/READY", "if_comb">>,
   <<"if_comb", "PC/INSTR/FAULT", "core_seq">>,
   <<"core_seq", "REDIRECT", "redirect">>, <<"redirect", "VALID/PC", "front_seq">>,
   <<"if_comb", "FRONT IMEM_IF", "ic_seq">>, <<"ic_ctrl", "MAINTENANCE", "ic_seq">>,
   <<"ic_seq", "DOWNSTREAM", "imem">>, <<"core_seq", "OBSERVATIONS", "obs">>,
   <<"irq", "PENDING", "core_seq">>, <<"core_seq", "LSU FIELDS", "d_comb">>,
   <<"d_comb", "CORE_IF", "dc_seq">>, <<"dc_ctrl", "MAINTENANCE", "dc_seq">>,
   <<"dc_seq", "DOWNSTREAM", "dmem">>})

CoreDiagram == Diagram(
  {"dp_seq"},
  {"core", "dp_comb"},
  {<<"port", "CLK RST", "core">>, <<"core", "CLK/RST", "dp_seq">>,
   <<"core", "PORTS", "dp_comb">>, <<"dp_seq", "REG STATE", "dp_comb">>,
   <<"dp_comb", "NEXT STATE", "dp_seq">>, <<"dp_comb", "STATE OBS", "obs">>,
   <<"dp_comb", "INSTR/REDIRECT", "imem">>, <<"dp_comb", "LOAD/STORE", "dmem">>,
   <<"irq", "PENDING", "dp_comb">>})

CorePipeDiagram == Diagram(
  {"reset", "id", "ex"},
  {"accept", "flush", "bubble"},
  {<<"reset", "RST RELEASE", "stream">>, <<"stream", "VALID", "accept">>,
   <<"accept", "INSTR FIRE", "id">>, <<"id", "ADVANCE", "ex">>,
   <<"flush", "REDIRECT", "stream">>, <<"flush", "INVALID", "id">>,
   <<"bubble", "INVALID", "ex">>})

CoreCsrDiagram == Diagram(
  {"reset", "normal", "trap", "mret", "count"},
  {"decode"},
  {<<"reset", "RST RELEASE", "normal">>, <<"normal", "CSR OLD", "decode">>,
   <<"decode", "WRITE DATA", "normal">>, <<"normal", "TRAP_VALID", "trap">>,
   <<"normal", "MRET", "mret">>, <<"normal", "EACH CLK", "count">>,
   <<"trap", "NEXT", "normal">>, <<"mret", "NEXT", "normal">>})

CoreIntDatapathDiagram == Diagram(
  {"pipe", "reg", "lsu_wait", "csr_seq"},
  {"decode", "hazard", "alu", "branch", "lsu", "csr_comb", "wb", "suppress",
   "redirect", "trap"},
  {<<"fetch", "ACCEPT", "pipe">>, <<"pipe", "EX_INSTR", "decode">>,
   <<"decode", "ID VS EX", "hazard">>, <<"hazard", "STALL/BUBBLE", "pipe">>,
   <<"decode", "RS ADDR", "reg">>, <<"reg", "OPERANDS", "alu">>,
   <<"reg", "CMP/JALR", "branch">>, <<"reg", "BASE DATA", "lsu">>,
   <<"reg", "CSR WDATA", "csr_comb">>, <<"decode", "OP IMM", "alu">>,
   <<"decode", "BR/JAL", "branch">>, <<"decode", "LD/ST", "lsu">>,
   <<"decode", "CSR/SYS", "csr_comb">>, <<"alu", "SUPPORTED", "wb">>,
   <<"lsu", "REQ FIRE", "lsu_wait">>, <<"lsu_wait", "RSP FIRE", "wb">>,
   <<"lsu", "FAULT", "suppress">>, <<"lsu_wait", "STALL", "pipe">>,
   <<"csr_comb", "WRITE/TRAP", "csr_seq">>, <<"csr_seq", "CSR STATE", "csr_comb">>,
   <<"csr_comb", "CSR RDATA", "wb">>, <<"csr_seq", "MTVEC/MEPC", "trap">>,
   <<"trap", "TRAP/MRET/IRQ", "redirect">>, <<"branch", "TAKEN", "redirect">>,
   <<"redirect", "FLUSH", "pipe">>, <<"redirect", "TARGET TO FRONTEND", "fetch">>,
   <<"decode", "ILLEGAL/UNSUP", "suppress">>, <<"suppress", "NO WRITE", "wb">>})

CoreRegfileDiagram == Diagram(
  {"reset", "hold", "write"},
  {"bypass"},
  {<<"reset", "RST RELEASE", "hold">>, <<"hold", "WE & RD!=0", "write">>,
   <<"write", "NEXT", "hold">>, <<"write", "READ MATCH", "bypass">>,
   <<"bypass", "NEXT", "hold">>})

-------------------------------------------------------------------------------
(* The peripherals.                                                        *)

AhbDmaDiagram == Diagram(
  {"idle", "ra", "rd", "wa", "wr", "err", "done"},
  {},
  {<<"idle", "START OK", "ra">>, <<"idle", "BAD START", "err">>,
   <<"ra", "HREADY", "rd">>, <<"rd", "OKAY", "wa">>, <<"rd", "ERROR", "err">>,
   <<"wa", "HREADY", "wr">>, <<"wr", "MORE", "ra">>, <<"wr", "LAST", "done">>,
   <<"wr", "ERROR", "err">>, <<"done", "CLEAR", "idle">>,
   <<"err", "CLEAR", "idle">>})

AhbUartDiagram == Diagram(
  {"reset", "reg", "tx", "rx", "irq"},
  {},
  {<<"reset", "RST RELEASE", "reg">>, <<"reg", "DATA WRITE", "tx">>,
   <<"tx", "TX EMPTY", "irq">>, <<"reg", "RX VALID", "rx">>,
   <<"rx", "RX AVAIL", "irq">>, <<"irq", "W1C/NEXT", "reg">>})

UartRxDiagram == Diagram(
  {"idle", "start", "data", "stop", "valid", "err"},
  {},
  {<<"idle", "RX=0", "start">>, <<"start", "TICK & LOW", "data">>,
   <<"start", "FALSE", "idle">>, <<"data", "BIT7", "stop">>,
   <<"stop", "STOP=1", "valid">>, <<"stop", "STOP=0", "err">>,
   <<"valid", "NEXT", "idle">>, <<"err", "NEXT", "idle">>})

UartTxDiagram == Diagram(
  {"idle", "load", "shift", "done"},
  {},
  {<<"idle", "VALID", "load">>, <<"load", "BUSY", "shift">>,
   <<"shift", "TICK & MORE", "shift">>, <<"shift", "LAST BIT", "done">>,
   <<"done", "NEXT", "idle">>})

UartBaudCounterDiagram == Diagram(
  {"reset", "disabled", "count", "tick"},
  {},
  {<<"reset", "RST RELEASE", "disabled">>, <<"disabled", "ENABLE", "count">>,
   <<"count", "TERM", "tick">>, <<"tick", "NEXT", "count">>,
   <<"count", "DISABLE", "disabled">>})

AhbOtpDiagram == Diagram(
  {"erased", "locked", "armed", "prog", "done", "err"},
  {},
  {<<"erased", "KEY", "armed">>, <<"armed", "START OK", "prog">>,
   <<"prog", "1 TO 0", "done">>, <<"armed", "BAD REQ", "err">>,
   <<"locked", "START", "err">>, <<"armed", "LOCK", "locked">>,
   <<"done", "CLEAR", "armed">>, <<"err", "CLEAR", "armed">>})

AhbTimerDiagram == Diagram(
  {"reset", "disabled", "enabled", "pending"},
  {},
  {<<"reset", "RST RELEASE", "disabled">>, <<"disabled", "CTRL.EN", "enabled">>,
   <<"enabled", "CTRL.DIS", "disabled">>, <<"enabled", "MTIME>=CMP", "pending">>,
   <<"pending", "CMP FUTURE", "enabled">>, <<"pending", "DISABLE", "disabled">>})

AhbGpioDiagram == Diagram(
  {"sync", "latched", "clear"},
  {"detect"},
  {<<"sync", "SAMPLE", "detect">>, <<"detect", "ENABLED HIT", "latched">>,
   <<"latched", "WRITE 1", "clear">>, <<"clear", "NEXT", "detect">>})

AhbIntcDiagram == Diagram(
  {"sync", "pend", "claim", "comp"},
  {"best"},
  {<<"sync", "HIGH", "pend">>, <<"pend", "ENABLE", "best">>,
   <<"best", "READ", "claim">>, <<"claim", "WRITE ID", "comp">>,
   <<"comp", "CLEAR", "pend">>})

-------------------------------------------------------------------------------
(* The bus and the memory.                                                 *)

AhbFabric2mDiagram == Diagram(
  {"reset", "grant_seq"},
  {"grant_comb", "decode", "def"},
  {<<"reset", "RST RELEASE", "grant_seq">>,
   <<"grant_seq", "HELD GRANT", "grant_comb">>,
   <<"grant_comb", "NEXT GRANT", "grant_seq">>, <<"grant_comb", "ADDR", "decode">>,
   <<"decode", "MAPPED", "slave">>, <<"decode", "UNMAPPED", "def">>,
   <<"slave", "RESP", "grant_comb">>, <<"def", "RESP", "grant_comb">>})

AhbArbiter2mDiagram == Diagram(
  {"reset", "idle", "m0", "m1", "hold"},
  {},
  {<<"reset", "RST RELEASE", "idle">>, <<"idle", "M0 REQ", "m0">>,
   <<"idle", "M1 REQ", "m1">>, <<"m0", "BOTH RR", "m1">>, <<"m1", "BOTH RR", "m0">>,
   <<"m0", "STALL", "hold">>, <<"m1", "STALL", "hold">>,
   <<"hold", "READY M0", "m0">>, <<"hold", "READY M1", "m1">>})

AhbSramDiagram == Diagram(
  {"idle", "cap", "write_seq"},
  {"read", "write_comb", "err"},
  {<<"idle", "SELECTED", "cap">>, <<"cap", "READ OK", "read">>,
   <<"cap", "WRITE OK", "write_seq">>, <<"cap", "BAD XFER", "err">>,
   <<"read", "NEXT", "idle">>, <<"write_seq", "RESP", "write_comb">>,
   <<"write_comb", "NEXT", "idle">>, <<"err", "NEXT", "idle">>})

-------------------------------------------------------------------------------
(* The detailed diagrams of the Debug Module.                              *)

HaltCtrlDiagram == Diagram(
  {"IDLE", "HALT_WAIT", "RESUME_WAIT", "resumeack", "havereset"},
  {"next", "decode", "status"},
  {<<"dmcontrol", "ACTIVE HALT RESUME", "next">>, <<"next", "", "IDLE">>,
   <<"IDLE", "START HALT", "HALT_WAIT">>, <<"IDLE", "START RESUME", "RESUME_WAIT">>,
   <<"HALT_WAIT", "DONE OR CANCEL", "IDLE">>, <<"RESUME_WAIT", "R DONE", "IDLE">>,
   <<"RESUME_WAIT", "HALT WINS", "HALT_WAIT">>,
   <<"HALT_WAIT", "HALT WAIT", "decode">>, <<"RESUME_WAIT", "RESUME WAIT", "decode">>,
   <<"decode", "HALT REQ RESUME REQ", "core">>, <<"core_status", "RUN HALT", "decode">>,
   <<"core_status", "STATUS", "status">>, <<"resumeack", "RESUME ACK", "status">>,
   <<"havereset", "HAVE RESET", "status">>, <<"status", "ANY ALL STATUS", "dmstatus">>})

RegAccessDiagram == Diagram(
  {"IDLE", "CORE_REQ", "CORE_WAIT", "LOCAL_RSP", "DROP_RSP", "command", "response"},
  {"core_drive", "up_drive"},
  {<<"upstream", "CMD VALID READY", "IDLE">>, <<"IDLE", "CMD FIRE", "CORE_REQ">>,
   <<"CORE_REQ", "REQ FIRE", "CORE_WAIT">>, <<"CORE_WAIT", "RSP FIRE", "LOCAL_RSP">>,
   <<"LOCAL_RSP", "RSP VALID READY", "upstream">>,
   <<"LOCAL_RSP", "SAME CYCLE RSP", "CORE_REQ">>,
   <<"CORE_WAIT", "FLUSH NO RSP", "DROP_RSP">>, <<"DROP_RSP", "STALE RSP", "IDLE">>,
   <<"gpr", "REQ RSP", "CORE_REQ">>, <<"command", "WRITE ADDR WDATA", "core_drive">>,
   <<"core_drive", "REQ VALID FIELDS", "dm_gpr">>,
   <<"dm_gpr", "RSP DATA ERROR", "response">>,
   <<"response", "STABLE RESULT", "up_drive">>})

AbstractCmdDiagram == Diagram(
  {"IDLE", "ISSUE", "WAIT", "COMPLETE", "request", "completion"},
  {"decoder", "cmd_drive", "pulse_drive"},
  {<<"dmi", "RAW COMMAND", "decoder">>, <<"decoder", "DECODE CLASS", "IDLE">>,
   <<"IDLE", "VALID TRANSFER", "ISSUE">>, <<"IDLE", "ERROR OR NOOP", "COMPLETE">>,
   <<"ISSUE", "CMD FIRE", "WAIT">>, <<"WAIT", "RSP FIRE", "COMPLETE">>,
   <<"COMPLETE", "CMDERR OR DATA0", "result">>, <<"ISSUE", "REG COMMAND", "reg_access">>,
   <<"reg_access", "REG RESPONSE", "WAIT">>, <<"WAIT", "HART LOST", "ISSUE">>,
   <<"request", "WRITE ADDR WDATA", "cmd_drive">>,
   <<"cmd_drive", "VALID READY", "channel">>,
   <<"channel", "DATA ERROR", "completion">>,
   <<"completion", "ERROR READ VALID", "pulse_drive">>})

DmaRegPathDiagram == Diagram(
  {"idle", "capture", "write_regs", "respond"},
  {"read_mux", "error"},
  {<<"idle", "S_HSEL && HTRANS[1]", "capture">>, <<"capture", "READ OK", "read_mux">>,
   <<"capture", "BAD XFER", "error">>, <<"capture", "WRITE OK", "write_regs">>,
   <<"read_mux", "HRDATA", "respond">>, <<"error", "ERROR", "respond">>,
   <<"write_regs", "OKAY", "respond">>, <<"respond", "NEXT CYCLE", "idle">>})

\* debug_dmi_regs; the writes into the two register banks are not drawn.
DmiRegsDiagram == Diagram(
  {"slot", "dmcontrol", "abstract"},
  {"op_decode", "read_mux", "hart_gate", "abstractcs", "dmstatus"},
  {<<"dtm_req", "REQ FIRE", "op_decode">>, <<"op_decode", "RESP CLASS", "slot">>,
   <<"read_mux", "READ DATA", "slot">>, <<"slot", "VALID RESP DATA", "dtm_rsp">>,
   <<"dmcontrol", "HARTSEL LEVELS", "hart_gate">>,
   <<"hart_gate", "HALT RESUME RESET", "hart_control">>,
   <<"abstract", "BUSY CMDERR", "abstractcs">>,
   <<"abstractcs", "COMMAND DATA0", "executor">>,
   <<"hart_status", "RUN HALT ACK RESET", "dmstatus">>,
   <<"dmstatus", "DMSTATUS", "read_mux">>, <<"abstractcs", "ABSTRACTCS", "read_mux">>})

-------------------------------------------------------------------------------
(* What is expected of the diagrams.                                       *)

\* The diagrams of state machines, each with the state it rests in.  (The tags'
\* hit and miss, the counters of core_csr and the slots of core_pipe are drawn
\* without a way back; COMPLETE is left towards the DMI registers.)
Machines ==
  {<<FrontendFetchDiagram, "idle">>, <<FrontendPcDiagram, "valid">>,
   <<FrontendIbufDiagram, "empty">>, <<IcacheTagDiagram, "invalid">>,
   <<IcacheRefillDiagram, "idle">>, <<DcacheTagDiagram, "invalid">>,
   <<DcacheRefillDiagram, "idle">>, <<DcacheStoreDiagram, "idle">>,
   <<DcacheCtrlDiagram, "idle">>, <<CoreRegfileDiagram, "hold">>,
   <<AhbDmaDiagram, "idle">>, <<AhbUartDiagram, "reg">>, <<UartRxDiagram, "idle">>,
   <<UartTxDiagram, "idle">>, <<UartBaudCounterDiagram, "disabled">>,
   <<AhbOtpDiagram, "armed">>, <<AhbTimerDiagram, "disabled">>,
   <<AhbGpioDiagram, "latched">>, <<AhbIntcDiagram, "pend">>,
   <<AhbSramDiagram, "idle">>, <<DmaRegPathDiagram, "idle">>}

\* Diagrams of logic and registers around it.  (In ahb_fabric_2m the default
\* slave is drawn COMB, and its answer comes back to the grant.)
Datapaths ==
  {FrontendDiagram, IcacheDataDiagram, DcacheDataDiagram, TileDiagram, CoreDiagram,
   CorePipeDiagram, CoreCsrDiagram, CoreIntDatapathDiagram, AhbArbiter2mDiagram,
   HaltCtrlDiagram, RegAccessDiagram, AbstractCmdDiagram, DmiRegsDiagram}

\* Every machine that is drawn can get back to rest from each state drawn, and
\* nowhere does logic feed itself.
DiagramsAreSound ==
  /\ \A m \in Machines : NoCombinationalLoop(m[1]) /\ ComesToRest(m[1], m[2])
  /\ \A d \in Datapaths : NoCombinationalLoop(d)

ASSUME DiagramSense == DiagramsAreSound
===============================================================================
