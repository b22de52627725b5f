------------------------------ MODULE AtomicBus -------------------------------
(***************************************************************************)
(* What the memory path of wasp1 promises its three clients, the I-cache   *)
(* (I), the D-cache (D) and the DMA engine (M): a request, once made,      *)
(* stays as it is; it is carried out exactly once, between the moment it   *)
(* is made and the moment it is answered; no two are carried out at once;  *)
(* and its answer is what the memory held at that moment.  An unmapped     *)
(* address answers ERROR.  What a device register answers is left open.    *)
(***************************************************************************)
EXTENDS Naturals

CONSTANTS
  MemAddrs,   \* addresses of memory words
  Devices     \* addresses of device registers

VARIABLES
  mem,        \* the memory words
  op          \* op[c]: the outstanding operation of client c

Clients == {"I", "D", "M"}
vars == <<mem, op>>

NoOp == [phase |-> "idle"]

Init ==
  /\ mem \in [MemAddrs -> Nat]
  /\ op = [c \in Clients |-> NoOp]

\* The answer to operation o carried out on memory m.
IsAnswer(o, data, err) ==
  \/ /\ o.addr \in MemAddrs
     /\ err = FALSE
     /\ data = IF o.write THEN 0 ELSE mem[o.addr]
  \/ o.addr \in Devices
  \/ /\ o.addr \notin MemAddrs \union Devices
     /\ err = TRUE
     /\ data = 0

\* A client may make its next request in the step it collects an answer.
Issues(c) == op[c].phase # "pending" /\ op'[c].phase = "pending"

Performs(c) ==
  /\ op[c].phase = "pending"
  /\ op'[c].phase = "done"
  /\ op'[c].addr = op[c].addr /\ op'[c].write = op[c].write
  /\ IsAnswer(op[c], op'[c].data, op'[c].err)

Collects(c) == op[c].phase = "done" /\ op'[c].phase = "idle"

Stays(c) == op'[c] = op[c]

\* Memory changes only through the operation carried out in this step.
MemoryStep ==
  LET writers == {c \in Clients : Performs(c) /\ op[c].write
                                              /\ op[c].addr \in MemAddrs} IN
  IF writers = {} THEN UNCHANGED mem
  ELSE LET w == CHOOSE c \in writers : TRUE
       IN  mem' = [mem EXCEPT ![op[w].addr] = op[w].wdata]

Next ==
  /\ \A c \in Clients : Issues(c) \/ Performs(c) \/ Collects(c) \/ Stays(c)
  /\ \A c, d \in Clients : Performs(c) /\ Performs(d) => c = d
  /\ MemoryStep

Spec == Init /\ [][Next]_vars
===============================================================================
