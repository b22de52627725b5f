-------------------------- MODULE NoncoherentMemory ---------------------------
(***************************************************************************)
(* What the two caches promise the core.  Each port, I and D, keeps copies *)
(* of some words.  A copy is made from memory, while a load of its line is *)
(* outstanding, and from then on changes only by the port's own stores: a  *)
(* load may return an old word, but only one that memory held after the    *)
(* line was asked for.  A store goes to memory at once, exactly once; one  *)
(* that fails changes nothing.  An access outside Cached[p] is one access  *)
(* to memory and leaves no copy.                                           *)
(***************************************************************************)
CONSTANTS
  Addr, Words,
  Access,      \* requests of a port, some of which are not legal
  Cached,      \* Cached[p]: addresses of which port p may keep copies
  Readable, Writable,
  CellOf       \* CellOf[a]: the memory cell behind an address

VARIABLES
  mem,         \* the cells
  copy,        \* copy[p]: the copies of port p, a function on some addresses
  client       \* client[p]: the outstanding request and its answer

vars == <<mem, copy, client>>
Ports == {"I", "D"}
NoClient == [phase |-> "idle"]
NoCopies == [a \in {} |-> a]

Init ==
  /\ copy = [p \in Ports |-> NoCopies]
  /\ client = [p \in Ports |-> NoClient]

\* Of the two clients, only p's changes, and it goes to a phase.
Goes(p, phase) ==
  /\ client'[p].phase = phase
  /\ \A q \in Ports \ {p} : client'[q] = client[q]

\* Port p's request is answered, when it is made or later.
Answers(p, req, err) ==
  /\ Goes(p, "done")
  /\ client[p].phase = "idle" \/ client[p] = [phase |-> "asked", req |-> req]
  /\ req \in Access
  /\ client'[p].rsp.err = err

\* Port p drops some of its copies and keeps the others.
Forgets(p) ==
  /\ \A q \in Ports \ {p} : copy'[q] = copy[q]
  /\ DOMAIN copy'[p] \subseteq DOMAIN copy[p]
  /\ \A a \in DOMAIN copy'[p] : copy'[p][a] = copy[p][a]

CopyWith(p, a, word) ==
  copy' = [copy EXCEPT ![p] =
             [b \in DOMAIN @ \union {a} |-> IF b = a THEN word ELSE @[b]]]

-------------------------------------------------------------------------------
Ask(p) ==
  /\ client[p].phase = "idle"
  /\ Goes(p, "asked")
  /\ client'[p].req \in Access
  /\ UNCHANGED <<mem, copy>>

\* A copy is made for a load of its line.
Copy(p) ==
  /\ client[p].phase = "asked"
  /\ LET req == client[p].req IN
     /\ req.legal /\ ~req.write
     /\ \E a \in Cached[p] \intersect Readable :
          /\ a.line = req.addr.line
          /\ CopyWith(p, a, mem[CellOf[a]])
  /\ UNCHANGED <<mem, client>>

Load(p) ==
  /\ Goes(p, "done")
  /\ LET req == client'[p].req IN
     /\ req.legal /\ ~req.write /\ req.addr \in Cached[p] \intersect DOMAIN copy[p]
     /\ Answers(p, req, FALSE)
     /\ client'[p].rsp.data = copy[p][req.addr]
  /\ Forgets(p)
  /\ UNCHANGED mem

\* A load fails if its line cannot be read whole.
LoadFails(p) ==
  /\ Goes(p, "done")
  /\ LET req == client'[p].req IN
     /\ req.legal /\ ~req.write /\ req.addr \in Cached[p]
     /\ \E a \in Addr \ Readable : a.line = req.addr.line
     /\ Answers(p, req, TRUE)
  /\ Forgets(p)
  /\ UNCHANGED mem

LoadUncached(p) ==
  /\ Goes(p, "done")
  /\ LET req == client'[p].req IN
     /\ req.legal /\ ~req.write /\ req.addr \in Readable \ Cached[p]
     /\ Answers(p, req, FALSE)
     /\ client'[p].rsp.data = mem[CellOf[req.addr]]
  /\ UNCHANGED <<mem, copy>>

Store(p) ==
  /\ Goes(p, "done")
  /\ LET req == client'[p].req IN
     /\ req.legal /\ req.write /\ req.addr \in Writable
     /\ Answers(p, req, FALSE)
     /\ mem' = [mem EXCEPT ![CellOf[req.addr]] = req.data]
     /\ IF req.addr \in DOMAIN copy[p] THEN CopyWith(p, req.addr, req.data)
        ELSE UNCHANGED copy

\* A request that is refused, or that memory refuses.
Fail(p) ==
  /\ Goes(p, "done")
  /\ LET req == client'[p].req IN
     /\ \/ ~req.legal
        \/ req.write /\ req.addr \notin Writable
        \/ ~req.write /\ req.addr \notin Cached[p] \union Readable
     /\ Answers(p, req, TRUE)
  /\ UNCHANGED <<mem, copy>>

Collect(p) ==
  /\ client[p].phase = "done"
  /\ Goes(p, "idle")
  /\ UNCHANGED <<mem, copy>>

\* The DMA engine writes memory and tells nobody.
OtherWrite ==
  /\ \E a \in Writable, word \in Words :
       mem' = [mem EXCEPT ![CellOf[a]] = word]
  /\ UNCHANGED <<copy, client>>

Next ==
  \/ \E p \in Ports :
       \/ Ask(p) \/ Copy(p) \/ Load(p) \/ LoadFails(p) \/ LoadUncached(p)
       \/ Store(p) \/ Fail(p) \/ Collect(p)
  \/ OtherWrite

Spec == Init /\ [][Next]_vars
===============================================================================
