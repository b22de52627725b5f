----------------------------- MODULE CacheLeaves ------------------------------
(***************************************************************************)
(* What the two caches are built from: tags with valid bits, lines, and    *)
(* the sequencer that reads a line word by word.  The leaves of the        *)
(* I-cache (icache/rtl) and of the D-cache (dcache/rtl) are the same but   *)
(* for the store merge.  An address is a line and a beat, the word in the  *)
(* line.  An entry's tag and valid bit are the line it holds, or NoLine.   *)
(* A register that is written before it is next read is given its reset    *)
(* value when it goes out of use; the code leaves the old one in it.  The  *)
(* data arrays, which have no reset, start with zeros for the same reason: *)
(* an entry is read only while it is valid, and only a fill makes it so.   *)
(***************************************************************************)
EXTENDS Naturals

CONSTANTS
  Lines,       \* line addresses
  NoLine,      \* the content of an entry that is not valid
  LastBeat,    \* words of a line are numbered 0 .. LastBeat
  Indices,     \* entries of the cache arrays
  IndexOf,     \* IndexOf[l]: the entry line l maps to
  Words,       \* values of a word
  Zero         \* the word 0

Beats == 0 .. LastBeat
Addr == [line : Lines, beat : Beats]

ASSUME CacheAssumption ==
  /\ LastBeat \in Nat
  /\ IndexOf \in [Lines -> Indices]
  /\ Zero \in Words
  /\ Lines # {} /\ NoLine \notin Lines

LineData == [Beats -> Words]
Reply == [data : Words, err : BOOLEAN]
NoReply == [data |-> Zero, err |-> FALSE]

-------------------------------------------------------------------------------
(* Tags and lines.                                                         *)

Tags == [Indices -> Lines \union {NoLine}]
NoTags == [i \in Indices |-> NoLine]

\* Mutant: the tag is not compared.
Hit_AnyTag(tags, line) == tags[IndexOf[line]] # NoLine

Hit(tags, line) == tags[IndexOf[line]] = line

WordAt(lines, a) == lines[IndexOf[a.line]][a.beat]

\* A finished fill takes its entry over; it is valid if no beat failed.
TagRefill(tags, fill) ==
  [tags EXCEPT ![IndexOf[fill.line]] = IF fill.error THEN NoLine ELSE fill.line]

LineRefill(lines, fill) == [lines EXCEPT ![IndexOf[fill.line]] = fill.data]

StoreMerge(lines, a, word) ==
  [lines EXCEPT ![IndexOf[a.line]] = [@ EXCEPT ![a.beat] = word]]

-------------------------------------------------------------------------------
(* The refill sequencer.                                                   *)

Fill == [state : {"IDLE", "REQ", "WAIT", "DONE"}, line : Lines, beat : Beats,
         data : LineData, error : BOOLEAN]

FillStarted(line) ==
  [state |-> "REQ", line |-> line, beat |-> 0,
   data |-> [b \in Beats |-> Zero], error |-> FALSE]

FillReset == [FillStarted(CHOOSE l \in Lines : TRUE) EXCEPT !.state = "IDLE"]

FillAddr(fill) == [line |-> fill.line, beat |-> fill.beat]

FillRequested(fill) == [fill EXCEPT !.state = "WAIT"]

\* Mutant: the last beat is taken for one more to come.
FillAnswered_Overrun(fill, rsp) ==
  [fill EXCEPT !.data[fill.beat] = rsp.data, !.error = @ \/ rsp.err,
               !.state = IF fill.beat > LastBeat THEN "DONE" ELSE "REQ",
               !.beat = IF fill.beat > LastBeat THEN @ ELSE @ + 1]

\* Store the word, remember an error, and go on to the next beat.
FillAnswered(fill, rsp) ==
  LET last == fill.beat = LastBeat IN
  [fill EXCEPT !.data = [@ EXCEPT ![fill.beat] = rsp.data],
               !.error = @ \/ rsp.err,
               !.state = IF last THEN "DONE" ELSE "REQ",
               !.beat = IF last THEN @ ELSE @ + 1]

\* Mutant: the finished line stays offered.
FillTaken_Kept(fill) == fill

FillTaken(fill) == FillReset
===============================================================================
