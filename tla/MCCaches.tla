------------------------------- MODULE MCCaches -------------------------------
(***************************************************************************)
(* A small instance of CachedMemory: one entry for three lines of two      *)
(* words, in RAM, in the OTP and at the end of what is mapped, and the     *)
(* OTP's registers, outside the cacheable windows: the write that burns a  *)
(* word and the read of RDATA, which shows it, are one address here.       *)
(***************************************************************************)
EXTENDS CacheDiagrams

MCLines == {"ram", "otp", "edge", "regs"}
MCIndexOf == [l \in MCLines |-> 0]
MCCacheable == {"ram", "otp", "edge"}
A(line, beat) == [line |-> line, beat |-> beat]

MCCells == {"ram0", "ram1", "otp0", "otp1", "edge0", "none"}
MCCellOf == [a \in [line : MCLines, beat : 0 .. 1] |->
  CASE a = A("ram", 0) -> "ram0"
    [] a = A("ram", 1) -> "ram1"
    [] a = A("otp", 0) -> "otp0"
    [] a \in {A("otp", 1), A("regs", 1)} -> "otp1"
    [] a = A("edge", 0) -> "edge0"
    [] OTHER -> "none"]
MCReadable ==
  {A("ram", 0), A("ram", 1), A("otp", 0), A("otp", 1), A("regs", 1),
   A("edge", 0)}
MCWritable == {A("ram", 0), A("ram", 1), A("regs", 1)}
MCInitialMem == [c \in MCCells |-> IF c \in {"otp0", "otp1"} THEN 1 ELSE 0]

Request(line, beat, write, word) ==
  [addr |-> A(line, beat), write |-> write, data |-> word, legal |-> TRUE]
R(line, beat) == Request(line, beat, FALSE, 0)
W(line, beat, word) == Request(line, beat, TRUE, word)
MCFetches == {A("ram", 0), A("edge", 0)}
MCRequests ==
  {R("ram", 0), R("otp", 1), R("edge", 0), R("regs", 1),
   W("ram", 0, 1), W("otp", 1, 0), W("regs", 1, 0),
   [R("ram", 0) EXCEPT !.legal = FALSE]}
MCDmaWrites == {W("ram", 0, 0)}
===============================================================================
