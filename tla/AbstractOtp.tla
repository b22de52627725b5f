----------------------------- MODULE AbstractOtp -----------------------------
(***************************************************************************)
(* What the OTP promises whoever programs it: a word only ever loses bits, *)
(* a word is burnt whole to a value some program was asked to put there,   *)
(* and nothing is burnt between a lock and the next reset.                 *)
(***************************************************************************)
EXTENDS AhbOtp

VARIABLES
  words,    \* the array
  locked,   \* the lock
  asked     \* the pairs <<address, value>> that may be burnt now

abstractVars == <<words, locked, asked>>

AbstractInit ==
  /\ words = [a \in Addresses |-> Bits]
  /\ locked = FALSE
  /\ asked \subseteq Addresses \X SUBSET Bits

\* A new command line asks for something else.
Ask ==
  /\ asked' \subseteq Addresses \X SUBSET Bits
  /\ UNCHANGED <<words, locked>>

Burn(a, v) ==
  /\ ~locked
  /\ <<a, v>> \in asked
  /\ v \subseteq words[a]
  /\ words' = [words EXCEPT ![a] = v]
  /\ UNCHANGED <<locked, asked>>

Lock ==
  /\ locked' = TRUE
  /\ UNCHANGED <<words, asked>>

Reset ==
  /\ locked' = FALSE
  /\ UNCHANGED <<words, asked>>

AbstractNext == Ask \/ (\E pair \in asked : Burn(pair[1], pair[2])) \/ Lock \/ Reset
AbstractSpec == AbstractInit /\ [][AbstractNext]_abstractVars
===============================================================================
