------------------------------- MODULE OtpLine -------------------------------
(***************************************************************************)
(* The serial line between the host and the target, a FIFO of tokens each  *)
(* way.  A fault loses or spoils the next token to be read; a token is any *)
(* of them before it is read, so every token of every frame is exposed.    *)
(***************************************************************************)
EXTENDS OtpFrames

VARIABLES
  toTarget,   \* the tokens the loader has not read yet
  toHost      \* the tokens the host has not read yet

line == <<toTarget, toHost>>

LineInit == toTarget = << >> /\ toHost = << >>

ToTarget(frame) == toTarget' = toTarget \o Encode(frame)
ToHost(frame) == toHost' = toHost \o Encode(frame)

\* uart_getc_blocking, and serial.read when there is something to read.
LoaderReads == toTarget # << >> /\ toTarget' = Tail(toTarget)
HostReads == toHost # << >> /\ toHost' = Tail(toHost)

Lost(queue) == Tail(queue)
Spoilt(queue) == <<Noise>> \o Tail(queue)
===============================================================================
