------------------------------ MODULE OtpFrames ------------------------------
(***************************************************************************)
(* The wire format the host client and the target loader share             *)
(* (ftdi_debugger/host/wasp1_otp/protocol.py and                           *)
(* llvm_s1/bsp/bootloader/wasp1_uart_otp_protocol.h).  A frame travels as  *)
(* tokens: the two magic bytes, the rest of the header, the payload's      *)
(* items, the CRC.  A token is what a fault of the line loses or spoils;   *)
(* the CRC is taken to tell every spoiled frame from a sound one.          *)
(***************************************************************************)
EXTENDS Naturals, Sequences

CONSTANTS
  MaxPayload,  \* MAX_PAYLOAD, in items
  MagicWords   \* the word values whose bytes hold "W1"

ASSUME MaxPayloadAssumption == MaxPayload \in Nat \ {0}

Version == 1
SequenceModulus == 65536

Commands == {"HELLO", "READ", "PROGRAM", "STATUS", "LOCK"}
Statuses ==
  {"OK", "BAD_COMMAND", "BAD_VERSION", "BAD_LENGTH", "BAD_ADDRESS",
   "BAD_ALIGNMENT", "CRC_ERROR", "LOCKED", "ILLEGAL_TRANSITION",
   "PROGRAM_ERROR", "INTERNAL_ERROR"}

\* A frame.  Addresses and lengths count words; "skew" is what in bytes
\* is left of them modulo four.
Frame(kind, sequence, command, status, address, payload) ==
  [kind |-> kind, sequence |-> sequence, command |-> command,
   status |-> status, address |-> address, skew |-> 0,
   payload |-> payload, version |-> Version]

Magic == [t |-> "magic"]
Noise == [t |-> "noise"]
Header(frame) == [t |-> "header", frame |-> frame]
Data(item) == [t |-> "data", item |-> item]
Crc(frame) == [t |-> "crc", frame |-> frame]

\* The items of a payload: OTP words, a length, the geometry, STATUS.
Word(value) == [word |-> value]
Length(n) == [length |-> n]
Geometry(device) == [device |-> device]
StatusBits(locked) == [locked |-> locked]

\* Frame.encode
Encode(frame) ==
  <<Magic, Header(frame)>>
    \o [i \in 1 .. Len(frame.payload) |-> Data(frame.payload[i])]
    \o <<Crc(frame)>>

\* A header read where the stream is out of step: its fields are arbitrary.
Garbage == Frame("garbage", 0, "garbage", "OK", 0, << >>)
NoHeader == [frame |-> Garbage, length |-> 0]
\* What a receiver takes for a header: the frame it begins, the payload still
\* unread, and the number of items it says will follow.
HeaderReadings(token) ==
  IF token.t = "header"
    THEN {[frame |-> [token.frame EXCEPT !.payload = << >>],
           length |-> Len(token.frame.payload)]}
    ELSE {[frame |-> Garbage, length |-> n] : n \in 0 .. MaxPayload + 1}

\* The bytes of a token that may be taken for the magic in mid-stream.
LooksLikeMagic(token) ==
  \/ token.t = "noise"
  \/ token.t = "data" /\ token.item \in {Word(v) : v \in MagicWords}

\* The items read behind a header, and Frame.decode's test: they and the
\* header are what the CRC was computed over.
Items(header, body) == [i \in 1 .. header.length |-> body[i].item]
Intact(header, body) ==
  LET n == header.length
  IN  /\ Len(body) = n + 1
      /\ \A i \in 1 .. n : body[i].t = "data"
      /\ body[n + 1].t = "crc"
      /\ header.frame # Garbage
      /\ body[n + 1].frame = [header.frame EXCEPT !.payload = Items(header, body)]
===============================================================================
