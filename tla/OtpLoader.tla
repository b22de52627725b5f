------------------------------ MODULE OtpLoader ------------------------------
(***************************************************************************)
(* The target's OTP loader: the polling loop of                            *)
(* llvm_s1/bsp/bootloader/uart_otp_loader.c, which blocks on the UART byte *)
(* by byte and never gives up on a frame, and the request handling of      *)
(* wasp1_uart_otp_protocol.c.  A PROGRAM frame is burnt word by word, and  *)
(* a word in two steps, up to the pulse and after it: between any two of   *)
(* them the target may be reset.                                           *)
(***************************************************************************)
EXTENDS OtpLine, AhbOtp

CONSTANT Devices   \* the loader_ops a build may have

ASSUME MagicWordsAssumption == MagicWords \subseteq SUBSET Bits
ASSUME DevicesAssumption ==
  Devices \subseteq
    [size : 0 .. Depth, caps : SUBSET {"READ", "PROGRAM", "LOCK"},
     max : Nat, version : Nat]

VARIABLES
  otp,        \* ahb_otp
  device,     \* target_ops
  lphase,     \* where the loop of main stands
  lheader,    \* the header read
  lbody,      \* the tokens read after it
  lpos        \* the words of the frame burnt

loaderVars == <<lphase, lheader, lbody, lpos>>

LoaderPhases == {"seek", "half", "header", "body", "burn", "pulse"}

LoaderIdle ==
  /\ lphase = "seek"
  /\ lheader = NoHeader
  /\ lbody = << >>
  /\ lpos = 0

LoaderInit ==
  /\ otp \in {ResetOtp([a \in Addresses |-> Bits])}
  /\ device \in Devices
  /\ LoaderIdle

\* Resynchronize on the two magic bytes.  A 'W' that is not followed by '1'
\* is dropped with the byte after it, so a stray 'W' costs the magic behind it.
Seek ==
  /\ lphase \in {"seek", "half"}
  /\ LoaderReads
  /\ LET token == Head(toTarget)
         found == IF lphase = "seek" THEN "header" ELSE "seek"
     IN  lphase' \in IF token = Noise THEN {"seek", "half", "header"}
                     ELSE IF token = Magic \/ LooksLikeMagic(token) THEN {found}
                     ELSE {"seek"}
  /\ UNCHANGED <<otp, device, toHost, lheader, lbody, lpos>>

\* The other fourteen bytes; an oversized length abandons the frame.
ReadHeader ==
  /\ lphase = "header"
  /\ LoaderReads
  /\ \E h \in HeaderReadings(Head(toTarget)) :
       IF h.length > MaxPayload
         THEN lphase' = "seek" /\ UNCHANGED lheader
         ELSE lphase' = "body" /\ lheader' = h
  /\ UNCHANGED <<otp, device, toHost, lbody, lpos>>

BodyRead == Len(lbody) = lheader.length + 1

ReadBody ==
  /\ lphase = "body"
  /\ ~BodyRead
  /\ LoaderReads
  /\ lbody' = Append(lbody, Head(toTarget))
  /\ UNCHANGED <<otp, device, toHost, lphase, lheader, lpos>>

Request == lheader.frame
Asks(command) == Request.command = command
RequestWord(i) == lbody[i].item.word
\* The words a READ or PROGRAM request is about.
Span == IF Asks("READ") THEN lbody[1].item.length ELSE lheader.length

\* Reading a word goes through ADDR and RDATA, not through the data window.
ReadWord(a) == Rdata(WriteAddr(otp, a))

\* What wasp1_otp_protocol_process refuses a sound frame for, in its order.
BadLength ==
  \/ Request.kind # "request" \/ Request.status # "OK"
  \/ Asks("READ") /\ (lheader.length # 1 \/ Span > device.max)
  \/ Asks("PROGRAM") /\ lheader.length = 0
  \/ Request.command \in {"HELLO", "STATUS", "LOCK"} /\ lheader.length # 0
BadAlignment == Asks("PROGRAM") /\ Request.skew # 0
BadAddress ==
  /\ Request.command \in {"READ", "PROGRAM"}
  /\ \/ Request.address > device.size
     \/ Span > device.size - Request.address
BadCommand == Request.command \in {"READ", "PROGRAM", "LOCK"} \ device.caps
\* Mutant: only the first word is checked before the first pulse.
IllegalWords_FirstOnly ==
  {i \in {1} \cap 1 .. lheader.length :
     ~(RequestWord(i) \subseteq ReadWord(Request.address + i - 1))}
\* The words of a PROGRAM frame that want a 0 turned into a 1.
IllegalWords ==
  {i \in 1 .. lheader.length :
     ~(RequestWord(i) \subseteq ReadWord(Request.address + i - 1))}

\* The status a request is refused with, OK if it is to be carried out.
Refusal ==
  IF lheader.length > device.max THEN "BAD_LENGTH"
  ELSE IF ~Intact(lheader, lbody) THEN "CRC_ERROR"
  ELSE IF Request.version # device.version THEN "BAD_VERSION"
  ELSE IF BadLength THEN "BAD_LENGTH"
  ELSE IF BadAlignment THEN "BAD_ALIGNMENT"
  ELSE IF BadAddress THEN "BAD_ADDRESS"
  ELSE IF BadCommand THEN "BAD_COMMAND"
  ELSE IF Asks("PROGRAM") /\ IllegalWords # {} THEN "ILLEGAL_TRANSITION"
  ELSE "OK"

\* ADDR is left at the last word read.
AfterReads == IF Span = 0 THEN otp ELSE WriteAddr(otp, Request.address + Span - 1)
\* The check of a PROGRAM frame stops at the first word that may not be burnt.
AfterIllegal(i) ==
  /\ \A k \in IllegalWords : i <= k
  /\ otp' = WriteAddr(otp, Request.address + i - 1)

\* make_response, and back to the top of the loop.
Respond(status, payload) ==
  /\ ToHost([Frame("response", Request.sequence, Request.command, status,
                   Request.address, IF status = "OK" THEN payload ELSE << >>)
             EXCEPT !.version = device.version])
  /\ lphase' = "seek"
  /\ lheader' = NoHeader
  /\ lbody' = << >>
  /\ lpos' = 0

Answer ==
  CASE Request.command = "HELLO" -> <<Geometry(device)>>
    [] Request.command = "READ" ->
         [i \in 1 .. Span |-> Word(ReadWord(Request.address + i - 1))]
    [] Request.command = "STATUS" -> <<StatusBits(otp.locked)>>
    [] OTHER -> << >>

\* wasp1_otp_protocol_process, but for the words a PROGRAM frame burns.
Refuse ==
  /\ lphase = "body" /\ BodyRead
  /\ Refusal # "OK"
  /\ Respond(Refusal, << >>)
  /\ IF Refusal = "ILLEGAL_TRANSITION"
       THEN \E i \in IllegalWords : AfterIllegal(i)
       ELSE UNCHANGED otp
  /\ UNCHANGED <<device, toTarget>>

Carry ==
  /\ lphase = "body" /\ BodyRead
  /\ Refusal = "OK"
  /\ Request.command # "PROGRAM"
  /\ Respond("OK", Answer)
  /\ otp' = CASE Request.command = "LOCK" -> WriteLock(otp)
              [] Request.command = "READ" -> AfterReads
              [] OTHER -> otp
  /\ UNCHANGED <<device, toTarget>>

StartBurning ==
  /\ lphase = "body" /\ BodyRead
  /\ Refusal = "OK"
  /\ Request.command = "PROGRAM"
  /\ lphase' = "burn"
  /\ otp' = AfterReads
  /\ UNCHANGED <<device, toTarget, toHost, lheader, lbody, lpos>>

\* Mutant: ADDR is left where the check of the frame left it.
BurnWord_StaleAddress ==
  /\ lphase = "burn"
  /\ lpos < lheader.length
  /\ IF otp.locked
       THEN Respond("LOCKED", << >>) /\ UNCHANGED otp
       ELSE /\ otp' =
                 LET keyed == WriteKey(WriteClear(otp), TRUE)
                 IN  WriteStart(WriteWdata(keyed, RequestWord(lpos + 1)))
            /\ lphase' = "pulse"
            /\ UNCHANGED <<toHost, lheader, lbody, lpos>>
  /\ UNCHANGED <<device, toTarget>>
\* target_program_word up to the pulse, refused at once under the lock.
BurnWord ==
  /\ lphase = "burn"
  /\ lpos < lheader.length
  /\ IF otp.locked
       THEN Respond("LOCKED", << >>) /\ UNCHANGED otp
       ELSE /\ otp' =
                 LET cleared == WriteClear(otp)
                     keyed == WriteKey(cleared, TRUE)
                     addressed == WriteAddr(keyed, Request.address + lpos)
                 IN  WriteStart(WriteWdata(addressed, RequestWord(lpos + 1)))
            /\ lphase' = "pulse"
            /\ UNCHANGED <<toHost, lheader, lbody, lpos>>
  /\ UNCHANGED <<device, toTarget>>

\* Once STATUS is not busy: the read-back, the key revoked, the verdict.
WordDone ==
  /\ lphase = "pulse"
  /\ ~otp.busy
  /\ otp' = WriteKey(otp, FALSE)
  /\ IF otp.error \/ ~otp.done \/ Rdata(otp) # RequestWord(lpos + 1)
       THEN Respond("PROGRAM_ERROR", << >>)
       ELSE /\ lphase' = "burn"
            /\ lpos' = lpos + 1
            /\ UNCHANGED <<toHost, lheader, lbody>>
  /\ UNCHANGED <<device, toTarget>>

FrameBurnt ==
  /\ lphase = "burn"
  /\ lpos = lheader.length
  /\ Respond("OK", << >>)
  /\ UNCHANGED <<otp, device, toTarget>>

Clock ==
  /\ otp.busy
  /\ otp' = OtpClock(otp)
  /\ UNCHANGED <<device, toTarget, toHost, loaderVars>>

LoaderStep ==
  \/ Seek \/ ReadHeader \/ ReadBody \/ Refuse \/ Carry
  \/ StartBurning \/ BurnWord \/ WordDone \/ FrameBurnt \/ Clock

\* A reset starts main again; what the UART had received is lost, and so is
\* what it had not sent yet.
ResetLoader ==
  /\ otp' = ResetOtp(otp.words)
  /\ lphase' = "seek"
  /\ lheader' = NoHeader
  /\ lbody' = << >>
  /\ lpos' = 0
  /\ toTarget' = << >>
  /\ \E n \in 0 .. Len(toHost) : toHost' = SubSeq(toHost, 1, n)
  /\ UNCHANGED device
===============================================================================
