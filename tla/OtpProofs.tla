------------------------------ MODULE OtpProofs ------------------------------
(***************************************************************************)
(* What OtpProgramming's runs check on a small instance, for every OTP,    *)
(* build of the loader and set of command lines: its types, that the OTP   *)
(* is burnt as AbstractOtp promises, that a frame with an illegal word     *)
(* burns nothing, that what the host believes of the OTP is true, that a   *)
(* command that was interrupted can be given again, and why one fails.     *)
(***************************************************************************)
EXTENDS OtpProgramming, TLAPS

ItemSet ==
  [word : SUBSET Bits] \cup [length : Nat] \cup [device : Devices]
    \cup [locked : BOOLEAN]
FrameSet ==
  [kind : {"request", "response", "garbage"}, sequence : Nat,
   command : Commands \cup {"garbage"}, status : Statuses,
   address : Nat, skew : Nat, payload : Seq(ItemSet), version : Nat]
HeaderSet == [frame : FrameSet, length : Nat]
Token ==
  {Magic, Noise} \cup [t : {"header"}, frame : FrameSet]
    \cup [t : {"data"}, item : ItemSet] \cup [t : {"crc"}, frame : FrameSet]

\* A frame burns only what the command line asks for.
FrameAsked(frame) ==
  /\ frame.command = "PROGRAM" =>
       \A i \in 1 .. Len(frame.payload) :
         /\ frame.payload[i].word \in SUBSET Bits
         /\ frame.address + i - 1 \in Addresses =>
              <<frame.address + i - 1, frame.payload[i].word>> \in AskedBy(job)
  /\ frame.command = "READ" =>
       \A i \in 1 .. Len(frame.payload) : frame.payload[i].length \in Nat

HostTyped ==
  /\ job \in Jobs
  /\ outcome \in {"none", "running", "ok", "error"}
  /\ stage \in Stages
  /\ pos \in 0 .. Total
  /\ tries \in 0 .. Retries
  /\ sequence \in 0 .. SequenceModulus - 1
  /\ info.max \in Nat
  /\ hphase \in {"send", "seek", "header", "body"}
  /\ hheader \in HeaderSet /\ hheader.length <= MaxPayload
  /\ hbody \in Seq(Token) /\ Len(hbody) <= hheader.length + 1

\* Where the host can be.
HostPlace ==
  /\ hphase # "body" => hbody = << >>
  /\ Running => job.confirmed
  /\ stage = "burn" => job.operation = "program" /\ Running
  /\ stage = "raw" => job.operation = "raw"

TargetTyped ==
  /\ otp \in OtpState
  /\ device \in Devices
  /\ lphase \in LoaderPhases
  /\ lheader \in HeaderSet /\ lheader.length <= MaxPayload
  /\ lbody \in Seq(Token) /\ Len(lbody) <= lheader.length + 1
  /\ lpos \in 0 .. lheader.length

\* Where the loader can be.
TargetPlace ==
  /\ lphase \in {"seek", "half", "header"} => lheader = NoHeader /\ lbody = << >>
  /\ lphase \in {"burn", "pulse"} => BodyRead
  /\ lphase \notin {"burn", "pulse"} => lpos = 0
  /\ lphase = "pulse" => lpos < lheader.length
  /\ otp.unlocked => lphase = "pulse"

MishapTyped == mishaps \in 0 .. Mishaps[device]

\* The frames on the line are asked for, and so is one the loader has whole.
LineInv ==
  /\ toTarget \in Seq(Token) /\ toHost \in Seq(Token)
  /\ \A i \in 1 .. Len(toTarget) :
       toTarget[i].t = "crc" => FrameAsked(toTarget[i].frame)
LoaderAsked ==
  BodyRead /\ lbody[lheader.length + 1].t = "crc" =>
    FrameAsked(lbody[lheader.length + 1].frame)

\* The frame being burnt is asked for, and may be burnt from end to end.
FrameBurnable ==
  lphase \in {"burn", "pulse"} =>
    \A i \in 1 .. lheader.length :
      /\ Request.address + i - 1 \in Addresses
      /\ RequestWord(i) \in SUBSET Bits
      /\ <<Request.address + i - 1, RequestWord(i)>> \in AskedBy(job)
      /\ RequestWord(i) \subseteq otp.words[Request.address + i - 1]

HostInv == HostTyped /\ HostPlace
TargetInv == TargetTyped /\ TargetPlace /\ LoaderAsked /\ FrameBurnable
Inv == HostInv /\ TargetInv /\ LineInv /\ MishapTyped

-------------------------------------------------------------------------------
(* The tokens of a frame. *)

LEMMA Widened ==
  ASSUME NEW A, NEW B, NEW s \in Seq(A), \A i \in 1 .. Len(s) : s[i] \in B
  PROVE  s \in Seq(B)
  OBVIOUS

LEMMA Elements ==
  ASSUME NEW A, NEW s \in Seq(A)
  PROVE  Len(s) \in Nat /\ \A i \in 1 .. Len(s) : s[i] \in A
  OBVIOUS

\* The tokens of a frame are tokens, and its CRC is the one over it.
LEMMA EncodedFrame ==
  ASSUME NEW frame \in FrameSet
  PROVE  /\ Encode(frame) \in Seq(Token)
         /\ \A i \in 1 .. Len(Encode(frame)) :
              Encode(frame)[i].t = "crc" => Encode(frame)[i].frame = frame
<1> DEFINE n == Len(frame.payload)
           front == <<Magic, Header(frame)>>
           middle == [i \in 1 .. n |-> Data(frame.payload[i])]
           back == <<Crc(frame)>>
<1>1. n \in Nat /\ \A i \in 1 .. n : frame.payload[i] \in ItemSet
  BY DEF FrameSet
<1>2. front \in Seq(Token) /\ Len(front) = 2
  BY DEF Token, Magic, Header
<1>3. middle \in Seq(Token) /\ Len(middle) = n
  BY <1>1 DEF Token, Data
<1>4. back \in Seq(Token) /\ Len(back) = 1
  BY DEF Token, Crc
<1>5. Encode(frame) = (front \o middle) \o back
  BY DEF Encode
<1>6. front \o middle \in Seq(Token) /\ Len(front \o middle) = n + 2
  BY <1>1, <1>2, <1>3
<1>7. \A i \in 1 .. n + 2 : (front \o middle)[i].t # "crc"
  <2> TAKE i \in 1 .. n + 2
  <2>1. CASE i = 1
    BY <2>1, <1>1, <1>2, <1>3 DEF Magic
  <2>2. CASE i = 2
    BY <2>2, <1>1, <1>2, <1>3 DEF Header
  <2>3. CASE i > 2
    <3>1. (front \o middle)[i] = middle[i - 2] /\ i - 2 \in 1 .. n
      BY <2>3, <1>1, <1>2, <1>3
    <3> QED BY <3>1 DEF Data
  <2> QED BY <2>1, <2>2, <2>3, <1>1
<1>8. \A i \in 1 .. n + 3 :
        Encode(frame)[i] = IF i = n + 3 THEN Crc(frame) ELSE (front \o middle)[i]
  BY <1>1, <1>4, <1>5, <1>6
<1>9. Len(Encode(frame)) = n + 3 /\ Encode(frame) \in Seq(Token)
  BY <1>1, <1>4, <1>5, <1>6
<1> HIDE DEF n, front, middle, back
<1>10. \A i \in 1 .. n + 3 :
         Encode(frame)[i].t = "crc" => Encode(frame)[i].frame = frame
  <2> SUFFICES ASSUME NEW i \in 1 .. n + 3, Encode(frame)[i].t = "crc"
               PROVE  Encode(frame)[i].frame = frame
    OBVIOUS
  <2>1. CASE i = n + 3
    BY <2>1, <1>8 DEF Crc
  <2>2. CASE i # n + 3
    <3>1. i \in 1 .. n + 2
      BY <2>2, <1>1
    <3>2. Encode(frame)[i] = (front \o middle)[i]
      BY <2>2, <1>8
    <3> QED BY <3>1, <3>2, <1>7
  <2> QED BY <2>1, <2>2
<1> QED BY <1>9, <1>10 DEF n

\* The garbage header is one.
LEMMA NoHeaderTyped == NoHeader \in HeaderSet /\ NoHeader.length = 0
<1>1. << >> \in Seq(ItemSet)
  OBVIOUS
<1>2. Garbage = [kind |-> "garbage", sequence |-> 0, command |-> "garbage",
                 status |-> "OK", address |-> 0, skew |-> 0,
                 payload |-> << >>, version |-> 1]
  BY DEF Garbage, Frame, Version
<1>3. Garbage \in FrameSet
  BY <1>1, <1>2 DEF FrameSet, Statuses
<1> QED BY <1>3 DEF NoHeader, HeaderSet

\* What is read for a header is a header.
LEMMA HeadersTyped ==
  ASSUME NEW token \in Token, NEW h \in HeaderReadings(token)
  PROVE  h \in HeaderSet
<1>1. CASE token.t = "header"
  <2>1. token.frame \in FrameSet
    BY <1>1 DEF Token, Magic, Noise
  <2>2. h = [frame |-> [token.frame EXCEPT !.payload = << >>],
             length |-> Len(token.frame.payload)]
    BY <1>1 DEF HeaderReadings
  <2>3. [token.frame EXCEPT !.payload = << >>] \in FrameSet
    <3>1. << >> \in Seq(ItemSet)
      OBVIOUS
    <3> QED BY <2>1, <3>1 DEF FrameSet
  <2>4. Len(token.frame.payload) \in Nat
    BY <2>1 DEF FrameSet
  <2> QED BY <2>2, <2>3, <2>4 DEF HeaderSet
<1>2. CASE token.t # "header"
  <2>1. PICK n \in 0 .. MaxPayload + 1 : h = [frame |-> Garbage, length |-> n]
    BY <1>2 DEF HeaderReadings
  <2> QED BY <2>1, NoHeaderTyped, MaxPayloadAssumption DEF HeaderSet, NoHeader
<1> QED BY <1>1, <1>2

-------------------------------------------------------------------------------
(* What a step leaves alone. *)

LEMMA HostUntouched ==
  ASSUME HostInv, UNCHANGED hostVars
  PROVE  HostInv'
<1>1. HostTyped'
  BY DEF HostInv, HostTyped, hostVars, jobVars, receiverVars, Total
<1>2. HostPlace'
  BY DEF HostInv, HostPlace, Running, hostVars, jobVars, receiverVars
<1> QED BY <1>1, <1>2 DEF HostInv

LEMMA TargetUntouched ==
  ASSUME TargetInv, UNCHANGED targetVars, UNCHANGED job
  PROVE  TargetInv'
<1> USE DEF TargetInv, targetVars, loaderVars
<1>1. TargetTyped'
  BY DEF TargetTyped
<1>2. TargetPlace'
  BY DEF TargetPlace, BodyRead
<1>3. LoaderAsked'
  BY DEF LoaderAsked, BodyRead, FrameAsked
<1>4. FrameBurnable'
  BY DEF FrameBurnable, Request, RequestWord
<1> QED BY <1>1, <1>2, <1>3, <1>4

LEMMA LineUntouched ==
  ASSUME LineInv, UNCHANGED line, UNCHANGED job
  PROVE  LineInv'
  BY DEF LineInv, line, FrameAsked

LEMMA ShortenedQueue ==
  ASSUME NEW q \in Seq(Token), q # << >>
  PROVE  Lost(q) \in Seq(Token) /\ Spoilt(q) \in Seq(Token)
<1>1. Noise \in Token
  BY DEF Token
<1>2. Tail(q) \in Seq(Token)
  OBVIOUS
<1>3. <<Noise>> \in Seq(Token)
  BY <1>1
<1> QED BY <1>2, <1>3 DEF Lost, Spoilt

\* Reading from the line, or losing or spoiling what is next on it.
LEMMA LineShortened ==
  ASSUME LineInv, UNCHANGED job,
         \/ UNCHANGED toTarget
         \/ toTarget # << >> /\ toTarget' \in {Lost(toTarget), Spoilt(toTarget)}
         \/ toTarget' = << >>,
         \/ UNCHANGED toHost
         \/ toHost # << >> /\ toHost' \in {Lost(toHost), Spoilt(toHost)}
         \/ toHost' = << >>
  PROVE  LineInv'
<1> USE DEF LineInv
<1>1. Noise \in Token /\ Noise.t # "crc"
  BY DEF Token, Noise
<1>2. toTarget' \in Seq(Token)
  <2>1. CASE UNCHANGED toTarget
    BY <2>1
  <2>2. CASE toTarget # << >> /\ toTarget' \in {Lost(toTarget), Spoilt(toTarget)}
    BY <2>2, ShortenedQueue
  <2>3. CASE toTarget' = << >>
    BY <2>3
  <2> QED BY <2>1, <2>2, <2>3
<1>3. toHost' \in Seq(Token)
  <2>1. CASE UNCHANGED toHost
    BY <2>1
  <2>2. CASE toHost # << >> /\ toHost' \in {Lost(toHost), Spoilt(toHost)}
    BY <2>2, ShortenedQueue
  <2>3. CASE toHost' = << >>
    BY <2>3
  <2> QED BY <2>1, <2>2, <2>3
<1>4. \A i \in 1 .. Len(toTarget') :
        toTarget'[i].t = "crc" => FrameAsked(toTarget'[i].frame)
  <2>1. CASE UNCHANGED toTarget
    BY <2>1
  <2>2. CASE toTarget # << >> /\ toTarget' = Lost(toTarget)
    BY <2>2 DEF Lost
  <2>3. CASE toTarget # << >> /\ toTarget' = Spoilt(toTarget)
    <3>1. Len(toTarget') = Len(toTarget) /\ toTarget'[1] = Noise
      BY <2>3 DEF Spoilt
    <3>2. \A i \in 2 .. Len(toTarget) : toTarget'[i] = toTarget[i]
      BY <2>3 DEF Spoilt
    <3> QED BY <3>1, <3>2, <1>1
  <2>4. CASE toTarget' = << >>
    BY <2>4
  <2> QED BY <2>1, <2>2, <2>3, <2>4
<1>5. \A f : FrameAsked(f) => FrameAsked(f)'
  BY DEF FrameAsked
<1> QED BY <1>2, <1>3, <1>4, <1>5

-------------------------------------------------------------------------------
(* The host's steps. *)

LEMMA JobTyped ==
  ASSUME HostInv
  PROVE  /\ job \in Jobs /\ Total \in Nat /\ pos \in Nat /\ pos <= Total
         /\ job.offset \in Nat /\ job.skew \in Nat
         /\ \A i \in 1 .. Total : job.image[i] \in SUBSET Bits
         /\ job.raw.command \in Commands /\ job.raw.address \in Nat
         /\ job.raw.payload \in Seq(ItemSet)
         /\ \A i \in 1 .. Len(job.raw.payload) :
              IF job.raw.command = "PROGRAM"
                THEN job.raw.payload[i].word \in SUBSET Bits
                ELSE job.raw.payload[i].length \in Nat
<1>1. job \in Jobs
  BY DEF HostInv, HostTyped
<1>2. job.image \in Seq(SUBSET Bits) /\ job.offset \in Nat /\ job.skew \in 0 .. 3
  BY <1>1, JobsAssumption
<1>3. job.raw.command \in Commands /\ job.raw.address \in Nat
  BY <1>1, JobsAssumption
<1>4. Total \in Nat /\ pos \in Nat /\ pos <= Total
  BY <1>2 DEF HostInv, HostTyped, Total
<1>5. CASE job.raw.command = "PROGRAM"
  <2> DEFINE payload == job.raw.payload
  <2>1. payload \in Seq([word : SUBSET Bits])
    BY <1>1, <1>5, JobsAssumption
  <2> HIDE DEF payload
  <2>2. \A i \in 1 .. Len(payload) : payload[i] \in [word : SUBSET Bits]
    BY <2>1, Elements
  <2>3. \A i \in 1 .. Len(payload) :
          payload[i] \in ItemSet /\ payload[i].word \in SUBSET Bits
    BY <2>2 DEF ItemSet
  <2>4. payload \in Seq(ItemSet)
    BY <2>1, <2>3, Widened
  <2> QED BY <1>1, <1>2, <1>3, <1>4, <1>5, <2>3, <2>4 DEF Total, payload
<1>6. CASE job.raw.command # "PROGRAM"
  <2> DEFINE payload == job.raw.payload
  <2>1. payload \in Seq([length : Nat])
    BY <1>1, <1>6, JobsAssumption
  <2> HIDE DEF payload
  <2>2. \A i \in 1 .. Len(payload) : payload[i] \in [length : Nat]
    BY <2>1, Elements
  <2>3. \A i \in 1 .. Len(payload) :
          payload[i] \in ItemSet /\ payload[i].length \in Nat
    BY <2>2 DEF ItemSet
  <2>4. payload \in Seq(ItemSet)
    BY <2>1, <2>3, Widened
  <2> QED BY <1>1, <1>2, <1>3, <1>4, <1>6, <2>3, <2>4 DEF Total, payload
<1> QED BY <1>5, <1>6

LEMMA ChunkTyped ==
  ASSUME HostInv
  PROVE  Chunk \in Nat /\ pos + Chunk <= Total
  BY JobTyped DEF Chunk, HostInv, HostTyped

LEMMA FinishKeeps ==
  ASSUME HostInv, NEW result \in {"ok", "error"}, Finish(result)
  PROVE  HostInv'
<1>1. HostTyped'
  <2>1. hheader' \in HeaderSet /\ hheader'.length <= MaxPayload
    BY NoHeaderTyped, MaxPayloadAssumption DEF Finish, ReceiverReset
  <2>2. hbody' \in Seq(Token) /\ Len(hbody') <= hheader'.length + 1
    BY NoHeaderTyped DEF Finish, ReceiverReset
  <2>3. pos' \in 0 .. Total'
    BY JobTyped DEF Finish, Total
  <2>4. /\ job' \in Jobs /\ outcome' \in {"none", "running", "ok", "error"}
        /\ stage' \in Stages /\ tries' \in 0 .. Retries
    BY RetriesAssumption DEF Finish, HostInv, HostTyped, Stages
  <2>5. sequence' \in 0 .. SequenceModulus - 1
    BY DEF Finish, SequenceModulus
  <2>6. info'.max \in Nat /\ hphase' \in {"send", "seek", "header", "body"}
    BY DEF Finish, ReceiverReset, NoInfo
  <2> QED BY <2>1, <2>2, <2>3, <2>4, <2>5, <2>6 DEF HostTyped
<1>2. HostPlace'
  BY DEF Finish, ReceiverReset, HostPlace, Running
<1> QED BY <1>1, <1>2 DEF HostInv

\* The frames the host builds.
Asking(command, address, payload) ==
  [Frame("request", sequence, command, "OK", address, payload)
   EXCEPT !.skew = job.skew]

LEMMA AskingTyped ==
  ASSUME HostInv, NEW command \in Commands, NEW address \in Nat,
         NEW payload \in Seq(ItemSet)
  PROVE  /\ Asking(command, address, payload) \in FrameSet
         /\ Asking(command, address, payload).command = command
         /\ Asking(command, address, payload).address = address
         /\ Asking(command, address, payload).payload = payload
<1>1. sequence \in Nat /\ job.skew \in Nat
  BY JobTyped DEF HostInv, HostTyped
<1>2. Asking(command, address, payload) =
        [kind |-> "request", sequence |-> sequence, command |-> command,
         status |-> "OK", address |-> address, skew |-> job.skew,
         payload |-> payload, version |-> 1]
  BY DEF Asking, Frame, Version
<1>3. "OK" \in Statuses
  BY DEF Statuses
<1> QED BY <1>1, <1>2, <1>3 DEF FrameSet

\* A request is a frame, and the command line asks for what it burns.
LEMMA RequestAsked ==
  ASSUME HostInv, Running
  PROVE  HostRequest \in FrameSet /\ FrameAsked(HostRequest)
<1>1. PICK f : f = HostRequest
  OBVIOUS
<1>2. Commands = {"HELLO", "READ", "PROGRAM", "STATUS", "LOCK"}
  BY DEF Commands
<1>3. stage \in Stages
  BY DEF HostInv, HostTyped
<1> SUFFICES f \in FrameSet /\ FrameAsked(f)
  BY <1>1
<1>4. CASE stage \in {"hello", "status", "lock"}
  <2>1. PICK command \in {"HELLO", "STATUS", "LOCK"} : f = Asking(command, 0, << >>)
    BY <1>1, <1>4 DEF HostRequest, Asking
  <2>2. PICK p : p = << >>
    OBVIOUS
  <2>3. p \in Seq(ItemSet) /\ command \in Commands /\ 0 \in Nat
    BY <1>2, <2>2
  <2>4. /\ Asking(command, 0, p) \in FrameSet
        /\ Asking(command, 0, p).command = command
    BY <2>3, AskingTyped
  <2>5. f = Asking(command, 0, p)
    BY <2>1, <2>2
  <2> QED BY <2>4, <2>5 DEF FrameAsked
<1>5. CASE stage \in {"read", "check"}
  <2>1. f = Asking("READ", job.offset + pos, <<Length(Chunk)>>)
    BY <1>1, <1>5 DEF HostRequest, Asking
  <2>2. Length(Chunk) \in ItemSet /\ Length(Chunk).length \in Nat
    BY ChunkTyped DEF Length, ItemSet
  <2>3. PICK p : p = <<Length(Chunk)>>
    OBVIOUS
  <2>4. p \in Seq(ItemSet) /\ \A i \in 1 .. Len(p) : p[i].length \in Nat
    BY <2>2, <2>3
  <2>5. PICK a \in Nat : a = job.offset + pos
    BY JobTyped
  <2>6. "READ" \in Commands
    BY <1>2
  <2>7. Asking("READ", a, p) \in FrameSet
    BY <2>4, <2>6, AskingTyped
  <2>8. Asking("READ", a, p).command = "READ" /\ Asking("READ", a, p).payload = p
    BY <2>4, <2>6, AskingTyped
  <2>9. f = Asking("READ", a, p)
    BY <2>1, <2>3, <2>5
  <2> QED BY <2>4, <2>7, <2>8, <2>9 DEF FrameAsked
<1>6. CASE stage = "burn"
  <2> DEFINE words == [i \in 1 .. Chunk |-> Word(job.image[pos + i])]
  <2>1. f = Asking("PROGRAM", job.offset + pos, words)
    BY <1>1, <1>6 DEF HostRequest, Asking
  <2>2. \A i \in 1 .. Chunk : pos + i \in 1 .. Total
    BY JobTyped, ChunkTyped
  <2>3. \A i \in 1 .. Chunk :
          Word(job.image[pos + i]) \in ItemSet
            /\ Word(job.image[pos + i]).word = job.image[pos + i]
            /\ job.image[pos + i] \in SUBSET Bits
    BY <2>2, JobTyped DEF Word, ItemSet
  <2>4. words \in Seq(ItemSet) /\ Len(words) = Chunk
    BY <2>3, ChunkTyped
  <2>5. job.offset + pos \in Nat
    BY JobTyped
  <2>6. \A i \in 1 .. Chunk : words[i].word = job.image[pos + i]
    BY <2>3
  <2>7. ASSUME NEW i \in 1 .. Chunk, job.offset + pos + i - 1 \in Addresses
        PROVE  <<job.offset + pos + i - 1, job.image[pos + i]>> \in AskedBy(job)
    <3>1. job.operation = "program" /\ job.confirmed
      BY <1>6 DEF HostInv, HostPlace
    <3>2. <<job.offset + (pos + i) - 1, job.image[pos + i]>> \in
            {<<job.offset + k - 1, job.image[k]>> : k \in 1 .. Len(job.image)}
      BY <2>2 DEF Total
    <3>3. job.offset + (pos + i) - 1 = job.offset + pos + i - 1
      BY JobTyped, ChunkTyped
    <3> QED BY <2>3, <2>7, <3>1, <3>2, <3>3 DEF AskedBy
  <2> HIDE DEF words
  <2>8. /\ f \in FrameSet /\ f.command = "PROGRAM" /\ f.payload = words
        /\ f.address = job.offset + pos
    BY <1>2, <2>1, <2>4, <2>5, AskingTyped
  <2>9. ASSUME NEW i \in 1 .. Len(f.payload)
        PROVE  /\ f.payload[i].word \in SUBSET Bits
               /\ f.address + i - 1 \in Addresses =>
                    <<f.address + i - 1, f.payload[i].word>> \in AskedBy(job)
    <3>1. i \in 1 .. Chunk /\ f.payload[i].word = job.image[pos + i]
      BY <2>4, <2>6, <2>8
    <3> QED BY <2>3, <2>7, <2>8, <3>1
  <2> QED BY <2>8, <2>9 DEF FrameAsked
<1>7. CASE stage = "raw"
  <2>1. f = Asking(job.raw.command, job.raw.address, job.raw.payload)
    BY <1>1, <1>7 DEF HostRequest, Asking
  <2>2. /\ f \in FrameSet /\ f.command = job.raw.command
        /\ f.payload = job.raw.payload /\ f.address = job.raw.address
    BY <2>1, JobTyped, AskingTyped
  <2>3. ASSUME job.raw.command = "PROGRAM", NEW i \in 1 .. Len(job.raw.payload),
               job.raw.address + i - 1 \in Addresses
        PROVE  <<job.raw.address + i - 1, job.raw.payload[i].word>> \in AskedBy(job)
    <3>1. job.operation = "raw"
      BY <1>7 DEF HostInv, HostPlace
    <3> QED BY <2>3, <3>1, JobTyped DEF AskedBy
  <2>4. f.command = "PROGRAM" =>
          \A i \in 1 .. Len(f.payload) : f.payload[i].word \in SUBSET Bits
    BY <2>2, JobTyped
  <2>5. f.command = "READ" =>
          \A i \in 1 .. Len(f.payload) : f.payload[i].length \in Nat
    BY <2>2, JobTyped
  <2>6. f.command = "PROGRAM" =>
          \A i \in 1 .. Len(f.payload) : f.address + i - 1 \in Addresses =>
            <<f.address + i - 1, f.payload[i].word>> \in AskedBy(job)
    BY <2>2, <2>3
  <2> QED BY <2>2, <2>4, <2>5, <2>6 DEF FrameAsked
<1> QED BY <1>3, <1>4, <1>5, <1>6, <1>7 DEF Stages

LEMMA StartJobKeeps ==
  ASSUME StartJob
  PROVE  HostInv'
<1>1. PICK j \in Jobs :
        /\ job' = j
        /\ outcome' = IF j.confirmed THEN "running" ELSE "error"
        /\ stage' =
             IF j.operation \in {"status", "raw"} THEN j.operation ELSE "hello"
  BY DEF StartJob
<1>2. hheader' \in HeaderSet /\ hheader'.length = 0 /\ hbody' = << >>
  BY NoHeaderTyped DEF StartJob, ReceiverReset
<1>3. Total' \in Nat
  BY <1>1, JobsAssumption DEF Total
<1>4. HostTyped'
  <2>1. pos' \in 0 .. Total' /\ tries' \in 0 .. Retries
    BY <1>3, RetriesAssumption DEF StartJob
  <2>2. sequence' \in 0 .. SequenceModulus - 1 /\ info'.max \in Nat
    BY DEF StartJob, SequenceModulus, NoInfo
  <2>3. hphase' = "send"
    BY DEF StartJob, ReceiverReset
  <2>4. stage' \in Stages
    BY <1>1 DEF Stages
  <2>5. hheader'.length <= MaxPayload /\ Len(hbody') <= hheader'.length + 1
    BY <1>2, MaxPayloadAssumption
  <2>6. hbody' \in Seq(Token)
    BY <1>2
  <2> QED BY <1>1, <1>2, <2>1, <2>2, <2>3, <2>4, <2>5, <2>6 DEF HostTyped
<1>5. HostPlace'
  BY <1>1, <1>2 DEF HostPlace, Running
<1> QED BY <1>4, <1>5 DEF HostInv

LEMMA EnterKeeps ==
  ASSUME HostInv, Running, NEW next \in {"burn", "check"},
         next = "burn" => job.operation = "program",
         Enter(next)
  PROVE  HostInv'
<1>1. pos' \in 0 .. Total'
  BY JobTyped DEF Enter, Total
<1>2. HostTyped'
  BY <1>1 DEF HostInv, HostTyped, Enter, Stages, Total, receiverVars
<1>3. HostPlace'
  BY DEF HostInv, HostPlace, Enter, Running, receiverVars
<1> QED BY <1>2, <1>3 DEF HostInv

LEMMA TurnKeeps ==
  ASSUME HostInv, Turn
  PROVE  HostInv'
<1>1. CASE \E result \in {"ok", "error"} : Finish(result)
  BY <1>1, FinishKeeps
<1>2. CASE Enter("check")
  BY <1>2, EnterKeeps DEF Turn
<1>3. CASE job.operation = "program" /\ Enter("burn")
  BY <1>3, EnterKeeps DEF Turn
<1>4. \/ \E result \in {"ok", "error"} : Finish(result)
      \/ Enter("check")
      \/ job.operation = "program" /\ Enter("burn")
  BY DEF Turn
<1> QED BY <1>1, <1>2, <1>3, <1>4

LEMMA SendKeeps ==
  ASSUME HostInv, Send
  PROVE  HostInv'
<1>1. HostTyped'
  BY DEF HostInv, HostTyped, Send, jobVars, Total
<1>2. HostPlace'
  BY DEF HostInv, HostPlace, Send, jobVars, Running
<1> QED BY <1>1, <1>2 DEF HostInv

\* What is next on a line is a token.
LEMMA HeadTyped ==
  ASSUME NEW q \in Seq(Token), q # << >>
  PROVE  Head(q) \in Token
  OBVIOUS

LEMMA HostReceives ==
  ASSUME HostInv, LineInv, HostSeek \/ HostHeader \/ HostBody
  PROVE  HostInv'
<1>1. Head(toHost) \in Token
  BY HeadTyped DEF LineInv, HostSeek, HostHeader, HostBody, HostReads
<1>2. CASE HostSeek
  <2>1. hphase' \in {"seek", "header"}
    BY <1>2 DEF HostSeek
  <2>2. HostTyped'
    BY <1>2, <2>1 DEF HostSeek, HostInv, HostTyped, jobVars, Total
  <2>3. HostPlace'
    BY <1>2, <2>1 DEF HostSeek, HostInv, HostPlace, jobVars, Running
  <2> QED BY <2>2, <2>3 DEF HostInv
<1>3. CASE HostHeader
  <2>1. PICK h \in HeaderReadings(Head(toHost)) :
          IF h.length > MaxPayload
            THEN Finish("error")
            ELSE /\ hphase' = "body" /\ hheader' = h
                 /\ UNCHANGED <<jobVars, tries, hbody>>
    BY <1>3 DEF HostHeader
  <2>2. CASE h.length > MaxPayload
    BY <2>1, <2>2, FinishKeeps
  <2>3. CASE ~(h.length > MaxPayload)
    <3>1. hheader' = h /\ h \in HeaderSet /\ h.length \in Nat
      BY <1>1, <2>1, <2>3, HeadersTyped DEF HeaderSet
    <3>2. h.length <= MaxPayload
      BY <2>3, <3>1, MaxPayloadAssumption
    <3>3. hphase' = "body" /\ UNCHANGED <<jobVars, tries, hbody>>
      BY <2>1, <2>3
    <3>4. hbody = << >>
      BY <1>3 DEF HostHeader, HostInv, HostPlace
    <3>5. Len(hbody') <= hheader'.length + 1
      BY <3>1, <3>3, <3>4
    <3>6. HostTyped'
      BY <3>1, <3>2, <3>3, <3>5 DEF HostInv, HostTyped, jobVars, Total
    <3>7. HostPlace'
      BY <3>3 DEF HostInv, HostPlace, jobVars, Running
    <3> QED BY <3>6, <3>7 DEF HostInv
  <2> QED BY <2>2, <2>3
<1>4. CASE HostBody
  <2>1. hheader.length \in Nat /\ Len(hbody) \in Nat
    BY DEF HostInv, HostTyped, HeaderSet
  <2>2. Len(hbody) < hheader.length + 1
    BY <1>4, <2>1 DEF HostInv, HostTyped, HostBody, AnswerRead
  <2>3. hbody' = Append(hbody, Head(toHost)) /\ hphase = "body"
    BY <1>4 DEF HostBody
  <2>4. hbody' \in Seq(Token) /\ Len(hbody') = Len(hbody) + 1
    BY <1>1, <2>3 DEF HostInv, HostTyped
  <2>5. Len(hbody') <= hheader'.length + 1
    BY <1>4, <2>1, <2>2, <2>4 DEF HostBody
  <2>6. HostTyped'
    BY <1>4, <2>4, <2>5 DEF HostInv, HostTyped, HostBody, jobVars, Total
  <2>7. HostPlace'
    BY <1>4 DEF HostInv, HostPlace, HostBody, jobVars, Running
  <2> QED BY <2>6, <2>7 DEF HostInv
<1> QED BY <1>2, <1>3, <1>4

\* Sequence numbers wrap.
LEMMA Wraps ==
  ASSUME NEW n \in Nat, NEW modulus \in Nat \ {0}
  PROVE  n % modulus \in 0 .. modulus - 1
  OBVIOUS

LEMMA ProceedKeeps ==
  ASSUME HostInv, NEW next \in Stages, NEW done \in Nat, NEW words,
         done <= Total, next = "burn" => stage = "burn", next # "raw",
         info'.max \in Nat,
         Proceed(next, done, words)
  PROVE  HostInv'
<1>1. Total' = Total /\ Total \in Nat
  BY JobTyped DEF Proceed, Total
<1>2. pos' \in 0 .. Total' /\ tries' \in 0 .. Retries
  BY <1>1, RetriesAssumption DEF Proceed
<1>3. sequence' \in 0 .. SequenceModulus - 1
  <2>1. PICK n \in Nat : n = sequence + 1
    BY DEF HostInv, HostTyped, SequenceModulus
  <2>2. PICK modulus \in Nat \ {0} : modulus = SequenceModulus
    BY DEF SequenceModulus
  <2>3. sequence' = n % modulus
    BY <2>1, <2>2 DEF Proceed
  <2>4. n % modulus \in 0 .. modulus - 1
    BY Wraps
  <2> QED BY <2>2, <2>3, <2>4
<1>4. hheader' \in HeaderSet /\ hheader'.length = 0 /\ hbody' = << >>
  BY NoHeaderTyped DEF Proceed, ReceiverReset
<1>5. hheader'.length <= MaxPayload /\ Len(hbody') <= hheader'.length + 1
  BY <1>4, MaxPayloadAssumption
<1>6. hbody' \in Seq(Token)
  BY <1>4
<1>7. HostTyped'
  BY <1>2, <1>3, <1>4, <1>5, <1>6
     DEF HostInv, HostTyped, Proceed, ReceiverReset
<1>8. HostPlace'
  BY <1>4 DEF HostInv, HostPlace, Proceed, ReceiverReset, Running
<1> QED BY <1>7, <1>8 DEF HostInv

LEMMA TakeAnswerKeeps ==
  ASSUME HostInv, TakeAnswer
  PROVE  HostInv'
<1>1. CASE \E result \in {"ok", "error"} : Finish(result)
  BY <1>1, FinishKeeps
<1>2. CASE HelloAnswered /\ ~\E result \in {"ok", "error"} : Finish(result)
  <2>1. PICK next \in {"lock", "check", "read"} :
          info' = hbody[1].item.device /\ Proceed(next, 0, << >>)
    BY <1>2 DEF HelloAnswered
  <2>2. hbody[1].item.device.max \in 1 .. MaxPayload
    BY <1>2 DEF HelloAnswered, Matches
  <2>3. info'.max \in Nat
    BY <2>1, <2>2, MaxPayloadAssumption
  <2>4. next \in Stages /\ next # "burn" /\ next # "raw" /\ 0 \in Nat /\ 0 <= Total
    BY JobTyped DEF Stages
  <2> QED BY <2>1, <2>3, <2>4, ProceedKeeps
<1>3. CASE ChunkAnswered
  <2> DEFINE words == [i \in 1 .. Chunk |-> hbody[i].item.word]
             read == IF stage = "burn" THEN << >> ELSE got \o words
  <2>1. Proceed(stage, pos + Chunk, read) /\ info' = info
    BY <1>3 DEF ChunkAnswered
  <2>2. stage \in Stages /\ stage # "raw"
    BY <1>3 DEF ChunkAnswered, Loops, Stages
  <2>3. pos + Chunk \in Nat /\ pos + Chunk <= Total
    BY JobTyped, ChunkTyped
  <2>4. info'.max \in Nat
    BY <2>1 DEF HostInv, HostTyped
  <2> HIDE DEF read
  <2> DEFINE done == pos + Chunk
  <2>5. PICK r, s, d : r = read /\ s = stage /\ d = pos + Chunk
    OBVIOUS
  <2>6. Proceed(s, d, r)
    BY <2>1, <2>5
  <2>7. s \in Stages /\ d \in Nat /\ d <= Total /\ s # "raw"
    BY <2>2, <2>3, <2>5
  <2> QED BY <2>4, <2>5, <2>6, <2>7, ProceedKeeps
<1>4. \/ \E result \in {"ok", "error"} : Finish(result)
      \/ HelloAnswered \/ ChunkAnswered
  BY DEF TakeAnswer, Rejected, LastAnswered
<1> QED BY <1>1, <1>2, <1>3, <1>4

LEMMA TimeOutKeeps ==
  ASSUME HostInv, TimeOut
  PROVE  HostInv'
<1>1. CASE Finish("error")
  BY <1>1, FinishKeeps
<1>2. CASE ~Finish("error")
  <2>1. tries < Retries /\ tries' = tries + 1 /\ ReceiverReset /\ UNCHANGED jobVars
    BY <1>2 DEF TimeOut
  <2>2. tries' \in 0 .. Retries
    BY <2>1, RetriesAssumption DEF HostInv, HostTyped
  <2>3. hheader' \in HeaderSet /\ hheader'.length = 0 /\ hbody' = << >>
    BY <2>1, NoHeaderTyped DEF ReceiverReset
  <2>4. hheader'.length <= MaxPayload /\ Len(hbody') <= hheader'.length + 1
    BY <2>3, MaxPayloadAssumption
  <2>5. hbody' \in Seq(Token)
    BY <2>3
  <2>6. HostTyped'
    BY <2>1, <2>2, <2>3, <2>4, <2>5
       DEF HostInv, HostTyped, jobVars, ReceiverReset, Total
  <2>7. HostPlace'
    BY <2>1, <2>3 DEF HostInv, HostPlace, jobVars, ReceiverReset, Running
  <2> QED BY <2>6, <2>7 DEF HostInv
<1> QED BY <1>1, <1>2

-------------------------------------------------------------------------------
(* The registers of the OTP. *)

LEMMA RegisterWrites ==
  ASSUME NEW o \in OtpState, NEW a \in Nat, NEW v \in SUBSET Bits,
         NEW match \in BOOLEAN
  PROVE  /\ WriteAddr(o, a) \in OtpState
         /\ WriteWdata(o, v) \in OtpState
         /\ WriteKey(o, match) \in OtpState
         /\ WriteLock(o) \in OtpState
         /\ WriteClear(o) \in OtpState
         /\ OtpClock(o) \in OtpState
         /\ ResetOtp(o.words) \in OtpState
<1>1. /\ WriteAddr(o, a) \in OtpState
      /\ WriteWdata(o, v) \in OtpState
      /\ WriteKey(o, match) \in OtpState
  BY DEF OtpState, WriteAddr, WriteWdata, WriteKey
<1>2. WriteLock(o) \in OtpState
  BY DEF OtpState, WriteLock
<1>3. WriteClear(o) \in OtpState
  BY DEF OtpState, WriteClear
<1>4. OtpClock(o) \in OtpState
  BY DEF OtpState, OtpClock
<1>5. ResetOtp(o.words) \in OtpState
  BY DEF OtpState, ResetOtp
<1> QED BY <1>1, <1>2, <1>3, <1>4, <1>5

\* RDATA is a word, the one ADDR selects.
LEMMA WordRead ==
  ASSUME NEW o \in OtpState
  PROVE  /\ Rdata(o) \in SUBSET Bits
         /\ \A a \in Addresses : Rdata(WriteAddr(o, a)) = o.words[a]
         /\ \A a \in Nat : Rdata(WriteAddr(o, a)) \in SUBSET Bits
  BY DepthAssumption DEF OtpState, Rdata, WriteAddr, Addresses

\* What the write that starts a pulse does to the OTP.
StartPulse(o, a, v) ==
  WriteStart(WriteWdata(WriteAddr(WriteKey(WriteClear(o), TRUE), a), v))

LEMMA Programmed ==
  ASSUME NEW o \in OtpState, NEW a \in Nat, NEW v \in SUBSET Bits,
         ~o.locked, a \in Addresses, v \subseteq o.words[a]
  PROVE  /\ StartPulse(o, a, v) \in OtpState
         /\ StartPulse(o, a, v).locked = o.locked
         /\ StartPulse(o, a, v).words = [o.words EXCEPT ![a] = v]
<1>0. PICK p : p = StartPulse(o, a, v)
  OBVIOUS
<1>1. PICK w : w = WriteWdata(WriteAddr(WriteKey(WriteClear(o), TRUE), a), v)
  OBVIOUS
<1>2. w \in OtpState
  <2>1. PICK x : x = WriteClear(o)
    OBVIOUS
  <2>2. x \in OtpState
    BY <2>1, RegisterWrites
  <2>3. PICK y : y = WriteKey(x, TRUE)
    OBVIOUS
  <2>4. y \in OtpState
    BY <2>2, <2>3, RegisterWrites
  <2>5. PICK z : z = WriteAddr(y, a)
    OBVIOUS
  <2>6. z \in OtpState
    BY <2>4, <2>5, RegisterWrites
  <2>7. w = WriteWdata(z, v)
    BY <1>1, <2>1, <2>3, <2>5
  <2> QED BY <2>6, <2>7, RegisterWrites
<1>3. /\ w.words = o.words /\ w.addr = a /\ w.wdata = v
      /\ w.unlocked = TRUE /\ w.locked = o.locked
  BY <1>1 DEF OtpState, WriteWdata, WriteAddr, WriteKey, WriteClear
<1>4. PICK q : q = Pulse(w)
  OBVIOUS
<1>5. p = [w EXCEPT !.words = q, !.busy = TRUE, !.done = Legal(w), !.error = ~Legal(w)]
  BY <1>0, <1>1, <1>4 DEF StartPulse, WriteStart
<1>6. Legal(w) \in BOOLEAN
  BY DEF Legal
<1>7. Legal(w)
  BY <1>3, DepthAssumption DEF Legal, Rdata, Addresses
<1>8. q = [o.words EXCEPT ![a] = v]
  <2>1. o.words[a] \cap v = v
    OBVIOUS
  <2>2. q = [o.words EXCEPT ![a] = @ \cap v]
    BY <1>3, <1>4, <1>7 DEF Pulse
  <2> QED BY <2>1, <2>2
<1>9. q \in [Addresses -> SUBSET Bits]
  BY <1>8 DEF OtpState
<1>10. p \in OtpState
  BY <1>2, <1>5, <1>6, <1>9 DEF OtpState
<1>11. p.words = q /\ p.locked = w.locked
  BY <1>2, <1>5 DEF OtpState
<1> QED BY <1>0, <1>3, <1>8, <1>10, <1>11

-------------------------------------------------------------------------------
(* The requests the loader has whole. *)

\* What makes a request one to be carried out.
LEMMA Accepted ==
  ASSUME Refusal = "OK"
  PROVE  /\ Intact(lheader, lbody)
         /\ ~BadLength /\ ~BadAddress /\ ~BadCommand
         /\ Asks("PROGRAM") => IllegalWords = {}
  BY DEF Refusal

\* A sound request is the one its CRC was computed over.
LEMMA SoundRequest ==
  ASSUME TargetInv, Intact(lheader, lbody)
  PROVE  /\ Asks("READ") =>
              \A i \in 1 .. lheader.length : lbody[i].item.length \in Nat
         /\ Asks("PROGRAM") =>
              \A i \in 1 .. lheader.length :
                /\ RequestWord(i) \in SUBSET Bits
                /\ Request.address + i - 1 \in Addresses =>
                     <<Request.address + i - 1, RequestWord(i)>> \in AskedBy(job)
<1> DEFINE n == lheader.length
<1>1. n \in Nat /\ lheader.frame \in FrameSet
  BY DEF TargetInv, TargetTyped, HeaderSet
<1>2. Len(lbody) = n + 1 /\ lbody[n + 1].t = "crc"
  BY DEF Intact
<1>3. PICK f : f = lbody[n + 1].frame
  OBVIOUS
<1>4. FrameAsked(f)
  BY <1>2, <1>3 DEF TargetInv, LoaderAsked, BodyRead
<1>5. f = [lheader.frame EXCEPT !.payload = Items(lheader, lbody)]
  BY <1>3 DEF Intact
<1>6. /\ f.command = Request.command /\ f.address = Request.address
      /\ f.payload = Items(lheader, lbody)
  BY <1>1, <1>5 DEF FrameSet, Request
<1>7. Len(f.payload) = n /\ \A i \in 1 .. n : f.payload[i] = lbody[i].item
  BY <1>1, <1>6 DEF Items
<1>8. ASSUME Asks("READ"), NEW i \in 1 .. n
      PROVE  lbody[i].item.length \in Nat
  <2>1. f.payload[i].length \in Nat
    BY <1>4, <1>6, <1>7, <1>8 DEF FrameAsked, Asks
  <2> QED BY <1>7, <2>1
<1>9. ASSUME Asks("PROGRAM"), NEW i \in 1 .. n
      PROVE  /\ RequestWord(i) \in SUBSET Bits
             /\ Request.address + i - 1 \in Addresses =>
                  <<Request.address + i - 1, RequestWord(i)>> \in AskedBy(job)
  <2>1. /\ f.payload[i].word \in SUBSET Bits
        /\ f.address + i - 1 \in Addresses =>
             <<f.address + i - 1, f.payload[i].word>> \in AskedBy(job)
    BY <1>4, <1>6, <1>7, <1>9 DEF FrameAsked, Asks
  <2>2. RequestWord(i) = f.payload[i].word
    BY <1>7 DEF RequestWord
  <2> QED BY <1>6, <2>1, <2>2
<1> QED BY <1>8, <1>9 DEF n

\* A request carried out is about words of the array.
LEMMA SpanTyped ==
  ASSUME TargetInv, Refusal = "OK"
  PROVE  /\ Span \in Nat
         /\ Asks("READ") \/ Asks("PROGRAM") => Request.address + Span <= Depth
<1>1. lheader.length \in Nat /\ Request.address \in Nat
  BY DEF TargetInv, TargetTyped, HeaderSet, FrameSet, Request
<1>2. device.size \in 0 .. Depth
  BY DevicesAssumption DEF TargetInv, TargetTyped
<1>3. Span \in Nat
  <2>1. CASE Asks("READ")
    <3>1. lheader.length = 1
      BY <2>1, Accepted DEF BadLength
    <3>2. 1 \in 1 .. lheader.length
      BY <3>1
    <3> QED BY <2>1, <3>2, Accepted, SoundRequest DEF Span
  <2>2. CASE ~Asks("READ")
    BY <1>1, <2>2 DEF Span
  <2> QED BY <2>1, <2>2
<1>4. ASSUME Asks("READ") \/ Asks("PROGRAM")
      PROVE  Request.address + Span <= Depth
  <2>1. ~(Request.address > device.size) /\ ~(Span > device.size - Request.address)
    BY <1>4, Accepted DEF BadAddress, Asks
  <2> QED BY <1>1, <1>2, <1>3, <2>1, DepthAssumption
<1> QED BY <1>3, <1>4

LEMMA RefusalTyped ==
  Refusal \in Statuses
  BY DEF Refusal, Statuses

-------------------------------------------------------------------------------
(* The loader's steps. *)

\* An answer leaves the loader idle; what is on the line stays typed.
LEMMA BackToSeek ==
  ASSUME TargetInv, otp' \in OtpState, ~otp'.unlocked, device' = device,
         lphase' = "seek", lheader' = NoHeader, lbody' = << >>, lpos' = 0
  PROVE  TargetInv'
<1>1. lheader' \in HeaderSet /\ lheader'.length = 0
  BY NoHeaderTyped
<1>2. lbody' \in Seq(Token) /\ Len(lbody') = 0
  OBVIOUS
<1>3. lheader'.length <= MaxPayload
  BY <1>1, MaxPayloadAssumption
<1>4. TargetTyped'
  BY <1>1, <1>2, <1>3 DEF TargetInv, TargetTyped, LoaderPhases
<1>5. TargetPlace'
  BY DEF TargetPlace
<1>6. LoaderAsked'
  BY <1>1, <1>2 DEF LoaderAsked, BodyRead
<1>7. FrameBurnable'
  BY DEF FrameBurnable
<1> QED BY <1>4, <1>5, <1>6, <1>7 DEF TargetInv

LEMMA ResponseTyped ==
  ASSUME TargetInv, NEW status \in Statuses, NEW payload \in Seq(ItemSet)
  PROVE  [Frame("response", Request.sequence, Request.command, status,
                Request.address, IF status = "OK" THEN payload ELSE << >>)
          EXCEPT !.version = device.version] \in FrameSet
<1>1. Request \in FrameSet /\ device.version \in Nat
  BY DevicesAssumption DEF TargetInv, TargetTyped, HeaderSet, Request
<1>2. PICK p \in Seq(ItemSet) : p = IF status = "OK" THEN payload ELSE << >>
  <2>1. << >> \in Seq(ItemSet)
    OBVIOUS
  <2> QED BY <2>1
<1>3. [Frame("response", Request.sequence, Request.command, status,
             Request.address, p) EXCEPT !.version = device.version]
        = [kind |-> "response", sequence |-> Request.sequence,
           command |-> Request.command, status |-> status,
           address |-> Request.address, skew |-> 0, payload |-> p,
           version |-> device.version]
  BY DEF Frame
<1>4. PICK r : r = [Frame("response", Request.sequence, Request.command, status,
                          Request.address, p) EXCEPT !.version = device.version]
  OBVIOUS
<1>5. r \in FrameSet
  BY <1>1, <1>3, <1>4 DEF FrameSet
<1> QED BY <1>2, <1>4, <1>5

LEMMA RespondKeeps ==
  ASSUME TargetInv, LineInv, NEW status \in Statuses, NEW payload \in Seq(ItemSet),
         Respond(status, payload), otp' \in OtpState, ~otp'.unlocked,
         UNCHANGED <<device, toTarget, job>>
  PROVE  TargetInv' /\ LineInv'
<1>1. TargetInv'
  BY BackToSeek DEF Respond
<1>2. PICK f \in FrameSet : toHost' = toHost \o Encode(f)
  BY ResponseTyped DEF Respond, ToHost
<1>3. toHost' \in Seq(Token)
  BY <1>2, EncodedFrame DEF LineInv
<1>4. LineInv'
  BY <1>3 DEF LineInv, FrameAsked
<1> QED BY <1>1, <1>4

LEMMA SeekKeeps ==
  ASSUME TargetInv, LineInv, Seek, UNCHANGED job
  PROVE  TargetInv' /\ LineInv'
<1>1. lphase' \in {"seek", "half", "header"}
  BY DEF Seek
<1>2. UNCHANGED <<otp, device, toHost, lheader, lbody, lpos>> /\ lphase \in {"seek", "half"}
  BY DEF Seek
<1>3. TargetTyped'
  BY <1>1, <1>2 DEF TargetInv, TargetTyped, LoaderPhases
<1>4. TargetPlace'
  BY <1>1, <1>2 DEF TargetInv, TargetPlace
<1>5. LoaderAsked'
  BY <1>2 DEF TargetInv, LoaderAsked, BodyRead, FrameAsked
<1>6. FrameBurnable'
  BY <1>1 DEF FrameBurnable
<1>7. LineInv'
  BY <1>2, LineShortened DEF Seek, LoaderReads, Lost
<1> QED BY <1>3, <1>4, <1>5, <1>6, <1>7 DEF TargetInv

LEMMA ReadHeaderKeeps ==
  ASSUME TargetInv, LineInv, ReadHeader, UNCHANGED job
  PROVE  TargetInv' /\ LineInv'
<1>1. PICK h \in HeaderReadings(Head(toTarget)) :
        IF h.length > MaxPayload
          THEN lphase' = "seek" /\ UNCHANGED lheader
          ELSE lphase' = "body" /\ lheader' = h
  BY DEF ReadHeader
<1>2. UNCHANGED <<otp, device, toHost, lbody, lpos>> /\ lphase = "header"
  BY DEF ReadHeader
<1>3. h \in HeaderSet /\ h.length \in Nat
  <2>1. Head(toTarget) \in Token
    BY HeadTyped DEF LineInv, ReadHeader, LoaderReads
  <2> QED BY <1>1, <2>1, HeadersTyped DEF HeaderSet
<1>4. lheader = NoHeader /\ lbody = << >> /\ lpos = 0 /\ ~otp.unlocked
  BY <1>2 DEF TargetInv, TargetPlace
<1>5. LineInv'
  BY <1>2, LineShortened DEF ReadHeader, LoaderReads, Lost
<1>6. CASE h.length > MaxPayload
  BY <1>1, <1>2, <1>4, <1>5, <1>6, BackToSeek DEF TargetInv, TargetTyped
<1>7. CASE ~(h.length > MaxPayload)
  <2>1. lphase' = "body" /\ lheader' = h
    BY <1>1, <1>7
  <2>2. h.length <= MaxPayload
    BY <1>3, <1>7, MaxPayloadAssumption
  <2>3. lpos' \in 0 .. lheader'.length /\ Len(lbody') <= lheader'.length + 1
    BY <1>2, <1>3, <1>4, <2>1
  <2>4. TargetTyped'
    BY <1>2, <1>3, <2>1, <2>2, <2>3 DEF TargetInv, TargetTyped, LoaderPhases
  <2>5. TargetPlace'
    BY <1>2, <1>4, <2>1 DEF TargetPlace
  <2>6. ~BodyRead'
    BY <1>2, <1>3, <1>4, <2>1 DEF BodyRead
  <2>7. LoaderAsked' /\ FrameBurnable'
    BY <2>1, <2>6 DEF LoaderAsked, FrameBurnable
  <2> QED BY <1>5, <2>4, <2>5, <2>7 DEF TargetInv
<1> QED BY <1>6, <1>7

LEMMA ReadBodyKeeps ==
  ASSUME TargetInv, LineInv, ReadBody, UNCHANGED job
  PROVE  TargetInv' /\ LineInv'
<1>1. /\ lphase = "body" /\ ~BodyRead
      /\ lbody' = Append(lbody, Head(toTarget))
      /\ UNCHANGED <<otp, device, toHost, lphase, lheader, lpos>>
  BY DEF ReadBody
<1>2. Head(toTarget) \in Token /\ Head(toTarget) = toTarget[1] /\ 1 \in 1 .. Len(toTarget)
  BY HeadTyped DEF LineInv, ReadBody, LoaderReads
<1>3. lheader.length \in Nat /\ Len(lbody) \in Nat /\ lbody \in Seq(Token)
  BY DEF TargetInv, TargetTyped, HeaderSet
<1>4. Len(lbody) < lheader.length + 1
  BY <1>1, <1>3 DEF BodyRead, TargetInv, TargetTyped
<1>5. /\ lbody' \in Seq(Token) /\ Len(lbody') = Len(lbody) + 1
      /\ lbody'[Len(lbody) + 1] = Head(toTarget)
  BY <1>1, <1>2, <1>3
<1>6. Len(lbody') <= lheader'.length + 1
  BY <1>1, <1>3, <1>4, <1>5
<1>7. TargetTyped'
  BY <1>1, <1>5, <1>6 DEF TargetInv, TargetTyped
<1>8. TargetPlace'
  BY <1>1 DEF TargetInv, TargetPlace
<1>9. LoaderAsked'
  <2> SUFFICES ASSUME BodyRead', (lbody[lheader.length + 1].t = "crc")'
               PROVE  FrameAsked(lbody[lheader.length + 1].frame)'
    BY DEF LoaderAsked
  <2>1. lheader'.length + 1 = Len(lbody) + 1
    BY <1>1, <1>3, <1>5 DEF BodyRead
  <2>2. PICK f : f = toTarget[1].frame
    OBVIOUS
  <2>3. toTarget[1].t = "crc" /\ (lbody[lheader.length + 1].frame)' = f
    BY <1>2, <1>5, <2>1, <2>2
  <2>4. FrameAsked(f)
    BY <1>2, <2>2, <2>3 DEF LineInv
  <2>5. FrameAsked(f)'
    BY <2>4 DEF FrameAsked
  <2> QED BY <2>3, <2>5 DEF FrameAsked
<1>10. FrameBurnable'
  BY <1>1 DEF FrameBurnable
<1>11. LineInv'
  BY <1>1, LineShortened DEF ReadBody, LoaderReads, Lost
<1> QED BY <1>7, <1>8, <1>9, <1>10, <1>11 DEF TargetInv

\* The address an OTP register is left at is a number.
LEMMA RefuseKeeps ==
  ASSUME TargetInv, LineInv, Refuse, UNCHANGED job
  PROVE  TargetInv' /\ LineInv'
<1>1. /\ lphase = "body" /\ Respond(Refusal, << >>)
      /\ UNCHANGED <<device, toTarget>>
  BY DEF Refuse
<1>2. ~otp.unlocked /\ otp \in OtpState
  BY <1>1 DEF TargetInv, TargetPlace, TargetTyped
<1>3. otp' \in OtpState /\ ~otp'.unlocked
  <2>1. CASE Refusal = "ILLEGAL_TRANSITION"
    <3>1. PICK i \in IllegalWords : otp' = WriteAddr(otp, Request.address + i - 1)
      BY <2>1 DEF Refuse, AfterIllegal
    <3>2. i \in 1 .. lheader.length
      BY <3>1 DEF IllegalWords
    <3>3. lheader.length \in Nat /\ Request.address \in Nat
      BY DEF TargetInv, TargetTyped, HeaderSet, FrameSet, Request
    <3>4. PICK a \in Nat : a = Request.address + i - 1
      BY <3>2, <3>3
    <3>5. otp' = WriteAddr(otp, a)
      BY <3>1, <3>4
    <3> QED BY <1>2, <3>5, RegisterWrites DEF WriteAddr, OtpState
  <2>2. CASE Refusal # "ILLEGAL_TRANSITION"
    BY <1>2, <2>2 DEF Refuse
  <2> QED BY <2>1, <2>2
<1>4. PICK status \in Statuses : status = Refusal
  BY RefusalTyped
<1>5. PICK p : p = << >> /\ p \in Seq(ItemSet)
  <2>1. << >> \in Seq(ItemSet)
    OBVIOUS
  <2> QED BY <2>1
<1>6. Respond(status, p)
  BY <1>1, <1>4, <1>5
<1> QED BY <1>1, <1>3, <1>5, <1>6, RespondKeeps

\* The answer to a request carried out.
LEMMA AnswerTyped ==
  ASSUME TargetInv, Refusal = "OK"
  PROVE  Answer \in Seq(ItemSet)
<1>1. CASE Request.command = "HELLO"
  <2>1. Geometry(device) \in ItemSet
    BY DEF Geometry, ItemSet, TargetInv, TargetTyped
  <2>2. Answer = <<Geometry(device)>>
    BY <1>1 DEF Answer
  <2> QED BY <2>1, <2>2
<1>2. CASE Request.command = "READ"
  <2> DEFINE words == [i \in 1 .. Span |-> Word(ReadWord(Request.address + i - 1))]
  <2>1. Span \in Nat /\ Request.address \in Nat /\ otp \in OtpState
    BY SpanTyped DEF TargetInv, TargetTyped, HeaderSet, FrameSet, Request
  <2>2. ASSUME NEW i \in 1 .. Span
        PROVE  Word(ReadWord(Request.address + i - 1)) \in ItemSet
    <3>1. PICK a \in Nat : a = Request.address + i - 1
      BY <2>1
    <3>2. ReadWord(a) \in SUBSET Bits
      BY <2>1, WordRead DEF ReadWord
    <3>3. Word(ReadWord(a)) \in ItemSet
      BY <3>2 DEF Word, ItemSet
    <3> QED BY <3>1, <3>3
  <2>3. words \in Seq(ItemSet)
    BY <2>1, <2>2
  <2>4. Answer = words
    BY <1>2 DEF Answer
  <2> QED BY <2>3, <2>4
<1>3. CASE Request.command = "STATUS"
  <2>1. StatusBits(otp.locked) \in ItemSet
    BY DEF StatusBits, ItemSet, TargetInv, TargetTyped, OtpState
  <2>2. Answer = <<StatusBits(otp.locked)>>
    BY <1>3 DEF Answer
  <2> QED BY <2>1, <2>2
<1>4. CASE Request.command \notin {"HELLO", "READ", "STATUS"}
  <2>1. Answer = << >>
    BY <1>4 DEF Answer
  <2>2. << >> \in Seq(ItemSet)
    OBVIOUS
  <2> QED BY <2>1, <2>2
<1> QED BY <1>1, <1>2, <1>3, <1>4

\* Checking or reading the words of a request moves ADDR only.
LEMMA ReadsTyped ==
  ASSUME TargetInv, Refusal = "OK"
  PROVE  /\ AfterReads \in OtpState
         /\ AfterReads.words = otp.words /\ AfterReads.locked = otp.locked
         /\ AfterReads.unlocked = otp.unlocked
<1>1. otp \in OtpState /\ Request.address \in Nat /\ Span \in Nat
  BY SpanTyped DEF TargetInv, TargetTyped, HeaderSet, FrameSet, Request
<1>2. CASE Span = 0
  BY <1>1, <1>2 DEF AfterReads
<1>3. CASE Span # 0
  <2>1. PICK a \in Nat : a = Request.address + Span - 1
    BY <1>1, <1>3
  <2>2. AfterReads = WriteAddr(otp, a)
    BY <1>3, <2>1 DEF AfterReads
  <2> QED BY <1>1, <2>2, RegisterWrites DEF WriteAddr, OtpState
<1> QED BY <1>2, <1>3

LEMMA CarryKeeps ==
  ASSUME TargetInv, LineInv, Carry, UNCHANGED job
  PROVE  /\ TargetInv' /\ LineInv'
         /\ otp'.words = otp.words
         /\ otp'.locked = otp.locked \/ otp'.locked = TRUE
<1>1. /\ lphase = "body" /\ Refusal = "OK" /\ Respond("OK", Answer)
      /\ UNCHANGED <<device, toTarget>>
  BY DEF Carry
<1>2. otp \in OtpState /\ ~otp.unlocked
  BY <1>1 DEF TargetInv, TargetTyped, TargetPlace
<1>3. /\ otp' \in OtpState /\ ~otp'.unlocked /\ otp'.words = otp.words
      /\ otp'.locked = otp.locked \/ otp'.locked = TRUE
  <2>1. CASE Request.command = "LOCK"
    <3>1. otp' = WriteLock(otp)
      BY <2>1 DEF Carry
    <3> QED BY <1>2, <3>1 DEF WriteLock, OtpState
  <2>2. CASE Request.command = "READ"
    <3>1. otp' = AfterReads
      BY <2>2 DEF Carry
    <3> QED BY <1>1, <1>2, <3>1, ReadsTyped
  <2>3. CASE Request.command \notin {"LOCK", "READ"}
    <3>1. otp' = otp
      BY <2>3 DEF Carry
    <3> QED BY <1>2, <3>1
  <2> QED BY <2>1, <2>2, <2>3
<1>4. PICK p : p = Answer /\ p \in Seq(ItemSet)
  BY <1>1, AnswerTyped
<1>5. Respond("OK", p) /\ "OK" \in Statuses
  BY <1>1, <1>4 DEF Statuses
<1> QED BY <1>1, <1>3, <1>4, <1>5, RespondKeeps

\* The check of the whole frame is what makes it burnable.
LEMMA StartBurningKeeps ==
  ASSUME TargetInv, LineInv, StartBurning, UNCHANGED job
  PROVE  /\ TargetInv' /\ LineInv'
         /\ otp'.words = otp.words /\ otp'.locked = otp.locked
<1>1. /\ lphase = "body" /\ BodyRead /\ Refusal = "OK" /\ Request.command = "PROGRAM"
      /\ lphase' = "burn" /\ otp' = AfterReads
      /\ UNCHANGED <<device, toTarget, toHost, lheader, lbody, lpos>>
  BY DEF StartBurning
<1>2. /\ otp' \in OtpState /\ otp'.words = otp.words
      /\ otp'.locked = otp.locked /\ otp'.unlocked = otp.unlocked
  BY <1>1, ReadsTyped
<1>3. TargetTyped'
  BY <1>1, <1>2 DEF TargetInv, TargetTyped, LoaderPhases
<1>4. TargetPlace'
  BY <1>1, <1>2 DEF TargetInv, TargetPlace, BodyRead
<1>5. LoaderAsked'
  BY <1>1 DEF TargetInv, LoaderAsked, BodyRead, FrameAsked
<1>6. ASSUME NEW i \in 1 .. lheader.length
      PROVE  /\ Request.address + i - 1 \in Addresses
             /\ RequestWord(i) \in SUBSET Bits
             /\ <<Request.address + i - 1, RequestWord(i)>> \in AskedBy(job)
             /\ RequestWord(i) \subseteq otp.words[Request.address + i - 1]
  <2>1. lheader.length \in Nat /\ Request.address \in Nat /\ otp \in OtpState
    BY DEF TargetInv, TargetTyped, HeaderSet, FrameSet, Request
  <2>2. Asks("PROGRAM") /\ Span = lheader.length
    BY <1>1 DEF Asks, Span
  <2>3. Request.address + lheader.length <= Depth
    BY <1>1, <2>2, SpanTyped
  <2>4. PICK a : a = Request.address + i - 1 /\ a \in Addresses
    BY <2>1, <2>3, DepthAssumption DEF Addresses
  <2>5. RequestWord(i) \subseteq ReadWord(a)
    BY <1>1, <2>2, <2>4, Accepted DEF IllegalWords
  <2>6. ReadWord(a) = otp.words[a]
    BY <2>1, <2>4, WordRead DEF ReadWord
  <2>7. /\ RequestWord(i) \in SUBSET Bits
        /\ <<Request.address + i - 1, RequestWord(i)>> \in AskedBy(job)
    BY <1>1, <2>2, <2>4, Accepted, SoundRequest
  <2> QED BY <2>4, <2>5, <2>6, <2>7
<1>7. FrameBurnable'
  BY <1>1, <1>2, <1>6 DEF FrameBurnable, Request, RequestWord
<1>8. LineInv'
  BY <1>1 DEF LineInv, FrameAsked
<1> QED BY <1>2, <1>3, <1>4, <1>5, <1>7, <1>8 DEF TargetInv

\* A pulse leaves the word it is about as the frame has it, and the others alone.
LEMMA BurnWordKeeps ==
  ASSUME TargetInv, LineInv, BurnWord, UNCHANGED job
  PROVE  /\ TargetInv' /\ LineInv'
         /\ otp'.locked = otp.locked
         /\ \/ otp.locked /\ otp'.words = otp.words
            \/ /\ ~otp.locked
               /\ lpos + 1 \in 1 .. lheader.length
               /\ otp'.words = [otp.words EXCEPT ![Request.address + lpos] = RequestWord(lpos + 1)]
<1>1. lphase = "burn" /\ lpos < lheader.length /\ UNCHANGED <<device, toTarget>>
  BY DEF BurnWord
<1>2. otp \in OtpState /\ ~otp.unlocked
  BY <1>1 DEF TargetInv, TargetTyped, TargetPlace
<1>3. lheader.length \in Nat /\ lpos \in Nat /\ Request.address \in Nat
  BY DEF TargetInv, TargetTyped, HeaderSet, FrameSet, Request
<1>4. CASE otp.locked
  <2>1. Respond("LOCKED", << >>) /\ otp' = otp
    BY <1>4 DEF BurnWord
  <2>2. PICK p : p = << >> /\ p \in Seq(ItemSet)
    <3>1. << >> \in Seq(ItemSet)
      OBVIOUS
    <3> QED BY <3>1
  <2>3. Respond("LOCKED", p) /\ "LOCKED" \in Statuses
    BY <2>1, <2>2 DEF Statuses
  <2> QED BY <1>1, <1>2, <1>4, <2>1, <2>2, <2>3, RespondKeeps
<1>5. CASE ~otp.locked
  <2>1. PICK a, v : a = Request.address + lpos /\ v = RequestWord(lpos + 1)
    OBVIOUS
  <2>2. lpos + 1 \in 1 .. lheader.length /\ Request.address + (lpos + 1) - 1 = a
    BY <1>1, <1>3, <2>1
  <2>3. /\ a \in Addresses /\ v \in SUBSET Bits /\ v \subseteq otp.words[a]
    BY <1>1, <2>1, <2>2 DEF TargetInv, FrameBurnable
  <2>4. a \in Nat
    BY <1>3, <2>1
  <2>5. PICK p : p = otp'
    OBVIOUS
  <2>6. /\ p = StartPulse(otp, a, v)
        /\ lphase' = "pulse" /\ UNCHANGED <<toHost, lheader, lbody, lpos>>
    BY <1>5, <2>1, <2>5 DEF BurnWord, StartPulse
  <2>7. PICK o : o = otp
    OBVIOUS
  <2>8. /\ p \in OtpState /\ p.locked = o.locked
        /\ p.words = [o.words EXCEPT ![a] = v]
    <3>1. p = StartPulse(o, a, v)
      BY <2>6, <2>7
    <3>2. o \in OtpState
      BY <1>2, <2>7
    <3>3. ~o.locked /\ v \subseteq o.words[a]
      BY <1>5, <2>3, <2>7
    <3>4. a \in Addresses /\ v \in SUBSET Bits
      BY <2>3
    <3> QED BY <2>4, <3>1, <3>2, <3>3, <3>4, Programmed
  <2>9. TargetTyped'
    BY <1>1, <2>5, <2>6, <2>8 DEF TargetInv, TargetTyped, LoaderPhases
  <2>10. TargetPlace'
    BY <1>1, <2>6 DEF TargetInv, TargetPlace, BodyRead
  <2>11. LoaderAsked'
    BY <1>1, <2>6 DEF TargetInv, LoaderAsked, BodyRead, FrameAsked
  <2>12. FrameBurnable'
    <3> SUFFICES ASSUME NEW i \in 1 .. lheader.length
                 PROVE  /\ Request.address + i - 1 \in Addresses
                        /\ RequestWord(i) \in SUBSET Bits
                        /\ <<Request.address + i - 1, RequestWord(i)>> \in AskedBy(job)
                        /\ RequestWord(i) \subseteq p.words[Request.address + i - 1]
      BY <2>5, <2>6 DEF FrameBurnable, Request, RequestWord
    <3>1. PICK b, w : b = Request.address + i - 1 /\ w = RequestWord(i)
      OBVIOUS
    <3>2. /\ b \in Addresses /\ w \in SUBSET Bits
          /\ <<b, w>> \in AskedBy(job) /\ w \subseteq otp.words[b]
      BY <1>1, <3>1 DEF TargetInv, FrameBurnable
    <3>3. CASE b = a
      <4>1. i = lpos + 1
        BY <1>3, <2>1, <3>1, <3>3
      <4>2. w = v /\ p.words[b] = v
        BY <1>2, <2>1, <2>3, <2>7, <2>8, <3>1, <3>3, <4>1 DEF OtpState
      <4> QED BY <3>1, <3>2, <4>2
    <3>4. CASE b # a
      <4>1. p.words[b] = otp.words[b]
        BY <1>2, <2>3, <2>7, <2>8, <3>2, <3>4 DEF OtpState
      <4> QED BY <3>1, <3>2, <4>1
    <3> QED BY <3>3, <3>4
  <2>13. LineInv'
    BY <1>1, <2>6 DEF LineInv, FrameAsked
  <2>14. otp'.locked = otp.locked /\ otp'.words = [otp.words EXCEPT ![a] = v]
    BY <2>5, <2>7, <2>8
  <2> QED BY <1>5, <2>1, <2>2, <2>9, <2>10, <2>11, <2>12, <2>13, <2>14 DEF TargetInv
<1> QED BY <1>4, <1>5

LEMMA WordDoneKeeps ==
  ASSUME TargetInv, LineInv, WordDone, UNCHANGED job
  PROVE  /\ TargetInv' /\ LineInv'
         /\ otp'.words = otp.words /\ otp'.locked = otp.locked
<1>1. /\ lphase = "pulse" /\ otp' = WriteKey(otp, FALSE) /\ UNCHANGED <<device, toTarget>>
  BY DEF WordDone
<1>2. otp \in OtpState /\ lpos < lheader.length
  BY <1>1 DEF TargetInv, TargetTyped, TargetPlace
<1>3. /\ otp' \in OtpState /\ ~otp'.unlocked
      /\ otp'.words = otp.words /\ otp'.locked = otp.locked
  BY <1>1, <1>2 DEF WriteKey, OtpState
<1>4. CASE Respond("PROGRAM_ERROR", << >>)
  <2>1. PICK p : p = << >> /\ p \in Seq(ItemSet)
    <3>1. << >> \in Seq(ItemSet)
      OBVIOUS
    <3> QED BY <3>1
  <2>2. Respond("PROGRAM_ERROR", p) /\ "PROGRAM_ERROR" \in Statuses
    BY <1>4, <2>1 DEF Statuses
  <2> QED BY <1>1, <1>3, <2>1, <2>2, RespondKeeps
<1>5. CASE ~Respond("PROGRAM_ERROR", << >>)
  <2>1. lphase' = "burn" /\ lpos' = lpos + 1 /\ UNCHANGED <<toHost, lheader, lbody>>
    BY <1>5 DEF WordDone
  <2>2. lpos' \in 0 .. lheader'.length
    BY <1>2, <2>1 DEF TargetInv, TargetTyped, HeaderSet
  <2>3. TargetTyped'
    BY <1>1, <1>3, <2>1, <2>2 DEF TargetInv, TargetTyped, LoaderPhases
  <2>4. TargetPlace'
    BY <1>1, <1>3, <2>1 DEF TargetInv, TargetPlace, BodyRead
  <2>5. LoaderAsked'
    BY <2>1 DEF TargetInv, LoaderAsked, BodyRead, FrameAsked
  <2>6. FrameBurnable'
    BY <1>1, <1>3, <2>1 DEF TargetInv, FrameBurnable, Request, RequestWord
  <2>7. LineInv'
    BY <1>1, <2>1 DEF LineInv, FrameAsked
  <2> QED BY <1>3, <2>3, <2>4, <2>5, <2>6, <2>7 DEF TargetInv
<1> QED BY <1>4, <1>5

LEMMA FrameBurntKeeps ==
  ASSUME TargetInv, LineInv, FrameBurnt, UNCHANGED job
  PROVE  TargetInv' /\ LineInv'
<1>1. lphase = "burn" /\ Respond("OK", << >>) /\ UNCHANGED <<otp, device, toTarget>>
  BY DEF FrameBurnt
<1>2. otp' \in OtpState /\ ~otp'.unlocked
  BY <1>1 DEF TargetInv, TargetTyped, TargetPlace
<1>3. PICK p : p = << >> /\ p \in Seq(ItemSet)
  <2>1. << >> \in Seq(ItemSet)
    OBVIOUS
  <2> QED BY <2>1
<1>4. Respond("OK", p) /\ "OK" \in Statuses
  BY <1>1, <1>3 DEF Statuses
<1> QED BY <1>1, <1>2, <1>3, <1>4, RespondKeeps

LEMMA ClockKeeps ==
  ASSUME TargetInv, LineInv, Clock, UNCHANGED job
  PROVE  /\ TargetInv' /\ LineInv'
         /\ otp'.words = otp.words /\ otp'.locked = otp.locked
<1>1. otp' = OtpClock(otp) /\ UNCHANGED <<device, toTarget, toHost, lphase, lheader, lbody, lpos>>
  BY DEF Clock, loaderVars
<1>2. otp \in OtpState
  BY DEF TargetInv, TargetTyped
<1>3. /\ otp' \in OtpState /\ otp'.unlocked = otp.unlocked
      /\ otp'.words = otp.words /\ otp'.locked = otp.locked
  BY <1>1, <1>2 DEF OtpClock, OtpState
<1>4. TargetTyped'
  BY <1>1, <1>3 DEF TargetInv, TargetTyped
<1>5. TargetPlace'
  BY <1>1, <1>3 DEF TargetInv, TargetPlace, BodyRead
<1>6. LoaderAsked'
  BY <1>1 DEF TargetInv, LoaderAsked, BodyRead, FrameAsked
<1>7. FrameBurnable'
  BY <1>1, <1>3 DEF TargetInv, FrameBurnable, Request, RequestWord
<1>8. LineInv'
  BY <1>1 DEF LineInv, FrameAsked
<1> QED BY <1>3, <1>4, <1>5, <1>6, <1>7, <1>8 DEF TargetInv

LEMMA ResetKeeps ==
  ASSUME TargetInv, LineInv, ResetLoader, UNCHANGED job
  PROVE  /\ TargetInv' /\ LineInv'
         /\ otp'.words = otp.words /\ otp'.locked = FALSE
<1>1. otp' = ResetOtp(otp.words) /\ device' = device /\ toTarget' = << >>
  BY DEF ResetLoader
<1>2. otp \in OtpState
  BY DEF TargetInv, TargetTyped
<1>3. /\ otp' \in OtpState /\ ~otp'.unlocked
      /\ otp'.words = otp.words /\ otp'.locked = FALSE
  BY <1>1, <1>2 DEF ResetOtp, OtpState
<1>4. TargetInv'
  BY <1>1, <1>3, BackToSeek DEF ResetLoader
<1>5. PICK n \in 0 .. Len(toHost) : toHost' = SubSeq(toHost, 1, n)
  BY DEF ResetLoader
<1>6. toHost' \in Seq(Token)
  BY <1>5 DEF LineInv
<1>7. LineInv'
  BY <1>1, <1>6 DEF LineInv
<1> QED BY <1>3, <1>4, <1>7

-------------------------------------------------------------------------------
(* The invariant. *)

LEMMA InitInv ==
  ASSUME Init
  PROVE  Inv
<1> USE DEF Init, HostInit, LineInit, LoaderInit, LoaderIdle
<1>1. HostInv
  <2>1. hheader \in HeaderSet /\ hheader.length = 0
    BY NoHeaderTyped
  <2>2. hheader.length <= MaxPayload /\ tries \in 0 .. Retries
    BY <2>1, MaxPayloadAssumption, RetriesAssumption
  <2>3. hbody \in Seq(Token) /\ Len(hbody) <= hheader.length + 1
    BY <2>1
  <2>4. Total \in Nat
    BY JobsAssumption DEF Total
  <2>5. pos \in 0 .. Total /\ sequence \in 0 .. SequenceModulus - 1
    BY <2>4 DEF SequenceModulus
  <2>6. info.max \in Nat /\ stage \in Stages
    BY DEF NoInfo, Stages
  <2>7. HostTyped
    BY <2>1, <2>2, <2>3, <2>5, <2>6 DEF HostTyped
  <2>8. HostPlace
    BY DEF HostPlace, Running
  <2> QED BY <2>7, <2>8 DEF HostInv
<1>2. TargetInv
  <2>1. lheader \in HeaderSet /\ lheader.length = 0
    BY NoHeaderTyped
  <2>2. lheader.length <= MaxPayload
    BY <2>1, MaxPayloadAssumption
  <2>3. otp \in OtpState /\ ~otp.unlocked
    <3>1. PICK w : w = [a \in Addresses |-> Bits]
      OBVIOUS
    <3>2. Bits \in SUBSET Bits /\ {} \in SUBSET Bits
      OBVIOUS
    <3>3. w \in [Addresses -> SUBSET Bits]
      BY <3>1, <3>2
    <3>4. otp = ResetOtp(w)
      BY <3>1
    <3> QED BY <3>2, <3>3, <3>4 DEF ResetOtp, OtpState
  <2>4. TargetTyped
    BY <2>1, <2>2, <2>3 DEF TargetTyped, LoaderPhases
  <2>5. TargetPlace
    BY <2>3 DEF TargetPlace
  <2>6. LoaderAsked
    BY <2>1 DEF LoaderAsked, BodyRead
  <2>7. FrameBurnable
    BY DEF FrameBurnable
  <2> QED BY <2>4, <2>5, <2>6, <2>7 DEF TargetInv
<1>3. LineInv
  BY DEF LineInv
<1>4. MishapTyped
  BY MishapsAssumption DEF MishapTyped
<1> QED BY <1>1, <1>2, <1>3, <1>4 DEF Inv

\* A host step keeps the job and the target as they are.
LEMMA HostKeeps ==
  ASSUME Inv, HostStep, UNCHANGED targetVars
  PROVE  /\ HostInv' /\ TargetInv' /\ LineInv'
         /\ UNCHANGED job
<1> USE DEF Inv
<1>1. CASE (Turn \/ TakeAnswer) /\ UNCHANGED line
  <2>1. UNCHANGED job
    BY <1>1 DEF Turn, TakeAnswer, Rejected, HelloAnswered, ChunkAnswered,
                LastAnswered, Finish, Enter, Proceed
  <2> QED BY <1>1, <2>1, TurnKeeps, TakeAnswerKeeps, TargetUntouched, LineUntouched
<1>2. CASE Send /\ UNCHANGED toHost
  <2>1. UNCHANGED job
    BY <1>2 DEF Send, jobVars
  <2>2. PICK f : f = HostRequest
    OBVIOUS
  <2>3. f \in FrameSet /\ FrameAsked(f)
    BY <1>2, <2>2, RequestAsked DEF Send
  <2>4. toTarget' = toTarget \o Encode(f)
    BY <1>2, <2>2 DEF Send, ToTarget
  <2>5. PICK e : e = Encode(f)
    OBVIOUS
  <2>6. e \in Seq(Token) /\ \A i \in 1 .. Len(e) : e[i].t = "crc" => e[i].frame = f
    BY <2>3, <2>5, EncodedFrame
  <2>7. toTarget \in Seq(Token)
    BY DEF LineInv
  <2>8. toTarget \o e \in Seq(Token) /\ Len(toTarget \o e) = Len(toTarget) + Len(e)
    BY <2>6, <2>7
  <2>9. ASSUME NEW i \in 1 .. Len(toTarget) + Len(e), (toTarget \o e)[i].t = "crc"
        PROVE  FrameAsked((toTarget \o e)[i].frame)
    <3>1. CASE i <= Len(toTarget)
      <4>1. (toTarget \o e)[i] = toTarget[i] /\ i \in 1 .. Len(toTarget)
        BY <2>6, <2>7, <3>1
      <4> QED BY <2>9, <4>1 DEF LineInv
    <3>2. CASE i > Len(toTarget)
      <4>1. (toTarget \o e)[i] = e[i - Len(toTarget)] /\ i - Len(toTarget) \in 1 .. Len(e)
        BY <2>6, <2>7, <3>2
      <4> QED BY <2>3, <2>6, <2>9, <4>1
    <3> QED BY <2>7, <3>1, <3>2
  <2>10. PICK q : q = toTarget \o e
    OBVIOUS
  <2>11. q = toTarget' /\ q \in Seq(Token)
    BY <2>4, <2>5, <2>8, <2>10
  <2>12. \A i \in 1 .. Len(q) : q[i].t = "crc" => FrameAsked(q[i].frame)
    BY <2>8, <2>9, <2>10
  <2>13. \A i \in 1 .. Len(q) : q[i].t = "crc" => FrameAsked(q[i].frame)'
    BY <2>1, <2>12 DEF FrameAsked
  <2>14. LineInv'
    BY <1>2, <2>11, <2>13 DEF LineInv
  <2> QED BY <1>2, <2>1, <2>14, SendKeeps, TargetUntouched
<1>3. CASE (HostSeek \/ HostHeader \/ HostBody) /\ UNCHANGED toTarget
  <2>1. UNCHANGED job
    BY <1>3 DEF HostSeek, HostHeader, HostBody, Finish, jobVars
  <2>2. toHost # << >> /\ toHost' = Lost(toHost)
    BY <1>3 DEF HostSeek, HostHeader, HostBody, HostReads, Lost
  <2> QED BY <1>3, <2>1, <2>2, HostReceives, TargetUntouched, LineShortened
<1> QED BY <1>1, <1>2, <1>3 DEF HostStep

\* What a step of the loader does to the OTP.
WordsBurnt ==
  /\ lphase = "burn" /\ ~otp.locked
  /\ lpos + 1 \in 1 .. lheader.length
  /\ otp'.words = [otp.words EXCEPT ![Request.address + lpos] = RequestWord(lpos + 1)]
  /\ otp'.locked = otp.locked

LEMMA LoaderKeeps ==
  ASSUME Inv, LoaderStep, UNCHANGED job
  PROVE  /\ TargetInv' /\ LineInv'
         /\ \/ otp'.words = otp.words /\ otp'.locked \in {otp.locked, TRUE}
            \/ WordsBurnt
         /\ device' = device
<1> USE DEF Inv
<1>1. CASE Seek
  BY <1>1, SeekKeeps DEF Seek
<1>2. CASE ReadHeader
  BY <1>2, ReadHeaderKeeps DEF ReadHeader
<1>3. CASE ReadBody
  BY <1>3, ReadBodyKeeps DEF ReadBody
<1>4. CASE Refuse
  <2>1. otp \in OtpState
    BY DEF TargetInv, TargetTyped
  <2>2. otp'.words = otp.words /\ otp'.locked = otp.locked
    BY <1>4, <2>1 DEF Refuse, AfterIllegal, WriteAddr, OtpState
  <2>3. device' = device
    BY <1>4 DEF Refuse
  <2> QED BY <1>4, <2>2, <2>3, RefuseKeeps
<1>5. CASE Carry
  BY <1>5, CarryKeeps DEF Carry
<1>6. CASE StartBurning
  BY <1>6, StartBurningKeeps DEF StartBurning
<1>7. CASE BurnWord
  BY <1>7, BurnWordKeeps DEF BurnWord, WordsBurnt
<1>8. CASE WordDone
  BY <1>8, WordDoneKeeps DEF WordDone
<1>9. CASE FrameBurnt
  BY <1>9, FrameBurntKeeps DEF FrameBurnt
<1>10. CASE Clock
  BY <1>10, ClockKeeps DEF Clock
<1> QED BY <1>1, <1>2, <1>3, <1>4, <1>5, <1>6, <1>7, <1>8, <1>9, <1>10 DEF LoaderStep

\* A job starts on a quiet line and with a loader that has no whole frame.
LEMMA StartKeeps ==
  ASSUME Inv, Start
  PROVE  HostInv' /\ TargetInv' /\ LineInv'
<1> USE DEF Inv
<1>1. HostInv'
  BY StartJobKeeps DEF Start
<1>2. LineInv'
  BY DEF Start, LineInv
<1>3. UNCHANGED <<otp, device, lphase, lheader, lbody, lpos>>
  BY DEF Start, targetVars, loaderVars
<1>4. TargetTyped'
  BY <1>3 DEF TargetInv, TargetTyped
<1>5. TargetPlace'
  BY <1>3 DEF TargetInv, TargetPlace, BodyRead
<1>6. ~BodyRead /\ lphase \notin {"burn", "pulse"}
  <2>1. CASE lphase = "body"
    BY <2>1 DEF Start, TargetQuiet
  <2>2. CASE lphase # "body"
    <3>1. lheader = NoHeader /\ lbody = << >> /\ lphase \notin {"burn", "pulse"}
      BY <2>2 DEF Start, TargetQuiet, TargetInv, TargetPlace
    <3> QED BY <3>1, NoHeaderTyped DEF BodyRead
  <2> QED BY <2>1, <2>2
<1>7. LoaderAsked' /\ FrameBurnable'
  BY <1>3, <1>6 DEF LoaderAsked, FrameBurnable, BodyRead
<1> QED BY <1>1, <1>2, <1>4, <1>5, <1>7 DEF TargetInv

LEMMA MishapKeeps ==
  ASSUME Inv, NEW worst, Mishap(worst), device' = device
  PROVE  MishapTyped'
<1>1. device \in Devices
  BY DEF Inv, TargetInv, TargetTyped
<1>2. Mishaps[device] \in Nat
  BY <1>1, MishapsAssumption
<1> QED BY <1>2 DEF Inv, MishapTyped, Mishap

LEMMA StepInv ==
  ASSUME Inv, [Next]_vars
  PROVE  Inv'
<1>1. CASE Start
  <2>1. MishapTyped'
    BY <1>1 DEF Start, Inv, MishapTyped, targetVars
  <2> QED BY <1>1, <2>1, StartKeeps DEF Inv
<1>2. CASE Host
  <2>1. MishapTyped'
    BY <1>2 DEF Host, Inv, MishapTyped, mishapVars, targetVars
  <2> QED BY <1>2, <2>1, HostKeeps DEF Inv, Host
<1>3. CASE Loader
  <2>1. UNCHANGED hostVars /\ UNCHANGED mishapVars /\ UNCHANGED job
    BY <1>3 DEF Loader, hostVars, jobVars
  <2>2. TargetInv' /\ LineInv' /\ device' = device
    BY <1>3, <2>1, LoaderKeeps DEF Loader
  <2>3. MishapTyped'
    BY <2>1, <2>2 DEF Inv, MishapTyped, mishapVars
  <2> QED BY <2>1, <2>2, <2>3, HostUntouched DEF Inv
<1>4. CASE DeadTimeOut \/ LateTimeOut
  <2>1. TimeOut /\ UNCHANGED line /\ UNCHANGED targetVars
    BY <1>4 DEF DeadTimeOut, LateTimeOut
  <2>2. UNCHANGED job
    BY <2>1 DEF TimeOut, Finish, jobVars
  <2>3. HostInv' /\ TargetInv' /\ LineInv'
    BY <2>1, <2>2, TimeOutKeeps, TargetUntouched, LineUntouched DEF Inv
  <2>4. MishapTyped'
    BY <1>4, <2>1, MishapKeeps
       DEF DeadTimeOut, LateTimeOut, Inv, MishapTyped, mishapVars, targetVars
  <2> QED BY <2>3, <2>4 DEF Inv
<1>5. CASE LoseAnswer \/ SpoilAnswer \/ HarmRequest
  <2>1. UNCHANGED hostVars /\ UNCHANGED targetVars /\ UNCHANGED job
    BY <1>5 DEF LoseAnswer, SpoilAnswer, HarmRequest, hostVars, jobVars
  <2>2. LineInv'
    BY <1>5, <2>1, LineShortened DEF LoseAnswer, SpoilAnswer, HarmRequest, Inv
  <2>3. MishapTyped'
    BY <1>5, <2>1, MishapKeeps DEF LoseAnswer, SpoilAnswer, HarmRequest, targetVars
  <2> QED BY <2>1, <2>2, <2>3, HostUntouched, TargetUntouched DEF Inv
<1>6. CASE ResetTarget
  <2>1. UNCHANGED hostVars /\ UNCHANGED job /\ device' = device
    BY <1>6 DEF ResetTarget, ResetLoader, hostVars, jobVars
  <2>2. TargetInv' /\ LineInv'
    BY <1>6, <2>1, ResetKeeps DEF ResetTarget, Inv
  <2>3. MishapTyped'
    BY <1>6, <2>1, MishapKeeps DEF ResetTarget
  <2> QED BY <2>1, <2>2, <2>3, HostUntouched DEF Inv
<1>7. CASE UNCHANGED vars
  <2>1. UNCHANGED <<hostVars, line, targetVars, mishapVars, job>>
    BY <1>7 DEF vars, hostVars, jobVars
  <2>2. MishapTyped'
    BY <2>1 DEF Inv, MishapTyped, mishapVars, targetVars
  <2> QED BY <2>1, <2>2, HostUntouched, TargetUntouched, LineUntouched DEF Inv
<1> QED BY <1>1, <1>2, <1>3, <1>4, <1>5, <1>6, <1>7 DEF Next

LEMMA InvHolds == Spec => []Inv
  BY InitInv, StepInv, PTL DEF Spec

\* Type correctness: the job stays a command line, the tries within Retries, what
\* is read of a frame within what its header announces (serial_transport.py:87,
\* uart_otp_loader.c:101).
THEOREM TypesHold == Spec => []TypeOK
<1>1. Inv => TypeOK
  BY DEF Inv, HostInv, HostTyped, TargetInv, TargetTyped, MishapTyped, TypeOK
<1> QED BY <1>1, InvHolds, PTL

\* A PROGRAM frame with a word that may not be burnt burns none of them, however
\* the target is reset and the line disturbed (wasp1_uart_otp_protocol.c:226).
THEOREM IllegalFramesRefused == Spec => IllegalFramesBurnNothing
<1>1. ASSUME Inv, [Next]_vars, otp'.words # otp.words
      PROVE  \A i \in 1 .. lheader.length :
               RequestWord(i) \subseteq otp.words[Request.address + i - 1]
  <2>1. CASE Loader
    <3>1. UNCHANGED job
      BY <2>1 DEF Loader, hostVars, jobVars
    <3>2. WordsBurnt
      BY <1>1, <2>1, <3>1, LoaderKeeps DEF Loader
    <3> QED BY <1>1, <3>2 DEF WordsBurnt, Inv, TargetInv, FrameBurnable
  <2>2. CASE ResetTarget
    <3>1. UNCHANGED job
      BY <2>2 DEF ResetTarget, hostVars, jobVars
    <3> QED BY <1>1, <2>2, <3>1, ResetKeeps DEF ResetTarget, Inv
  <2>3. CASE ~Loader /\ ~ResetTarget
    <3>1. UNCHANGED otp
      BY <1>1, <2>3 DEF Next, Start, Host, DeadTimeOut, LateTimeOut, LoseAnswer,
                        SpoilAnswer, HarmRequest, vars, targetVars
    <3> QED BY <1>1, <3>1
  <2> QED BY <2>1, <2>2, <2>3
<1> QED BY <1>1, InvHolds, PTL DEF Spec, IllegalFramesBurnNothing

-------------------------------------------------------------------------------
(* The refinement of AbstractOtp. *)

LEMMA StepRefines ==
  ASSUME Inv, [Next]_vars
  PROVE  [Abstract!AbstractNext]_(Abstract!abstractVars)
<1> USE DEF Abstract!AbstractNext, Abstract!abstractVars
<1>1. \A j : AskedBy(j) \subseteq Addresses \X SUBSET Bits
  BY DEF AskedBy
<1>2. CASE Start
  <2>1. PICK s : s = AskedBy(job')
    OBVIOUS
  <2>2. s \subseteq Addresses \X SUBSET Bits
    BY <1>1, <2>1
  <2>3. UNCHANGED otp
    BY <1>2 DEF Start, targetVars
  <2>4. AskedBy(job)' = s
    BY <2>1
  <2>5. AskedBy(job)' \subseteq Abstract!Addresses \X SUBSET Bits
    BY <2>2, <2>4 DEF Abstract!Addresses, Addresses
  <2>6. Abstract!Ask
    BY <2>3, <2>5 DEF Abstract!Ask
  <2> QED BY <2>6
<1>3. CASE Loader
  <2>1. UNCHANGED job /\ AskedBy(job)' = AskedBy(job)
    BY <1>3 DEF Loader, hostVars, jobVars
  <2>2. CASE WordsBurnt
    <3>1. PICK a, v : a = Request.address + lpos /\ v = RequestWord(lpos + 1)
      OBVIOUS
    <3>2. lheader.length \in Nat /\ lpos \in Nat /\ Request.address \in Nat
      BY DEF Inv, TargetInv, TargetTyped, HeaderSet, FrameSet, Request
    <3>3. Request.address + (lpos + 1) - 1 = a
      BY <3>1, <3>2
    <3>4. <<a, v>> \in AskedBy(job) /\ v \subseteq otp.words[a]
      BY <2>2, <3>1, <3>3 DEF WordsBurnt, Inv, TargetInv, FrameBurnable
    <3>5. Abstract!Burn(a, v)
      BY <2>1, <2>2, <3>1, <3>4 DEF Abstract!Burn, WordsBurnt
    <3>6. \E pair \in AskedBy(job) : Abstract!Burn(pair[1], pair[2])
      BY <3>4, <3>5
    <3> QED BY <3>6
  <2>3. CASE otp'.words = otp.words /\ otp'.locked \in {otp.locked, TRUE}
    BY <2>1, <2>3 DEF Abstract!Lock
  <2> QED BY <1>3, <2>1, <2>2, <2>3, LoaderKeeps DEF Loader
<1>4. CASE ResetTarget
  <2>1. UNCHANGED job /\ AskedBy(job)' = AskedBy(job)
    BY <1>4 DEF ResetTarget, hostVars, jobVars
  <2>2. otp'.words = otp.words /\ otp'.locked = FALSE
    BY <1>4, <2>1, ResetKeeps DEF ResetTarget, Inv
  <2> QED BY <2>1, <2>2 DEF Abstract!Reset
<1>5. CASE Host
  <2>1. UNCHANGED job /\ UNCHANGED otp
    BY <1>5, HostKeeps DEF Host, targetVars
  <2>2. AskedBy(job)' = AskedBy(job)
    BY <2>1
  <2> QED BY <2>1, <2>2
<1>6. CASE DeadTimeOut \/ LateTimeOut \/ LoseAnswer \/ SpoilAnswer \/ HarmRequest \/ UNCHANGED vars
  <2>1. UNCHANGED job /\ UNCHANGED otp
    BY <1>6 DEF DeadTimeOut, LateTimeOut, TimeOut, Finish, LoseAnswer, SpoilAnswer,
                HarmRequest, vars, hostVars, jobVars, targetVars
  <2>2. AskedBy(job)' = AskedBy(job)
    BY <2>1
  <2> QED BY <2>1, <2>2
<1> QED BY <1>2, <1>3, <1>4, <1>5, <1>6 DEF Next

\* Whatever the line, the tool and the resets do, a word only loses bits, is burnt
\* whole to a value the current command line asks for, and nothing is burnt
\* between a lock and a reset (ahb_otp.sv, uart_otp_loader.c:55).
THEOREM BurntAsAsked == Spec => ImplementsAbstractOtp
<1>1. Init => Abstract!AbstractInit
  <2> SUFFICES ASSUME Init PROVE Abstract!AbstractInit
    OBVIOUS
  <2>1. AskedBy(job) \subseteq Addresses \X SUBSET Bits
    BY DEF AskedBy
  <2>2. Abstract!Addresses = Addresses
    BY DEF Abstract!Addresses, Addresses
  <2>3. otp.words = [a \in Addresses |-> Bits] /\ otp.locked = FALSE
    BY DEF Init, LoaderInit, ResetOtp
  <2> QED BY <2>1, <2>2, <2>3 DEF Abstract!AbstractInit
<1> QED BY <1>1, InvHolds, StepRefines, PTL
        DEF Spec, ImplementsAbstractOtp, Abstract!AbstractSpec
-------------------------------------------------------------------------------
(* What the host believes.  A frame counts from its CRC on: the requests the *)
(* loader has whole or has still to read, and the answers that carry one out *)
(* and that the host has whole or has still to read.                         *)

Sound(token) == token.t = "crc" /\ token.frame.status = "OK"
Under(q) == {q[i].frame : i \in {k \in 1 .. Len(q) : Sound(q[k])}}
HostFrames ==
  IF AnswerRead THEN Under(<<hbody[hheader.length + 1]>>) ELSE {}
LoaderFrames ==
  IF BodyRead THEN Under(<<lbody[lheader.length + 1]>>) ELSE {}

\* To the request the host is at, and none to an earlier one behind it.
Current(frame) == frame.sequence = sequence
Before(A, B) ==
  (\A f \in A : ~Current(f)) \/ (\A f \in B : Current(f))
InOrder(q) ==
  \A i, j \in 1 .. Len(q) :
    i < j /\ Sound(q[i]) /\ Sound(q[j]) /\ Current(q[i].frame) => Current(q[j].frame)

\* A request under way is the host's own, and burns only while that may be.
Asked(frame) ==
  /\ Current(frame) => frame = HostRequest
  /\ frame.command = "PROGRAM" =>
       stage \in {"burn", "raw"} \/ (stage = "check" /\ pos = 0)

\* An answer under way is true of the OTP as it is now.
Truthful(frame) ==
  /\ stage = "hello" => Len(frame.payload) = 1 /\ frame.payload[1].device \in Devices
  /\ stage \in {"read", "check"} =>
       \A i \in 1 .. Len(frame.payload) :
         /\ frame.payload[i].word \in SUBSET Bits
         /\ frame.payload[i].word = OtpWord(pos + i)
  /\ stage = "burn" => \A i \in 1 .. Chunk : OtpWord(pos + i) = job.image[pos + i]
  /\ stage = "lock" => otp.locked \/ cut

\* Everything under way, in the order in which the host will come to it.
Carried(A, B, C, D) ==
  /\ Before(A, B) /\ Before(A, C) /\ Before(A, D)
  /\ Before(B, C) /\ Before(B, D) /\ Before(C, D)
  /\ \A f \in A \cup B : Current(f) => Truthful(f)
  /\ \A f \in C \cup D : Asked(f)
Flight ==
  /\ Carried(HostFrames, Under(toHost), LoaderFrames, Under(toTarget))
  /\ InOrder(toHost) /\ InOrder(toTarget)

\* Before the first attempt nothing of this request is under way.
NothingCurrent ==
  \A f \in HostFrames \cup Under(toHost) \cup LoaderFrames \cup Under(toTarget) :
    ~Current(f)
FirstAttempt ==
  /\ hphase = "send" /\ tries = 0 => NothingCurrent
  /\ LoopEnded => hphase = "send" /\ tries = 0

\* What the host has read, word by word.
Believed ==
  /\ got \in Seq(SUBSET Bits)
  /\ Len(got) = IF stage \in {"read", "check"} THEN pos ELSE 0

\* Which job comes to which request.
StageOfJob ==
  /\ stage = "hello" => job.operation \notin {"status", "raw"}
  /\ stage = "status" => job.operation = "status"
  /\ stage = "lock" => job.operation = "lock"
  /\ stage = "read" => job.operation \in {"read", "program"}
  /\ stage = "check" => job.operation \in {"program", "verify"}

\* The image lies in the OTP as soon as a word of it is asked for.
Placed ==
  stage \in Loops \/ (outcome = "ok" /\ job.operation \in {"program", "verify"}) =>
    job.offset + Total <= Depth

\* How far the loader has come with a frame it burns.
Burning ==
  lphase \in {"burn", "pulse"} =>
    /\ Intact(lheader, lbody) /\ Request.status = "OK" /\ Request.command = "PROGRAM"
    /\ \A i \in 1 .. lheader.length :
         i <= lpos \/ (lphase = "pulse" /\ i = lpos + 1) =>
           otp.words[Request.address + i - 1] = RequestWord(i)

\* Between jobs the host believes nothing.
Idle == ~Running => got = << >> /\ stage \notin {"burn", "check"}

BeliefInv ==
  /\ Running => Flight /\ FirstAttempt /\ Believed /\ StageOfJob
  /\ Placed /\ Burning /\ Idle
  /\ HostBelievesTrue /\ InterruptionIsHarmless

(* The frames on a line. *)

LEMMA UnderOne ==
  ASSUME NEW token
  PROVE  Under(<<token>>) = IF Sound(token) THEN {token.frame} ELSE {}
<1>1. \A k : k \in 1 .. Len(<<token>>) <=> k = 1
  OBVIOUS
<1> QED BY <1>1 DEF Under

LEMMA UnderRest ==
  ASSUME NEW q \in Seq(Token), q # << >>
  PROVE  /\ Under(Tail(q)) \subseteq Under(q)
         /\ Under(<<Head(q)>>) \subseteq Under(q)
         /\ InOrder(q) => InOrder(Tail(q))
         /\ InOrder(q) => Before(Under(<<Head(q)>>), Under(Tail(q)))
<1>1. PICK t : t = Tail(q)
  OBVIOUS
<1>2. Len(t) = Len(q) - 1 /\ Len(q) \in Nat \ {0}
  BY <1>1
<1>3. \A i \in 1 .. Len(t) : i + 1 \in 1 .. Len(q) /\ t[i] = q[i + 1]
  BY <1>1, <1>2
<1>4. Under(t) \subseteq Under(q)
  BY <1>3 DEF Under
<1>5. Head(q) = q[1] /\ 1 \in 1 .. Len(q)
  BY <1>2
<1>6. Under(<<Head(q)>>) \subseteq Under(q)
  <2>1. CASE Sound(Head(q))
    <3>1. Under(<<Head(q)>>) = {q[1].frame}
      BY <1>5, <2>1, UnderOne
    <3>2. q[1].frame \in Under(q)
      BY <1>5, <2>1 DEF Under
    <3> QED BY <3>1, <3>2
  <2>2. CASE ~Sound(Head(q))
    BY <2>2, UnderOne
  <2> QED BY <2>1, <2>2
<1>7. ASSUME InOrder(q)
      PROVE  InOrder(t)
  <2> SUFFICES ASSUME NEW i \in 1 .. Len(t), NEW j \in 1 .. Len(t), i < j,
                      Sound(t[i]), Sound(t[j]), Current(t[i].frame)
               PROVE  Current(t[j].frame)
    BY DEF InOrder
  <2>1. i + 1 \in 1 .. Len(q) /\ j + 1 \in 1 .. Len(q) /\ i + 1 < j + 1
    BY <1>3
  <2>2. t[i] = q[i + 1] /\ t[j] = q[j + 1]
    BY <1>3
  <2> QED BY <1>7, <2>1, <2>2 DEF InOrder
<1>8. ASSUME InOrder(q)
      PROVE  Before(Under(<<Head(q)>>), Under(t))
  <2> SUFFICES ASSUME NEW f \in Under(<<Head(q)>>), Current(f), NEW g \in Under(t)
               PROVE  Current(g)
    BY DEF Before
  <2>1. Sound(q[1]) /\ f = q[1].frame
    BY <1>5, UnderOne
  <2>2. PICK i \in 1 .. Len(t) : Sound(t[i]) /\ g = t[i].frame
    BY DEF Under
  <2>3. i + 1 \in 1 .. Len(q) /\ 1 < i + 1 /\ t[i] = q[i + 1]
    BY <1>3
  <2> QED BY <1>5, <1>8, <2>1, <2>2, <2>3 DEF InOrder
<1> QED BY <1>1, <1>4, <1>6, <1>7, <1>8

LEMMA UnderSpoilt ==
  ASSUME NEW q \in Seq(Token), q # << >>
  PROVE  /\ Under(Spoilt(q)) \subseteq Under(q)
         /\ InOrder(q) => InOrder(Spoilt(q))
<1>1. PICK t : t = Spoilt(q)
  OBVIOUS
<1>2. Len(t) = Len(q) /\ t[1] = Noise /\ Len(q) \in Nat
  BY <1>1 DEF Spoilt
<1>3. \A i \in 2 .. Len(q) : t[i] = q[i]
  BY <1>1 DEF Spoilt
<1>4. ~Sound(Noise)
  BY DEF Noise, Sound
<1>5. \A i \in 1 .. Len(t) : Sound(t[i]) => i \in 1 .. Len(q) /\ t[i] = q[i]
  BY <1>2, <1>3, <1>4
<1>6. Under(t) \subseteq Under(q)
  BY <1>5 DEF Under
<1>7. InOrder(q) => InOrder(t)
  BY <1>5 DEF InOrder
<1> QED BY <1>1, <1>6, <1>7

LEMMA UnderPrefix ==
  ASSUME NEW q \in Seq(Token), NEW n \in 0 .. Len(q)
  PROVE  /\ Under(SubSeq(q, 1, n)) \subseteq Under(q)
         /\ InOrder(q) => InOrder(SubSeq(q, 1, n))
<1>1. PICK t : t = SubSeq(q, 1, n)
  OBVIOUS
<1>2. Len(t) = n /\ \A i \in 1 .. n : i \in 1 .. Len(q) /\ t[i] = q[i]
  BY <1>1
<1>3. Under(t) \subseteq Under(q)
  BY <1>2 DEF Under
<1>4. InOrder(q) => InOrder(t)
  BY <1>2 DEF InOrder
<1> QED BY <1>1, <1>3, <1>4

\* Of a frame written to a line nothing but its CRC counts.
LEMMA UnderAppended ==
  ASSUME NEW q \in Seq(Token), NEW frame \in FrameSet
  PROVE  /\ Under(q \o Encode(frame))
               \subseteq Under(q) \cup (IF frame.status = "OK" THEN {frame} ELSE {})
         /\ InOrder(q)
               /\ (frame.status = "OK" => Before(Under(q), {frame}))
               => InOrder(q \o Encode(frame))
<1>1. PICK e : e = Encode(frame)
  OBVIOUS
<1>2. e \in Seq(Token) /\ \A i \in 1 .. Len(e) : e[i].t = "crc" => e[i].frame = frame
  BY <1>1, EncodedFrame
<1>3. PICK t : t = q \o e
  OBVIOUS
<1>4. Len(t) = Len(q) + Len(e) /\ Len(q) \in Nat /\ Len(e) \in Nat
  BY <1>2, <1>3
<1>5. ASSUME NEW i \in 1 .. Len(t), Sound(t[i])
      PROVE  \/ i \in 1 .. Len(q) /\ t[i] = q[i]
             \/ i > Len(q) /\ t[i].frame = frame /\ frame.status = "OK"
  <2>1. CASE i <= Len(q)
    BY <1>2, <1>3, <1>4, <2>1
  <2>2. CASE i > Len(q)
    <3>1. i - Len(q) \in 1 .. Len(e) /\ t[i] = e[i - Len(q)]
      BY <1>2, <1>3, <1>4, <2>2
    <3> QED BY <1>2, <1>5, <2>2, <3>1 DEF Sound
  <2> QED BY <1>4, <2>1, <2>2
<1>6. Under(t) \subseteq Under(q) \cup (IF frame.status = "OK" THEN {frame} ELSE {})
  <2> SUFFICES ASSUME NEW f \in Under(t)
               PROVE  f \in Under(q) \/ (frame.status = "OK" /\ f = frame)
    OBVIOUS
  <2>1. PICK i \in 1 .. Len(t) : Sound(t[i]) /\ f = t[i].frame
    BY DEF Under
  <2> QED BY <1>5, <2>1 DEF Under
<1>7. ASSUME InOrder(q), frame.status = "OK" => Before(Under(q), {frame})
      PROVE  InOrder(t)
  <2> SUFFICES ASSUME NEW i \in 1 .. Len(t), NEW j \in 1 .. Len(t), i < j,
                      Sound(t[i]), Sound(t[j]), Current(t[i].frame)
               PROVE  Current(t[j].frame)
    BY DEF InOrder
  <2>1. CASE j \in 1 .. Len(q) /\ t[j] = q[j]
    <3>1. i \in 1 .. Len(q) /\ t[i] = q[i]
      BY <1>4, <1>5, <2>1
    <3> QED BY <1>7, <2>1, <3>1 DEF InOrder
  <2>2. CASE t[j].frame = frame /\ frame.status = "OK"
    <3>1. CASE i \in 1 .. Len(q) /\ t[i] = q[i]
      <4>1. t[i].frame \in Under(q)
        BY <3>1 DEF Under
      <4> QED BY <1>7, <2>2, <4>1 DEF Before
    <3>2. CASE t[i].frame = frame
      BY <2>2, <3>2
    <3> QED BY <1>5, <3>1, <3>2
  <2> QED BY <1>5, <2>1, <2>2
<1> QED BY <1>1, <1>3, <1>6, <1>7

-------------------------------------------------------------------------------
(* What is under way. *)

LEMMA CarriedLess ==
  ASSUME NEW A, NEW B, NEW C, NEW D, Carried(A, B, C, D),
         NEW A2 \in SUBSET A, NEW B2 \in SUBSET B,
         NEW C2 \in SUBSET C, NEW D2 \in SUBSET D
  PROVE  Carried(A2, B2, C2, D2)
  BY DEF Carried, Before

\* The host, or the loader, has read what was next on its line.
LEMMA HeadRead ==
  ASSUME NEW A, NEW B, NEW C, NEW D, NEW H
  PROVE  /\ Carried({}, B, C, D) /\ H \subseteq B /\ A \subseteq B /\ Before(H, A)
               => Carried(H, A, C, D)
         /\ Carried(A, B, {}, D) /\ H \subseteq D /\ C \subseteq D /\ Before(H, C)
               => Carried(A, B, H, C)
<1>1. ASSUME Carried({}, B, C, D), H \subseteq B, A \subseteq B, Before(H, A)
      PROVE  Carried(H, A, C, D)
  BY <1>1 DEF Carried, Before
<1>2. ASSUME Carried(A, B, {}, D), H \subseteq D, C \subseteq D, Before(H, C)
      PROVE  Carried(A, B, H, C)
  BY <1>2 DEF Carried, Before
<1> QED BY <1>1, <1>2

\* An answer takes the place of its request in the order of the line.
LEMMA AnswerGiven ==
  ASSUME NEW A, NEW B, NEW C, NEW D, Carried(A, B, C, D)',
         NEW answer, Current(answer)' => Truthful(answer)',
         NEW request \in C, answer.sequence = request.sequence
  PROVE  Carried(A, B \cup {answer}, {}, D)'
<1>1. Current(answer)' <=> Current(request)'
  BY DEF Current
<1>2. Before(A, {answer})' /\ Before({answer}, D)'
  BY <1>1 DEF Carried, Before
<1> QED BY <1>1, <1>2 DEF Carried, Before

LEMMA RequestIsCurrent ==
  ASSUME HostInv, Running
  PROVE  HostRequest.sequence = sequence /\ Asked(HostRequest)
<1>1. stage \in Stages
  BY DEF HostInv, HostTyped
<1>2. PICK f : f = HostRequest
  OBVIOUS
<1>3. f.sequence = sequence /\ (f.command = "PROGRAM" => stage \in {"burn", "raw"})
  <2>1. CASE stage \in {"hello", "status", "lock"}
    BY <1>2, <2>1 DEF HostRequest, Frame
  <2>2. CASE stage \in {"read", "check"}
    BY <1>2, <2>2 DEF HostRequest, Frame
  <2>3. CASE stage = "burn"
    BY <1>2, <2>3 DEF HostRequest, Frame
  <2>4. CASE stage = "raw"
    BY <1>2, <2>4 DEF HostRequest, Frame
  <2> QED BY <1>1, <2>1, <2>2, <2>3, <2>4 DEF Stages
<1> QED BY <1>2, <1>3 DEF Asked

LEMMA RequestSent ==
  ASSUME NEW A, NEW B, NEW C, NEW D, Carried(A, B, C, D),
         NEW request, Current(request), Asked(request)
  PROVE  Carried(A, B, C, D \cup {request}) /\ Before(D, {request})
  BY DEF Carried, Before

\* As long as the host is at the same request the order stays what it is.
LEMMA CarriedKept ==
  ASSUME NEW A, NEW B, NEW C, NEW D, Carried(A, B, C, D), UNCHANGED jobVars,
         \A f \in A \cup B : Current(f) /\ Truthful(f) => Truthful(f)'
  PROVE  Carried(A, B, C, D)'
<1>1. \A f : Current(f)' <=> Current(f)
  BY DEF Current, jobVars
<1>2. \A f : Asked(f) => Asked(f)'
  <2>1. HostRequest' = HostRequest
    BY DEF HostRequest, jobVars, Chunk, Total
  <2> QED BY <1>1, <2>1 DEF Asked, jobVars
<1> QED BY <1>1, <1>2 DEF Carried, Before

LEMMA OrderKept ==
  ASSUME NEW q, InOrder(q), sequence' = sequence
  PROVE  InOrder(q)'
  BY DEF InOrder, Current

-------------------------------------------------------------------------------
(* The steps at one request. *)

\* The words stay what they are, and the lock is opened by nothing but a reset.
OtpStays ==
  /\ otp'.words = otp.words
  /\ otp.locked \/ cut => otp'.locked \/ cut'

LEMMA TruthKept ==
  ASSUME UNCHANGED jobVars, OtpStays
  PROVE  \A f : Truthful(f) => Truthful(f)'
  BY DEF jobVars, OtpStays, Truthful, OtpWord, Chunk, Total

LEMMA FlightShrinks ==
  ASSUME Flight, UNCHANGED jobVars, OtpStays,
         NEW h, NEW th, NEW l, NEW tt,
         HostFrames' = h, toHost' = th, LoaderFrames' = l, toTarget' = tt,
         h \subseteq HostFrames, l \subseteq LoaderFrames,
         Under(th) \subseteq Under(toHost), InOrder(th),
         Under(tt) \subseteq Under(toTarget), InOrder(tt)
  PROVE  Flight' /\ (NothingCurrent => NothingCurrent')
<1>1. Carried(h, Under(th), l, Under(tt))
  <2>1. PICK A, B, C, D : /\ A = HostFrames /\ B = Under(toHost)
                          /\ C = LoaderFrames /\ D = Under(toTarget)
    OBVIOUS
  <2>2. PICK B2, D2 : B2 = Under(th) /\ D2 = Under(tt)
    OBVIOUS
  <2>3. Carried(A, B, C, D)
    BY <2>1 DEF Flight
  <2>4. h \in SUBSET A /\ B2 \in SUBSET B /\ l \in SUBSET C /\ D2 \in SUBSET D
    BY <2>1, <2>2
  <2>5. Carried(h, B2, l, D2)
    BY <2>3, <2>4, CarriedLess
  <2> QED BY <2>2, <2>5
<1>2. Carried(h, Under(th), l, Under(tt))'
  <2>1. PICK B2, D2 : B2 = Under(th) /\ D2 = Under(tt)
    OBVIOUS
  <2>2. Carried(h, B2, l, D2)
    BY <1>1, <2>1
  <2>3. Carried(h, B2, l, D2)'
    BY <2>2, CarriedKept, TruthKept
  <2> QED BY <2>1, <2>3 DEF Under
<1>3. InOrder(th)' /\ InOrder(tt)'
  BY OrderKept DEF jobVars
<1>4. Flight'
  BY <1>2, <1>3 DEF Flight
<1>5. ASSUME NothingCurrent PROVE NothingCurrent'
  <2>1. \A f \in h \cup Under(th) \cup l \cup Under(tt) : ~Current(f)
    BY <1>5 DEF NothingCurrent
  <2>2. \A f : Current(f)' <=> Current(f)
    BY DEF Current, jobVars
  <2>3. Under(toHost)' = Under(th) /\ Under(toTarget)' = Under(tt)
    OBVIOUS
  <2> QED BY <2>1, <2>2, <2>3 DEF NothingCurrent
<1> QED BY <1>4, <1>5

LEMMA BurningKept ==
  ASSUME Burning, UNCHANGED loaderVars, otp'.words = otp.words
  PROVE  Burning'
  BY DEF Burning, loaderVars, Request, RequestWord

LEMMA SameRequest ==
  ASSUME BeliefInv, Inv', UNCHANGED jobVars, OtpStays,
         Running => Flight' /\ FirstAttempt', Burning'
  PROVE  BeliefInv'
<1>1. Running' = Running
  BY DEF Running, jobVars
<1>2. Idle' /\ Placed' /\ (Running => Believed' /\ StageOfJob')
  BY <1>1 DEF BeliefInv, Idle, Placed, Total, Believed, StageOfJob, jobVars
<1>3. HostBelievesTrue'
  BY DEF BeliefInv, HostBelievesTrue, OtpWord, OtpStays, jobVars, Total
<1>4. InterruptionIsHarmless'
  BY DEF BeliefInv, InterruptionIsHarmless, OtpWord, OtpStays, jobVars, Total,
         Inv, TargetInv, TargetPlace
<1> QED BY <1>1, <1>2, <1>3, <1>4 DEF BeliefInv

\* What a fault of the line leaves of a queue.
LEMMA Disturbed ==
  ASSUME NEW q \in Seq(Token), q # << >>, NEW r \in {Lost(q), Spoilt(q)}
  PROVE  Under(r) \subseteq Under(q) /\ (InOrder(q) => InOrder(r))
<1>1. CASE r = Tail(q)
  BY <1>1, UnderRest
<1>2. CASE r = Spoilt(q)
  BY <1>2, UnderSpoilt
<1> QED BY <1>1, <1>2 DEF Lost

LEMMA LineBelief ==
  ASSUME Inv, Inv', BeliefInv, UNCHANGED hostVars, UNCHANGED targetVars, cut' = cut,
         \/ UNCHANGED toTarget
         \/ toTarget # << >> /\ toTarget' \in {Lost(toTarget), Spoilt(toTarget)},
         \/ UNCHANGED toHost
         \/ toHost # << >> /\ toHost' \in {Lost(toHost), Spoilt(toHost)}
  PROVE  BeliefInv'
<1>1. UNCHANGED <<jobVars, hphase, tries, loaderVars, otp>>
  BY DEF hostVars, receiverVars, targetVars
<1>2. OtpStays
  BY <1>1 DEF OtpStays
<1>3. Burning'
  BY <1>1, BurningKept DEF BeliefInv
<1>4. HostFrames' = HostFrames /\ LoaderFrames' = LoaderFrames
  BY DEF hostVars, receiverVars, targetVars, loaderVars, HostFrames, LoaderFrames,
         AnswerRead, BodyRead
<1>5. ASSUME Running
      PROVE  Flight' /\ FirstAttempt'
  <2>1. PICK h, th, l, tt : /\ HostFrames' = h /\ toHost' = th
                            /\ LoaderFrames' = l /\ toTarget' = tt
    OBVIOUS
  <2>2. Flight /\ FirstAttempt
    BY <1>5 DEF BeliefInv
  <2>3. toHost \in Seq(Token) /\ toTarget \in Seq(Token)
    BY DEF Inv, LineInv
  <2>4. Under(th) \subseteq Under(toHost) /\ InOrder(th)
    <3>1. CASE UNCHANGED toHost
      BY <2>1, <2>2, <3>1 DEF Flight
    <3>2. CASE toHost # << >> /\ toHost' \in {Lost(toHost), Spoilt(toHost)}
      <4>1. PICK q : q = toHost
        OBVIOUS
      <4>2. /\ q \in Seq(Token) /\ q # << >>
            /\ th \in {Lost(q), Spoilt(q)} /\ InOrder(q)
        BY <2>1, <2>2, <2>3, <3>2, <4>1 DEF Flight
      <4> QED BY <4>1, <4>2, Disturbed
    <3> QED BY <3>1, <3>2
  <2>5. Under(tt) \subseteq Under(toTarget) /\ InOrder(tt)
    <3>1. CASE UNCHANGED toTarget
      BY <2>1, <2>2, <3>1 DEF Flight
    <3>2. CASE toTarget # << >> /\ toTarget' \in {Lost(toTarget), Spoilt(toTarget)}
      <4>1. PICK q : q = toTarget
        OBVIOUS
      <4>2. /\ q \in Seq(Token) /\ q # << >>
            /\ tt \in {Lost(q), Spoilt(q)} /\ InOrder(q)
        BY <2>1, <2>2, <2>3, <3>2, <4>1 DEF Flight
      <4> QED BY <4>1, <4>2, Disturbed
    <3> QED BY <3>1, <3>2
  <2>6. h \subseteq HostFrames /\ l \subseteq LoaderFrames
    BY <1>4, <2>1
  <2>7. Flight' /\ (NothingCurrent => NothingCurrent')
    BY <1>1, <1>2, <2>1, <2>2, <2>4, <2>5, <2>6, FlightShrinks
  <2>8. FirstAttempt'
    BY <1>1, <2>2, <2>7 DEF FirstAttempt, LoopEnded, jobVars, Total
  <2> QED BY <2>7, <2>8
<1> QED BY <1>1, <1>2, <1>3, <1>5, SameRequest

LEMMA ReceiveBelief ==
  ASSUME Inv, Inv', BeliefInv, HostSeek \/ HostHeader \/ HostBody,
         UNCHANGED jobVars, UNCHANGED toTarget, UNCHANGED targetVars, cut' = cut
  PROVE  BeliefInv'
<1>1. /\ Running /\ hphase # "send" /\ UNCHANGED tries
      /\ toHost # << >> /\ toHost' = Tail(toHost)
  BY DEF HostSeek, HostHeader, HostBody, HostReads, Finish, ReceiverReset, jobVars, Running
<1>2. UNCHANGED <<loaderVars, otp>>
  BY DEF targetVars
<1>3. OtpStays
  BY <1>2 DEF OtpStays
<1>4. Burning'
  BY <1>2, BurningKept DEF BeliefInv
<1>5. LoaderFrames' = LoaderFrames
  BY <1>2 DEF loaderVars, LoaderFrames, BodyRead
<1>6. Flight /\ FirstAttempt /\ ~LoopEnded
  BY <1>1 DEF BeliefInv, FirstAttempt
<1>7. hphase' # "send"
  BY <1>1 DEF HostSeek, HostHeader, HostBody, Finish, jobVars, Running
<1>8. FirstAttempt'
  BY <1>6, <1>7 DEF FirstAttempt, LoopEnded, jobVars, Total
<1>9. PICK q : q = toHost /\ q \in Seq(Token) /\ q # << >> /\ InOrder(q)
  BY <1>1, <1>6 DEF Inv, LineInv, Flight
<1>10. PICK h, th, l, tt : /\ HostFrames' = h /\ toHost' = th
                           /\ LoaderFrames' = l /\ toTarget' = tt
  OBVIOUS
<1>11. /\ th = Tail(q) /\ Under(th) \subseteq Under(q) /\ InOrder(th)
       /\ Before(Under(<<Head(q)>>), Under(th)) /\ Under(<<Head(q)>>) \subseteq Under(q)
  BY <1>1, <1>9, <1>10, UnderRest
<1>12. CASE h \subseteq HostFrames
  <2>1. l \subseteq LoaderFrames /\ tt = toTarget
    BY <1>5, <1>10
  <2>2. Under(tt) \subseteq Under(toTarget) /\ InOrder(tt)
    BY <1>6, <2>1 DEF Flight
  <2>3. Flight'
    BY <1>3, <1>6, <1>9, <1>10, <1>11, <1>12, <2>1, <2>2, FlightShrinks
  <2> QED BY <1>3, <1>4, <1>8, <2>3, SameRequest
<1>13. CASE ~(h \subseteq HostFrames)
  <2>1. HostBody
    <3>1. ASSUME HostSeek PROVE h \subseteq HostFrames
      BY <1>10, <3>1 DEF HostSeek, HostFrames, AnswerRead
    <3>2. ASSUME HostHeader PROVE h \subseteq HostFrames
      <4>1. hbody' = << >>
        BY <1>1, <3>2 DEF HostHeader, Inv, HostInv, HostPlace, Finish, ReceiverReset
      <4>2. hheader'.length \in Nat
        BY DEF Inv, HostInv, HostTyped, HeaderSet
      <4>3. ~AnswerRead'
        BY <4>1, <4>2 DEF AnswerRead
      <4> QED BY <1>10, <4>3 DEF HostFrames
    <3> QED BY <1>13, <3>1, <3>2
  <2>2. HostFrames = {}
    BY <2>1 DEF HostBody, HostFrames
  <2>3. h \subseteq Under(<<Head(q)>>)
    <3>1. hbody' = Append(hbody, Head(q)) /\ hheader' = hheader
      BY <1>9, <2>1 DEF HostBody
    <3>2. hbody \in Seq(Token) /\ hheader.length \in Nat /\ Head(q) \in Token
      BY <1>9, HeadTyped DEF Inv, HostInv, HostTyped, HeaderSet
    <3>3. Len(hbody') = Len(hbody) + 1 /\ hbody'[Len(hbody) + 1] = Head(q)
      BY <3>1, <3>2
    <3>4. AnswerRead' => hbody'[hheader'.length + 1] = Head(q)
      BY <3>1, <3>2, <3>3 DEF AnswerRead
    <3>5. h = IF AnswerRead' THEN Under(<<hbody'[hheader'.length + 1]>>) ELSE {}
      BY <1>10 DEF HostFrames, Under
    <3> QED BY <3>4, <3>5
  <2>4. PICK A, B, C, D, H : /\ A = Under(th) /\ B = Under(q) /\ C = LoaderFrames
                             /\ D = Under(toTarget) /\ H = h
    OBVIOUS
  <2>5. Carried({}, B, C, D)
    BY <1>6, <1>9, <2>2, <2>4 DEF Flight
  <2>6. H \subseteq B /\ A \subseteq B /\ Before(H, A)
    BY <1>11, <2>3, <2>4 DEF Before
  <2>7. Carried(H, A, C, D)
    BY <2>5, <2>6, HeadRead
  <2>8. Carried(H, A, C, D)'
    BY <1>3, <2>7, CarriedKept, TruthKept
  <2>9. /\ HostFrames' = H /\ Under(toHost)' = A
        /\ LoaderFrames' = C /\ Under(toTarget)' = D
    BY <1>5, <1>10, <2>4 DEF Under
  <2>10. InOrder(toHost)'
    <3>1. InOrder(th)'
      BY <1>11, OrderKept DEF jobVars
    <3> QED BY <1>10, <3>1
  <2>11. InOrder(toTarget)'
    <3>1. PICK t : t = toTarget
      OBVIOUS
    <3>2. InOrder(t)'
      BY <1>6, <3>1, OrderKept DEF jobVars, Flight
    <3> QED BY <3>1, <3>2
  <2>12. Flight'
    BY <2>8, <2>9, <2>10, <2>11 DEF Flight
  <2> QED BY <1>3, <1>4, <1>8, <2>12, SameRequest
<1> QED BY <1>12, <1>13

LEMMA SendBelief ==
  ASSUME Inv, Inv', BeliefInv, Send, UNCHANGED toHost, UNCHANGED targetVars, cut' = cut
  PROVE  BeliefInv'
<1>1. /\ Running /\ ~LoopEnded /\ hphase' = "seek"
      /\ UNCHANGED <<jobVars, tries, hheader, hbody>>
  BY DEF Send
<1>2. UNCHANGED <<loaderVars, otp>>
  BY DEF targetVars
<1>3. OtpStays
  BY <1>2 DEF OtpStays
<1>4. Burning'
  BY <1>2, BurningKept DEF BeliefInv
<1>5. HostFrames' = HostFrames /\ LoaderFrames' = LoaderFrames
  BY <1>1, <1>2 DEF loaderVars, LoaderFrames, BodyRead, HostFrames, AnswerRead
<1>6. Flight
  BY <1>1 DEF BeliefInv
<1>7. FirstAttempt'
  BY <1>1 DEF FirstAttempt, LoopEnded, jobVars, Total
<1>8. PICK f : f = HostRequest
  OBVIOUS
<1>9. f \in FrameSet /\ Current(f) /\ Asked(f)
  BY <1>1, <1>8, RequestAsked, RequestIsCurrent DEF Inv, Current
<1>10. PICK q, t : q = toTarget /\ t = toTarget'
  OBVIOUS
<1>11. q \in Seq(Token) /\ InOrder(q) /\ t = q \o Encode(f)
  BY <1>6, <1>8, <1>10 DEF Inv, LineInv, Flight, Send, ToTarget
<1>12. Before(Under(q), {f})
  BY <1>9 DEF Before
<1>13. Under(t) \subseteq Under(q) \cup {f} /\ InOrder(t)
  BY <1>9, <1>11, <1>12, UnderAppended
<1>14. PICK A, B, C, D : /\ A = HostFrames /\ B = Under(toHost)
                         /\ C = LoaderFrames /\ D = Under(q)
  OBVIOUS
<1>15. Carried(A, B, C, D)
  BY <1>6, <1>10, <1>14 DEF Flight
<1>16. Carried(A, B, C, D \cup {f})
  BY <1>9, <1>15, RequestSent
<1>17. PICK E, D2 : E = D \cup {f} /\ D2 = Under(t)
  OBVIOUS
<1>18. Carried(A, B, C, E) /\ D2 \in SUBSET E
  BY <1>13, <1>14, <1>16, <1>17
<1>19. Carried(A, B, C, D2)
  <2>1. A \in SUBSET A /\ B \in SUBSET B /\ C \in SUBSET C
    OBVIOUS
  <2> QED BY <1>18, <2>1, CarriedLess
<1>20. Carried(A, B, C, D2)'
  BY <1>1, <1>3, <1>19, CarriedKept, TruthKept
<1>21. /\ HostFrames' = A /\ Under(toHost)' = B
       /\ LoaderFrames' = C /\ Under(toTarget)' = D2
  BY <1>5, <1>10, <1>14, <1>17 DEF Under
<1>22. InOrder(toTarget)'
  <2>1. InOrder(t)'
    BY <1>1, <1>13, OrderKept DEF jobVars
  <2> QED BY <1>10, <2>1
<1>23. InOrder(toHost)'
  <2>1. PICK r : r = toHost
    OBVIOUS
  <2>2. InOrder(r)'
    BY <1>1, <1>6, <2>1, OrderKept DEF jobVars, Flight
  <2> QED BY <2>1, <2>2
<1>24. Flight'
  BY <1>20, <1>21, <1>22, <1>23 DEF Flight
<1> QED BY <1>1, <1>3, <1>4, <1>7, <1>24, SameRequest

LEMMA RetryBelief ==
  ASSUME Inv, Inv', BeliefInv, Running, hphase # "send",
         tries' = tries + 1, ReceiverReset, UNCHANGED jobVars,
         UNCHANGED line, UNCHANGED targetVars, cut' = cut
  PROVE  BeliefInv'
<1>1. UNCHANGED <<loaderVars, otp, toHost, toTarget>>
  BY DEF targetVars, line
<1>2. OtpStays
  BY <1>1 DEF OtpStays
<1>3. Burning'
  BY <1>1, BurningKept DEF BeliefInv
<1>4. LoaderFrames' = LoaderFrames
  BY <1>1 DEF loaderVars, LoaderFrames, BodyRead
<1>5. HostFrames' = {}
  <2>1. hbody' = << >> /\ hheader'.length = 0
    BY NoHeaderTyped DEF ReceiverReset
  <2> QED BY <2>1 DEF HostFrames, AnswerRead
<1>6. Flight /\ ~LoopEnded
  BY DEF BeliefInv, FirstAttempt
<1>7. FirstAttempt'
  <2>1. tries' # 0
    BY DEF Inv, HostInv, HostTyped
  <2> QED BY <1>6, <2>1 DEF FirstAttempt, LoopEnded, jobVars, Total
<1>8. PICK h, th, l, tt : /\ HostFrames' = h /\ toHost' = th
                          /\ LoaderFrames' = l /\ toTarget' = tt
  OBVIOUS
<1>9. h \subseteq HostFrames /\ l \subseteq LoaderFrames /\ th = toHost /\ tt = toTarget
  BY <1>1, <1>4, <1>5, <1>8
<1>10. /\ Under(th) \subseteq Under(toHost) /\ InOrder(th)
       /\ Under(tt) \subseteq Under(toTarget) /\ InOrder(tt)
  BY <1>6, <1>9 DEF Flight
<1>11. Flight'
  BY <1>2, <1>6, <1>8, <1>9, <1>10, FlightShrinks
<1> QED BY <1>2, <1>3, <1>7, <1>11, SameRequest

-------------------------------------------------------------------------------
(* The steps from one request to another. *)

LEMMA FinishBelief ==
  ASSUME Inv, Inv', BeliefInv, NEW result \in {"ok", "error"}, Finish(result),
         UNCHANGED targetVars, cut' = cut,
         result = "ok" =>
           /\ job.operation \in {"program", "verify"} =>
                /\ job.offset + Total <= Depth
                /\ \A i \in 1 .. Total : OtpWord(i) = job.image[i]
           /\ job.operation = "lock" => otp.locked \/ cut
  PROVE  BeliefInv'
<1>1. UNCHANGED <<loaderVars, otp, job>>
  BY DEF targetVars, Finish
<1>2. Burning'
  BY <1>1, BurningKept DEF BeliefInv
<1>3. outcome' = result /\ stage' = "hello" /\ got' = << >>
  BY DEF Finish
<1>4. ~Running' /\ Idle' /\ Placed'
  BY <1>1, <1>3 DEF Running, Idle, Placed, Loops, Total
<1>5. HostBelievesTrue'
  <2>1. \A i \in 1 .. Len(got') : got'[i] = OtpWord(i)'
    BY <1>3
  <2>2. OtpWord(1)' = OtpWord(1) /\ Total' = Total
    BY <1>1 DEF OtpWord, Total
  <2> QED BY <1>1, <1>3, <2>1 DEF HostBelievesTrue, OtpWord, Total
<1>6. InterruptionIsHarmless'
  BY <1>3 DEF InterruptionIsHarmless, Inv, TargetInv, TargetPlace
<1> QED BY <1>2, <1>4, <1>5, <1>6 DEF BeliefInv

LEMMA NothingCarried ==
  ASSUME NEW A, NEW B, NEW C, NEW D,
         \A f \in A \cup B \cup C \cup D : ~Current(f),
         \A f \in C \cup D : f.command = "PROGRAM" =>
           stage \in {"burn", "raw"} \/ (stage = "check" /\ pos = 0)
  PROVE  Carried(A, B, C, D)
  BY DEF Carried, Before, Asked

LEMMA NothingOrdered ==
  ASSUME NEW q, \A f \in Under(q) : ~Current(f)
  PROVE  InOrder(q)
  BY DEF InOrder, Under

BurnsInTime ==
  \A f \in LoaderFrames \cup Under(toTarget) : f.command = "PROGRAM" =>
    stage \in {"burn", "raw"} \/ (stage = "check" /\ pos = 0)

LEMMA NewRequest == NothingCurrent /\ BurnsInTime => Flight
<1> SUFFICES ASSUME NothingCurrent, BurnsInTime PROVE Flight
  OBVIOUS
<1>1. PICK A, B, C, D : /\ A = HostFrames /\ B = Under(toHost)
                        /\ C = LoaderFrames /\ D = Under(toTarget)
  OBVIOUS
<1>2. Carried(A, B, C, D)
  BY <1>1, NothingCarried DEF NothingCurrent, BurnsInTime
<1>3. InOrder(toHost)
  <2>1. PICK q : q = toHost
    OBVIOUS
  <2> QED BY <2>1, NothingOrdered DEF NothingCurrent
<1>4. InOrder(toTarget)
  <2>1. PICK q : q = toTarget
    OBVIOUS
  <2> QED BY <2>1, NothingOrdered DEF NothingCurrent
<1> QED BY <1>1, <1>2, <1>3, <1>4 DEF Flight

LEMMA StartBelief ==
  ASSUME Inv, Inv', BeliefInv, Start
  PROVE  BeliefInv'
<1>1. /\ UNCHANGED <<loaderVars, otp>> /\ toTarget' = << >> /\ toHost' = << >>
      /\ StartJob
  BY DEF Start, targetVars
<1>2. Burning'
  BY <1>1, BurningKept DEF BeliefInv
<1>3. PICK j \in Jobs :
        /\ job' = j
        /\ outcome' = IF j.confirmed THEN "running" ELSE "error"
        /\ stage' =
             IF j.operation \in {"status", "raw"} THEN j.operation ELSE "hello"
  BY <1>1 DEF StartJob
<1>4. pos' = 0 /\ got' = << >>
  BY <1>1 DEF StartJob
<1>5. HostFrames' = {}
  <2>1. hbody' = << >> /\ hheader'.length = 0
    BY <1>1, NoHeaderTyped DEF StartJob, ReceiverReset
  <2> QED BY <2>1 DEF HostFrames, AnswerRead
<1>6. LoaderFrames' = {}
  <2>1. ~BodyRead
    <3>1. CASE lphase = "body"
      BY <3>1 DEF Start, TargetQuiet
    <3>2. CASE lphase # "body"
      <4>1. lheader = NoHeader /\ lbody = << >>
        BY <3>2 DEF Start, TargetQuiet, Inv, TargetInv, TargetPlace
      <4> QED BY <4>1, NoHeaderTyped DEF BodyRead
    <3> QED BY <3>1, <3>2
  <2> QED BY <1>1, <2>1 DEF LoaderFrames, BodyRead, loaderVars
<1>7. Under(toHost)' = {} /\ Under(toTarget)' = {}
  BY <1>1 DEF Under
<1>8. NothingCurrent'
  BY <1>5, <1>6, <1>7 DEF NothingCurrent
<1>9. Flight'
  <2>1. BurnsInTime'
    BY <1>6, <1>7 DEF BurnsInTime
  <2> QED BY <1>8, <2>1, NewRequest, PTL
<1>10. FirstAttempt'
  <2>1. hphase' = "send" /\ tries' = 0
    BY <1>1 DEF StartJob, ReceiverReset
  <2> QED BY <1>8, <2>1 DEF FirstAttempt
<1>11. Believed' /\ Idle' /\ StageOfJob' /\ Placed'
  <2>1. << >> \in Seq(SUBSET Bits) /\ Len(<< >>) = 0
    OBVIOUS
  <2>2. Believed' /\ Idle' /\ StageOfJob'
    BY <1>3, <1>4, <2>1 DEF Believed, Idle, StageOfJob
  <2>3. Placed'
    BY <1>3, <1>4 DEF Placed, Loops
  <2> QED BY <2>2, <2>3
<1>12. HostBelievesTrue'
  BY <1>3, <1>4 DEF HostBelievesTrue
<1>13. InterruptionIsHarmless'
  BY <1>3 DEF InterruptionIsHarmless, Inv, TargetInv, TargetPlace
<1> QED BY <1>2, <1>9, <1>10, <1>11, <1>12, <1>13 DEF BeliefInv

\* Between two loops over the image nothing is under way.
LEMMA EnterBelief ==
  ASSUME Inv, Inv', BeliefInv, Running, LoopEnded, UNCHANGED line, UNCHANGED targetVars,
         cut' = cut, NEW next \in {"burn", "check"}, Enter(next),
         job.operation = "program",
         next = "burn" => stage = "read" /\ Burnable,
         next = "check" => stage = "burn"
  PROVE  BeliefInv'
<1>1. /\ UNCHANGED <<loaderVars, otp, toHost, toTarget>>
      /\ stage' = next /\ pos' = 0 /\ got' = << >>
      /\ UNCHANGED <<job, outcome, info, sequence, tries, receiverVars>>
  BY DEF targetVars, Enter, line
<1>2. Burning'
  BY <1>1, BurningKept DEF BeliefInv
<1>3. HostFrames' = HostFrames /\ LoaderFrames' = LoaderFrames
  BY <1>1 DEF loaderVars, LoaderFrames, BodyRead, HostFrames, AnswerRead, receiverVars
<1>4. Under(toHost)' = Under(toHost) /\ Under(toTarget)' = Under(toTarget)
  BY <1>1 DEF Under
<1>5. NothingCurrent /\ Flight /\ hphase = "send" /\ tries = 0
  BY DEF BeliefInv, FirstAttempt
<1>6. NothingCurrent'
  BY <1>1, <1>3, <1>4, <1>5 DEF NothingCurrent, Current
<1>7. BurnsInTime'
  BY <1>1 DEF BurnsInTime
<1>8. Flight'
  BY <1>6, <1>7, NewRequest, PTL
<1>9. FirstAttempt'
  BY <1>1, <1>5, <1>6 DEF FirstAttempt, receiverVars
<1>10. Believed' /\ Idle' /\ StageOfJob' /\ Placed'
  <2>1. << >> \in Seq(SUBSET Bits) /\ Len(<< >>) = 0
    OBVIOUS
  <2>2. Placed'
    BY <1>1 DEF BeliefInv, Placed, LoopEnded, Total
  <2> QED BY <1>1, <2>1, <2>2 DEF Believed, Idle, StageOfJob, Running
<1>11. Total' = Total /\ Total \in Nat /\ pos = Total /\ \A i : OtpWord(i)' = OtpWord(i)
  BY <1>1, JobTyped DEF Total, OtpWord, Inv, LoopEnded
<1>12. CASE next = "burn"
  <2>1. HostBelievesTrue'
    BY <1>1, <1>12 DEF HostBelievesTrue, Running
  <2>2. Len(got) = Total
    BY <1>11, <1>12 DEF BeliefInv, Believed
  <2>3. \A i \in 1 .. Total : job.image[i] \subseteq OtpWord(i)
    BY <1>12, <2>2 DEF Burnable, BeliefInv, HostBelievesTrue
  <2>4. InterruptionIsHarmless'
    BY <1>1, <1>11, <2>3 DEF InterruptionIsHarmless, Inv, TargetInv, TargetPlace, OtpWord, Total
  <2> QED BY <1>2, <1>8, <1>9, <1>10, <2>1, <2>4 DEF BeliefInv
<1>13. CASE next = "check"
  <2>1. \A i \in 1 .. Total : OtpWord(i) = job.image[i]
    BY <1>11, <1>13 DEF BeliefInv, HostBelievesTrue
  <2>2. \A i \in 1 .. Total' : OtpWord(i)' = job'.image[i]
    BY <1>1, <1>11, <2>1
  <2>3. HostBelievesTrue'
    BY <1>1, <1>13, <2>2 DEF HostBelievesTrue, Running
  <2>4. InterruptionIsHarmless'
    BY <2>2 DEF InterruptionIsHarmless, Inv, TargetInv, TargetPlace
  <2> QED BY <1>2, <1>8, <1>9, <1>10, <2>3, <2>4 DEF BeliefInv
<1> QED BY <1>12, <1>13

LEMMA TurnBelief ==
  ASSUME Inv, Inv', BeliefInv, Turn, UNCHANGED line, UNCHANGED targetVars, cut' = cut
  PROVE  BeliefInv'
<1>1. Running /\ LoopEnded
  BY DEF Turn
<1>2. Total \in Nat /\ pos = Total
  BY <1>1, JobTyped DEF Inv, LoopEnded
<1>3. StageOfJob /\ Believed /\ HostBelievesTrue
  BY <1>1 DEF BeliefInv
<1>10. job.offset + Total <= Depth
  BY <1>1 DEF BeliefInv, Placed, LoopEnded
<1>4. CASE stage = "read" /\ job.operation = "read" /\ Finish("ok")
  BY <1>4, FinishBelief
<1>5. CASE stage = "read" /\ job.operation = "program" /\ Burnable /\ Enter("burn")
  BY <1>1, <1>5, EnterBelief
<1>6. CASE Finish("error")
  BY <1>6, FinishBelief
<1>7. CASE stage = "burn" /\ Enter("check")
  <2>1. job.operation = "program"
    BY <1>7 DEF Inv, HostInv, HostPlace
  <2> QED BY <1>1, <1>7, <2>1, EnterBelief
<1>8. CASE stage = "burn" /\ Finish("ok")
  <2>1. job.operation = "program"
    BY <1>8 DEF Inv, HostInv, HostPlace
  <2>2. \A i \in 1 .. Total : OtpWord(i) = job.image[i]
    BY <1>2, <1>3, <1>8, <2>1 DEF HostBelievesTrue
  <2> QED BY <1>8, <1>10, <2>1, <2>2, FinishBelief
<1>9. CASE stage = "check" /\ got = job.image /\ Finish("ok")
  <2>1. Len(got) = Total
    BY <1>9 DEF Total
  <2>2. \A i \in 1 .. Total : OtpWord(i) = job.image[i]
    BY <1>3, <1>9, <2>1 DEF HostBelievesTrue
  <2>3. job.operation # "lock"
    BY <1>3, <1>9 DEF StageOfJob
  <2> QED BY <1>9, <1>10, <2>2, <2>3, FinishBelief
<1> QED BY <1>4, <1>5, <1>6, <1>7, <1>8, <1>9 DEF Turn

\* An answer that matches is to this request, and nothing older is behind it.
LEMMA MatchedAnswer ==
  ASSUME Inv, BeliefInv, Running, AnswerRead, Matches
  PROVE  /\ \A f \in Under(toHost) \cup LoaderFrames \cup Under(toTarget) :
              f.sequence = sequence
         /\ \A f \in LoaderFrames \cup Under(toTarget) : f = HostRequest
         /\ stage \in {"read", "check"} =>
              \A i \in 1 .. Chunk :
                /\ hbody[i].item.word \in SUBSET Bits
                /\ hbody[i].item.word = OtpWord(pos + i)
         /\ stage = "burn" =>
              \A i \in 1 .. Chunk : OtpWord(pos + i) = job.image[pos + i]
         /\ stage = "lock" => otp.locked \/ cut
         /\ stage = "hello" => hbody[1].item.device \in Devices
<1>1. /\ Intact(hheader, hbody) /\ Reply.sequence = sequence /\ Reply.status = "OK"
      /\ stage \in {"read", "check"} => hheader.length = Chunk
  BY DEF Matches
<1>2. hheader.frame \in FrameSet /\ hheader.length \in Nat
  BY DEF Inv, HostInv, HostTyped, HeaderSet
<1>3. PICK f : f = hbody[hheader.length + 1].frame
  OBVIOUS
<1>4. /\ hbody[hheader.length + 1].t = "crc"
      /\ f = [hheader.frame EXCEPT !.payload = Items(hheader, hbody)]
  BY <1>1, <1>3 DEF Intact
<1>5. /\ f.sequence = sequence /\ f.status = "OK"
      /\ f.payload = Items(hheader, hbody)
  BY <1>1, <1>2, <1>4 DEF Reply, FrameSet
<1>6. HostFrames = {f}
  <2>1. Sound(hbody[hheader.length + 1])
    BY <1>3, <1>4, <1>5 DEF Sound
  <2> QED BY <1>3, <2>1, UnderOne DEF HostFrames
<1>7. Flight /\ Current(f)
  BY <1>5 DEF BeliefInv, Current
<1>8. /\ Truthful(f)
      /\ \A g \in Under(toHost) \cup LoaderFrames \cup Under(toTarget) : Current(g)
      /\ \A g \in LoaderFrames \cup Under(toTarget) : Asked(g)
  BY <1>6, <1>7 DEF Flight, Carried, Before
<1>9. ASSUME stage \in {"read", "check"}, NEW i \in 1 .. Chunk
      PROVE  /\ hbody[i].item.word \in SUBSET Bits
             /\ hbody[i].item.word = OtpWord(pos + i)
  <2>1. i \in 1 .. hheader.length
    BY <1>1, <1>9
  <2>2. Len(f.payload) = hheader.length /\ f.payload[i] = hbody[i].item
    BY <1>2, <1>5, <2>1 DEF Items
  <2> QED BY <1>8, <1>9, <2>1, <2>2 DEF Truthful
<1>10. ASSUME stage = "hello"
       PROVE  hbody[1].item.device \in Devices
  <2>1. Len(f.payload) = 1 /\ f.payload[1].device \in Devices
    BY <1>8, <1>10 DEF Truthful
  <2>2. 1 \in 1 .. hheader.length
    BY <1>2, <1>5, <2>1 DEF Items
  <2>3. f.payload[1] = hbody[1].item
    BY <1>5, <2>2 DEF Items
  <2> QED BY <2>1, <2>3
<1> QED BY <1>6, <1>8, <1>9, <1>10 DEF Truthful, Asked, Current

LEMMA NextSequence ==
  ASSUME HostInv
  PROVE  (sequence + 1) % SequenceModulus # sequence
<1>1. sequence \in Nat
  BY DEF HostInv, HostTyped
<1>2. PICK n \in Nat, modulus \in Nat : n = sequence /\ modulus = SequenceModulus /\ modulus > 1
  BY <1>1 DEF SequenceModulus
<1>3. n < modulus
  BY <1>2 DEF HostInv, HostTyped
<1>4. CASE n + 1 < modulus
  <2>1. (n + 1) % modulus = n + 1
    BY <1>2, <1>4
  <2> QED BY <1>2, <2>1
<1>5. CASE n + 1 = modulus
  <2>1. (n + 1) % modulus = 0
    BY <1>2, <1>5
  <2> QED BY <1>2, <1>5, <2>1
<1> QED BY <1>3, <1>4, <1>5

\* The next request: whatever is under way is an answer, or a copy, of the last.
LEMMA ProceedFlight ==
  ASSUME Inv, Inv', BeliefInv, Running, AnswerRead, Matches,
         NEW next, NEW done, NEW words, Proceed(next, done, words),
         stage = "raw" => FALSE, stage = "burn" => next = "burn",
         UNCHANGED line, UNCHANGED targetVars
  PROVE  Flight' /\ FirstAttempt'
<1>1. /\ UNCHANGED <<loaderVars, otp, toHost, toTarget>>
      /\ stage' = next /\ sequence' = (sequence + 1) % SequenceModulus
      /\ hphase' = "send" /\ tries' = 0
  BY DEF targetVars, Proceed, ReceiverReset, line
<1>2. HostFrames' = {}
  <2>1. hbody' = << >> /\ hheader'.length = 0
    BY NoHeaderTyped DEF Proceed, ReceiverReset
  <2> QED BY <2>1 DEF HostFrames, AnswerRead
<1>3. /\ LoaderFrames' = LoaderFrames
      /\ Under(toHost)' = Under(toHost) /\ Under(toTarget)' = Under(toTarget)
  BY <1>1 DEF loaderVars, LoaderFrames, BodyRead, Under
<1>4. sequence' # sequence
  BY <1>1, NextSequence DEF Inv
<1>5. \A f \in Under(toHost) \cup LoaderFrames \cup Under(toTarget) : f.sequence = sequence
  BY MatchedAnswer
<1>6. NothingCurrent'
  BY <1>2, <1>3, <1>4, <1>5 DEF NothingCurrent, Current
<1>7. BurnsInTime'
  <2>1. ASSUME NEW f \in LoaderFrames \cup Under(toTarget), f.command = "PROGRAM"
        PROVE  next = "burn"
    <3>1. PICK r : r = HostRequest
      OBVIOUS
    <3>2. f = r
      BY <3>1, MatchedAnswer
    <3>3. stage \in Stages
      BY DEF Inv, HostInv, HostTyped
    <3>4. CASE stage \in {"hello", "status", "lock"}
      BY <2>1, <3>1, <3>2, <3>4 DEF HostRequest, Frame
    <3>5. CASE stage \in {"read", "check"}
      BY <2>1, <3>1, <3>2, <3>5 DEF HostRequest, Frame
    <3> QED BY <3>3, <3>4, <3>5 DEF Stages
  <2> QED BY <1>1, <1>3, <2>1 DEF BurnsInTime
<1>8. Flight'
  BY <1>6, <1>7, NewRequest, PTL
<1> QED BY <1>1, <1>6, <1>8 DEF FirstAttempt

LEMMA HelloBelief ==
  ASSUME Inv, Inv', BeliefInv, Running, AnswerRead, HelloAnswered,
         UNCHANGED line, UNCHANGED targetVars, cut' = cut
  PROVE  BeliefInv'
<1>1. StageOfJob /\ Matches /\ stage = "hello"
  BY DEF BeliefInv, HelloAnswered
<1>2. CASE Finish("error")
  BY <1>2, FinishBelief
<1>3. CASE job.operation = "probe" /\ Finish("ok")
  BY <1>3, FinishBelief
<1>4. CASE ~Finish("error") /\ ~(job.operation = "probe" /\ Finish("ok"))
  <2>1. PICK next \in {"lock", "check", "read"} :
          /\ Proceed(next, 0, << >>)
          /\ next = "lock" => job.operation = "lock"
          /\ next = "check" => job.operation = "verify"
          /\ next = "read" => job.operation \notin {"lock", "verify", "probe"}
    BY <1>4 DEF HelloAnswered
  <2>2. job.operation \in {"probe", "status", "read", "verify", "program", "lock", "raw"}
    BY JobsAssumption DEF Inv, HostInv, HostTyped
  <2>3. /\ stage' = next /\ pos' = 0 /\ got' = << >>
        /\ UNCHANGED <<job, outcome, loaderVars, otp>>
    BY <2>1 DEF Proceed, targetVars
  <2>4. Flight' /\ FirstAttempt'
    <3>1. PICK e : e = << >>
      OBVIOUS
    <3>2. Proceed(next, 0, e)
      BY <2>1, <3>1
    <3> QED BY <1>1, <3>2, ProceedFlight
  <2>5. Believed' /\ Idle' /\ StageOfJob'
    <3>1. << >> \in Seq(SUBSET Bits) /\ Len(<< >>) = 0
      OBVIOUS
    <3>2. Believed' /\ Idle'
      BY <2>3, <3>1 DEF Believed, Idle, Running
    <3>3. StageOfJob'
      BY <1>1, <2>1, <2>2, <2>3 DEF StageOfJob
    <3> QED BY <3>2, <3>3
  <2>6. Burning'
    BY <2>3, BurningKept DEF BeliefInv
  <2>7. HostBelievesTrue' /\ InterruptionIsHarmless'
    <3>1. job'.operation = "program" => stage' \notin {"burn", "check"}
      BY <2>1, <2>3
    <3>2. HostBelievesTrue'
      BY <2>3, <3>1 DEF HostBelievesTrue, Running
    <3>3. InterruptionIsHarmless'
      BY <3>1 DEF InterruptionIsHarmless, Inv, TargetInv, TargetPlace
    <3> QED BY <3>2, <3>3
  <2>8. Placed'
    <3>1. CASE next = "lock"
      BY <1>1, <2>1, <2>3, <3>1 DEF Placed, Loops, Running
    <3>2. CASE next # "lock"
      <4>1. PICK d : d = hbody[1].item.device
        OBVIOUS
      <4>2. d \in Devices
        BY <1>1, <4>1, MatchedAnswer
      <4>3. Permitted(d)
        BY <1>4, <4>1 DEF HelloAnswered
      <4>4. job.operation \notin {"lock", "probe"}
        BY <2>1, <3>2
      <4>5. job.offset + Total <= d.size
        BY <4>3, <4>4 DEF Permitted
      <4>6. d.size \in 0 .. Depth
        BY <4>2, DevicesAssumption
      <4>7. job.offset + Total <= Depth
        BY <4>5, <4>6, JobTyped, DepthAssumption DEF Inv
      <4> QED BY <2>3, <4>7 DEF Placed, Total
    <3> QED BY <3>1, <3>2
  <2> QED BY <2>4, <2>5, <2>6, <2>7, <2>8 DEF BeliefInv
<1> QED BY <1>2, <1>3, <1>4

LEMMA Concatenated ==
  ASSUME NEW S, NEW g \in Seq(S), NEW w \in Seq(S)
  PROVE  /\ g \o w \in Seq(S) /\ Len(g \o w) = Len(g) + Len(w)
         /\ \A i \in 1 .. Len(g) : (g \o w)[i] = g[i]
         /\ \A k \in 1 .. Len(w) : (g \o w)[Len(g) + k] = w[k]
  OBVIOUS

LEMMA ChunkBelief ==
  ASSUME Inv, Inv', BeliefInv, Running, AnswerRead, ChunkAnswered,
         UNCHANGED line, UNCHANGED targetVars, cut' = cut
  PROVE  BeliefInv'
<1> DEFINE words == [i \in 1 .. Chunk |-> hbody[i].item.word]
<1>1. StageOfJob /\ Believed /\ Matches /\ stage \in {"read", "burn", "check"}
  BY DEF BeliefInv, ChunkAnswered, Loops
<1>2. Proceed(stage, pos + Chunk, IF stage = "burn" THEN << >> ELSE got \o words)
  BY DEF ChunkAnswered
<1>3. PICK next, done, read :
        /\ next = stage /\ done = pos + Chunk
        /\ read = IF stage = "burn" THEN << >> ELSE got \o words
  OBVIOUS
<1>4. Proceed(next, done, read)
  BY <1>2, <1>3
<1>5. Flight' /\ FirstAttempt'
  BY <1>1, <1>3, <1>4, ProceedFlight
<1>6. /\ stage' = stage /\ pos' = done /\ got' = read
      /\ UNCHANGED <<job, outcome, loaderVars, otp>>
  BY <1>3, <1>4 DEF Proceed, targetVars
<1>7. Chunk \in Nat /\ pos \in Nat /\ Total \in Nat /\ done \in Nat /\ done <= Total
  BY <1>3, JobTyped, ChunkTyped DEF Inv
<1>8. Total' = Total /\ \A i : OtpWord(i)' = OtpWord(i)
  BY <1>6 DEF Total, OtpWord
<1>9. Burning'
  BY <1>6, BurningKept DEF BeliefInv
<1>10. ASSUME stage # "burn"
       PROVE  /\ read \in Seq(SUBSET Bits) /\ Len(read) = done
              /\ \A i \in 1 .. done : read[i] = OtpWord(i)
  <2>1. PICK w, g : w = words /\ g = got
    OBVIOUS
  <2>2. \A i \in 1 .. Chunk :
          w[i] \in SUBSET Bits /\ w[i] = OtpWord(pos + i)
    BY <1>1, <1>10, <2>1, MatchedAnswer
  <2>3. w = [i \in 1 .. Chunk |-> w[i]]
    BY <2>1
  <2>4. w \in Seq(SUBSET Bits) /\ Len(w) = Chunk
    BY <1>7, <2>2, <2>3
  <2>5. /\ g \in Seq(SUBSET Bits) /\ Len(g) = pos
        /\ \A i \in 1 .. pos : g[i] = OtpWord(i)
    BY <1>1, <1>10, <2>1 DEF BeliefInv, Believed, HostBelievesTrue
  <2>6. read = g \o w
    BY <1>3, <1>10, <2>1
  <2>7. /\ read \in Seq(SUBSET Bits) /\ Len(read) = done
        /\ \A i \in 1 .. pos : read[i] = g[i]
        /\ \A k \in 1 .. Chunk : read[pos + k] = w[k]
    <3>1. PICK S : S = SUBSET Bits
      OBVIOUS
    <3>2. g \in Seq(S) /\ w \in Seq(S)
      BY <2>4, <2>5, <3>1
    <3>3. /\ read \in Seq(S) /\ Len(read) = Len(g) + Len(w)
          /\ \A i \in 1 .. Len(g) : read[i] = g[i]
          /\ \A k \in 1 .. Len(w) : read[Len(g) + k] = w[k]
      BY <2>6, <3>2, Concatenated
    <3>4. done = pos + Chunk
      BY <1>3
    <3> QED BY <2>4, <2>5, <3>1, <3>3, <3>4
  <2>8. ASSUME NEW i \in 1 .. done
        PROVE  read[i] = OtpWord(i)
    <3>1. CASE i <= pos
      <4>1. i \in 1 .. pos /\ read[i] = g[i]
        BY <1>7, <2>7, <3>1
      <4> QED BY <2>5, <4>1
    <3>2. CASE i > pos
      <4>1. PICK k : k = i - pos
        OBVIOUS
      <4>2. k \in 1 .. Chunk /\ pos + k = i
        BY <1>3, <1>7, <3>2, <4>1
      <4>3. read[i] = w[k]
        BY <2>7, <4>2
      <4> QED BY <2>2, <4>2, <4>3
    <3> QED BY <1>7, <3>1, <3>2
  <2> QED BY <2>7, <2>8
<1>11. Believed'
  <2>1. CASE stage = "burn"
    <3>1. read = << >> /\ << >> \in Seq(SUBSET Bits) /\ Len(<< >>) = 0
      BY <1>3, <2>1
    <3> QED BY <1>6, <2>1, <3>1 DEF Believed
  <2>2. CASE stage # "burn"
    BY <1>1, <1>6, <1>10, <2>2 DEF Believed
  <2> QED BY <2>1, <2>2
<1>12. Idle' /\ StageOfJob' /\ Placed'
  BY <1>1, <1>6 DEF Idle, StageOfJob, Running, BeliefInv, Placed, Total, Loops
<1>13. HostBelievesTrue'
  <2>1. \A i \in 1 .. Len(got') : got'[i] = OtpWord(i)'
    <3>1. CASE stage = "burn"
      BY <1>3, <1>6, <3>1
    <3>2. CASE stage # "burn"
      BY <1>6, <1>8, <1>10, <3>2
    <3> QED BY <3>1, <3>2
  <2>2. ASSUME job.operation = "program", stage = "burn", NEW i \in 1 .. done
        PROVE  OtpWord(i) = job.image[i]
    <3>1. CASE i <= pos
      BY <1>7, <2>2, <3>1 DEF BeliefInv, HostBelievesTrue
    <3>2. CASE i > pos
      <4>1. PICK k : k = i - pos
        OBVIOUS
      <4>2. k \in 1 .. Chunk /\ pos + k = i
        BY <1>3, <1>7, <3>2, <4>1
      <4> QED BY <1>1, <2>2, <4>2, MatchedAnswer
    <3> QED BY <1>7, <3>1, <3>2
  <2>3. ASSUME job.operation = "program", stage = "check", NEW i \in 1 .. Total
        PROVE  OtpWord(i) = job.image[i]
    BY <2>3 DEF BeliefInv, HostBelievesTrue
  <2>4. outcome' = "running"
    BY <1>6 DEF Running
  <2> QED BY <1>6, <1>8, <2>1, <2>2, <2>3, <2>4 DEF HostBelievesTrue
<1>14. InterruptionIsHarmless'
  BY <1>6, <1>8 DEF InterruptionIsHarmless, BeliefInv, Inv, TargetInv, TargetPlace
<1> QED BY <1>5, <1>9, <1>11, <1>12, <1>13, <1>14 DEF BeliefInv

LEMMA AnswerBelief ==
  ASSUME Inv, Inv', BeliefInv, TakeAnswer, UNCHANGED line, UNCHANGED targetVars, cut' = cut
  PROVE  BeliefInv'
<1>1. Running /\ AnswerRead
  BY DEF TakeAnswer
<1>2. CASE Rejected
  BY <1>2, FinishBelief DEF Rejected
<1>3. CASE HelloAnswered
  BY <1>1, <1>3, HelloBelief
<1>4. CASE ChunkAnswered
  BY <1>1, <1>4, ChunkBelief
<1>5. CASE LastAnswered
  <2>1. Matches /\ stage \in {"status", "lock", "raw"} /\ Finish("ok")
    BY <1>5 DEF LastAnswered
  <2>2. StageOfJob /\ (stage = "raw" => job.operation = "raw")
    BY <1>1 DEF BeliefInv, Inv, HostInv, HostPlace
  <2>3. job.operation \notin {"program", "verify"}
    BY <2>1, <2>2 DEF StageOfJob
  <2>4. job.operation = "lock" => otp.locked \/ cut
    BY <1>1, <2>1, <2>2, MatchedAnswer DEF StageOfJob
  <2> QED BY <2>1, <2>3, <2>4, FinishBelief
<1> QED BY <1>2, <1>3, <1>4, <1>5 DEF TakeAnswer

LEMMA TimeOutBelief ==
  ASSUME Inv, Inv', BeliefInv, TimeOut, UNCHANGED line, UNCHANGED targetVars, cut' = cut
  PROVE  BeliefInv'
<1>1. CASE Finish("error")
  BY <1>1, FinishBelief
<1>2. CASE ~Finish("error")
  BY <1>2, RetryBelief DEF TimeOut
<1> QED BY <1>1, <1>2

LEMMA HostBelief ==
  ASSUME Inv, Inv', BeliefInv, HostStep, UNCHANGED targetVars, cut' = cut
  PROVE  BeliefInv'
<1>1. CASE Turn /\ UNCHANGED line
  BY <1>1, TurnBelief
<1>2. CASE TakeAnswer /\ UNCHANGED line
  BY <1>2, AnswerBelief
<1>3. CASE Send /\ UNCHANGED toHost
  BY <1>3, SendBelief
<1>4. CASE (HostSeek \/ HostHeader \/ HostBody) /\ UNCHANGED toTarget
  <2>1. CASE Finish("error")
    BY <2>1, FinishBelief
  <2>2. CASE ~Finish("error")
    <3>1. UNCHANGED jobVars
      BY <1>4, <2>2 DEF HostSeek, HostHeader, HostBody
    <3> QED BY <1>4, <3>1, ReceiveBelief
  <2> QED BY <2>1, <2>2
<1> QED BY <1>1, <1>2, <1>3, <1>4 DEF HostStep

-------------------------------------------------------------------------------
(* The loader's steps and what the host believes. *)

LEMMA LoaderShrinks ==
  ASSUME Inv, Inv', BeliefInv, UNCHANGED hostVars, OtpStays, Burning',
         NEW th, NEW l, NEW tt,
         toHost' = th, LoaderFrames' = l, toTarget' = tt,
         Running => l \subseteq LoaderFrames,
         Under(th) \subseteq Under(toHost), InOrder(toHost) => InOrder(th),
         Under(tt) \subseteq Under(toTarget), InOrder(toTarget) => InOrder(tt)
  PROVE  BeliefInv'
<1>1. UNCHANGED <<jobVars, hphase, tries, hheader, hbody>>
  BY DEF hostVars, receiverVars
<1>2. HostFrames' = HostFrames
  BY <1>1 DEF HostFrames, AnswerRead
<1>3. ASSUME Running
      PROVE  Flight' /\ FirstAttempt'
  <2>1. Flight /\ FirstAttempt
    BY <1>3 DEF BeliefInv
  <2>2. PICK h : h = HostFrames
    OBVIOUS
  <2>3. HostFrames' = h /\ h \subseteq HostFrames /\ l \subseteq LoaderFrames
    BY <1>2, <1>3, <2>2
  <2>4. InOrder(th) /\ InOrder(tt)
    BY <2>1 DEF Flight
  <2>5. Flight' /\ (NothingCurrent => NothingCurrent')
    BY <1>1, <2>1, <2>3, <2>4, FlightShrinks
  <2>6. FirstAttempt'
    BY <1>1, <2>1, <2>5 DEF FirstAttempt, LoopEnded, jobVars, Total
  <2> QED BY <2>5, <2>6
<1> QED BY <1>1, <1>3, SameRequest

\* The request the loader has whole, as it was sent.
LEMMA SoundLoader ==
  ASSUME Inv, BodyRead, Intact(lheader, lbody), Request.status = "OK"
  PROVE  \E r : /\ LoaderFrames = {r}
                /\ r.sequence = Request.sequence /\ r.command = Request.command
                /\ r.address = Request.address /\ Len(r.payload) = lheader.length
                /\ \A i \in 1 .. lheader.length : r.payload[i] = lbody[i].item
<1>1. lheader.frame \in FrameSet /\ lheader.length \in Nat
  BY DEF Inv, TargetInv, TargetTyped, HeaderSet
<1>2. PICK r : r = lbody[lheader.length + 1].frame
  OBVIOUS
<1>3. /\ lbody[lheader.length + 1].t = "crc"
      /\ r = [lheader.frame EXCEPT !.payload = Items(lheader, lbody)]
  BY <1>2 DEF Intact
<1>4. /\ r.sequence = Request.sequence /\ r.command = Request.command
      /\ r.address = Request.address /\ r.status = "OK"
      /\ r.payload = Items(lheader, lbody)
  BY <1>1, <1>3 DEF FrameSet, Request
<1>5. /\ Len(r.payload) = lheader.length
      /\ \A i \in 1 .. lheader.length : r.payload[i] = lbody[i].item
  BY <1>1, <1>4 DEF Items
<1>6. Sound(lbody[lheader.length + 1])
  BY <1>2, <1>3, <1>4 DEF Sound
<1>7. LoaderFrames = {r}
  BY <1>2, <1>6, UnderOne DEF LoaderFrames
<1> QED BY <1>4, <1>5, <1>7

\* What the host asks for at each of its stages.
LEMMA RequestIs ==
  ASSUME Inv
  PROVE  /\ stage \in {"read", "check"} =>
              HostRequest.command = "READ" /\ HostRequest.address = job.offset + pos
         /\ stage = "burn" =>
              /\ HostRequest.command = "PROGRAM" /\ HostRequest.address = job.offset + pos
              /\ Len(HostRequest.payload) = Chunk
              /\ \A i \in 1 .. Chunk : HostRequest.payload[i].word = job.image[pos + i]
         /\ stage = "lock" => HostRequest.command = "LOCK"
         /\ stage = "hello" => HostRequest.command = "HELLO"
<1>1. PICK f : f = HostRequest
  OBVIOUS
<1>2. ASSUME stage \in {"read", "check"}
      PROVE  f.command = "READ" /\ f.address = job.offset + pos
  BY <1>1, <1>2 DEF HostRequest, Frame
<1>3. ASSUME stage = "burn"
      PROVE  /\ f.command = "PROGRAM" /\ f.address = job.offset + pos
             /\ Len(f.payload) = Chunk
             /\ \A i \in 1 .. Chunk : f.payload[i].word = job.image[pos + i]
  <2>1. PICK words : words = [i \in 1 .. Chunk |-> Word(job.image[pos + i])]
    OBVIOUS
  <2>2. f.command = "PROGRAM" /\ f.address = job.offset + pos /\ f.payload = words
    BY <1>1, <1>3, <2>1 DEF HostRequest, Frame
  <2>3. Chunk \in Nat
    BY ChunkTyped DEF Inv
  <2>4. Len(words) = Chunk /\ \A i \in 1 .. Chunk : words[i].word = job.image[pos + i]
    BY <2>1, <2>3 DEF Word
  <2> QED BY <2>2, <2>4
<1>4. ASSUME stage = "lock"
      PROVE  f.command = "LOCK"
  BY <1>1, <1>4 DEF HostRequest, Frame
<1>5. ASSUME stage = "hello"
      PROVE  f.command = "HELLO"
  BY <1>1, <1>5 DEF HostRequest, Frame
<1> QED BY <1>1, <1>2, <1>3, <1>4, <1>5

LEMMA SeekBelief ==
  ASSUME Inv, Inv', BeliefInv, Seek \/ ReadHeader, UNCHANGED hostVars, cut' = cut
  PROVE  BeliefInv'
<1>1. /\ toTarget # << >> /\ toTarget' = Tail(toTarget)
      /\ UNCHANGED <<otp, toHost>>
      /\ lphase' \in {"seek", "half", "header", "body"}
  BY DEF Seek, ReadHeader, LoaderReads
<1>2. OtpStays
  BY <1>1 DEF OtpStays
<1>3. Burning'
  BY <1>1 DEF Burning
<1>4. LoaderFrames' = {}
  <2>1. lbody' = << >>
    BY DEF Seek, ReadHeader, Inv, TargetInv, TargetPlace
  <2>2. lheader'.length \in Nat
    BY DEF Inv, TargetInv, TargetTyped, HeaderSet
  <2> QED BY <2>1, <2>2 DEF LoaderFrames, BodyRead
<1>5. PICK q : q = toTarget /\ q \in Seq(Token) /\ q # << >>
  BY <1>1 DEF Inv, LineInv
<1>6. PICK th, l, tt : th = toHost /\ l = {} /\ tt = Tail(q)
  OBVIOUS
<1>7. Under(tt) \subseteq Under(q) /\ (InOrder(q) => InOrder(tt))
  BY <1>5, <1>6, UnderRest
<1>8. toHost' = th /\ LoaderFrames' = l /\ toTarget' = tt
  BY <1>1, <1>4, <1>5, <1>6
<1>9. Running => l \subseteq LoaderFrames
  BY <1>6
<1>10. Under(th) \subseteq Under(toHost) /\ (InOrder(toHost) => InOrder(th))
  BY <1>6
<1>11. Under(tt) \subseteq Under(toTarget) /\ (InOrder(toTarget) => InOrder(tt))
  BY <1>5, <1>7
<1> QED BY <1>2, <1>3, <1>8, <1>9, <1>10, <1>11, LoaderShrinks

LEMMA ReadBodyBelief ==
  ASSUME Inv, Inv', BeliefInv, ReadBody, UNCHANGED hostVars, cut' = cut
  PROVE  BeliefInv'
<1>1. /\ lphase = "body" /\ ~BodyRead /\ toTarget # << >> /\ toTarget' = Tail(toTarget)
      /\ lbody' = Append(lbody, Head(toTarget))
      /\ UNCHANGED <<otp, toHost, lphase, lheader>>
      /\ UNCHANGED <<jobVars, hphase, tries, hheader, hbody>>
  BY DEF ReadBody, LoaderReads, hostVars, receiverVars
<1>2. OtpStays
  BY <1>1 DEF OtpStays
<1>3. Burning'
  BY <1>1 DEF Burning
<1>4. HostFrames' = HostFrames
  BY <1>1 DEF HostFrames, AnswerRead
<1>5. LoaderFrames = {}
  BY <1>1 DEF LoaderFrames
<1>6. PICK q : q = toTarget /\ q \in Seq(Token) /\ q # << >>
  BY <1>1 DEF Inv, LineInv
<1>7. LoaderFrames' \subseteq Under(<<Head(q)>>)
  <2>1. lbody \in Seq(Token) /\ lheader.length \in Nat /\ Head(q) \in Token
    BY <1>6, HeadTyped DEF Inv, TargetInv, TargetTyped, HeaderSet
  <2>2. lbody' = Append(lbody, Head(q))
    BY <1>1, <1>6
  <2>3. Len(lbody') = Len(lbody) + 1 /\ lbody'[Len(lbody) + 1] = Head(q)
    BY <2>1, <2>2
  <2>4. BodyRead' => lbody'[lheader'.length + 1] = Head(q)
    BY <1>1, <2>1, <2>3 DEF BodyRead
  <2>5. LoaderFrames' = IF BodyRead' THEN Under(<<lbody'[lheader'.length + 1]>>) ELSE {}
    BY DEF LoaderFrames, Under
  <2> QED BY <2>4, <2>5
<1>8. ASSUME Running
      PROVE  Flight' /\ FirstAttempt'
  <2>1. Flight /\ FirstAttempt
    BY <1>8 DEF BeliefInv
  <2>2. PICK t : t = Tail(q)
    OBVIOUS
  <2>3. /\ Under(t) \subseteq Under(q) /\ InOrder(t)
        /\ Before(Under(<<Head(q)>>), Under(t)) /\ Under(<<Head(q)>>) \subseteq Under(q)
    BY <1>6, <2>1, <2>2, UnderRest DEF Flight
  <2>4. PICK A, B, C, D, H : /\ A = HostFrames /\ B = Under(toHost) /\ C = Under(t)
                             /\ D = Under(q) /\ H = LoaderFrames'
    OBVIOUS
  <2>5. Carried(A, B, {}, D)
    BY <1>5, <1>6, <2>1, <2>4 DEF Flight
  <2>6. H \subseteq D /\ C \subseteq D /\ Before(H, C)
    BY <1>7, <2>3, <2>4 DEF Before
  <2>7. Carried(A, B, H, C)
    BY <2>5, <2>6, HeadRead
  <2>8. Carried(A, B, H, C)'
    BY <1>1, <1>2, <2>7, CarriedKept, TruthKept
  <2>9. /\ HostFrames' = A /\ Under(toHost)' = B
        /\ LoaderFrames' = H /\ Under(toTarget)' = C
    BY <1>1, <1>4, <1>6, <2>2, <2>4 DEF Under
  <2>10. InOrder(toTarget)'
    <3>1. InOrder(t)'
      BY <1>1, <2>3, OrderKept DEF jobVars
    <3> QED BY <1>1, <1>6, <2>2, <3>1
  <2>11. InOrder(toHost)'
    <3>1. PICK r : r = toHost
      OBVIOUS
    <3>2. InOrder(r)'
      BY <1>1, <2>1, <3>1, OrderKept DEF jobVars, Flight
    <3> QED BY <1>1, <3>1, <3>2
  <2>12. Flight'
    BY <2>8, <2>9, <2>10, <2>11 DEF Flight
  <2>13. NothingCurrent => NothingCurrent'
    <3>1. \A f : Current(f)' <=> Current(f)
      BY <1>1 DEF Current, jobVars
    <3> QED BY <1>6, <2>4, <2>6, <2>9, <3>1 DEF NothingCurrent
  <2>14. FirstAttempt'
    BY <1>1, <2>1, <2>13 DEF FirstAttempt, LoopEnded, jobVars, Total
  <2> QED BY <2>12, <2>14
<1> QED BY <1>1, <1>2, <1>3, <1>8, SameRequest

LEMMA RefusalBelief ==
  ASSUME Inv, Inv', BeliefInv, NEW status \in Statuses, status # "OK",
         Respond(status, << >>), OtpStays, UNCHANGED hostVars, UNCHANGED toTarget
  PROVE  BeliefInv'
<1>1. lphase' = "seek" /\ lheader' = NoHeader /\ lbody' = << >>
  BY DEF Respond
<1>2. Burning'
  BY <1>1 DEF Burning
<1>3. LoaderFrames' = {}
  BY <1>1, NoHeaderTyped DEF LoaderFrames, BodyRead
<1>4. PICK p : p = << >> /\ p \in Seq(ItemSet)
  <2>1. << >> \in Seq(ItemSet)
    OBVIOUS
  <2> QED BY <2>1
<1>5. PICK f : f = [Frame("response", Request.sequence, Request.command, status,
                          Request.address, IF status = "OK" THEN p ELSE << >>)
                    EXCEPT !.version = device.version]
  OBVIOUS
<1>6. f \in FrameSet
  BY <1>4, <1>5, ResponseTyped DEF Inv
<1>7. f.status # "OK"
  BY <1>5 DEF Frame
<1>8. PICK q : q = toHost /\ q \in Seq(Token)
  BY DEF Inv, LineInv
<1>9. toHost' = q \o Encode(f)
  BY <1>4, <1>5, <1>8 DEF Respond, ToHost
<1>10. PICK th, l, tt : th = q \o Encode(f) /\ l = {} /\ tt = toTarget
  OBVIOUS
<1>11. Under(th) \subseteq Under(q) /\ (InOrder(q) => InOrder(th))
  BY <1>6, <1>7, <1>8, <1>10, UnderAppended
<1>12. toHost' = th /\ LoaderFrames' = l /\ toTarget' = tt
  BY <1>3, <1>9, <1>10
<1>13. Running => l \subseteq LoaderFrames
  BY <1>10
<1>14. Under(th) \subseteq Under(toHost) /\ (InOrder(toHost) => InOrder(th))
  BY <1>8, <1>11
<1>15. Under(tt) \subseteq Under(toTarget) /\ (InOrder(toTarget) => InOrder(tt))
  BY <1>10
<1> QED BY <1>2, <1>12, <1>13, <1>14, <1>15, LoaderShrinks

\* A request carried out: its answer, if it is true, takes the request's place.
LEMMA CarriedOut ==
  ASSUME Inv, Inv', BeliefInv, UNCHANGED hostVars, UNCHANGED toTarget, OtpStays,
         BodyRead, Intact(lheader, lbody), Request.status = "OK",
         NEW payload \in Seq(ItemSet), Respond("OK", payload),
         \A f : \A r \in LoaderFrames :
           Running /\ Current(r) /\ f.payload = payload => Truthful(f)'
  PROVE  BeliefInv'
<1>1. /\ lphase' = "seek" /\ lheader' = NoHeader /\ lbody' = << >>
      /\ UNCHANGED <<jobVars, hphase, tries, hheader, hbody>>
  BY DEF Respond, hostVars, receiverVars
<1>2. Burning'
  BY <1>1 DEF Burning
<1>3. HostFrames' = HostFrames /\ LoaderFrames' = {}
  BY <1>1, NoHeaderTyped DEF HostFrames, AnswerRead, LoaderFrames, BodyRead
<1>4. PICK r : LoaderFrames = {r} /\ r.sequence = Request.sequence
  BY SoundLoader
<1>5. PICK f : f = [Frame("response", Request.sequence, Request.command, "OK",
                          Request.address, IF "OK" = "OK" THEN payload ELSE << >>)
                    EXCEPT !.version = device.version]
  OBVIOUS
<1>6. f \in FrameSet
  BY <1>5, ResponseTyped DEF Inv, Statuses
<1>7. f.sequence = r.sequence /\ f.status = "OK" /\ f.payload = payload
  BY <1>4, <1>5 DEF Frame
<1>8. PICK q : q = toHost /\ q \in Seq(Token)
  BY DEF Inv, LineInv
<1>9. PICK th : th = q \o Encode(f)
  OBVIOUS
<1>10. toHost' = th
  BY <1>5, <1>8, <1>9 DEF Respond, ToHost
<1>11. ASSUME Running
       PROVE  Flight' /\ FirstAttempt'
  <2>1. Flight /\ FirstAttempt
    BY <1>11 DEF BeliefInv
  <2>2. PICK A, B, C, D, B2 : /\ A = HostFrames /\ B = Under(q) /\ C = {r}
                              /\ D = Under(toTarget) /\ B2 = Under(th)
    OBVIOUS
  <2>3. Carried(A, B, C, D)
    BY <1>4, <1>8, <2>1, <2>2 DEF Flight
  <2>4. Carried(A, B, C, D)'
    BY <1>1, <2>3, CarriedKept, TruthKept
  <2>5. (Current(f)' <=> Current(f)) /\ (Current(f) <=> Current(r))
    BY <1>1, <1>7 DEF Current, jobVars
  <2>6. Current(f)' => Truthful(f)'
    BY <1>4, <1>7, <1>11, <2>5
  <2>7. r \in C
    BY <2>2
  <2>8. Carried(A, B \cup {f}, {}, D)'
    BY <1>7, <2>4, <2>6, <2>7, AnswerGiven
  <2>9. InOrder(q) /\ Before(B, {f})
    BY <1>8, <2>1, <2>3, <2>5, <2>7 DEF Flight, Carried, Before
  <2>10. B2 \subseteq B \cup {f} /\ InOrder(th)
    BY <1>6, <1>7, <1>8, <1>9, <2>2, <2>9, UnderAppended
  <2>11. Carried(A, B2, {}, D)'
    BY <2>8, <2>10 DEF Carried, Before
  <2>12. /\ HostFrames' = A /\ Under(toHost)' = B2
         /\ LoaderFrames' = {} /\ Under(toTarget)' = D
    BY <1>3, <1>10, <2>2 DEF Under
  <2>13. InOrder(toHost)'
    <3>1. InOrder(th)'
      BY <1>1, <2>10, OrderKept DEF jobVars
    <3> QED BY <1>10, <3>1
  <2>14. InOrder(toTarget)'
    <3>1. PICK s : s = toTarget
      OBVIOUS
    <3>2. InOrder(s)'
      BY <1>1, <2>1, <3>1, OrderKept DEF jobVars, Flight
    <3> QED BY <3>1, <3>2
  <2>15. Flight'
    BY <2>11, <2>12, <2>13, <2>14 DEF Flight
  <2>16. ASSUME NothingCurrent PROVE NothingCurrent'
    <3>1. \A g : Current(g)' <=> Current(g)
      BY <1>1 DEF Current, jobVars
    <3>2. \A g \in A \cup B \cup C \cup D : ~Current(g)
      BY <1>4, <1>8, <2>2, <2>16 DEF NothingCurrent
    <3>3. \A g \in A \cup B2 \cup D : ~Current(g)
      BY <2>5, <2>7, <2>10, <3>2
    <3> QED BY <2>12, <3>1, <3>3 DEF NothingCurrent
  <2>17. FirstAttempt'
    BY <1>1, <2>1, <2>16 DEF FirstAttempt, LoopEnded, jobVars, Total
  <2> QED BY <2>15, <2>17
<1> QED BY <1>1, <1>2, <1>11, SameRequest

\* The frame the loader has whole is the host's, if it is to its request.
LEMMA LoaderHasRequest ==
  ASSUME BeliefInv, Running, NEW r \in LoaderFrames
  PROVE  Asked(r) /\ (Current(r) => r = HostRequest)
  BY DEF BeliefInv, Flight, Carried, Asked

LEMMA CarryBelief ==
  ASSUME Inv, Inv', BeliefInv, Carry, UNCHANGED hostVars, cut' = cut
  PROVE  BeliefInv'
<1>1. /\ lphase = "body" /\ BodyRead /\ Refusal = "OK" /\ Request.command # "PROGRAM"
      /\ Respond("OK", Answer) /\ UNCHANGED <<device, toTarget>>
      /\ UNCHANGED jobVars /\ UNCHANGED job
  BY DEF Carry, hostVars, jobVars
<1>2. Intact(lheader, lbody) /\ Request.status = "OK"
  BY <1>1, Accepted DEF BadLength
<1>3. /\ otp'.words = otp.words
      /\ otp'.locked = otp.locked \/ otp'.locked = TRUE
  BY <1>1, CarryKeeps DEF Inv
<1>4. OtpStays
  BY <1>3 DEF OtpStays
<1>5. PICK p \in Seq(ItemSet) : p = Answer
  BY <1>1, AnswerTyped DEF Inv
<1>6. ASSUME NEW f, NEW r \in LoaderFrames, Running, Current(r), f.payload = p
      PROVE  Truthful(f)'
  <2>1. /\ Request.command = HostRequest.command
        /\ Request.address = HostRequest.address
    <3>1. PICK h : h = HostRequest
      OBVIOUS
    <3>2. r = h
      BY <1>6, <3>1, LoaderHasRequest
    <3>3. r.command = Request.command /\ r.address = Request.address
      BY <1>1, <1>2, SoundLoader
    <3> QED BY <3>1, <3>2, <3>3
  <2>2. UNCHANGED <<stage, pos, job>> /\ stage \in Stages
    BY <1>1 DEF jobVars, Inv, HostInv, HostTyped
  <2>3. CASE stage = "hello"
    <3>1. f.payload = <<Geometry(device)>>
      BY <1>5, <1>6, <2>1, <2>3, RequestIs DEF Answer
    <3>2. device \in Devices
      BY DEF Inv, TargetInv, TargetTyped
    <3>3. Len(f.payload) = 1 /\ f.payload[1].device \in Devices
      BY <3>1, <3>2 DEF Geometry
    <3> QED BY <2>2, <2>3, <3>3 DEF Truthful
  <2>4. CASE stage \in {"read", "check"}
    <3>1. Asks("READ") /\ Request.address = job.offset + pos
      BY <2>1, <2>4, RequestIs DEF Asks
    <3>2. Span \in Nat /\ Request.address + Span <= Depth
      BY <1>1, <3>1, SpanTyped DEF Inv
    <3>3. job.offset \in Nat /\ pos \in Nat /\ otp \in OtpState
      BY JobTyped DEF Inv, TargetInv, TargetTyped
    <3>4. f.payload = [i \in 1 .. Span |-> Word(ReadWord(Request.address + i - 1))]
      BY <1>5, <1>6, <3>1 DEF Answer, Asks
    <3>5. ASSUME NEW i \in 1 .. Len(f.payload)
          PROVE  /\ f.payload[i].word \in SUBSET Bits
                 /\ f.payload[i].word = OtpWord(pos + i)
      <4>1. i \in 1 .. Span /\ f.payload[i] = Word(ReadWord(Request.address + i - 1))
        BY <3>2, <3>4, <3>5
      <4>2. PICK a : a = Request.address + i - 1
        OBVIOUS
      <4>3. a \in Addresses /\ a = job.offset + (pos + i) - 1
        <5>1. PICK x, y, n : x = job.offset /\ y = pos /\ n = Span
          OBVIOUS
        <5>2. x \in Nat /\ y \in Nat /\ n \in Nat /\ x + y + n <= Depth
          BY <3>1, <3>2, <3>3, <5>1
        <5>3. i \in 1 .. n /\ a = x + y + i - 1
          BY <3>1, <4>1, <4>2, <5>1
        <5>4. a \in 0 .. Depth - 1 /\ a = x + (y + i) - 1
          BY <5>2, <5>3, DepthAssumption
        <5> QED BY <5>1, <5>4 DEF Addresses
      <4>4. ReadWord(a) = otp.words[a]
        BY <3>3, <4>3, WordRead DEF ReadWord
      <4>5. otp.words[a] \in SUBSET Bits
        BY <3>3, <4>3 DEF OtpState
      <4> QED BY <4>1, <4>2, <4>3, <4>4, <4>5 DEF Word, OtpWord
    <3>6. \A i : OtpWord(i)' = OtpWord(i)
      BY <1>3, <2>2 DEF OtpWord
    <3> QED BY <2>2, <2>4, <3>5, <3>6 DEF Truthful
  <2>5. CASE stage = "burn"
    BY <1>1, <2>1, <2>5, RequestIs
  <2>6. CASE stage = "lock"
    <3>1. otp' = WriteLock(otp)
      BY <2>1, <2>6, RequestIs DEF Carry
    <3>2. otp'.locked
      BY <3>1 DEF WriteLock, Inv, TargetInv, TargetTyped, OtpState
    <3> QED BY <2>2, <2>6, <3>2 DEF Truthful
  <2>7. CASE stage \in {"status", "raw"}
    BY <2>2, <2>7 DEF Truthful
  <2> QED BY <2>2, <2>3, <2>4, <2>5, <2>6, <2>7 DEF Stages
<1>7. Respond("OK", p) /\ UNCHANGED toTarget
  BY <1>1, <1>5
<1> QED BY <1>1, <1>2, <1>4, <1>6, <1>7, CarriedOut

LEMMA FrameBurntBelief ==
  ASSUME Inv, Inv', BeliefInv, FrameBurnt, UNCHANGED hostVars, cut' = cut
  PROVE  BeliefInv'
<1>1. /\ lphase = "burn" /\ lpos = lheader.length /\ Respond("OK", << >>)
      /\ UNCHANGED <<otp, toTarget>> /\ UNCHANGED jobVars
  BY DEF FrameBurnt, hostVars
<1>2. BodyRead
  BY <1>1 DEF Inv, TargetInv, TargetPlace
<1>3. Intact(lheader, lbody) /\ Request.status = "OK" /\ Request.command = "PROGRAM"
  BY <1>1 DEF BeliefInv, Burning
<1>4. OtpStays
  BY <1>1 DEF OtpStays
<1>5. PICK p : p = << >> /\ p \in Seq(ItemSet)
  <2>1. << >> \in Seq(ItemSet)
    OBVIOUS
  <2> QED BY <2>1
<1>6. ASSUME NEW f, NEW r \in LoaderFrames, Running, Current(r), f.payload = p
      PROVE  Truthful(f)'
  <2>1. PICK h : h = HostRequest
    OBVIOUS
  <2>2. r = h
    BY <1>6, <2>1, LoaderHasRequest
  <2>3. /\ r.command = Request.command /\ r.address = Request.address
        /\ Len(r.payload) = lheader.length
        /\ \A i \in 1 .. lheader.length : r.payload[i] = lbody[i].item
    BY <1>2, <1>3, <1>6, SoundLoader
  <2>4. UNCHANGED <<stage, pos, job, info>>
    BY <1>1 DEF jobVars
  <2>5. stage \notin {"hello", "read", "check", "lock"}
    BY <1>3, <2>1, <2>2, <2>3, RequestIs
  <2>6. ASSUME stage = "burn", NEW i \in 1 .. Chunk
        PROVE  OtpWord(pos + i) = job.image[pos + i]
    <3>1. /\ Request.address = job.offset + pos /\ lheader.length = Chunk
          /\ RequestWord(i) = job.image[pos + i]
      BY <2>1, <2>2, <2>3, <2>6, RequestIs DEF RequestWord
    <3>2. otp.words[Request.address + i - 1] = RequestWord(i)
      BY <1>1, <2>6, <3>1, ChunkTyped DEF BeliefInv, Burning, Inv
    <3>3. Request.address + i - 1 = job.offset + (pos + i) - 1
      BY <2>6, <3>1, JobTyped, ChunkTyped DEF Inv
    <3> QED BY <3>1, <3>2, <3>3 DEF OtpWord
  <2>7. (\A i : OtpWord(i)' = OtpWord(i)) /\ Chunk' = Chunk
    BY <1>1, <2>4 DEF OtpWord, Chunk, Total
  <2> QED BY <2>4, <2>5, <2>6, <2>7 DEF Truthful
<1>7. p \in Seq(ItemSet) /\ Respond("OK", p) /\ UNCHANGED toTarget
  BY <1>1, <1>5
<1> QED BY <1>2, <1>3, <1>4, <1>6, <1>7, CarriedOut

\* A step that leaves the frames under way where they are, and the words too.
LEMMA QuietBelief ==
  ASSUME Inv, Inv', BeliefInv, UNCHANGED hostVars, OtpStays, Burning',
         UNCHANGED <<toTarget, toHost, lheader, lbody>>
  PROVE  BeliefInv'
<1>1. LoaderFrames' = LoaderFrames
  BY DEF LoaderFrames, BodyRead
<1>2. PICK th, l, tt : th = toHost /\ l = LoaderFrames /\ tt = toTarget
  OBVIOUS
<1>3. toHost' = th /\ LoaderFrames' = l /\ toTarget' = tt
  BY <1>1, <1>2
<1>4. Running => l \subseteq LoaderFrames
  BY <1>2
<1>5. Under(th) \subseteq Under(toHost) /\ (InOrder(toHost) => InOrder(th))
  BY <1>2
<1>6. Under(tt) \subseteq Under(toTarget) /\ (InOrder(toTarget) => InOrder(tt))
  BY <1>2
<1> QED BY <1>3, <1>4, <1>5, <1>6, LoaderShrinks

LEMMA RefuseBelief ==
  ASSUME Inv, Inv', BeliefInv, Refuse, UNCHANGED hostVars, cut' = cut
  PROVE  BeliefInv'
<1>1. /\ Refusal # "OK" /\ Respond(Refusal, << >>) /\ UNCHANGED toTarget
      /\ \/ UNCHANGED otp
         \/ \E i \in IllegalWords : otp' = WriteAddr(otp, Request.address + i - 1)
  BY DEF Refuse, AfterIllegal
<1>2. otp'.words = otp.words /\ otp'.locked = otp.locked
  <2>1. CASE UNCHANGED otp
    BY <2>1
  <2>2. CASE \E i \in IllegalWords : otp' = WriteAddr(otp, Request.address + i - 1)
    BY <2>2 DEF WriteAddr, Inv, TargetInv, TargetTyped, OtpState
  <2> QED BY <1>1, <2>1, <2>2
<1>3. OtpStays
  BY <1>2 DEF OtpStays
<1>4. PICK status \in Statuses : status = Refusal
  BY RefusalTyped
<1>5. status # "OK" /\ Respond(status, << >>)
  BY <1>1, <1>4
<1> QED BY <1>1, <1>3, <1>5, RefusalBelief

LEMMA StartBurningBelief ==
  ASSUME Inv, Inv', BeliefInv, StartBurning, UNCHANGED hostVars, cut' = cut
  PROVE  BeliefInv'
<1>1. /\ lphase = "body" /\ Refusal = "OK" /\ Request.command = "PROGRAM"
      /\ lphase' = "burn" /\ UNCHANGED <<toTarget, toHost, lheader, lbody, lpos>>
      /\ UNCHANGED job
  BY DEF StartBurning, hostVars, jobVars
<1>2. otp'.words = otp.words /\ otp'.locked = otp.locked
  BY <1>1, StartBurningKeeps DEF Inv
<1>3. OtpStays
  BY <1>2 DEF OtpStays
<1>4. Intact(lheader, lbody) /\ Request.status = "OK"
  BY <1>1, Accepted DEF BadLength
<1>5. lpos = 0
  BY <1>1 DEF Inv, TargetInv, TargetPlace
<1>6. Burning'
  BY <1>1, <1>4, <1>5 DEF Burning, Request
<1> QED BY <1>1, <1>3, <1>6, QuietBelief

LEMMA WordDoneBelief ==
  ASSUME Inv, Inv', BeliefInv, WordDone, UNCHANGED hostVars, cut' = cut
  PROVE  BeliefInv'
<1>1. lphase = "pulse" /\ UNCHANGED toTarget /\ UNCHANGED job
  BY DEF WordDone, hostVars, jobVars
<1>2. otp'.words = otp.words /\ otp'.locked = otp.locked
  BY <1>1, WordDoneKeeps DEF Inv
<1>3. OtpStays
  BY <1>2 DEF OtpStays
<1>4. CASE Respond("PROGRAM_ERROR", << >>)
  <2>1. PICK status \in Statuses : status = "PROGRAM_ERROR"
    BY DEF Statuses
  <2>2. status # "OK" /\ Respond(status, << >>)
    BY <1>4, <2>1
  <2> QED BY <1>1, <1>3, <2>2, RefusalBelief
<1>5. CASE ~Respond("PROGRAM_ERROR", << >>)
  <2>1. lphase' = "burn" /\ lpos' = lpos + 1 /\ UNCHANGED <<toHost, lheader, lbody>>
    BY <1>5 DEF WordDone
  <2>2. lpos \in Nat /\ lheader.length \in Nat
    BY DEF Inv, TargetInv, TargetTyped, HeaderSet
  <2>3. \A i \in 1 .. lheader.length : i <= lpos + 1 => i <= lpos \/ i = lpos + 1
    BY <2>2
  <2>4. Burning'
    BY <1>1, <1>2, <2>1, <2>3 DEF BeliefInv, Burning, Request, RequestWord
  <2> QED BY <1>1, <1>3, <2>1, <2>4, QuietBelief
<1> QED BY <1>4, <1>5

LEMMA ClockBelief ==
  ASSUME Inv, Inv', BeliefInv, Clock, UNCHANGED hostVars, cut' = cut
  PROVE  BeliefInv'
<1>1. UNCHANGED <<toTarget, toHost, lheader, lbody>> /\ UNCHANGED loaderVars /\ UNCHANGED job
  BY DEF Clock, loaderVars, hostVars, jobVars
<1>2. otp'.words = otp.words /\ otp'.locked = otp.locked
  BY <1>1, ClockKeeps DEF Inv
<1>3. OtpStays
  BY <1>2 DEF OtpStays
<1>4. Burning'
  BY <1>1, <1>2, BurningKept DEF BeliefInv
<1> QED BY <1>1, <1>3, <1>4, QuietBelief

LEMMA ResetBelief ==
  ASSUME Inv, Inv', BeliefInv, ResetLoader, UNCHANGED hostVars, cut'
  PROVE  BeliefInv'
<1>1. /\ otp' = ResetOtp(otp.words) /\ lphase' = "seek"
      /\ lheader' = NoHeader /\ lbody' = << >> /\ toTarget' = << >>
  BY DEF ResetLoader
<1>2. OtpStays
  BY <1>1 DEF OtpStays, ResetOtp
<1>3. Burning'
  BY <1>1 DEF Burning
<1>4. LoaderFrames' = {}
  BY <1>1, NoHeaderTyped DEF LoaderFrames, BodyRead
<1>5. PICK q : q = toHost /\ q \in Seq(Token)
  BY DEF Inv, LineInv
<1>6. PICK n \in 0 .. Len(q) : toHost' = SubSeq(q, 1, n)
  BY <1>5 DEF ResetLoader
<1>7. PICK th, l, tt : th = SubSeq(q, 1, n) /\ l = {} /\ tt = << >>
  OBVIOUS
<1>8. toHost' = th /\ LoaderFrames' = l /\ toTarget' = tt
  BY <1>1, <1>4, <1>6, <1>7
<1>9. Running => l \subseteq LoaderFrames
  BY <1>7
<1>10. Under(th) \subseteq Under(toHost) /\ (InOrder(toHost) => InOrder(th))
  BY <1>5, <1>7, UnderPrefix
<1>11. Under(tt) \subseteq Under(toTarget) /\ (InOrder(toTarget) => InOrder(tt))
  BY <1>7 DEF Under, InOrder
<1> QED BY <1>2, <1>3, <1>8, <1>9, <1>10, <1>11, LoaderShrinks

\* A word is burnt only for a program job, or a raw request, and a word of the
\* image is afterwards what it was, or what the image has there.
LEMMA WordOfImage ==
  ASSUME Inv, UNCHANGED job, NEW a, NEW v, <<a, v>> \in AskedBy(job),
         otp'.words = [otp.words EXCEPT ![a] = v]
  PROVE  /\ job.operation \in {"program", "raw"}
         /\ job.operation = "program" /\ job.offset + Total <= Depth =>
              \A i \in 1 .. Total :
                OtpWord(i)' = OtpWord(i) \/ OtpWord(i)' = job.image[i]
<1>1. job.operation \in {"program", "raw"}
  BY DEF AskedBy
<1>2. ASSUME job.operation = "program", job.offset + Total <= Depth,
             NEW i \in 1 .. Total
      PROVE  OtpWord(i)' = OtpWord(i) \/ OtpWord(i)' = job.image[i]
  <2>1. PICK k \in 1 .. Total : a = job.offset + k - 1 /\ v = job.image[k]
    BY <1>2 DEF AskedBy, Total
  <2>2. PICK b : b = job.offset + i - 1
    OBVIOUS
  <2>3. OtpWord(i) = otp.words[b] /\ OtpWord(i)' = otp'.words[b]
    BY <2>2 DEF OtpWord
  <2>4. job.offset \in Nat /\ Total \in Nat
    BY JobTyped DEF Inv
  <2>5. b \in Addresses /\ (b = a => i = k)
    BY <1>2, <2>1, <2>2, <2>4, DepthAssumption DEF Addresses
  <2>6. otp.words \in [Addresses -> SUBSET Bits]
    BY DEF Inv, TargetInv, TargetTyped, OtpState
  <2>7. otp'.words[b] = IF b = a THEN v ELSE otp.words[b]
    BY <2>5, <2>6
  <2> QED BY <2>1, <2>3, <2>5, <2>7
<1> QED BY <1>1, <1>2

LEMMA PulseBelief ==
  ASSUME Inv, Inv', BeliefInv, BurnWord, ~otp.locked, UNCHANGED hostVars, cut' = cut
  PROVE  BeliefInv'
<1>1. /\ lphase = "burn" /\ lpos < lheader.length /\ lphase' = "pulse"
      /\ UNCHANGED <<toTarget, toHost, lheader, lbody, lpos>>
      /\ UNCHANGED <<job, jobVars, hphase, tries, hheader, hbody>>
  BY DEF BurnWord, hostVars, jobVars, receiverVars
<1>2. PICK a, v : a = Request.address + lpos /\ v = RequestWord(lpos + 1)
  OBVIOUS
<1>3. /\ otp'.words = [otp.words EXCEPT ![a] = v] /\ otp'.locked = otp.locked
      /\ lpos + 1 \in 1 .. lheader.length
  BY <1>1, <1>2, BurnWordKeeps DEF Inv
<1>4. lheader.length \in Nat /\ lpos \in Nat /\ Request.address \in Nat
  BY DEF Inv, TargetInv, TargetTyped, HeaderSet, FrameSet, Request
<1>5. a \in Addresses /\ <<a, v>> \in AskedBy(job)
  <2>1. Request.address + (lpos + 1) - 1 = a
    BY <1>2, <1>4
  <2> QED BY <1>1, <1>2, <1>3, <2>1 DEF Inv, TargetInv, FrameBurnable
<1>6. /\ job.operation \in {"program", "raw"}
      /\ job.operation = "program" /\ job.offset + Total <= Depth =>
           \A i \in 1 .. Total :
             OtpWord(i)' = OtpWord(i) \/ OtpWord(i)' = job.image[i]
  BY <1>1, <1>3, <1>5, WordOfImage
<1>7. Burning'
  <2>1. otp.words \in [Addresses -> SUBSET Bits]
    BY DEF Inv, TargetInv, TargetTyped, OtpState
  <2>2. ASSUME NEW i \in 1 .. lheader.length, i <= lpos \/ i = lpos + 1
        PROVE  otp'.words[Request.address + i - 1] = RequestWord(i)
    <3>1. PICK b : b = Request.address + i - 1
      OBVIOUS
    <3>2. b \in Addresses
      BY <1>1, <3>1 DEF Inv, TargetInv, FrameBurnable
    <3>3. otp'.words[b] = IF b = a THEN v ELSE otp.words[b]
      BY <1>3, <2>1, <3>2
    <3>4. b = a <=> i = lpos + 1
      BY <1>2, <1>4, <3>1
    <3>5. i # lpos + 1 => otp.words[b] = RequestWord(i)
      BY <1>1, <2>2, <3>1 DEF BeliefInv, Burning
    <3> QED BY <1>2, <3>1, <3>3, <3>4, <3>5
  <2> QED BY <1>1, <2>2 DEF BeliefInv, Burning, Request, RequestWord
<1>8. PICK r : LoaderFrames = {r} /\ r.command = "PROGRAM"
  <2>1. BodyRead /\ Intact(lheader, lbody) /\ Request.status = "OK" /\ Request.command = "PROGRAM"
    BY <1>1 DEF Inv, TargetInv, TargetPlace, BeliefInv, Burning
  <2> QED BY <2>1, SoundLoader
<1>9. ASSUME Running
      PROVE  stage \in {"burn", "raw"} \/ (stage = "check" /\ pos = 0 /\ ~Current(r))
  <2>1. Asked(r) /\ (Current(r) => r = HostRequest)
    BY <1>8, <1>9, LoaderHasRequest
  <2>2. stage = "check" => ~Current(r)
    BY <1>8, <2>1, RequestIs
  <2> QED BY <1>8, <2>1, <2>2 DEF Asked
<1>10. Len(got) = 0
  <2>1. CASE Running
    BY <1>9, <2>1 DEF BeliefInv, Believed
  <2>2. CASE ~Running
    BY <2>2 DEF BeliefInv, Idle
  <2> QED BY <2>1, <2>2
<1>11. ASSUME Running, NEW f \in HostFrames \cup Under(toHost), Current(f), Truthful(f)
       PROVE  Truthful(f)'
  <2>1. UNCHANGED <<stage, pos, job, info>>
    BY <1>1 DEF jobVars
  <2>2. Current(r)
    BY <1>8, <1>11 DEF BeliefInv, Flight, Carried, Before
  <2>3. CASE stage = "raw"
    BY <2>1, <2>3 DEF Truthful
  <2>4. CASE stage = "burn"
    <3>1. job.operation = "program" /\ job.offset + Total <= Depth
      BY <2>4 DEF Inv, HostInv, HostPlace, BeliefInv, Placed, Loops
    <3>2. Chunk' = Chunk /\ Chunk \in Nat /\ pos \in Nat /\ pos + Chunk <= Total /\ Total \in Nat
      BY <2>1, ChunkTyped, JobTyped DEF Chunk, Total, Inv
    <3>3. ASSUME NEW i \in 1 .. Chunk
          PROVE  OtpWord(pos + i)' = job.image[pos + i]
      <4>1. PICK k : k = pos + i
        OBVIOUS
      <4>2. k \in 1 .. Total
        BY <3>2, <4>1
      <4>3. OtpWord(k) = job.image[k]
        BY <1>11, <2>4, <4>1 DEF Truthful
      <4>4. OtpWord(k)' = job.image[k]
        BY <1>6, <3>1, <4>2, <4>3
      <4> QED BY <2>1, <4>1, <4>4 DEF OtpWord
    <3> QED BY <2>1, <2>4, <3>2, <3>3 DEF Truthful
  <2> QED BY <1>9, <1>11, <2>2, <2>3, <2>4
<1>12. HostFrames' = HostFrames /\ LoaderFrames' = LoaderFrames
  BY <1>1 DEF HostFrames, AnswerRead, LoaderFrames, BodyRead
<1>13. Under(toHost)' = Under(toHost) /\ Under(toTarget)' = Under(toTarget)
  BY <1>1 DEF Under
<1>14. ASSUME Running
       PROVE  Flight' /\ FirstAttempt'
  <2>1. Flight /\ FirstAttempt
    BY <1>14 DEF BeliefInv
  <2>2. PICK A, B, C, D : /\ A = HostFrames /\ B = Under(toHost)
                          /\ C = LoaderFrames /\ D = Under(toTarget)
    OBVIOUS
  <2>3. Carried(A, B, C, D)
    BY <2>1, <2>2 DEF Flight
  <2>4. \A f \in A \cup B : Current(f) /\ Truthful(f) => Truthful(f)'
    BY <1>11, <1>14, <2>2
  <2>5. Carried(A, B, C, D)'
    BY <1>1, <2>3, <2>4, CarriedKept
  <2>6. InOrder(toHost)' /\ InOrder(toTarget)'
    <3>1. PICK s, t : s = toHost /\ t = toTarget
      OBVIOUS
    <3>2. InOrder(s)' /\ InOrder(t)'
      BY <1>1, <2>1, <3>1, OrderKept DEF jobVars, Flight
    <3> QED BY <1>1, <3>1, <3>2
  <2>7. Flight'
    BY <1>12, <1>13, <2>2, <2>5, <2>6 DEF Flight
  <2>8. NothingCurrent => NothingCurrent'
    BY <1>1, <1>12, <1>13 DEF NothingCurrent, Current, jobVars
  <2>9. FirstAttempt'
    BY <1>1, <2>1, <2>8 DEF FirstAttempt, LoopEnded, jobVars, Total
  <2> QED BY <2>7, <2>9
<1>15. UNCHANGED <<outcome, stage, pos, got, job>> /\ Total' = Total
  BY <1>1 DEF jobVars, Total
<1>16. Idle' /\ Placed' /\ (Running => Believed' /\ StageOfJob')
  BY <1>15 DEF BeliefInv, Idle, Placed, Running, Believed, StageOfJob
<1>17. ASSUME job.operation = "program", job.offset + Total <= Depth, NEW i \in 1 .. Total
       PROVE  /\ OtpWord(i) = job.image[i] => OtpWord(i)' = job.image[i]
              /\ job.image[i] \subseteq OtpWord(i) => job.image[i] \subseteq OtpWord(i)'
  BY <1>6, <1>17
<1>18. Total \in Nat /\ pos \in 0 .. Total
  BY JobTyped DEF Inv
<1>19. HostBelievesTrue'
  <2>1. ASSUME stage \in {"burn", "check"}, job.operation = "program",
               NEW i \in 1 .. (IF stage = "burn" THEN pos ELSE Total)
        PROVE  OtpWord(i)' = job.image[i]
    <3>1. i \in 1 .. Total
      BY <1>18, <2>1
    <3>2. job.offset + Total <= Depth
      BY <2>1 DEF BeliefInv, Placed, Loops
    <3>3. OtpWord(i) = job.image[i]
      BY <2>1 DEF BeliefInv, HostBelievesTrue
    <3> QED BY <1>17, <2>1, <3>1, <3>2, <3>3
  <2>2. ASSUME outcome = "ok", job.operation = "program", NEW i \in 1 .. Total
        PROVE  OtpWord(i)' = job.image[i]
    <3>1. job.offset + Total <= Depth
      BY <2>2 DEF BeliefInv, Placed
    <3>2. OtpWord(i) = job.image[i]
      BY <2>2 DEF BeliefInv, HostBelievesTrue
    <3> QED BY <1>17, <2>2, <3>1, <3>2
  <2> QED BY <1>6, <1>10, <1>15, <2>1, <2>2 DEF HostBelievesTrue
<1>20. InterruptionIsHarmless'
  <2>1. ASSUME stage \in {"burn", "check"}, job.operation = "program", NEW i \in 1 .. Total
        PROVE  job.image[i] \subseteq OtpWord(i)'
    <3>1. job.offset + Total <= Depth
      BY <2>1 DEF BeliefInv, Placed, Loops
    <3>2. job.image[i] \subseteq OtpWord(i)
      BY <2>1 DEF BeliefInv, InterruptionIsHarmless
    <3> QED BY <1>17, <2>1, <3>1, <3>2
  <2> QED BY <1>15, <2>1 DEF InterruptionIsHarmless, Inv, TargetInv, TargetPlace
<1> QED BY <1>7, <1>14, <1>15, <1>16, <1>19, <1>20 DEF BeliefInv, Running

LEMMA BurnWordBelief ==
  ASSUME Inv, Inv', BeliefInv, BurnWord, UNCHANGED hostVars, cut' = cut
  PROVE  BeliefInv'
<1>1. CASE ~otp.locked
  BY <1>1, PulseBelief
<1>2. CASE otp.locked
  <2>1. Respond("LOCKED", << >>) /\ otp' = otp /\ UNCHANGED toTarget
    BY <1>2 DEF BurnWord
  <2>2. OtpStays
    BY <2>1 DEF OtpStays
  <2>3. PICK status \in Statuses : status = "LOCKED"
    BY DEF Statuses
  <2>4. status # "OK" /\ Respond(status, << >>)
    BY <2>1, <2>3
  <2> QED BY <2>1, <2>2, <2>4, RefusalBelief
<1> QED BY <1>1, <1>2

LEMMA LoaderBelief ==
  ASSUME Inv, Inv', BeliefInv, LoaderStep, UNCHANGED hostVars, cut' = cut
  PROVE  BeliefInv'
  BY SeekBelief, ReadBodyBelief, RefuseBelief, CarryBelief, StartBurningBelief,
     BurnWordBelief, WordDoneBelief, FrameBurntBelief, ClockBelief DEF LoaderStep

-------------------------------------------------------------------------------
(* The invariant of what the host believes. *)

LEMMA InitBelief == Init => BeliefInv
<1> SUFFICES ASSUME Init PROVE BeliefInv
  OBVIOUS
<1>1. /\ outcome = "none" /\ stage = "hello" /\ got = << >> /\ lphase = "seek"
      /\ ~otp.unlocked
  BY DEF Init, HostInit, LoaderInit, LoaderIdle, ResetOtp
<1>2. Len(got) = 0
  BY <1>1
<1>3. HostBelievesTrue /\ InterruptionIsHarmless
  BY <1>1, <1>2 DEF HostBelievesTrue, InterruptionIsHarmless
<1>4. Placed /\ Burning /\ Idle /\ ~Running
  BY <1>1 DEF Placed, Loops, Burning, Idle, Running
<1> QED BY <1>3, <1>4 DEF BeliefInv

LEMMA StepBelief == Inv /\ Inv' /\ BeliefInv /\ [Next]_vars => BeliefInv'
<1> SUFFICES ASSUME Inv, Inv', BeliefInv, [Next]_vars PROVE BeliefInv'
  OBVIOUS
<1>1. CASE Start
  BY <1>1, StartBelief
<1>2. CASE Host
  BY <1>2, HostBelief DEF Host, mishapVars
<1>3. CASE Loader
  BY <1>3, LoaderBelief DEF Loader, mishapVars
<1>4. CASE DeadTimeOut \/ LateTimeOut
  BY <1>4, TimeOutBelief DEF DeadTimeOut, LateTimeOut, mishapVars
<1>5. CASE LoseAnswer \/ SpoilAnswer \/ HarmRequest
  BY <1>5, LineBelief DEF LoseAnswer, SpoilAnswer, HarmRequest
<1>6. CASE ResetTarget
  BY <1>6, ResetBelief DEF ResetTarget
<1>7. CASE UNCHANGED vars
  BY <1>7, LineBelief DEF vars, line, mishapVars
<1> QED BY <1>1, <1>2, <1>3, <1>4, <1>5, <1>6, <1>7 DEF Next

\* The host's picture of the OTP is true whatever the line loses or spoils,
\* whenever the target is reset and however often a request is retried: an
\* answer to an earlier request, or a second answer to this one, is never taken
\* for another, although the sequence number wraps around (client.py:122,
\* serial_transport.py:87).
THEOREM BeliefsTrue == Spec => []HostBelievesTrue
<1>1. BeliefInv => HostBelievesTrue
  BY DEF BeliefInv
<1> QED BY <1>1, InvHolds, InitBelief, StepBelief, PTL DEF Spec

\* However a job to program is interrupted it may be given again, and the key
\* does not outlive a pulse (client.py:148, uart_otp_loader.c:55).
THEOREM InterruptionsHarmless == Spec => []InterruptionIsHarmless
<1>1. BeliefInv => InterruptionIsHarmless
  BY DEF BeliefInv
<1> QED BY <1>1, InvHolds, InitBelief, StepBelief, PTL DEF Spec

-----------------------------------------------------------------------------
(***************************************************************************)
(* Why a command line fails.  While nothing but answers cut short has gone *)
(* wrong, one frame is under way at a time, and who reads it is exactly as *)
(* far with it as the line is: so every request is carried out and every   *)
(* answer that is not cut short is taken.                                  *)
(***************************************************************************)

\* The tokens a frame is sent as, by their place in it.
TokenOf(frame, i) ==
  IF i = 1 THEN Magic
  ELSE IF i = 2 THEN Header(frame)
  ELSE IF i <= Len(frame.payload) + 2 THEN Data(frame.payload[i - 2])
  ELSE Crc(frame)
Tokens(frame) == Len(frame.payload) + 3
HeaderOf(frame) ==
  [frame |-> [frame EXCEPT !.payload = << >>], length |-> Len(frame.payload)]

\* All but the first k tokens of the frame, and nothing else, are on the line.
Left(queue, frame, k) ==
  /\ Len(queue) = Tokens(frame) - k
  /\ \A i \in 1 .. Len(queue) : queue[i] = TokenOf(frame, k + i)

\* A receiver has read the first k tokens of the frame.
HasRead(phase, header, body, frame, k) ==
  /\ phase = IF k = 0 THEN "seek" ELSE IF k = 1 THEN "header" ELSE "body"
  /\ k < 2 => body = << >>
  /\ k >= 2 =>
       /\ header = HeaderOf(frame)
       /\ Len(body) = k - 2
       /\ \A i \in 1 .. k - 2 : body[i] = TokenOf(frame, i + 2)

Halfway(phase, header, body, queue, frame) ==
  \E k \in 0 .. Tokens(frame) :
    HasRead(phase, header, body, frame, k) /\ Left(queue, frame, k)

LoaderWaits == lphase = "seek" /\ toTarget = << >>

\* Nothing is under way.
Between == hphase = "send" /\ LoaderWaits /\ toHost = << >>

\* The request is on its way, or the loader has it and burns it.
LoaderReading ==
  \/ Halfway(lphase, lheader, lbody, toTarget, HostRequest)
  \/ /\ lphase \in {"burn", "pulse"} /\ toTarget = << >>
     /\ HasRead("body", lheader, lbody, HostRequest, Tokens(HostRequest))
RequestUnderWay ==
  hphase = "seek" /\ hbody = << >> /\ toHost = << >> /\ LoaderReading

\* The answer is on its way, and what it should be.
Proper(answer) ==
  /\ answer \in FrameSet
  /\ answer.kind = "response" /\ answer.version = Version /\ answer.status = "OK"
  /\ answer.sequence = sequence /\ answer.command = HostRequest.command
  /\ Len(answer.payload) <= MaxPayload
  /\ stage = "hello" => answer.payload = <<Geometry(device)>>
  /\ stage \in {"read", "check"} => Len(answer.payload) = Chunk
AnswerUnderWay ==
  /\ LoaderWaits
  /\ \E answer \in FrameSet :
       Proper(answer) /\ Halfway(hphase, hheader, hbody, toHost, answer)

\* The answer has been cut short: the host skips what is left of it, or waits
\* for a rest that does not come.
CutShort ==
  /\ LoaderWaits
  /\ tries < mishaps
  /\ \/ /\ hphase = "seek"
        /\ \A i \in 1 .. Len(toHost) :
             toHost[i] # Magic /\ ~LooksLikeMagic(toHost[i])
     \/ hphase = "body" /\ Len(hbody) + Len(toHost) <= hheader.length

\* A started pulse has been accepted.
PulseAccepted ==
  lphase = "pulse" =>
    otp.done /\ ~otp.error /\ otp.addr = Request.address + lpos

\* What holds of a legitimate job, as long as nothing fatal has befallen it.
OneFrame == Between \/ RequestUnderWay \/ AnswerUnderWay \/ CutShort
Faultless ==
  /\ tries <= mishaps
  /\ outcome = "error" => mishaps > Retries
  /\ Running /\ stage \in Loops => info = device
  /\ Running => OneFrame

ErrorInv == PulseAccepted /\ (harm # "fatal" /\ Legitimate => Faultless)

-------------------------------------------------------------------------------
(* A frame, token by token. *)

LEMMA FrameTyped ==
  ASSUME NEW frame \in FrameSet
  PROVE  /\ Len(frame.payload) \in Nat
         /\ \A i \in 1 .. Len(frame.payload) : frame.payload[i] \in ItemSet
         /\ frame.payload = [i \in 1 .. Len(frame.payload) |-> frame.payload[i]]
  BY DEF FrameSet

\* No token of a frame is noise, and none but the first is the magic.
LEMMA TokensOf ==
  ASSUME NEW frame \in FrameSet, NEW i \in 1 .. Tokens(frame)
  PROVE  /\ TokenOf(frame, i).t =
              IF i = 1 THEN "magic" ELSE IF i = 2 THEN "header"
              ELSE IF i < Tokens(frame) THEN "data" ELSE "crc"
         /\ i > 1 => TokenOf(frame, i) # Magic
  BY FrameTyped DEF TokenOf, Tokens, Magic, Header, Data, Crc

LEMMA ThreeParts ==
  ASSUME NEW S, NEW a \in Seq(S), NEW b \in Seq(S), NEW c \in Seq(S)
  PROVE  /\ Len((a \o b) \o c) = Len(a) + Len(b) + Len(c)
         /\ \A i \in 1 .. Len(a) : ((a \o b) \o c)[i] = a[i]
         /\ \A i \in 1 .. Len(b) : ((a \o b) \o c)[Len(a) + i] = b[i]
         /\ \A i \in 1 .. Len(c) : ((a \o b) \o c)[Len(a) + Len(b) + i] = c[i]
<1>1. PICK ab \in Seq(S) : ab = a \o b
  BY Concatenated
<1>2. /\ Len(ab) = Len(a) + Len(b)
      /\ \A i \in 1 .. Len(a) : ab[i] = a[i]
      /\ \A i \in 1 .. Len(b) : ab[Len(a) + i] = b[i]
  BY <1>1, Concatenated
<1>3. /\ Len(ab \o c) = Len(ab) + Len(c)
      /\ \A i \in 1 .. Len(ab) : (ab \o c)[i] = ab[i]
      /\ \A i \in 1 .. Len(c) : (ab \o c)[Len(ab) + i] = c[i]
  BY Concatenated
<1>4. Len(a) \in Nat /\ Len(b) \in Nat /\ Len(c) \in Nat
  OBVIOUS
<1> QED BY <1>1, <1>2, <1>3, <1>4

\* What is written to an empty line is what is left of the frame.
LEMMA LeftEncoded ==
  ASSUME NEW frame \in FrameSet
  PROVE  Left(<< >> \o Encode(frame), frame, 0)
<1> DEFINE n == Len(frame.payload)
           front == <<Magic, Header(frame)>>
           middle == [i \in 1 .. n |-> Data(frame.payload[i])]
           back == <<Crc(frame)>>
<1>1. n \in Nat /\ \A i \in 1 .. n : frame.payload[i] \in ItemSet
  BY FrameTyped
<1>2. front \in Seq(Token) /\ Len(front) = 2 /\ front[1] = Magic /\ front[2] = Header(frame)
  BY DEF Token, Magic, Header
<1>3. middle \in Seq(Token) /\ Len(middle) = n
  BY <1>1 DEF Token, Data
<1>4. \A i \in 1 .. n : middle[i] = Data(frame.payload[i])
  OBVIOUS
<1>5. back \in Seq(Token) /\ Len(back) = 1 /\ back[1] = Crc(frame)
  BY DEF Token, Crc
<1>6. << >> \o Encode(frame) = (front \o middle) \o back
  BY EncodedFrame DEF Encode
<1>7. PICK all : all = (front \o middle) \o back
  OBVIOUS
<1> HIDE DEF front, middle, back
<1>8. /\ Len(all) = 2 + n + 1
      /\ \A i \in 1 .. 2 : all[i] = front[i]
      /\ \A i \in 1 .. n : all[2 + i] = middle[i]
      /\ all[2 + n + 1] = back[1]
  <2>1. /\ Len(all) = Len(front) + Len(middle) + Len(back)
        /\ \A i \in 1 .. Len(front) : all[i] = front[i]
        /\ \A i \in 1 .. Len(middle) : all[Len(front) + i] = middle[i]
        /\ \A i \in 1 .. Len(back) : all[Len(front) + Len(middle) + i] = back[i]
    <3>1. front \in Seq(Token) /\ middle \in Seq(Token) /\ back \in Seq(Token)
      BY <1>2, <1>3, <1>5
    <3>2. PICK f \in Seq(Token) : f = front
      BY <3>1
    <3>3. PICK m \in Seq(Token) : m = middle
      BY <3>1
    <3>4. PICK b \in Seq(Token) : b = back
      BY <3>1
    <3>5. all = (f \o m) \o b
      BY <1>7, <3>2, <3>3, <3>4
    <3>6. /\ Len(all) = Len(f) + Len(m) + Len(b)
          /\ \A i \in 1 .. Len(f) : all[i] = f[i]
          /\ \A i \in 1 .. Len(m) : all[Len(f) + i] = m[i]
          /\ \A i \in 1 .. Len(b) : all[Len(f) + Len(m) + i] = b[i]
      BY <3>5, ThreeParts
    <3> QED BY <3>2, <3>3, <3>4, <3>6
  <2> QED BY <1>1, <1>2, <1>3, <1>5, <2>1
<1> HIDE DEF n
<1>11. ASSUME NEW i \in 1 .. n + 3
       PROVE  all[i] = TokenOf(frame, i)
  <2>1. CASE i = 1
    BY <1>1, <1>2, <1>8, <2>1 DEF TokenOf
  <2>2. CASE i = 2
    BY <1>1, <1>2, <1>8, <2>2 DEF TokenOf
  <2>3. CASE i > 2 /\ i <= n + 2
    <3>1. i - 2 \in 1 .. n /\ 2 + (i - 2) = i
      BY <1>1, <2>3
    <3>2. all[i] = middle[i - 2]
      BY <1>1, <1>8, <3>1
    <3>3. TokenOf(frame, i) = Data(frame.payload[i - 2])
      BY <2>3 DEF TokenOf, n
    <3> QED BY <1>4, <3>1, <3>2, <3>3
  <2>4. CASE i = n + 3
    BY <1>1, <1>5, <1>8, <2>4 DEF TokenOf, n
  <2> QED BY <1>1, <2>1, <2>2, <2>3, <2>4
<1>12. Len(all) = Tokens(frame) - 0
  BY <1>1, <1>8 DEF Tokens, n
<1>13. \A i \in 1 .. Len(all) : all[i] = TokenOf(frame, 0 + i)
  BY <1>1, <1>8, <1>11
<1> QED BY <1>6, <1>7, <1>12, <1>13 DEF Left

\* Reading on.
LEMMA LeftRead ==
  ASSUME NEW frame \in FrameSet, NEW queue \in Seq(Token),
         NEW k \in 0 .. Tokens(frame), Left(queue, frame, k)
  PROVE  /\ queue = << >> <=> k = Tokens(frame)
         /\ queue # << >> =>
              /\ k + 1 \in 1 .. Tokens(frame)
              /\ Head(queue) = TokenOf(frame, k + 1)
              /\ Left(Tail(queue), frame, k + 1)
<1>1. Tokens(frame) \in Nat
  BY FrameTyped DEF Tokens
<1>2. Len(queue) = Tokens(frame) - k
  BY DEF Left
<1>3. queue = << >> <=> Len(queue) = 0
  OBVIOUS
<1>4. ASSUME queue # << >>
      PROVE  /\ k + 1 \in 1 .. Tokens(frame)
             /\ Head(queue) = TokenOf(frame, k + 1)
             /\ Left(Tail(queue), frame, k + 1)
  <2>1. Len(Tail(queue)) = Len(queue) - 1 /\ Head(queue) = queue[1]
    BY <1>4
  <2>2. \A i \in 1 .. Len(queue) - 1 : Tail(queue)[i] = queue[i + 1]
    BY <1>4
  <2>3. Len(queue) >= 1
    BY <1>4
  <2>4. ASSUME NEW i \in 1 .. Len(queue) - 1
        PROVE  Tail(queue)[i] = TokenOf(frame, (k + 1) + i)
    <3>1. i + 1 \in 1 .. Len(queue) /\ k + (i + 1) = (k + 1) + i
      OBVIOUS
    <3> QED BY <2>2, <3>1 DEF Left
  <2>5. Head(queue) = TokenOf(frame, k + 1)
    BY <2>1, <2>3 DEF Left
  <2> QED BY <1>1, <1>2, <2>1, <2>3, <2>4, <2>5 DEF Left
<1> QED BY <1>1, <1>2, <1>3, <1>4

LEMMA Starting ==
  ASSUME NEW header, NEW frame
  PROVE  HasRead("seek", header, << >>, frame, 0)
  BY DEF HasRead

\* The three ways of reading the next token of a frame.
LEMMA MagicRead ==
  ASSUME NEW frame, NEW header, NEW body, NEW phase,
         HasRead(phase, header, body, frame, 0)
  PROVE  HasRead("header", header, body, frame, 1)
  BY DEF HasRead

LEMMA HeaderRead ==
  ASSUME NEW frame, NEW header, NEW body, NEW phase,
         HasRead(phase, header, body, frame, 1)
  PROVE  HasRead("body", HeaderOf(frame), body, frame, 2)
  BY DEF HasRead

LEMMA ItemRead ==
  ASSUME NEW frame \in FrameSet, NEW header, NEW body \in Seq(Token), NEW phase,
         NEW k \in 2 .. Tokens(frame), HasRead(phase, header, body, frame, k),
         NEW token \in Token, token = TokenOf(frame, k + 1)
  PROVE  HasRead("body", header, Append(body, token), frame, k + 1)
<1>1. Tokens(frame) \in Nat
  BY FrameTyped DEF Tokens
<1>2. Len(body) = k - 2 /\ header = HeaderOf(frame)
  BY DEF HasRead
<1>3. Len(Append(body, token)) = (k + 1) - 2
  BY <1>1, <1>2
<1>4. ASSUME NEW i \in 1 .. (k + 1) - 2
      PROVE  Append(body, token)[i] = TokenOf(frame, i + 2)
  <2>1. CASE i = k - 1
    <3>1. Append(body, token)[Len(body) + 1] = token
      OBVIOUS
    <3>2. i = Len(body) + 1 /\ i + 2 = k + 1
      BY <1>1, <1>2, <2>1
    <3> QED BY <3>1, <3>2
  <2>2. CASE i \in 1 .. k - 2
    <3>1. Append(body, token)[i] = body[i]
      BY <1>2, <2>2
    <3> QED BY <1>1, <2>2, <3>1 DEF HasRead
  <2>3. i = k - 1 \/ i \in 1 .. k - 2
    BY <1>1
  <2> QED BY <2>1, <2>2, <2>3
<1>5. k + 1 # 0 /\ k + 1 # 1 /\ ~(k + 1 < 2)
  BY <1>1
<1> QED BY <1>2, <1>3, <1>4, <1>5 DEF HasRead

\* How far a receiver is, by its phase.
LEMMA HowFar ==
  ASSUME NEW frame \in FrameSet, NEW header, NEW body, NEW phase,
         NEW k \in 0 .. Tokens(frame), HasRead(phase, header, body, frame, k)
  PROVE  /\ phase \in {"seek", "header", "body"}
         /\ phase = "seek" <=> k = 0
         /\ phase = "header" <=> k = 1
         /\ phase = "body" <=> k >= 2
         /\ phase = "body" =>
              /\ header.length = Len(frame.payload)
              /\ Len(body) = header.length + 1 <=> k = Tokens(frame)
<1>1. Tokens(frame) \in Nat /\ Tokens(frame) = Len(frame.payload) + 3
      /\ Len(frame.payload) \in Nat
  BY FrameTyped DEF Tokens
<1>2. HeaderOf(frame).length = Len(frame.payload)
  BY DEF HeaderOf
<1> QED BY <1>1, <1>2 DEF HasRead

\* What a header that has not been spoilt is read as.
LEMMA HeaderReadAs ==
  ASSUME NEW frame \in FrameSet
  PROVE  HeaderReadings(TokenOf(frame, 2)) = {HeaderOf(frame)}
  BY DEF TokenOf, HeaderReadings, HeaderOf, Header

\* A frame read to its end is sound, and is what was sent.
LEMMA WholeFrame ==
  ASSUME NEW frame \in FrameSet, frame.kind # "garbage", NEW header, NEW body,
         HasRead("body", header, body, frame, Tokens(frame))
  PROVE  /\ Intact(header, body)
         /\ header.length = Len(frame.payload)
         /\ \A i \in 1 .. header.length : body[i].item = frame.payload[i]
         /\ header.frame.kind = frame.kind
         /\ header.frame.sequence = frame.sequence
         /\ header.frame.command = frame.command
         /\ header.frame.status = frame.status
         /\ header.frame.address = frame.address
         /\ header.frame.skew = frame.skew
         /\ header.frame.version = frame.version
<1> DEFINE n == Len(frame.payload)
<1>1. n \in Nat /\ Tokens(frame) = n + 3
  BY FrameTyped DEF Tokens
<1>2. header = HeaderOf(frame) /\ Len(body) = n + 1
      /\ \A i \in 1 .. n + 1 : body[i] = TokenOf(frame, i + 2)
  BY <1>1 DEF HasRead
<1>3. header.length = n /\ header.frame = [frame EXCEPT !.payload = << >>]
  BY <1>2 DEF HeaderOf
<1>4. \A i \in 1 .. n : body[i] = Data(frame.payload[i])
  BY <1>1, <1>2 DEF TokenOf
<1>5. body[n + 1] = Crc(frame)
  BY <1>1, <1>2 DEF TokenOf
<1>6. \A i \in 1 .. n : body[i].t = "data" /\ body[i].item = frame.payload[i]
  <2> TAKE i \in 1 .. n
  <2>1. body[i] = Data(frame.payload[i])
    BY <1>4
  <2> QED BY <2>1 DEF Data
<1>7. body[n + 1].t = "crc" /\ body[n + 1].frame = frame
  BY <1>5 DEF Crc
<1>8. Items(header, body) = [i \in 1 .. n |-> frame.payload[i]]
  BY <1>3, <1>6 DEF Items
<1>9. frame = [header.frame EXCEPT !.payload = Items(header, body)]
  BY <1>3, <1>8, FrameTyped DEF FrameSet
<1>10. header.frame.kind = frame.kind
  BY <1>3 DEF FrameSet
<1>11. header.frame # Garbage
  BY <1>10 DEF Garbage, Frame
<1> QED BY <1>1, <1>2, <1>3, <1>6, <1>7, <1>9, <1>10, <1>11 DEF Intact, FrameSet

-------------------------------------------------------------------------------
(* The requests of a legitimate job. *)

LEMMA LegitimateJob ==
  ASSUME Inv, BeliefInv, Running, Legitimate, Faultless
  PROVE  /\ device.version = Version /\ device.max \in Nat
         /\ device.size \in Nat /\ device.size <= Depth
         /\ stage # "raw"
         /\ stage = "lock" => "LOCK" \in device.caps
         /\ stage = "hello" => Permitted(device) /\ device.max \in 1 .. MaxPayload
         /\ stage \in Loops =>
              /\ info = device /\ device.max \in 1 .. MaxPayload
              /\ job.offset + Total <= device.size /\ "READ" \in device.caps
         /\ stage = "burn" =>
              /\ job.operation = "program" /\ job.skew = 0
              /\ "PROGRAM" \in device.caps
<1>1. device \in Devices
  BY DEF Inv, TargetInv, TargetTyped
<1>2. /\ device.max \in Nat /\ device.size \in Nat /\ device.size <= Depth
  BY <1>1, DevicesAssumption, DepthAssumption
<1>3. StageOfJob /\ HostPlace
  BY DEF BeliefInv, Inv, HostInv
<1>4. device.version = Version /\ stage # "raw" /\ job.operation # "raw"
  BY <1>3 DEF Legitimate, HostPlace
<1>5. job.operation # "status" =>
        device.max \in 1 .. MaxPayload /\ Permitted(device)
  BY <1>4 DEF Legitimate
<1>6. stage = "lock" => "LOCK" \in device.caps
  BY <1>3, <1>5 DEF StageOfJob, Permitted
<1>7. stage = "hello" => Permitted(device) /\ device.max \in 1 .. MaxPayload
  BY <1>3, <1>5 DEF StageOfJob
<1>8. stage \in Loops => job.operation \in {"read", "program", "verify"}
  BY <1>3 DEF StageOfJob, HostPlace, Loops
<1>9. stage \in Loops =>
        /\ info = device /\ device.max \in 1 .. MaxPayload
        /\ job.offset + Total <= device.size /\ "READ" \in device.caps
  BY <1>5, <1>8 DEF Permitted, Faultless
<1>10. stage = "burn" =>
         /\ job.operation = "program" /\ job.skew = 0
         /\ "PROGRAM" \in device.caps
  BY <1>3, <1>5 DEF HostPlace, Permitted
<1> QED BY <1>2, <1>4, <1>6, <1>7, <1>9, <1>10

\* The requests the host builds, stage by stage.
LEMMA RequestBuilt ==
  ASSUME Inv, Running, stage # "raw"
  PROVE  /\ HostRequest \in FrameSet
         /\ HostRequest.kind = "request" /\ HostRequest.status = "OK"
         /\ HostRequest.version = Version /\ HostRequest.sequence = sequence
         /\ HostRequest.skew = job.skew
         /\ stage \in {"hello", "status", "lock"} => Len(HostRequest.payload) = 0
         /\ stage = "status" => HostRequest.command = "STATUS"
         /\ stage \in {"read", "check"} =>
              Len(HostRequest.payload) = 1 /\ HostRequest.payload[1].length = Chunk
<1>1. HostRequest \in FrameSet
  BY RequestAsked DEF Inv
<1>2. stage \in Stages
  BY DEF Inv, HostInv, HostTyped
<1>3. Chunk \in Nat
  BY ChunkTyped DEF Inv
<1>4. PICK command, address, payload :
        /\ HostRequest = Asking(command, address, payload)
        /\ stage \in {"hello", "status", "lock"} => payload = << >>
        /\ stage = "status" => command = "STATUS"
        /\ stage \in {"read", "check"} => payload = <<Length(Chunk)>>
  <2>1. CASE stage = "hello"
    BY <2>1 DEF HostRequest, Asking
  <2>2. CASE stage = "status"
    BY <2>2 DEF HostRequest, Asking
  <2>3. CASE stage = "lock"
    BY <2>3 DEF HostRequest, Asking
  <2>4. CASE stage \in {"read", "check"}
    BY <2>4 DEF HostRequest, Asking
  <2>5. CASE stage = "burn"
    BY <2>5 DEF HostRequest, Asking
  <2> QED BY <1>2, <2>1, <2>2, <2>3, <2>4, <2>5 DEF Stages
<1>5. HostRequest =
        [kind |-> "request", sequence |-> sequence, command |-> command,
         status |-> "OK", address |-> address, skew |-> job.skew,
         payload |-> payload, version |-> Version]
  BY <1>4 DEF Asking, Frame
<1>6. Len(<<Length(Chunk)>>) = 1 /\ <<Length(Chunk)>>[1].length = Chunk
  BY DEF Length
<1>7. HostRequest.payload = payload /\ HostRequest.command = command
  BY <1>5
<1>8. stage \in {"read", "check"} =>
        Len(HostRequest.payload) = 1 /\ HostRequest.payload[1].length = Chunk
  BY <1>4, <1>6, <1>7
<1>9. stage \in {"hello", "status", "lock"} => Len(HostRequest.payload) = 0
  BY <1>4, <1>7
<1> QED BY <1>1, <1>4, <1>5, <1>7, <1>8, <1>9

\* A request is no longer than the loader takes, and asks for something.
LEMMA RequestFits ==
  ASSUME Inv, BeliefInv, Running, Legitimate, Faultless, ~LoopEnded
  PROVE  /\ Len(HostRequest.payload) \in Nat
         /\ Len(HostRequest.payload) <= device.max
         /\ Len(HostRequest.payload) <= MaxPayload
         /\ stage \in Loops =>
              /\ Chunk \in Nat /\ Chunk > 0
              /\ Chunk <= device.max /\ device.max <= MaxPayload
              /\ job.offset + pos + Chunk <= device.size
<1>1. /\ stage \in Stages /\ stage # "raw" /\ device.max \in Nat
      /\ stage \in Loops => /\ info = device /\ device.max \in 1 .. MaxPayload
                            /\ job.offset + Total <= device.size
                            /\ device.size \in Nat
  BY LegitimateJob DEF Inv, HostInv, HostTyped
<1>2. /\ Total \in Nat /\ pos \in Nat /\ pos <= Total /\ job.offset \in Nat
      /\ Chunk \in Nat /\ pos + Chunk <= Total
  BY JobTyped, ChunkTyped DEF Inv
<1>3. stage \in Loops =>
        /\ Chunk > 0 /\ Chunk <= device.max /\ device.max <= MaxPayload
        /\ job.offset + pos + Chunk <= device.size
  <2> SUFFICES ASSUME stage \in Loops
               PROVE  /\ Chunk > 0 /\ Chunk <= device.max /\ device.max <= MaxPayload
                      /\ job.offset + pos + Chunk <= device.size
    OBVIOUS
  <2>1. pos < Total
    BY <1>2 DEF LoopEnded
  <2>2. Chunk = IF device.max < Total - pos THEN device.max ELSE Total - pos
    BY <1>1 DEF Chunk
  <2> QED BY <1>1, <1>2, <2>1, <2>2, MaxPayloadAssumption
<1>4. /\ stage \in {"hello", "status", "lock"} => Len(HostRequest.payload) = 0
      /\ stage \in {"read", "check"} => Len(HostRequest.payload) = 1
      /\ stage = "burn" => Len(HostRequest.payload) = Chunk
  BY <1>1, RequestBuilt, RequestIs
<1>5. stage \in {"hello", "status", "lock"} \/ stage \in {"read", "check"} \/ stage = "burn"
  BY <1>1 DEF Stages
<1>6. CASE stage \in {"hello", "status", "lock"}
  BY <1>1, <1>3, <1>4, <1>6, MaxPayloadAssumption DEF Loops
<1>7. CASE stage \in {"read", "check"}
  <2>1. stage \in Loops /\ Len(HostRequest.payload) = 1
    BY <1>4, <1>7 DEF Loops
  <2> QED BY <1>1, <1>2, <1>3, <2>1, MaxPayloadAssumption
<1>8. CASE stage = "burn"
  <2>1. stage \in Loops /\ Len(HostRequest.payload) = Chunk
    BY <1>4, <1>8 DEF Loops
  <2> QED BY <1>1, <1>2, <1>3, <2>1, MaxPayloadAssumption
<1> QED BY <1>5, <1>6, <1>7, <1>8

\* The loader has the request of the host whole.
RequestRead == HasRead("body", lheader, lbody, HostRequest, Tokens(HostRequest))

LEMMA RequestWhole ==
  ASSUME Inv, Running, stage # "raw", RequestRead
  PROVE  /\ Intact(lheader, lbody) /\ BodyRead
         /\ lheader.length = Len(HostRequest.payload)
         /\ \A i \in 1 .. lheader.length : lbody[i].item = HostRequest.payload[i]
         /\ Request.kind = "request" /\ Request.status = "OK"
         /\ Request.version = Version /\ Request.sequence = sequence
         /\ Request.command = HostRequest.command
         /\ Request.address = HostRequest.address /\ Request.skew = job.skew
<1>1. /\ HostRequest \in FrameSet /\ HostRequest.kind = "request"
      /\ HostRequest.status = "OK" /\ HostRequest.version = Version
      /\ HostRequest.sequence = sequence /\ HostRequest.skew = job.skew
  BY RequestBuilt
<1>2. Len(lbody) = lheader.length + 1
  BY <1>1, HowFar, FrameTyped DEF RequestRead, Tokens
<1> QED BY <1>1, <1>2, WholeFrame DEF RequestRead, BodyRead, Request

\* The words of a legitimate request to program may be burnt.
LEMMA NoIllegalWords ==
  ASSUME Inv, BeliefInv, Running, Legitimate, Faultless, ~LoopEnded, RequestRead,
         stage = "burn"
  PROVE  IllegalWords = {}
<1>1. /\ stage # "raw" /\ job.operation = "program"
      /\ device.size \in Nat /\ device.size <= Depth
  BY LegitimateJob
<1>2. /\ lheader.length = Chunk /\ Request.address = job.offset + pos
      /\ \A i \in 1 .. Chunk : RequestWord(i) = job.image[pos + i]
  BY <1>1, RequestWhole, RequestIs DEF RequestWord
<1>3. /\ Chunk \in Nat /\ job.offset + pos + Chunk <= device.size
  BY RequestFits DEF Loops
<1>4. /\ Total \in Nat /\ pos \in Nat /\ job.offset \in Nat /\ pos + Chunk <= Total
  BY JobTyped, ChunkTyped DEF Inv
<1>5. otp \in OtpState
  BY DEF Inv, TargetInv, TargetTyped
<1>6. ASSUME NEW i \in 1 .. Chunk
      PROVE  RequestWord(i) \subseteq ReadWord(Request.address + i - 1)
  <2>1. /\ pos + i \in 1 .. Total /\ Request.address + i - 1 \in Addresses
        /\ Request.address + i - 1 = job.offset + (pos + i) - 1
    BY <1>1, <1>2, <1>3, <1>4, DepthAssumption DEF Addresses
  <2>2. job.image[pos + i] \subseteq otp.words[job.offset + (pos + i) - 1]
    BY <1>1, <2>1 DEF Legitimate
  <2>3. ReadWord(Request.address + i - 1) = otp.words[Request.address + i - 1]
    BY <1>5, <2>1, WordRead DEF ReadWord
  <2> QED BY <1>2, <2>1, <2>2, <2>3
<1> QED BY <1>2, <1>6 DEF IllegalWords

LEMMA NotRefused ==
  ASSUME Inv, BeliefInv, Running, Legitimate, Faultless, ~LoopEnded, RequestRead
  PROVE  Refusal = "OK"
<1>1. /\ stage # "raw" /\ device.version = Version /\ device.max \in Nat
      /\ device.size \in Nat
      /\ stage = "lock" => "LOCK" \in device.caps
      /\ stage \in Loops => "READ" \in device.caps
      /\ stage = "burn" => job.skew = 0 /\ "PROGRAM" \in device.caps
  BY LegitimateJob
<1>2. /\ Intact(lheader, lbody)
      /\ lheader.length = Len(HostRequest.payload)
      /\ \A i \in 1 .. lheader.length : lbody[i].item = HostRequest.payload[i]
      /\ Request.kind = "request" /\ Request.status = "OK"
      /\ Request.version = Version /\ Request.command = HostRequest.command
      /\ Request.address = HostRequest.address /\ Request.skew = job.skew
  BY <1>1, RequestWhole
<1>3. /\ lheader.length \in Nat /\ lheader.length <= device.max
      /\ stage \in Loops =>
           /\ Chunk \in Nat /\ Chunk > 0 /\ Chunk <= device.max
           /\ job.offset + pos + Chunk <= device.size
  BY <1>2, RequestFits
<1>4. job.offset \in Nat /\ pos \in Nat
  BY JobTyped DEF Inv
<1>5. ~(lheader.length > device.max)
  BY <1>1, <1>3
<1>6. stage \in Stages
  BY DEF Inv, HostInv, HostTyped
<1>7. CASE stage \in {"hello", "status", "lock"}
  <2>1. lheader.length = 0 /\ Request.command \in {"HELLO", "STATUS", "LOCK"}
        /\ (Request.command = "LOCK" => stage = "lock")
    BY <1>1, <1>2, <1>7, RequestBuilt, RequestIs
  <2>2. ~BadLength
    BY <1>2, <2>1 DEF BadLength, Asks
  <2>3. ~BadAlignment /\ ~BadAddress /\ ~Asks("PROGRAM")
    BY <2>1 DEF BadAlignment, BadAddress, Asks
  <2>4. ~BadCommand
    BY <1>1, <2>1 DEF BadCommand
  <2> QED BY <1>1, <1>2, <1>5, <2>2, <2>3, <2>4 DEF Refusal
<1>8. CASE stage \in {"read", "check"}
  <2>1. /\ lheader.length = 1 /\ Request.command = "READ"
        /\ Request.address = job.offset + pos
    BY <1>1, <1>2, <1>8, RequestBuilt, RequestIs
  <2>2. Span = Chunk
    <3>1. lbody[1].item = HostRequest.payload[1]
      BY <1>2, <2>1
    <3> QED BY <1>1, <1>8, <2>1, <3>1, RequestBuilt DEF Span, Asks
  <2>3. stage \in Loops
    BY <1>8 DEF Loops
  <2>4. ~BadLength
    BY <1>1, <1>2, <1>3, <2>1, <2>2, <2>3 DEF BadLength, Asks
  <2>5. ~BadAlignment /\ ~BadCommand /\ ~Asks("PROGRAM")
    BY <1>1, <2>1, <2>3 DEF BadAlignment, BadCommand, Asks
  <2>6. ~BadAddress
    BY <1>1, <1>3, <1>4, <2>1, <2>2, <2>3 DEF BadAddress
  <2> QED BY <1>1, <1>2, <1>5, <2>4, <2>5, <2>6 DEF Refusal
<1>9. CASE stage = "burn"
  <2>1. /\ lheader.length = Chunk /\ Request.command = "PROGRAM"
        /\ Request.address = job.offset + pos
    BY <1>2, <1>9, RequestIs
  <2>2. Span = Chunk
    BY <2>1 DEF Span, Asks
  <2>3. stage \in Loops
    BY <1>9 DEF Loops
  <2>4. ~BadLength
    BY <1>2, <1>3, <2>1, <2>3 DEF BadLength, Asks
  <2>5. ~BadAlignment /\ ~BadCommand
    BY <1>1, <1>2, <1>9, <2>1 DEF BadAlignment, BadCommand, Asks
  <2>6. ~BadAddress
    BY <1>1, <1>3, <1>4, <2>1, <2>2, <2>3 DEF BadAddress
  <2>7. IllegalWords = {}
    BY <1>9, NoIllegalWords
  <2> QED BY <1>1, <1>2, <1>5, <2>4, <2>5, <2>6, <2>7 DEF Refusal
<1> QED BY <1>1, <1>6, <1>7, <1>8, <1>9 DEF Stages

-------------------------------------------------------------------------------
(* The pulse. *)

LEMMA PulseStarted ==
  ASSUME NEW o \in OtpState, NEW a \in Addresses, NEW v \in SUBSET Bits,
         ~o.locked, v \subseteq o.words[a]
  PROVE  /\ StartPulse(o, a, v).done /\ ~StartPulse(o, a, v).error
         /\ StartPulse(o, a, v).addr = a
<1>1. a \in Nat /\ a < Depth
  BY DepthAssumption DEF Addresses
<1>2. PICK w : w = WriteWdata(WriteAddr(WriteKey(WriteClear(o), TRUE), a), v)
  OBVIOUS
<1>3. w \in OtpState
  <2>1. WriteClear(o) \in OtpState
    BY <1>1, RegisterWrites
  <2>2. WriteKey(WriteClear(o), TRUE) \in OtpState
    BY <1>1, <2>1, RegisterWrites
  <2>3. WriteAddr(WriteKey(WriteClear(o), TRUE), a) \in OtpState
    BY <1>1, <2>2, RegisterWrites
  <2> QED BY <1>1, <1>2, <2>3, RegisterWrites
<1>4. /\ w.words = o.words /\ w.addr = a /\ w.wdata = v
      /\ w.unlocked = TRUE /\ w.locked = o.locked
  BY <1>2 DEF OtpState, WriteWdata, WriteAddr, WriteKey, WriteClear
<1>5. Legal(w)
  BY <1>1, <1>4 DEF Legal, Rdata
<1>6. PICK q : q = Pulse(w)
  OBVIOUS
<1>7. StartPulse(o, a, v) =
        [w EXCEPT !.words = q, !.busy = TRUE, !.done = TRUE, !.error = FALSE]
  BY <1>2, <1>5, <1>6 DEF StartPulse, WriteStart
<1> QED BY <1>3, <1>4, <1>7 DEF OtpState

LEMMA StepPulse ==
  ASSUME Inv, BeliefInv, [Next]_vars, PulseAccepted
  PROVE  PulseAccepted'
<1> SUFFICES ASSUME lphase' = "pulse" PROVE PulseAccepted'
  BY DEF PulseAccepted
<1>1. CASE UNCHANGED targetVars
  BY <1>1 DEF PulseAccepted, targetVars, loaderVars, Request
<1>2. CASE LoaderStep
  <2>1. CASE BurnWord
    <3>1. /\ ~otp.locked /\ UNCHANGED <<lheader, lbody, lpos>>
          /\ otp' = StartPulse(otp, Request.address + lpos, RequestWord(lpos + 1))
      BY <2>1 DEF BurnWord, Respond, StartPulse
    <3>2. lpos + 1 \in 1 .. lheader.length /\ lpos + 1 - 1 = lpos
      BY <2>1 DEF BurnWord, Inv, TargetInv, TargetTyped, HeaderSet
    <3>3. /\ Request.address + lpos \in Addresses
          /\ RequestWord(lpos + 1) \in SUBSET Bits
          /\ RequestWord(lpos + 1) \subseteq otp.words[Request.address + lpos]
      <4>1. lphase = "burn" /\ FrameBurnable /\ Request.address \in Nat
        BY <2>1 DEF BurnWord, Inv, TargetInv, TargetTyped, HeaderSet, FrameSet, Request
      <4>2. Request.address + (lpos + 1) - 1 = Request.address + lpos
        BY <4>1 DEF Inv, TargetInv, TargetTyped
      <4> QED BY <3>2, <4>1, <4>2 DEF FrameBurnable
    <3>4. otp \in OtpState
      BY DEF Inv, TargetInv, TargetTyped
    <3> QED BY <3>1, <3>3, <3>4, PulseStarted DEF PulseAccepted, Request
  <2>2. CASE Clock
    <3>1. otp \in OtpState /\ UNCHANGED loaderVars /\ otp' = OtpClock(otp)
      BY <2>2 DEF Clock, Inv, TargetInv, TargetTyped
    <3>2. /\ otp'.done = otp.done /\ otp'.error = otp.error /\ otp'.addr = otp.addr
      BY <3>1 DEF OtpState, OtpClock
    <3> QED BY <3>1, <3>2 DEF PulseAccepted, loaderVars, Request
  <2>3. CASE WordDone
    BY <2>3 DEF WordDone, Respond
  <2> QED BY <1>2, <2>1, <2>2, <2>3
      DEF LoaderStep, Seek, ReadHeader, ReadBody, Refuse, Carry, StartBurning,
          FrameBurnt, Respond
<1>3. CASE ResetLoader
  BY <1>3 DEF ResetLoader
<1>4. UNCHANGED targetVars \/ LoaderStep \/ ResetLoader
  BY DEF Next, vars, Start, Host, Loader, DeadTimeOut, LateTimeOut, LoseAnswer,
         SpoilAnswer, HarmRequest, ResetTarget
<1> QED BY <1>1, <1>2, <1>3, <1>4

-------------------------------------------------------------------------------
(* A job that is legitimate after a step was so before it. *)

LEMMA LegitimateKept ==
  ASSUME Inv, LoaderStep, UNCHANGED job, Legitimate'
  PROVE  Legitimate
<1>1. /\ device' = device
      /\ \/ otp'.words = otp.words /\ otp'.locked \in {otp.locked, TRUE}
         \/ WordsBurnt
  BY LoaderKeeps
<1>2. CASE otp'.words = otp.words /\ otp'.locked \in {otp.locked, TRUE}
  BY <1>1, <1>2 DEF Legitimate, Permitted, Total
<1>3. CASE WordsBurnt
  <2> DEFINE a == Request.address + lpos
             v == RequestWord(lpos + 1)
  <2>1. Request.address + (lpos + 1) - 1 = a
    BY DEF Inv, TargetInv, TargetTyped, HeaderSet, FrameSet, Request
  <2>2. /\ a \in Addresses /\ v \subseteq otp.words[a] /\ v \in SUBSET Bits
        /\ <<a, v>> \in AskedBy(job)
    BY <1>3, <2>1 DEF WordsBurnt, FrameBurnable, Inv, TargetInv
  <2>3. otp'.words = [otp.words EXCEPT ![a] = v] /\ otp'.locked = otp.locked
    BY <1>3 DEF WordsBurnt
  <2> HIDE DEF a, v
  <2>4. job.operation = "program"
    BY <2>2, <2>3, WordOfImage DEF Legitimate
  <2>5. job.offset + Total <= Depth /\ job.offset \in Nat /\ Total \in Nat
    <3>1. Permitted(device) /\ device.size \in Nat /\ device.size <= Depth
      BY <1>1, <2>4, DevicesAssumption, DepthAssumption
         DEF Legitimate, Permitted, Total, Inv, TargetInv, TargetTyped
    <3> QED BY <2>4, <3>1, JobTyped, DepthAssumption DEF Permitted, Inv
  <2>6. ASSUME NEW i \in 1 .. Total
        PROVE  job.image[i] \subseteq otp.words[job.offset + i - 1]
    <3>1. job.offset + i - 1 \in Addresses
      BY <2>5, DepthAssumption DEF Addresses
    <3>2. otp.words \in [Addresses -> SUBSET Bits]
      BY DEF Inv, TargetInv, TargetTyped, OtpState
    <3>3. otp'.words[job.offset + i - 1] \subseteq otp.words[job.offset + i - 1]
      BY <2>2, <2>3, <3>1, <3>2
    <3>4. job.image[i] \subseteq otp'.words[job.offset + i - 1]
      BY <2>4 DEF Legitimate, Total
    <3> QED BY <3>3, <3>4
  <2> QED BY <1>1, <2>3, <2>4, <2>6 DEF Legitimate, Permitted, Total
<1> QED BY <1>1, <1>2, <1>3

-------------------------------------------------------------------------------
(* The loader's steps. *)

LEMMA SameRequestBuilt ==
  ASSUME UNCHANGED jobVars
  PROVE  HostRequest' = HostRequest /\ Chunk' = Chunk /\ LoopEnded' = LoopEnded
  BY DEF jobVars, HostRequest, Chunk, LoopEnded, Total

LEMMA SameAnswerDue ==
  ASSUME UNCHANGED jobVars, device' = device
  PROVE  \A f : Proper(f) => Proper(f)'
  BY SameRequestBuilt DEF jobVars, Proper

\* A waiting loader reads nothing and answers nothing.
LEMMA LoaderWaiting ==
  ASSUME LoaderWaits, LoaderStep
  PROVE  UNCHANGED <<line, loaderVars, device>>
  BY DEF LoaderWaits, LoaderStep, Seek, ReadHeader, ReadBody, LoaderReads, Refuse,
         Carry, StartBurning, BurnWord, WordDone, FrameBurnt, Clock, line

LEMMA IdleLoader ==
  ASSUME LoaderWaits, OneFrame, UNCHANGED hostVars, UNCHANGED mishaps,
         UNCHANGED <<line, loaderVars, device>>
  PROVE  OneFrame'
<1>1. UNCHANGED jobVars /\ UNCHANGED <<tries, receiverVars>>
  BY DEF hostVars
<1>2. HostRequest' = HostRequest /\ \A f : Proper(f) => Proper(f)'
  BY <1>1, SameRequestBuilt, SameAnswerDue
<1>3. LoaderWaits'
  BY DEF LoaderWaits, line, loaderVars
<1>4. Between => Between'
  BY <1>1, <1>3 DEF Between, receiverVars, line
<1>5. RequestUnderWay => RequestUnderWay'
  BY <1>1, <1>2 DEF RequestUnderWay, LoaderReading, receiverVars, line, loaderVars
<1>6. AnswerUnderWay => AnswerUnderWay'
  BY <1>1, <1>2, <1>3 DEF AnswerUnderWay, receiverVars, line
<1>7. CutShort => CutShort'
  BY <1>1, <1>3 DEF CutShort, receiverVars, line
<1> QED BY <1>4, <1>5, <1>6, <1>7 DEF OneFrame

\* The loader's answer goes out on an empty line.
LEMMA AnswerSent ==
  ASSUME Inv, Running, stage # "raw", device.version = Version,
         hphase = "seek", hbody = << >>, toHost = << >>, toTarget = << >>, RequestRead,
         NEW payload \in Seq(ItemSet), Len(payload) <= MaxPayload,
         stage = "hello" => payload = <<Geometry(device)>>,
         stage \in {"read", "check"} => Len(payload) = Chunk,
         Respond("OK", payload), UNCHANGED hostVars, UNCHANGED <<device, toTarget>>
  PROVE  AnswerUnderWay'
<1>1. PICK answer :
        answer = [Frame("response", Request.sequence, Request.command, "OK",
                        Request.address, IF "OK" = "OK" THEN payload ELSE << >>)
                  EXCEPT !.version = device.version]
  OBVIOUS
<1>2. answer \in FrameSet
  BY <1>1, ResponseTyped DEF Inv, Statuses
<1>3. /\ answer.kind = "response" /\ answer.version = Version /\ answer.status = "OK"
      /\ answer.sequence = Request.sequence /\ answer.command = Request.command
      /\ answer.payload = payload
  BY <1>1 DEF Frame
<1>4. Request.sequence = sequence /\ Request.command = HostRequest.command
  BY RequestWhole
<1>5. UNCHANGED jobVars /\ UNCHANGED receiverVars
  BY DEF hostVars
<1>6. Proper(answer)'
  <2>1. Proper(answer)
    BY <1>2, <1>3, <1>4 DEF Proper
  <2> QED BY <1>5, <2>1, SameAnswerDue
<1>7. toHost' = << >> \o Encode(answer)
  BY <1>1 DEF Respond, ToHost
<1>8. Left(toHost', answer, 0)
  BY <1>2, <1>7, LeftEncoded
<1>9. HasRead(hphase', hheader', hbody', answer, 0)
  BY <1>5, Starting DEF receiverVars
<1>10. 0 \in 0 .. Tokens(answer)
  BY <1>2, FrameTyped DEF Tokens
<1>11. Halfway(hphase, hheader, hbody, toHost, answer)'
  BY <1>8, <1>9, <1>10 DEF Halfway
<1>12. LoaderWaits'
  BY DEF LoaderWaits, Respond
<1> QED BY <1>2, <1>6, <1>11, <1>12 DEF AnswerUnderWay

\* What a legitimate request is answered with.
LEMMA AnswerDue ==
  ASSUME Inv, BeliefInv, Running, Legitimate, Faultless, ~LoopEnded, RequestRead,
         Request.command # "PROGRAM"
  PROVE  /\ Answer \in Seq(ItemSet) /\ Len(Answer) <= MaxPayload
         /\ stage = "hello" => Answer = <<Geometry(device)>>
         /\ stage \in {"read", "check"} => Len(Answer) = Chunk
<1>1. Answer \in Seq(ItemSet)
  BY NotRefused, AnswerTyped DEF Inv
<1>2. stage # "raw" /\ stage \in Stages
  BY LegitimateJob DEF Inv, HostInv, HostTyped
<1>3. Request.command = HostRequest.command /\ lheader.length = Len(HostRequest.payload)
      /\ \A i \in 1 .. lheader.length : lbody[i].item = HostRequest.payload[i]
  BY <1>2, RequestWhole
<1>4. MaxPayload \in Nat /\ 1 <= MaxPayload
  BY MaxPayloadAssumption
<1>5. CASE stage = "hello"
  <2>1. Answer = <<Geometry(device)>>
    BY <1>3, <1>5, RequestIs DEF Answer
  <2>2. Len(<<Geometry(device)>>) = 1
    OBVIOUS
  <2> QED BY <1>1, <1>4, <1>5, <2>1, <2>2
<1>6. CASE stage \in {"read", "check"}
  <2>1. Request.command = "READ" /\ lheader.length = 1
    BY <1>2, <1>3, <1>6, RequestIs, RequestBuilt
  <2>2. Span = Chunk
    <3>1. lbody[1].item = HostRequest.payload[1]
      BY <1>3, <2>1
    <3> QED BY <1>2, <1>6, <2>1, <3>1, RequestBuilt DEF Span, Asks
  <2>3. Answer = [i \in 1 .. Chunk |-> Word(ReadWord(Request.address + i - 1))]
    BY <2>1, <2>2 DEF Answer
  <2>4. Chunk \in Nat /\ Chunk <= MaxPayload
    <3>1. stage \in Loops
      BY <1>6 DEF Loops
    <3>2. Chunk \in Nat /\ Chunk <= device.max /\ device.max <= MaxPayload
      BY <3>1, RequestFits
    <3>3. device.max \in Nat
      BY LegitimateJob
    <3> QED BY <1>4, <3>2, <3>3
  <2>5. Len(Answer) = Chunk
    BY <1>1, <2>3, <2>4
  <2> QED BY <1>1, <1>6, <2>4, <2>5
<1>7. CASE stage = "status"
  <2>1. Answer = <<StatusBits(otp.locked)>>
    BY <1>2, <1>3, <1>7, RequestBuilt DEF Answer
  <2>2. Len(<<StatusBits(otp.locked)>>) = 1
    OBVIOUS
  <2> QED BY <1>1, <1>4, <1>7, <2>1, <2>2
<1>8. CASE stage = "lock"
  <2>1. Answer = << >>
    BY <1>3, <1>8, RequestIs DEF Answer
  <2> QED BY <1>1, <1>4, <1>8, <2>1
<1>9. stage # "burn"
  BY <1>3, RequestIs
<1> QED BY <1>2, <1>5, <1>6, <1>7, <1>8, <1>9 DEF Stages

\* The loader reads on in the request.
LEMMA RequestReadOn ==
  ASSUME Inv, BeliefInv, Running, Legitimate, Faultless, ~LoopEnded,
         hphase = "seek", hbody = << >>, toHost = << >>, UNCHANGED hostVars,
         NEW k \in 0 .. Tokens(HostRequest),
         HasRead(lphase, lheader, lbody, HostRequest, k),
         Left(toTarget, HostRequest, k),
         Seek \/ ReadHeader \/ ReadBody
  PROVE  RequestUnderWay'
<1> DEFINE frame == HostRequest
<1>1. /\ UNCHANGED jobVars /\ UNCHANGED receiverVars /\ toHost' = toHost
      /\ HostRequest' = HostRequest
  BY SameRequestBuilt DEF hostVars, Seek, ReadHeader, ReadBody
<1>2. frame \in FrameSet /\ toTarget \in Seq(Token) /\ lbody \in Seq(Token)
  BY RequestAsked DEF Inv, LineInv, TargetInv, TargetTyped
<1> HIDE DEF frame
<1>3. toTarget # << >> /\ toTarget' = Tail(toTarget)
  BY DEF Seek, ReadHeader, ReadBody, LoaderReads
<1>4. /\ k + 1 \in 1 .. Tokens(frame) /\ Head(toTarget) = TokenOf(frame, k + 1)
      /\ Left(toTarget', frame, k + 1)
  BY <1>2, <1>3, LeftRead DEF frame
<1>5. HasRead(lphase, lheader, lbody, frame, k) /\ k \in 0 .. Tokens(frame)
  BY DEF frame
<1>6. /\ lphase = "seek" <=> k = 0
      /\ lphase = "header" <=> k = 1
      /\ lphase = "body" <=> k >= 2
      /\ lphase \in {"seek", "header", "body"}
  BY <1>2, <1>5, HowFar
<1>7. HasRead(lphase', lheader', lbody', frame, k + 1)
  <2>1. CASE Seek
    <3>1. k = 0 /\ Head(toTarget) = Magic
      BY <1>4, <1>6, <2>1 DEF Seek, TokenOf
    <3>2. lphase' = "header" /\ UNCHANGED <<lheader, lbody>>
      BY <1>6, <2>1, <3>1 DEF Seek, Magic, Noise
    <3> QED BY <1>5, <3>1, <3>2, MagicRead
  <2>2. CASE ReadHeader
    <3>1. k = 1
      BY <1>6, <2>2 DEF ReadHeader
    <3>2. HeaderReadings(Head(toTarget)) = {HeaderOf(frame)}
      BY <1>2, <1>4, <3>1, HeaderReadAs
    <3>3. HeaderOf(frame).length <= MaxPayload /\ HeaderOf(frame).length \in Nat
      BY RequestFits DEF HeaderOf, frame
    <3>4. lphase' = "body" /\ lheader' = HeaderOf(frame) /\ lbody' = lbody
      BY <2>2, <3>2, <3>3, MaxPayloadAssumption DEF ReadHeader
    <3> QED BY <1>5, <3>1, <3>4, HeaderRead
  <2>3. CASE ReadBody
    <3>1. k >= 2 /\ k \in 2 .. Tokens(frame)
      BY <1>5, <1>6, <2>3 DEF ReadBody
    <3>2. Head(toTarget) \in Token
      BY <1>2, <1>3, HeadTyped
    <3>3. lphase' = "body" /\ lheader' = lheader /\ lbody' = Append(lbody, Head(toTarget))
      BY <2>3 DEF ReadBody
    <3> QED BY <1>2, <1>4, <1>5, <3>1, <3>2, <3>3, ItemRead
  <2> QED BY <2>1, <2>2, <2>3
<1>8. k + 1 \in 0 .. Tokens(frame)
  BY <1>4
<1>9. Halfway(lphase, lheader, lbody, toTarget, HostRequest)'
  BY <1>1, <1>4, <1>7, <1>8 DEF Halfway, frame
<1> QED BY <1>1, <1>9 DEF RequestUnderWay, LoaderReading, receiverVars

\* The loader has the whole request, carries it out and answers.
LEMMA RequestAnswered ==
  ASSUME Inv, BeliefInv, Running, Legitimate, Faultless, ~LoopEnded,
         hphase = "seek", hbody = << >>, toHost = << >>, toTarget = << >>,
         UNCHANGED hostVars, RequestRead, Refuse \/ Carry \/ StartBurning
  PROVE  OneFrame'
<1>1. Refusal = "OK"
  BY NotRefused
<1>2. stage # "raw" /\ device.version = Version
  BY LegitimateJob
<1>3. CASE Carry
  <2>1. Respond("OK", Answer) /\ UNCHANGED <<device, toTarget>>
        /\ Request.command # "PROGRAM"
    BY <1>3 DEF Carry
  <2>2. /\ Answer \in Seq(ItemSet) /\ Len(Answer) <= MaxPayload
        /\ stage = "hello" => Answer = <<Geometry(device)>>
        /\ stage \in {"read", "check"} => Len(Answer) = Chunk
    BY <2>1, AnswerDue
  <2>3. AnswerUnderWay'
    BY <1>2, <2>1, <2>2, AnswerSent
  <2> QED BY <2>3 DEF OneFrame
<1>4. CASE StartBurning
  <2>1. /\ UNCHANGED jobVars /\ UNCHANGED receiverVars
        /\ lphase' = "burn" /\ UNCHANGED <<toTarget, toHost, lheader, lbody>>
    BY <1>4 DEF StartBurning, hostVars
  <2>2. HostRequest' = HostRequest
    BY <2>1, SameRequestBuilt
  <2>3. RequestUnderWay'
    BY <2>1, <2>2 DEF RequestUnderWay, LoaderReading, RequestRead, receiverVars
  <2> QED BY <2>3 DEF OneFrame
<1> QED BY <1>1, <1>3, <1>4 DEF Refuse

\* The loader burns the request's words, and none of them fails.
LEMMA RequestBurnt ==
  ASSUME Inv, BeliefInv, PulseAccepted, Running, Legitimate, Faultless, ~LoopEnded,
         hphase = "seek", hbody = << >>, toHost = << >>, toTarget = << >>,
         UNCHANGED hostVars, RequestRead, lphase \in {"burn", "pulse"},
         BurnWord \/ WordDone \/ FrameBurnt
  PROVE  OneFrame'
<1>1. stage # "raw" /\ device.version = Version /\ stage \in Stages
  BY LegitimateJob DEF Inv, HostInv, HostTyped
<1>2. stage = "burn" /\ job.operation = "program"
  <2>1. HostRequest.command = "PROGRAM"
    BY <1>1, RequestWhole DEF BeliefInv, Burning
  <2> QED BY <1>1, <2>1, RequestIs, RequestBuilt DEF Stages, Inv, HostInv, HostPlace
<1>3. ~otp.locked
  BY <1>2 DEF Legitimate
<1>4. UNCHANGED jobVars /\ UNCHANGED receiverVars /\ HostRequest' = HostRequest
  BY SameRequestBuilt DEF hostVars
<1>5. ASSUME lphase' \in {"burn", "pulse"}, UNCHANGED <<toTarget, toHost, lheader, lbody>>
      PROVE  OneFrame'
  BY <1>4, <1>5 DEF OneFrame, RequestUnderWay, LoaderReading, RequestRead, receiverVars
<1>6. CASE BurnWord
  <2>1. lphase' = "pulse" /\ UNCHANGED <<toTarget, toHost, lheader, lbody>>
    BY <1>3, <1>6 DEF BurnWord
  <2> QED BY <1>5, <2>1
<1>7. CASE WordDone
  <2>1. lphase = "pulse" /\ lpos + 1 \in 1 .. lheader.length
    BY <1>7 DEF WordDone, Inv, TargetInv, TargetTyped, TargetPlace, HeaderSet
  <2>2. otp.done /\ ~otp.error /\ otp.addr = Request.address + lpos
    BY <2>1 DEF PulseAccepted
  <2>3. Request.address + (lpos + 1) - 1 = Request.address + lpos
    BY <2>1 DEF Inv, TargetInv, TargetTyped, HeaderSet, FrameSet, Request
  <2>4. otp.words[otp.addr] = RequestWord(lpos + 1)
    BY <2>1, <2>2, <2>3 DEF BeliefInv, Burning
  <2>5. otp.addr \in Addresses
    BY <2>1, <2>2, <2>3 DEF Inv, TargetInv, FrameBurnable
  <2>6. Rdata(otp) = RequestWord(lpos + 1)
    BY <2>4, <2>5, DepthAssumption DEF Rdata, Addresses
  <2>7. lphase' = "burn" /\ UNCHANGED <<toTarget, toHost, lheader, lbody>>
    BY <1>7, <2>2, <2>6 DEF WordDone
  <2> QED BY <1>5, <2>7
<1>8. CASE FrameBurnt
  <2>1. PICK payload \in Seq(ItemSet) : payload = << >>
    <3>1. << >> \in Seq(ItemSet)
      OBVIOUS
    <3> QED BY <3>1
  <2>2. Len(payload) <= MaxPayload
    BY <2>1, MaxPayloadAssumption
  <2>3. Respond("OK", payload) /\ UNCHANGED <<device, toTarget>>
    BY <1>8, <2>1 DEF FrameBurnt
  <2>4. AnswerUnderWay'
    BY <1>1, <1>2, <2>2, <2>3, AnswerSent
  <2> QED BY <2>4 DEF OneFrame
<1> QED BY <1>6, <1>7, <1>8

LEMMA LoaderOneFrame ==
  ASSUME Inv, BeliefInv, PulseAccepted, Running, Legitimate, Faultless,
         LoaderStep, UNCHANGED hostVars, UNCHANGED mishaps
  PROVE  OneFrame'
<1>1. OneFrame
  BY DEF Faultless
<1>2. CASE LoaderWaits
  BY <1>1, <1>2, LoaderWaiting, IdleLoader
<1>3. CASE ~LoaderWaits
  <2>1. hphase = "seek" /\ hbody = << >> /\ toHost = << >> /\ LoaderReading
    BY <1>1, <1>3 DEF OneFrame, Between, RequestUnderWay, AnswerUnderWay, CutShort
  <2>2. ~LoopEnded
    BY <2>1 DEF BeliefInv, FirstAttempt
  <2>3. HostRequest \in FrameSet /\ toTarget \in Seq(Token)
    BY RequestAsked DEF Inv, LineInv
  <2>4. UNCHANGED jobVars /\ UNCHANGED receiverVars /\ HostRequest' = HostRequest
    BY SameRequestBuilt DEF hostVars
  <2>5. CASE Clock
    BY <2>1, <2>4, <2>5
       DEF Clock, OneFrame, RequestUnderWay, LoaderReading, receiverVars, loaderVars
  <2>6. CASE Halfway(lphase, lheader, lbody, toTarget, HostRequest)
    <3>1. PICK k \in 0 .. Tokens(HostRequest) :
            /\ HasRead(lphase, lheader, lbody, HostRequest, k)
            /\ Left(toTarget, HostRequest, k)
      BY <2>6 DEF Halfway
    <3>2. CASE Seek \/ ReadHeader \/ ReadBody
      BY <2>1, <2>2, <3>1, <3>2, RequestReadOn DEF OneFrame
    <3>3. CASE Refuse \/ Carry \/ StartBurning
      <4>1. lphase = "body" /\ BodyRead
        BY <3>3 DEF Refuse, Carry, StartBurning
      <4>2. k = Tokens(HostRequest)
        BY <2>3, <3>1, <4>1, HowFar DEF BodyRead
      <4>3. RequestRead /\ toTarget = << >>
        BY <2>3, <3>1, <4>1, <4>2, LeftRead DEF RequestRead
      <4> QED BY <2>1, <2>2, <3>3, <4>3, RequestAnswered
    <3>4. CASE BurnWord \/ WordDone \/ FrameBurnt
      BY <2>3, <3>1, <3>4, HowFar DEF BurnWord, WordDone, FrameBurnt
    <3> QED BY <2>5, <3>2, <3>3, <3>4 DEF LoaderStep
  <2>7. CASE lphase \in {"burn", "pulse"} /\ toTarget = << >> /\ RequestRead
    <3>1. CASE BurnWord \/ WordDone \/ FrameBurnt
      BY <2>1, <2>2, <2>7, <3>1, RequestBurnt
    <3>2. ~(Seek \/ ReadHeader \/ ReadBody \/ Refuse \/ Carry \/ StartBurning)
      BY <2>7 DEF Seek, ReadHeader, ReadBody, Refuse, Carry, StartBurning
    <3> QED BY <2>5, <3>1, <3>2 DEF LoaderStep
  <2> QED BY <2>1, <2>6, <2>7 DEF LoaderReading, RequestRead
<1> QED BY <1>2, <1>3

-------------------------------------------------------------------------------
(* The host's steps. *)

\* The job goes on to another request, or ends well.
LEMMA NextRequest ==
  ASSUME LoaderWaits, UNCHANGED line, toHost = << >>, UNCHANGED targetVars,
         UNCHANGED mishapVars, mishaps \in Nat, Running,
         tries' = 0, ReceiverReset, outcome' # "error",
         Running' /\ stage' \in Loops => info' = device
  PROVE  Faultless'
<1>1. Between'
  BY DEF Between, LoaderWaits, line, targetVars, loaderVars, ReceiverReset
<1>2. mishaps' \in Nat /\ device' = device
  BY DEF mishapVars, targetVars
<1> QED BY <1>1, <1>2 DEF Faultless, OneFrame

\* Between two loops over the image the comparisons succeed.
LEMMA TurnFaultless ==
  ASSUME Inv, BeliefInv, Legitimate, Faultless, mishaps \in Nat, Turn,
         UNCHANGED line, UNCHANGED targetVars, UNCHANGED mishapVars
  PROVE  Faultless'
<1>1. Running /\ LoopEnded /\ hphase = "send" /\ stage \in Loops /\ pos = Total
  BY DEF Turn, BeliefInv, FirstAttempt, LoopEnded
<1>2. Between
  BY <1>1 DEF Faultless, OneFrame, RequestUnderWay, AnswerUnderWay, CutShort, Halfway, HasRead
<1>3. info = device
  BY <1>1 DEF Faultless
<1>4. HostBelievesTrue /\ Believed /\ Total \in Nat
  BY <1>1, JobTyped DEF BeliefInv, Inv
<1>5. stage = "read" /\ job.operation = "program" => Burnable
  <2> SUFFICES ASSUME stage = "read", job.operation = "program", NEW i \in 1 .. Total
               PROVE  job.image[i] \subseteq got[i]
    BY DEF Burnable
  <2>1. Len(got) = Total
    BY <1>1, <1>4 DEF Believed
  <2>2. got[i] = otp.words[job.offset + i - 1]
    BY <1>4, <2>1 DEF HostBelievesTrue, OtpWord
  <2> QED BY <2>2 DEF Legitimate
<1>6. stage = "check" => got = job.image
  <2> SUFFICES ASSUME stage = "check" PROVE got = job.image
    OBVIOUS
  <2>1. got \in Seq(SUBSET Bits) /\ Len(got) = Total
    BY <1>1, <1>4 DEF Believed
  <2>2. job.image \in Seq(SUBSET Bits) /\ Len(job.image) = Total
    BY JobTyped, JobsAssumption DEF Inv, Total
  <2>3. job.operation \in {"program", "verify"}
    BY <1>1 DEF BeliefInv, StageOfJob
  <2>4. ASSUME NEW i \in 1 .. Total
        PROVE  got[i] = job.image[i]
    <3>1. got[i] = OtpWord(i)
      BY <1>4, <2>1 DEF HostBelievesTrue
    <3>2. CASE job.operation = "program"
      BY <1>4, <3>1, <3>2 DEF HostBelievesTrue
    <3>3. CASE job.operation = "verify"
      BY <3>1, <3>3 DEF Legitimate, OtpWord
    <3> QED BY <2>3, <3>2, <3>3
  <2> QED BY <2>1, <2>2, <2>4
<1>7. CASE Finish("ok")
  BY <1>1, <1>2, <1>7, NextRequest DEF Finish, Between, Running
<1>8. CASE \E next \in {"burn", "check"} : Enter(next)
  <2>1. UNCHANGED <<job, outcome, info, sequence, tries, receiverVars>>
    BY <1>8 DEF Enter
  <2>2. Between'
    BY <1>2, <2>1 DEF Between, LoaderWaits, line, targetVars, loaderVars, receiverVars
  <2>3. UNCHANGED <<mishaps, device>>
    BY DEF mishapVars, targetVars
  <2> QED BY <1>1, <1>3, <2>1, <2>2, <2>3 DEF Faultless, OneFrame, Running
<1>9. Finish("ok") \/ \E next \in {"burn", "check"} : Enter(next)
  BY <1>5, <1>6 DEF Turn
<1> QED BY <1>7, <1>8, <1>9

\* The host writes the whole request.
LEMMA SendFaultless ==
  ASSUME Inv, BeliefInv, Legitimate, Faultless, Send, UNCHANGED toHost,
         UNCHANGED targetVars, UNCHANGED mishapVars
  PROVE  Faultless'
<1>1. Running /\ hphase = "send" /\ ~LoopEnded
  BY DEF Send
<1>2. Between
  BY <1>1 DEF Faultless, OneFrame, RequestUnderWay, AnswerUnderWay, CutShort, Halfway, HasRead
<1>3. lbody = << >> /\ hbody = << >>
  BY <1>1, <1>2
     DEF Between, LoaderWaits, Inv, TargetInv, TargetPlace, HostInv, HostPlace
<1>4. /\ UNCHANGED jobVars /\ UNCHANGED <<tries, hbody>> /\ hphase' = "seek"
      /\ toTarget' = << >> \o Encode(HostRequest) /\ toHost' = << >>
      /\ lphase' = "seek" /\ lheader' = lheader /\ lbody' = << >>
  BY <1>2, <1>3 DEF Send, ToTarget, Between, LoaderWaits, targetVars, loaderVars
<1>5. HostRequest' = HostRequest /\ HostRequest \in FrameSet
  BY <1>1, <1>4, SameRequestBuilt, RequestAsked DEF Inv
<1>6. Left(toTarget', HostRequest, 0)
  BY <1>4, <1>5, LeftEncoded
<1>7. HasRead(lphase', lheader', lbody', HostRequest, 0)
  BY <1>4, Starting
<1>8. 0 \in 0 .. Tokens(HostRequest)
  BY <1>5, FrameTyped DEF Tokens
<1>9. Halfway(lphase, lheader, lbody, toTarget, HostRequest)'
  BY <1>5, <1>6, <1>7, <1>8 DEF Halfway
<1>10. RequestUnderWay'
  BY <1>3, <1>4, <1>9 DEF RequestUnderWay, LoaderReading
<1>11. UNCHANGED <<outcome, stage, info, tries, mishaps, device>>
  BY <1>4 DEF jobVars, mishapVars, targetVars
<1> QED BY <1>10, <1>11 DEF Faultless, OneFrame, Running

\* The host reads on in the answer.
LEMMA AnswerReadOn ==
  ASSUME Inv, LoaderWaits, UNCHANGED toTarget, UNCHANGED targetVars,
         NEW answer \in FrameSet, Proper(answer),
         NEW k \in 0 .. Tokens(answer),
         HasRead(hphase, hheader, hbody, answer, k), Left(toHost, answer, k),
         HostSeek \/ HostHeader \/ HostBody
  PROVE  AnswerUnderWay' /\ UNCHANGED jobVars /\ UNCHANGED tries
<1>1. toHost \in Seq(Token) /\ hbody \in Seq(Token)
  BY DEF Inv, LineInv, HostInv, HostTyped
<1>2. toHost # << >> /\ toHost' = Tail(toHost)
  BY DEF HostSeek, HostHeader, HostBody, HostReads
<1>3. /\ k + 1 \in 1 .. Tokens(answer) /\ Head(toHost) = TokenOf(answer, k + 1)
      /\ Left(toHost', answer, k + 1)
  BY <1>1, <1>2, LeftRead
<1>4. /\ hphase = "seek" <=> k = 0
      /\ hphase = "header" <=> k = 1
      /\ hphase = "body" <=> k >= 2
  BY HowFar
<1>5. /\ HasRead(hphase', hheader', hbody', answer, k + 1)
      /\ UNCHANGED jobVars /\ UNCHANGED tries
  <2>1. CASE HostSeek
    <3>1. k = 0 /\ Head(toHost) = Magic
      BY <1>3, <1>4, <2>1 DEF HostSeek, TokenOf
    <3>2. hphase' = "header" /\ UNCHANGED <<jobVars, tries, hheader, hbody>>
      BY <2>1, <3>1 DEF HostSeek, Magic, Noise
    <3> QED BY <3>1, <3>2, MagicRead
  <2>2. CASE HostHeader
    <3>1. k = 1
      BY <1>4, <2>2 DEF HostHeader
    <3>2. HeaderReadings(Head(toHost)) = {HeaderOf(answer)}
      BY <1>3, <3>1, HeaderReadAs
    <3>3. HeaderOf(answer).length <= MaxPayload /\ HeaderOf(answer).length \in Nat
      BY FrameTyped DEF HeaderOf, Proper
    <3>4. /\ hphase' = "body" /\ hheader' = HeaderOf(answer)
          /\ UNCHANGED <<jobVars, tries, hbody>>
      BY <2>2, <3>2, <3>3, MaxPayloadAssumption DEF HostHeader
    <3> QED BY <3>1, <3>4, HeaderRead
  <2>3. CASE HostBody
    <3>1. k \in 2 .. Tokens(answer)
      BY <1>4, <2>3 DEF HostBody
    <3>2. Head(toHost) \in Token
      BY <1>1, <1>2, HeadTyped
    <3>3. /\ hphase' = "body" /\ hheader' = hheader /\ hbody' = Append(hbody, Head(toHost))
          /\ UNCHANGED jobVars /\ UNCHANGED tries
      BY <2>3 DEF HostBody
    <3> QED BY <1>1, <1>3, <3>1, <3>2, <3>3, ItemRead
  <2> QED BY <2>1, <2>2, <2>3
<1>6. k + 1 \in 0 .. Tokens(answer)
  BY <1>3
<1>7. Halfway(hphase, hheader, hbody, toHost, answer)'
  BY <1>3, <1>5, <1>6 DEF Halfway
<1>8. Proper(answer)'
  BY <1>5, SameAnswerDue DEF targetVars
<1>9. LoaderWaits'
  BY DEF LoaderWaits, targetVars, loaderVars
<1> QED BY <1>5, <1>7, <1>8, <1>9 DEF AnswerUnderWay

\* An answer that was not cut short is taken.
LEMMA AnswerTaken ==
  ASSUME Inv, BeliefInv, Running, Legitimate, Faultless, mishaps \in Nat, LoaderWaits,
         UNCHANGED line, UNCHANGED targetVars, UNCHANGED mishapVars,
         NEW answer \in FrameSet, Proper(answer),
         NEW k \in 0 .. Tokens(answer),
         HasRead(hphase, hheader, hbody, answer, k), Left(toHost, answer, k),
         TakeAnswer
  PROVE  Faultless'
<1>1. hphase = "body" /\ AnswerRead
  BY DEF TakeAnswer
<1>2. k = Tokens(answer)
  BY <1>1, HowFar DEF AnswerRead
<1>3. toHost = << >>
  BY <1>2, LeftRead DEF Inv, LineInv
<1>4. /\ Intact(hheader, hbody) /\ hheader.length = Len(answer.payload)
      /\ \A i \in 1 .. hheader.length : hbody[i].item = answer.payload[i]
      /\ Reply.kind = "response" /\ Reply.sequence = sequence
      /\ Reply.command = HostRequest.command /\ Reply.status = "OK"
      /\ Reply.version = Version
  BY <1>1, <1>2, WholeFrame DEF Proper, Reply
<1>5. /\ stage # "raw" /\ stage \in Stages
      /\ stage = "hello" => Permitted(device) /\ device.max \in 1 .. MaxPayload
      /\ stage \in Loops => info = device
  BY LegitimateJob DEF Inv, HostInv, HostTyped
<1>6. stage = "hello" => hbody[1].item.device = device
  <2> SUFFICES ASSUME stage = "hello" PROVE hbody[1].item.device = device
    OBVIOUS
  <2>1. answer.payload = <<Geometry(device)>>
    BY DEF Proper
  <2>2. Len(answer.payload) = 1 /\ answer.payload[1] = Geometry(device)
    BY <2>1
  <2>3. hbody[1].item = Geometry(device)
    BY <1>4, <2>2
  <2> QED BY <2>3 DEF Geometry
<1>7. Matches
  BY <1>4, <1>5, <1>6 DEF Matches, Proper
<1>8. ASSUME tries' = 0, ReceiverReset, outcome' # "error",
             Running' /\ stage' \in Loops => info' = device
      PROVE  Faultless'
  BY <1>3, <1>8, NextRequest
<1>9. CASE HelloAnswered
  <2>1. stage = "hello" /\ Permitted(device) /\ hbody[1].item.device = device
    BY <1>5, <1>6, <1>9 DEF HelloAnswered
  <2>2. CASE job.operation = "probe"
    <3>1. Finish("ok")
      BY <1>9, <2>1, <2>2 DEF HelloAnswered
    <3> QED BY <1>8, <3>1 DEF Finish, Running
  <2>3. CASE job.operation # "probe"
    <3>1. info' = device /\ \E next : Proceed(next, 0, << >>)
      BY <1>9, <2>1, <2>3 DEF HelloAnswered
    <3> QED BY <1>8, <3>1 DEF Proceed, Running
  <2> QED BY <2>2, <2>3
<1>10. CASE ChunkAnswered
  <2>1. stage \in Loops /\ info' = info
    BY <1>10 DEF ChunkAnswered
  <2>2. \E done, words : Proceed(stage, done, words)
    BY <1>10 DEF ChunkAnswered
  <2> QED BY <1>5, <1>8, <2>1, <2>2 DEF Proceed, Running
<1>11. CASE LastAnswered
  BY <1>8, <1>11 DEF LastAnswered, Finish, Running
<1> QED BY <1>7, <1>9, <1>10, <1>11 DEF TakeAnswer, Rejected

\* Of an answer that was cut short the host takes nothing.
LEMMA CutShortOn ==
  ASSUME Inv, Faultless, CutShort, UNCHANGED targetVars, UNCHANGED mishapVars, Running,
         HostStep, ~LoopEnded
  PROVE  Faultless'
<1>1. toHost \in Seq(Token)
  BY DEF Inv, LineInv
<1>2. hheader.length \in Nat /\ hbody \in Seq(Token)
  BY DEF Inv, HostInv, HostTyped, HeaderSet
<1>3. LoaderWaits /\ tries < mishaps /\ hphase \in {"seek", "body"}
  BY DEF CutShort
<1>4. ~Turn /\ ~Send /\ ~HostHeader
  BY <1>3 DEF Turn, Send, HostHeader
<1>5. hphase = "body" => Len(hbody) + Len(toHost) <= hheader.length
  BY DEF CutShort
<1>6. ~TakeAnswer
  <2> SUFFICES ASSUME TakeAnswer PROVE FALSE
    OBVIOUS
  <2>1. Len(hbody) = hheader.length + 1 /\ hphase = "body"
    BY DEF TakeAnswer, AnswerRead
  <2> QED BY <1>1, <1>2, <1>5, <2>1
<1>7. HostSeek \/ HostBody
  BY <1>4, <1>6 DEF HostStep
<1>8. /\ toHost # << >> /\ toHost' = Tail(toHost) /\ toTarget' = toTarget
      /\ UNCHANGED jobVars /\ tries' = tries
  BY <1>7 DEF HostSeek, HostBody, HostReads, HostStep, Turn, TakeAnswer, Send, line
<1>9. LoaderWaits' /\ tries' < mishaps'
  BY <1>3, <1>8 DEF LoaderWaits, targetVars, loaderVars, mishapVars
<1>10. CutShort'
  <2>1. CASE HostSeek
    <3>1. \A i \in 1 .. Len(toHost) : toHost[i] # Magic /\ ~LooksLikeMagic(toHost[i])
      BY <2>1 DEF CutShort, HostSeek
    <3>2. Head(toHost) # Magic /\ ~LooksLikeMagic(Head(toHost))
      BY <1>1, <1>8, <3>1
    <3>3. Head(toHost) # Noise
      BY <3>2 DEF LooksLikeMagic, Noise
    <3>4. hphase' = "seek"
      BY <2>1, <3>2, <3>3 DEF HostSeek
    <3>5. \A i \in 1 .. Len(toHost') : toHost'[i] # Magic /\ ~LooksLikeMagic(toHost'[i])
      <4> SUFFICES ASSUME NEW i \in 1 .. Len(toHost')
                   PROVE  toHost'[i] # Magic /\ ~LooksLikeMagic(toHost'[i])
        OBVIOUS
      <4>1. i + 1 \in 1 .. Len(toHost) /\ toHost'[i] = toHost[i + 1]
        BY <1>1, <1>8
      <4> QED BY <3>1, <4>1
    <3> QED BY <1>9, <3>4, <3>5 DEF CutShort
  <2>2. CASE HostBody
    <3>1. /\ hphase = "body" /\ hphase' = "body" /\ hheader' = hheader
          /\ hbody' = Append(hbody, Head(toHost))
      BY <2>2 DEF HostBody
    <3>2. Head(toHost) \in Token
      BY <1>1, <1>8, HeadTyped
    <3>3. Len(hbody') = Len(hbody) + 1
      BY <1>2, <3>1, <3>2
    <3>4. Len(toHost') = Len(toHost) - 1
      BY <1>1, <1>8
    <3>5. Len(hbody) \in Nat /\ Len(toHost) \in Nat
      BY <1>1, <1>2
    <3>6. Len(hbody') + Len(toHost') <= hheader'.length
      BY <1>2, <1>5, <3>1, <3>3, <3>4, <3>5
    <3> QED BY <1>9, <3>1, <3>6 DEF CutShort
  <2> QED BY <1>7, <2>1, <2>2
<1>11. UNCHANGED <<outcome, stage, info, tries, mishaps, device>>
  BY <1>8 DEF jobVars, mishapVars, targetVars
<1> QED BY <1>10, <1>11 DEF Faultless, OneFrame, Running

LEMMA HostFaultless ==
  ASSUME Inv, BeliefInv, Legitimate, Faultless, mishaps \in Nat,
         HostStep, UNCHANGED targetVars, UNCHANGED mishapVars
  PROVE  Faultless'
<1>1. Running
  BY DEF HostStep, Turn, TakeAnswer, Send, HostSeek, HostHeader, HostBody
<1>2. CASE Turn
  BY <1>2, TurnFaultless DEF HostStep, Turn, TakeAnswer, Send, HostSeek, HostHeader, HostBody, BeliefInv, FirstAttempt
<1>3. CASE Send
  BY <1>3, SendFaultless DEF HostStep, Turn, TakeAnswer, Send, HostSeek, HostHeader, HostBody
<1>4. CASE ~Turn /\ ~Send
  <2>1. CASE Between
    BY <1>4, <2>1 DEF Between, HostStep, TakeAnswer, HostSeek, HostHeader, HostBody
  <2>2. CASE RequestUnderWay
    BY <1>4, <2>2
       DEF RequestUnderWay, HostStep, TakeAnswer, HostSeek, HostHeader, HostBody, HostReads
  <2>3. hphase # "send" => ~LoopEnded
    BY <1>1 DEF BeliefInv, FirstAttempt
  <2>4. CASE AnswerUnderWay
    <3>1. LoaderWaits
      BY <2>4 DEF AnswerUnderWay
    <3>2. PICK answer \in FrameSet :
            Proper(answer) /\ Halfway(hphase, hheader, hbody, toHost, answer)
      BY <2>4 DEF AnswerUnderWay
    <3>3. PICK k \in 0 .. Tokens(answer) :
            HasRead(hphase, hheader, hbody, answer, k) /\ Left(toHost, answer, k)
      BY <3>2 DEF Halfway
    <3>4. CASE TakeAnswer /\ UNCHANGED line
      BY <1>1, <3>1, <3>2, <3>3, <3>4, AnswerTaken
    <3>5. CASE (HostSeek \/ HostHeader \/ HostBody) /\ UNCHANGED toTarget
      <4>1. AnswerUnderWay' /\ UNCHANGED jobVars /\ UNCHANGED tries
        BY <3>1, <3>2, <3>3, <3>5, AnswerReadOn
      <4>2. UNCHANGED <<outcome, stage, info, tries, mishaps, device>>
        BY <4>1 DEF jobVars, mishapVars, targetVars
      <4> QED BY <4>1, <4>2 DEF Faultless, OneFrame, Running
    <3> QED BY <1>4, <3>4, <3>5 DEF HostStep
  <2>5. CASE CutShort
    <3>1. ~LoopEnded
      BY <2>3, <2>5 DEF CutShort
    <3> QED BY <1>1, <2>5, <3>1, CutShortOn
  <2> QED BY <1>1, <2>1, <2>2, <2>4, <2>5 DEF Faultless, OneFrame
<1> QED BY <1>2, <1>3, <1>4

-------------------------------------------------------------------------------
(* What goes wrong. *)

\* A deadline passes while nothing is under way only behind an answer that was
\* cut short, and no more often than answers are.
LEMMA DeadTimeOutFaultless ==
  ASSUME Inv, BeliefInv, Faultless, mishaps \in Nat, DeadTimeOut
  PROVE  Faultless'
<1>1. /\ TargetQuiet /\ toHost = << >> /\ TimeOut /\ Running
      /\ UNCHANGED <<line, targetVars, mishapVars>>
  BY DEF DeadTimeOut, Quiet, TimeOut
<1>2. /\ lphase \in {"seek", "half", "header", "body"} /\ toTarget = << >>
      /\ ~(lphase = "body" /\ BodyRead)
      /\ hphase \in {"seek", "header", "body"} /\ ~(hphase = "body" /\ AnswerRead)
  BY <1>1 DEF TargetQuiet, TimeOut
<1>3. ~Between
  BY <1>2 DEF Between
<1>4. ~RequestUnderWay
  <2> SUFFICES ASSUME RequestUnderWay PROVE FALSE
    OBVIOUS
  <2>1. HostRequest \in FrameSet /\ toTarget \in Seq(Token)
    BY <1>1, RequestAsked DEF Inv, LineInv
  <2>2. PICK k \in 0 .. Tokens(HostRequest) :
          /\ HasRead(lphase, lheader, lbody, HostRequest, k)
          /\ Left(toTarget, HostRequest, k)
    BY <1>2 DEF RequestUnderWay, LoaderReading, Halfway
  <2>3. k = Tokens(HostRequest)
    BY <1>2, <2>1, <2>2, LeftRead
  <2>4. k >= 2
    BY <2>1, <2>3, FrameTyped DEF Tokens
  <2> QED BY <1>2, <2>1, <2>2, <2>3, <2>4, HowFar DEF BodyRead
<1>5. ~AnswerUnderWay
  <2> SUFFICES ASSUME NEW answer \in FrameSet, NEW k \in 0 .. Tokens(answer),
                      HasRead(hphase, hheader, hbody, answer, k),
                      Left(toHost, answer, k)
               PROVE  FALSE
    BY DEF AnswerUnderWay, Halfway
  <2>1. k = Tokens(answer)
    BY <1>1, LeftRead DEF Inv, LineInv
  <2>2. k >= 2
    BY <2>1, FrameTyped DEF Tokens
  <2> QED BY <1>2, <2>1, <2>2, HowFar DEF AnswerRead
<1>6. CutShort
  BY <1>1, <1>3, <1>4, <1>5 DEF Faultless, OneFrame
<1>7. /\ tries < mishaps /\ LoaderWaits /\ UNCHANGED <<mishaps, device>>
      /\ tries \in 0 .. Retries
  BY <1>1, <1>6 DEF CutShort, mishapVars, targetVars, Inv, HostInv, HostTyped
<1>8. CASE tries < Retries
  <2>1. tries' = tries + 1 /\ ReceiverReset /\ UNCHANGED jobVars
    BY <1>1, <1>8 DEF TimeOut
  <2>2. Between'
    BY <1>1, <1>7, <2>1
       DEF Between, LoaderWaits, ReceiverReset, line, targetVars, loaderVars
  <2>3. tries' <= mishaps'
    BY <1>7, <2>1
  <2>4. UNCHANGED <<outcome, stage, info, device>>
    BY <1>7, <2>1 DEF jobVars
  <2>5. outcome' = "error" => mishaps' > Retries
    BY <1>7, <2>4 DEF Faultless
  <2> QED BY <2>2, <2>3, <2>4, <2>5 DEF Faultless, OneFrame, Running
<1>9. CASE ~(tries < Retries)
  <2>1. Finish("error")
    BY <1>1, <1>9 DEF TimeOut
  <2>2. tries' = 0 /\ outcome' = "error" /\ mishaps' = mishaps
    BY <1>7, <2>1 DEF Finish
  <2>3. mishaps' > Retries
    BY <1>7, <1>9, <2>2, RetriesAssumption
  <2> QED BY <2>2, <2>3 DEF Faultless, Running
<1> QED BY <1>8, <1>9

\* An answer that loses a token the host still misses is cut short.
LEMMA LoseAnswerFaultless ==
  ASSUME Inv, BeliefInv, Faultless, mishaps \in Nat, LoseAnswer, ~Misread(toHost)
  PROVE  Faultless'
<1>1. /\ Running /\ toHost # << >> /\ toHost' = Tail(toHost)
      /\ mishaps' = mishaps + 1 /\ UNCHANGED <<hostVars, toTarget, targetVars>>
  BY DEF LoseAnswer, Lost, Mishap
<1>2. toHost \in Seq(Token)
  BY DEF Inv, LineInv
<1>3. /\ Len(toHost') = Len(toHost) - 1 /\ Len(toHost) \in Nat /\ Len(toHost) > 0
      /\ \A i \in 1 .. Len(toHost') : i + 1 \in 2 .. Len(toHost)
                                        /\ toHost'[i] = toHost[i + 1]
      /\ Head(toHost) = toHost[1]
  BY <1>1, <1>2
<1>4. UNCHANGED <<outcome, stage, info, tries, device, hphase, hheader, hbody>>
  BY <1>1 DEF hostVars, jobVars, receiverVars, targetVars
<1>5. tries \in Nat /\ tries <= mishaps
  BY DEF Faultless, Inv, HostInv, HostTyped
<1>6. LoaderWaits => LoaderWaits'
  BY <1>1 DEF LoaderWaits, targetVars, loaderVars
<1>7. hheader.length \in Nat /\ Len(hbody) \in Nat
  BY DEF Inv, HostInv, HostTyped, HeaderSet
<1>8. CutShort' => Faultless'
  <2>1. outcome' = "error" => mishaps' > Retries
    BY <1>1, <1>4, RetriesAssumption DEF Faultless
  <2>2. tries' <= mishaps'
    BY <1>1, <1>4, <1>5
  <2> QED BY <1>4, <2>1, <2>2 DEF Faultless, OneFrame, Running
<1>9. CASE AnswerUnderWay
  <2>1. PICK answer \in FrameSet :
          Halfway(hphase, hheader, hbody, toHost, answer)
    BY <1>9 DEF AnswerUnderWay
  <2>2. PICK k \in 0 .. Tokens(answer) :
          HasRead(hphase, hheader, hbody, answer, k) /\ Left(toHost, answer, k)
    BY <2>1 DEF Halfway
  <2>3. k + 1 \in 1 .. Tokens(answer) /\ Head(toHost) = TokenOf(answer, k + 1)
    BY <1>1, <1>2, <2>2, LeftRead
  <2>4. Tokens(answer) = Len(answer.payload) + 3 /\ Len(answer.payload) \in Nat
    BY FrameTyped DEF Tokens
  <2>5. Len(toHost) = Tokens(answer) - k
    BY <2>2 DEF Left
  <2>6. CASE k = 0
    <3>1. hphase = "seek"
      BY <2>2, <2>6, HowFar
    <3>2. Head(toHost) = Magic
      BY <2>3, <2>6 DEF TokenOf
    <3>3. \A i \in 2 .. Len(toHost) : ~LooksLikeMagic(toHost[i])
      BY <3>2 DEF Misread
    <3>4. \A i \in 2 .. Len(toHost) : toHost[i] # Magic
      <4> SUFFICES ASSUME NEW i \in 2 .. Len(toHost) PROVE toHost[i] # Magic
        OBVIOUS
      <4>1. i \in 1 .. Tokens(answer) /\ i > 1
        BY <2>4, <2>5, <2>6
      <4>2. toHost[i] = TokenOf(answer, i)
        BY <2>2, <2>5, <2>6, <4>1 DEF Left
      <4> QED BY <4>1, <4>2, TokensOf
    <3>5. \A i \in 1 .. Len(toHost') : toHost'[i] # Magic /\ ~LooksLikeMagic(toHost'[i])
      BY <1>3, <3>3, <3>4
    <3>6. LoaderWaits' /\ tries' < mishaps' /\ hphase' = "seek"
      BY <1>1, <1>4, <1>5, <1>6, <1>9, <3>1 DEF AnswerUnderWay
    <3> QED BY <1>8, <3>5, <3>6 DEF CutShort
  <2>7. CASE k = 1
    <3>1. Head(toHost).t = "header"
      BY <2>3, <2>4, <2>7, TokensOf
    <3> QED BY <3>1 DEF Misread
  <2>8. CASE k >= 2
    <3>1. hphase = "body" /\ hheader.length = Len(answer.payload)
      BY <2>2, <2>8, HowFar
    <3>2. Len(hbody) = k - 2
      BY <2>2, <2>8 DEF HasRead
    <3>3. Len(hbody') + Len(toHost') <= hheader'.length
      BY <1>3, <1>4, <2>4, <2>5, <3>1, <3>2
    <3>4. LoaderWaits' /\ tries' < mishaps' /\ hphase' = "body"
      BY <1>1, <1>4, <1>5, <1>6, <1>9, <3>1 DEF AnswerUnderWay
    <3> QED BY <1>8, <3>3, <3>4 DEF CutShort
  <2> QED BY <2>6, <2>7, <2>8
<1>10. CASE CutShort
  <2>1. LoaderWaits' /\ tries' < mishaps'
    BY <1>1, <1>4, <1>5, <1>6, <1>10 DEF CutShort
  <2>2. ASSUME hphase = "seek",
               \A i \in 1 .. Len(toHost) : toHost[i] # Magic /\ ~LooksLikeMagic(toHost[i])
        PROVE  CutShort'
    <3>1. \A i \in 1 .. Len(toHost') : toHost'[i] # Magic /\ ~LooksLikeMagic(toHost'[i])
      BY <1>3, <2>2
    <3> QED BY <1>4, <2>1, <2>2, <3>1 DEF CutShort
  <2>3. ASSUME hphase = "body", Len(hbody) + Len(toHost) <= hheader.length
        PROVE  CutShort'
    <3>1. Len(hbody') + Len(toHost') <= hheader'.length
      BY <1>3, <1>4, <1>7, <2>3
    <3> QED BY <1>4, <2>1, <2>3, <3>1 DEF CutShort
  <2> QED BY <1>8, <1>10, <2>2, <2>3 DEF CutShort
<1>11. ~Between /\ ~RequestUnderWay
  BY <1>1 DEF Between, RequestUnderWay
<1> QED BY <1>1, <1>9, <1>10, <1>11 DEF Faultless, OneFrame

\* A command line is given when the loader is at the top of its loop.
LEMMA StartFaultless ==
  ASSUME Start, lphase = "seek", Legitimate', mishaps \in Nat
  PROVE  Faultless'
<1>1. /\ tries' = 0 /\ ReceiverReset /\ toTarget' = << >> /\ toHost' = << >>
      /\ UNCHANGED targetVars /\ mishaps' = mishaps
  BY DEF Start, StartJob
<1>2. Between'
  BY <1>1 DEF Between, LoaderWaits, ReceiverReset, targetVars, loaderVars
<1>3. PICK j \in Jobs :
        /\ job' = j
        /\ outcome' = IF j.confirmed THEN "running" ELSE "error"
        /\ stage' = IF j.operation \in {"status", "raw"} THEN j.operation ELSE "hello"
  BY DEF Start, StartJob
<1>4. outcome' = "running"
  BY <1>3 DEF Legitimate
<1>5. stage' \notin Loops
  BY <1>3 DEF Loops
<1> QED BY <1>1, <1>2, <1>4, <1>5 DEF Faultless, OneFrame

-------------------------------------------------------------------------------
(* The invariant of what goes wrong. *)

LEMMA InitError == Init => ErrorInv
<1> SUFFICES ASSUME Init PROVE ErrorInv
  OBVIOUS
<1>1. /\ outcome = "none" /\ stage = "hello" /\ tries = 0 /\ mishaps = 0
      /\ lphase = "seek"
  BY DEF Init, HostInit, LoaderInit, LoaderIdle
<1> QED BY <1>1 DEF ErrorInv, PulseAccepted, Faultless, Running

LEMMA MishapsCounted ==
  ASSUME Inv
  PROVE  mishaps \in Nat
  BY MishapsAssumption DEF Inv, MishapTyped, TargetInv, TargetTyped

LEMMA StepError == Inv /\ Inv' /\ BeliefInv /\ ErrorInv /\ [Next]_vars => ErrorInv'
<1> SUFFICES ASSUME Inv, Inv', BeliefInv, ErrorInv, [Next]_vars PROVE ErrorInv'
  OBVIOUS
<1>1. PulseAccepted /\ PulseAccepted'
  BY StepPulse DEF ErrorInv
<1> SUFFICES ASSUME harm' # "fatal", Legitimate' PROVE Faultless'
  BY <1>1 DEF ErrorInv
<1>2. mishaps \in Nat
  BY MishapsCounted
<1>3. ASSUME harm # "fatal", Legitimate
      PROVE  Faultless
  BY <1>3 DEF ErrorInv
<1>4. CASE Start
  BY <1>2, <1>4, StartFaultless DEF Start
<1>5. CASE Host
  <2>1. UNCHANGED <<harm, device, otp>> /\ UNCHANGED job
    BY <1>5, HostKeeps DEF Host, mishapVars, targetVars
  <2>2. Legitimate
    BY <2>1 DEF Legitimate, Permitted, Total
  <2> QED BY <1>2, <1>3, <1>5, <2>1, <2>2, HostFaultless DEF Host
<1>6. CASE Loader
  <2>1. UNCHANGED hostVars /\ UNCHANGED mishapVars /\ LoaderStep
    BY <1>6 DEF Loader
  <2>2. UNCHANGED <<job, outcome, stage, info, tries, mishaps, harm>>
    BY <2>1 DEF hostVars, jobVars, mishapVars
  <2>3. Legitimate /\ Faultless /\ device' = device
    BY <1>3, <2>1, <2>2, LegitimateKept, LoaderKeeps
  <2>4. Running => OneFrame'
    BY <1>1, <2>1, <2>2, <2>3, LoaderOneFrame
  <2> QED BY <2>2, <2>3, <2>4 DEF Faultless, Running
<1>7. CASE DeadTimeOut
  <2>1. UNCHANGED <<harm, device, otp>> /\ UNCHANGED job
    BY <1>7 DEF DeadTimeOut, TimeOut, Finish, jobVars, mishapVars, targetVars
  <2>2. Legitimate
    BY <2>1 DEF Legitimate, Permitted, Total
  <2> QED BY <1>2, <1>3, <1>7, <2>1, <2>2, DeadTimeOutFaultless
<1>8. CASE LoseAnswer
  <2>1. UNCHANGED <<device, otp>> /\ UNCHANGED job
    BY <1>8 DEF LoseAnswer, hostVars, jobVars, targetVars
  <2>2. Legitimate
    BY <2>1 DEF Legitimate, Permitted, Total
  <2>3. harm # "fatal" /\ ~Misread(toHost)
    BY <1>8 DEF LoseAnswer, Mishap
  <2> QED BY <1>2, <1>3, <1>8, <2>2, <2>3, LoseAnswerFaultless
<1>9. CASE LateTimeOut \/ SpoilAnswer \/ HarmRequest \/ ResetTarget
  BY <1>9 DEF LateTimeOut, SpoilAnswer, HarmRequest, ResetTarget, Mishap
<1>10. CASE UNCHANGED vars
  <2>1. UNCHANGED <<hostVars, line, targetVars, mishapVars>>
    BY <1>10 DEF vars
  <2>2. UNCHANGED <<job, outcome, stage, info, tries, mishaps, harm, device, otp>>
    BY <2>1 DEF hostVars, jobVars, mishapVars, targetVars
  <2>3. Legitimate
    BY <2>2 DEF Legitimate, Permitted, Total
  <2>4. OneFrame => OneFrame'
    <3>1. UNCHANGED <<jobVars, receiverVars, line, loaderVars>>
      BY <2>1 DEF hostVars, targetVars
    <3>2. HostRequest' = HostRequest /\ \A f : Proper(f) => Proper(f)'
      BY <2>2, <3>1, SameRequestBuilt, SameAnswerDue
    <3> QED BY <2>2, <3>1, <3>2
            DEF OneFrame, Between, RequestUnderWay, LoaderReading, AnswerUnderWay,
                CutShort, LoaderWaits, receiverVars, line, loaderVars
  <2> QED BY <1>3, <2>2, <2>3, <2>4 DEF Faultless, Running
<1> QED BY <1>4, <1>5, <1>6, <1>7, <1>8, <1>9, <1>10 DEF Next

\* A command line the target has no reason to refuse fails only behind a fault
\* that is worse than an answer cut short, an early timeout, a reset, or more
\* answers cut short than there are retries: a lost answer is made up for, although
\* the target carries the request out again (serial_transport.py:87, client.py:122).
THEOREM ErrorsCaused == Spec => []ErrorsHaveACause
<1>1. Inv /\ ErrorInv => ErrorsHaveACause
  BY DEF ErrorInv, Faultless, ErrorsHaveACause
<1> QED BY <1>1, InvHolds, InitBelief, StepBelief, InitError, StepError, PTL DEF Spec

===============================================================================
