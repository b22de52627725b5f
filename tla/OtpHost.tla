------------------------------- MODULE OtpHost -------------------------------
(***************************************************************************)
(* The host's OTP tool: a command line (cli.py) runs one job, a sequence   *)
(* of requests and answers (client.py), each request sent, and sent again  *)
(* when its answer times out (serial_transport.py).  Only a timeout is     *)
(* retried: a spoilt frame or an answer to another request ends the job.   *)
(***************************************************************************)
EXTENDS OtpLine

CONSTANTS
  Jobs,     \* the command lines: operation, flags, image and where it goes
  Retries   \* --retries

ASSUME RetriesAssumption == Retries \in Nat

VARIABLES
  job,       \* the command line last given
  outcome,   \* "none" before the first, then "running", "ok" or "error"
  stage,     \* the request the job has come to
  pos,       \* the words of the image done at this stage
  got,       \* the words read at this stage
  info,      \* _device_info
  sequence,  \* the sequence number of the request
  tries,     \* the attempts that timed out
  hphase,    \* where exchange stands
  hheader,   \* the header read
  hbody      \* the tokens read after it

jobVars == <<job, outcome, stage, pos, got, info, sequence>>
receiverVars == <<hphase, hheader, hbody>>
hostVars == <<jobVars, tries, receiverVars>>

NoInfo == [size |-> 0, caps |-> {}, max |-> 0, version |-> 0]
Stages == {"hello", "status", "read", "burn", "check", "lock", "raw"}
Loops == {"read", "burn", "check"}

HostInit ==
  /\ job \in Jobs
  /\ outcome = "none" /\ stage = "hello" /\ pos = 0 /\ got = << >>
  /\ info = NoInfo /\ sequence = 0 /\ tries = 0
  /\ hphase = "send" /\ hheader = NoHeader /\ hbody = << >>

Running == outcome = "running"
Total == Len(job.image)
Chunk == IF info.max < Total - pos THEN info.max ELSE Total - pos
LoopEnded == stage \in Loops /\ pos = Total

\* The frame _request builds at this stage.
HostRequest ==
  LET Ask(command, address, payload) ==
        [Frame("request", sequence, command, "OK", address, payload)
         EXCEPT !.skew = job.skew]
  IN  CASE stage = "hello" -> Ask("HELLO", 0, << >>)
        [] stage = "status" -> Ask("STATUS", 0, << >>)
        [] stage = "lock" -> Ask("LOCK", 0, << >>)
        [] stage \in {"read", "check"} ->
             Ask("READ", job.offset + pos, <<Length(Chunk)>>)
        [] stage = "burn" ->
             Ask("PROGRAM", job.offset + pos,
                 [i \in 1 .. Chunk |-> Word(job.image[pos + i])])
        [] stage = "raw" ->
             Ask(job.raw.command, job.raw.address, job.raw.payload)

ReceiverReset == hphase' = "send" /\ hheader' = NoHeader /\ hbody' = << >>

\* A command line is given: its flags are checked before anything is sent.
StartJob ==
  /\ ~Running
  /\ \E j \in Jobs :
       /\ job' = j
       /\ outcome' = IF j.confirmed THEN "running" ELSE "error"
       /\ stage' =
            IF j.operation \in {"status", "raw"} THEN j.operation ELSE "hello"
  /\ pos' = 0 /\ got' = << >> /\ info' = NoInfo /\ sequence' = 0 /\ tries' = 0
  /\ ReceiverReset

\* main returns: the result is printed, or the exception.
Finish(result) ==
  /\ outcome' = result
  /\ stage' = "hello" /\ pos' = 0 /\ got' = << >>
  /\ info' = NoInfo /\ sequence' = 0 /\ tries' = 0
  /\ UNCHANGED job
  /\ ReceiverReset

\* The client goes on to another loop over the image.
Enter(next) ==
  /\ stage' = next /\ pos' = 0 /\ got' = << >>
  /\ UNCHANGED <<job, outcome, info, sequence, tries, receiverVars>>

\* Mutant: only the first word is compared.
Burnable_FirstWord ==
  \A i \in {1} \cap 1 .. Total : job.image[i] \subseteq got[i]
\* The pre-check of program: no bit is 1 in the image and 0 in the OTP.
Burnable == \A i \in 1 .. Total : job.image[i] \subseteq got[i]

\* A loop over the image has ended: read returns, program and verify compare.
Turn ==
  /\ Running /\ LoopEnded
  /\ \/ stage = "read" /\ job.operation = "read" /\ Finish("ok")
     \/ stage = "read" /\ job.operation = "program" /\ Burnable /\ Enter("burn")
     \/ stage = "read" /\ job.operation = "program" /\ ~Burnable /\ Finish("error")
     \/ stage = "burn" /\ job.verify /\ Enter("check")
     \/ stage = "burn" /\ ~job.verify /\ Finish("ok")
     \/ stage = "check" /\ Finish(IF got = job.image THEN "ok" ELSE "error")

\* One attempt of exchange: the whole frame is written.
Send ==
  /\ Running /\ ~LoopEnded
  /\ hphase = "send" /\ hphase' = "seek"
  /\ ToTarget(HostRequest)
  /\ UNCHANGED <<jobVars, tries, hheader, hbody>>

\* _read_frame looks for the magic through a two-byte window.
HostSeek ==
  /\ Running /\ hphase = "seek"
  /\ HostReads
  /\ LET token == Head(toHost)
     IN  hphase' \in IF token = Noise THEN {"seek", "header"}
                     ELSE IF token = Magic \/ LooksLikeMagic(token) THEN {"header"}
                     ELSE {"seek"}
  /\ UNCHANGED <<jobVars, tries, hheader, hbody>>

\* frame_size_from_header raises ProtocolError for an oversized length.
HostHeader ==
  /\ Running /\ hphase = "header"
  /\ HostReads
  /\ \E h \in HeaderReadings(Head(toHost)) :
       IF h.length > MaxPayload
         THEN Finish("error")
         ELSE /\ hphase' = "body" /\ hheader' = h
              /\ UNCHANGED <<jobVars, tries, hbody>>

AnswerRead == Len(hbody) = hheader.length + 1

HostBody ==
  /\ Running /\ hphase = "body" /\ ~AnswerRead
  /\ HostReads
  /\ hbody' = Append(hbody, Head(toHost))
  /\ UNCHANGED <<jobVars, tries, hphase, hheader>>

Reply == hheader.frame
\* Mutant: an answer to another request is taken.
Matches_AnySequence ==
  /\ Intact(hheader, hbody)
  /\ Reply.kind = "response"
  /\ Reply.version = Version
  /\ Reply.command = HostRequest.command
  /\ Reply.status = "OK"
  /\ stage = "hello" => hbody[1].item.device.max \in 1 .. MaxPayload
  /\ stage \in {"read", "check"} => hheader.length = Chunk
\* The answer: sound, to this request, and of the size it should have.
Matches ==
  /\ Intact(hheader, hbody)
  /\ Reply.kind = "response"
  /\ Reply.version = Version
  /\ Reply.sequence = sequence
  /\ Reply.command = HostRequest.command
  /\ Reply.status = "OK"
  /\ stage = "hello" => hbody[1].item.device.max \in 1 .. MaxPayload
  /\ stage \in {"read", "check"} => hheader.length = Chunk

\* What the geometry and the capabilities allow.
Permitted(device) ==
  CASE job.operation = "lock" -> "LOCK" \in device.caps
    [] job.operation = "probe" -> TRUE
    [] OTHER ->
         /\ job.offset + Total <= device.size
         /\ "READ" \in device.caps
         /\ job.operation = "program" =>
              "PROGRAM" \in device.caps /\ job.skew = 0

\* The next request of the job, with the next sequence number.
Proceed(next, done, words) ==
  /\ stage' = next
  /\ pos' = done
  /\ got' = words
  /\ sequence' = (sequence + 1) % SequenceModulus
  /\ tries' = 0
  /\ ReceiverReset
  /\ UNCHANGED <<job, outcome>>

Rejected ==
  /\ ~Matches
  /\ Finish("error")

HelloAnswered ==
  /\ Matches /\ stage = "hello"
  /\ LET device == hbody[1].item.device
     IN  IF ~Permitted(device) THEN Finish("error")
         ELSE IF job.operation = "probe" THEN Finish("ok")
         ELSE /\ info' = device
              /\ Proceed(CASE job.operation = "lock" -> "lock"
                           [] job.operation = "verify" -> "check"
                           [] OTHER -> "read", 0, << >>)

ChunkAnswered ==
  /\ Matches /\ stage \in Loops
  /\ LET words == [i \in 1 .. Chunk |-> hbody[i].item.word]
     IN  Proceed(stage, pos + Chunk,
                 IF stage = "burn" THEN << >> ELSE got \o words)
  /\ UNCHANGED info

LastAnswered ==
  /\ Matches /\ stage \in {"status", "lock", "raw"}
  /\ Finish("ok")

TakeAnswer ==
  /\ Running /\ hphase = "body" /\ AnswerRead
  /\ Rejected \/ HelloAnswered \/ ChunkAnswered \/ LastAnswered

\* Mutant: one attempt too many.
TimeOut_OneMore ==
  /\ Running
  /\ hphase \in {"seek", "header", "body"}
  /\ ~(hphase = "body" /\ AnswerRead)
  /\ IF tries <= Retries
       THEN tries' = tries + 1 /\ ReceiverReset /\ UNCHANGED jobVars
       ELSE Finish("error")
\* Mutant: what was read of a frame is kept for the next attempt.
TimeOut_KeepsPartial ==
  /\ Running
  /\ hphase \in {"seek", "header", "body"}
  /\ ~(hphase = "body" /\ AnswerRead)
  /\ IF tries < Retries
       THEN /\ tries' = tries + 1 /\ hphase' = "send"
            /\ UNCHANGED <<jobVars, hheader, hbody>>
       ELSE Finish("error")
\* Mutant: the rest of a frame is waited for without a deadline.
TimeOut_SeekOnly ==
  /\ Running
  /\ hphase = "seek"
  /\ IF tries < Retries
       THEN tries' = tries + 1 /\ ReceiverReset /\ UNCHANGED jobVars
       ELSE Finish("error")
\* The deadline passes: what was read of a frame is dropped, what was not is
\* left in the driver, and the same frame is written again.
TimeOut ==
  /\ Running
  /\ hphase \in {"seek", "header", "body"}
  /\ ~(hphase = "body" /\ AnswerRead)
  /\ IF tries < Retries
       THEN tries' = tries + 1 /\ ReceiverReset /\ UNCHANGED jobVars
       ELSE Finish("error")

HostStep ==
  \/ (Turn \/ TakeAnswer) /\ UNCHANGED line
  \/ Send /\ UNCHANGED toHost
  \/ (HostSeek \/ HostHeader \/ HostBody) /\ UNCHANGED toTarget
===============================================================================
