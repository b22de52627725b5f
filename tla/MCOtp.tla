-------------------------------- MODULE MCOtp --------------------------------
(***************************************************************************)
(* A small instance of OtpProgramming: two words of one bit,  frames of up *)
(* to two words against a loader that takes one or two at a time, and the  *)
(* command lines of the tool with an image that fits, one that does not,   *)
(* and requests no version of the tool sends.                              *)
(***************************************************************************)
EXTENDS OtpProgramming, OtpImage

MCBits == {31}
Erased == MCBits
Burnt == {}
MCMagicWords == {Burnt}

All == {"READ", "PROGRAM", "LOCK"}
Device(size, caps, max, version) ==
  [size |-> size, caps |-> caps, max |-> max, version |-> version]
MCDevices ==
  {Device(2, All, 1, 1), Device(2, All, 2, 1), Device(2, {"READ"}, 1, 1),
   Device(1, {}, 0, 1), Device(2, All, 1, 2)}

MCMishaps == [d \in MCDevices |-> IF d = Device(2, All, 2, 1) THEN 2 ELSE 1]

NoRequest == [command |-> "HELLO", address |-> 0, payload |-> << >>]
Job(operation, offset, image) ==
  [operation |-> operation, offset |-> offset, image |-> image,
   verify |-> TRUE, skew |-> 0, confirmed |-> TRUE, raw |-> NoRequest]
Raw(command, address, payload) ==
  [Job("raw", 0, << >>) EXCEPT
     !.raw = [command |-> command, address |-> address, payload |-> payload]]

\* What the image tool makes of a word of zeros: the word and an erased one.
Image ==
  LET made == MakeOtpImage(Binary(<<0, 0, 0, 0>>), Sized(8)).words
  IN  [i \in 1..2 |-> made[i] \intersect MCBits]
MCJobs ==
  {Job("probe", 0, << >>), Job("status", 0, << >>), Job("lock", 0, << >>),
   Job("read", 1, <<Erased>>), Job("verify", 0, Image),
   Job("program", 0, Image),
   [Job("program", 1, <<Burnt>>) EXCEPT !.verify = FALSE],
   [Job("program", 0, Image) EXCEPT !.skew = 2],
   [Job("program", 0, Image) EXCEPT !.confirmed = FALSE],
   Raw("PROGRAM", 0, <<Word(Burnt), Word(Erased)>>),
   Raw("READ", 1, <<Length(2)>>)}
===============================================================================
