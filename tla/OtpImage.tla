------------------------------- MODULE OtpImage -------------------------------
(***************************************************************************)
(* How the images the OTP starts from, and the host programs, are made     *)
(* (llvm_s1/scripts/wasp1_make_otp_image.py).  A byte is a number, a word  *)
(* the set of the positions of its ones.                                   *)
(***************************************************************************)
EXTENDS Integers, Sequences

ErasedByte == 255  \* DEFAULT_ERASED_BYTE

\* An input file: whether it starts with the ELF magic, its bytes, whether objcopy
\* is there and accepts it, and the flat binary it then makes of it.
DetectFormat(file, requested) ==
  IF requested # "auto" THEN requested ELSE IF file.elf THEN "elf" ELSE "bin"

ElfToBinary(file) == file.flat
LoadPayload(file, format) == IF format = "elf" THEN ElfToBinary(file) ELSE file.bytes

Buildable(payload, size, fill) == size > 0 /\ fill \in 0..255 /\ Len(payload) <= size
BuildImage(payload, size, fill) ==
  payload \o [i \in 1..(size - Len(payload)) |-> fill]

\* write_hex_words: little endian, four bytes a word.
Ones(byte) == {b \in 0..7 : (byte \div 2^b) % 2 = 1}
HexWords(image) ==
  [i \in 1..(Len(image) \div 4) |->
     UNION {{8 * k + b : b \in Ones(image[4 * (i - 1) + k + 1])} : k \in 0..3}]

\* The words written, or none when the tool fails.
MakeOtpImage(file, args) ==
  LET format == DetectFormat(file, args.format)
      payload == LoadPayload(file, format)
      passed == /\ format = "elf" => file.objcopy
                /\ Buildable(payload, args.size, args.fill)
                /\ args.size % 4 = 0
  IN  [passed |-> passed,
       words |-> IF passed THEN HexWords(BuildImage(payload, args.size, args.fill))
                           ELSE << >>]

-------------------------------------------------------------------------------
\* The byte a load of byte address a gets from the words.
LoadByte(words, a) == {b \in 0..7 : 8 * (a % 4) + b \in words[a \div 4 + 1]}

Binary(bytes) == [elf |-> FALSE, bytes |-> bytes, objcopy |-> FALSE, flat |-> << >>]
Sized(size) == [format |-> "auto", size |-> size, fill |-> ErasedByte]

Payloads == UNION {[1..n -> {0, 1, 128, 255}] : n \in 0..5}

\* The two lines the image check of the repository expects of 01 02 03 04 AA.
ImageOfTheCheck ==
  MakeOtpImage(Binary(<<1, 2, 3, 4, 170>>), Sized(8)).words =
    <<{0, 9, 16, 17, 26}, {1, 3, 5, 7} \union 8..31>>

\* A program that loads byte a finds byte a of the payload, and beyond it the
\* erased byte, wherever in a word the payload ends.
BytesInPlace ==
  \A payload \in Payloads : \A a \in 0..7 :
    LoadByte(MakeOtpImage(Binary(payload), Sized(8)).words, a) =
      Ones(IF a < Len(payload) THEN payload[a + 1] ELSE ErasedByte)

\* Padding costs no bit: an OTP programmed with the image of a payload can still
\* be programmed with the image of any payload that extends it.
PaddingStaysBurnable ==
  \A longer \in Payloads : \A n \in 0..Len(longer) :
    LET words(bytes) == MakeOtpImage(Binary(bytes), Sized(8)).words
    IN  \A i \in 1..2 : words(longer)[i] \subseteq words(SubSeq(longer, 1, n))[i]

\* The tool fails, and writes no words, for a payload that does not fit, a size
\* that is no whole number of words, an ELF file that cannot be flattened, or a
\* flattened one that does not fit however small the file; and never otherwise.
NothingForTrouble ==
  LET elf(works, flat) ==
        [elf |-> TRUE, bytes |-> <<127>>, objcopy |-> works, flat |-> flat]
  IN  /\ \A payload \in Payloads : \A size \in -1..8 :
           MakeOtpImage(Binary(payload), Sized(size)).passed <=>
             size \in {4, 8} /\ Len(payload) <= size
      /\ ~MakeOtpImage(elf(FALSE, <<0>>), Sized(8)).passed
      /\ ~MakeOtpImage(elf(TRUE, [i \in 1..9 |-> 0]), Sized(8)).passed
      /\ MakeOtpImage(elf(TRUE, <<0>>), Sized(4)) = MakeOtpImage(Binary(<<0>>), Sized(4))

ImagesAreSound ==
  ImageOfTheCheck /\ BytesInPlace /\ PaddingStaysBurnable /\ NothingForTrouble
ASSUME ImageSense == ImagesAreSound
===============================================================================
