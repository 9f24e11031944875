------------------------------- MODULE Base64 -------------------------------
(***************************************************************************)
(* The base64 decoder (base64.c), which turns the text of a command into   *)
(* its bytes.  One step is one character.  A character is its code, 0 to   *)
(* 255.  Where char is unsigned, as is usual on ARM, base64_decode_value's *)
(* -1 and -2 come back as the fragments 255 and 254 and the tests "< 0"    *)
(* skip nothing; where it is signed the fragments below 0 are skipped.     *)
(***************************************************************************)
EXTENDS Integers, Sequences

CONSTANTS
  Command,      \* what the host encodes: sequences of bytes
  Rest          \* what follows in the receive buffer up to the first zero

Octet == 0 .. 255

ASSUME Base64Assumption == Command \subseteq Seq(Octet) /\ Rest \subseteq Seq(Octet)

VARIABLES
  signedChar,   \* is char signed? (the compiler's choice)
  command,      \* what the host has sent
  code,         \* the characters of the receive buffer
  decoder,      \* the state of base64_decode_block
  plain         \* the decoded bytes; the last is still being put together

b64Vars == <<signedChar, command, code, decoder, plain>>

(***************************************************************************)
(* Plausible slip: the two parts of the second fragment split one bit off. *)
(***************************************************************************)
StepBOneBitOff(byte, fragment) == <<byte + (fragment \div 32), (fragment % 32) * 8>>

-----------------------------------------------------------------------------
(***************************************************************************)
(* The alphabet, and the host's encoder (binascii).  Padding is '='.       *)
(***************************************************************************)
Alphabet(v) ==
  IF v < 26 THEN 65 + v ELSE IF v < 52 THEN 71 + v ELSE IF v < 62 THEN v - 4
  ELSE IF v = 62 THEN 43 ELSE 47
Padding == 61

(* Three bytes give four characters.                                       *)
Sextets(a, b, c) ==
  <<a \div 4, (a % 4) * 16 + b \div 16, (b % 16) * 4 + c \div 64, c % 64>>
Quartet(a, b, c) == [k \in 1 .. 4 |-> Alphabet(Sextets(a, b, c)[k])]

Encoded(bytes) ==
  LET n == Len(bytes)
      At(k) == IF k <= n THEN bytes[k] ELSE 0
      Char(k) == LET q == (k - 1) \div 4
                 IN IF (k - 1) % 4 > n - 3 * q THEN Padding
                    ELSE Quartet(At(3 * q + 1), At(3 * q + 2), At(3 * q + 3))[((k - 1) % 4) + 1]
  IN [k \in 1 .. 4 * ((n + 2) \div 3) |-> Char(k)]

-----------------------------------------------------------------------------
(***************************************************************************)
(* base64_decode_value: the table begins at '+', and gives -1 for what is  *)
(* not in the alphabet, -2 for the padding.  value_in is a char: what is   *)
(* subtracted from it wraps around.                                        *)
(***************************************************************************)
decoding_size == 80

Decoding(v) ==
  IF v = 0 THEN 62 ELSE IF v = 4 THEN 63 ELSE IF v \in 5 .. 14 THEN v + 47
  ELSE IF v \in 22 .. 47 THEN v - 22 ELSE IF v \in 54 .. 79 THEN v - 28
  ELSE IF v = 18 THEN -2 ELSE -1

base64_decode_value(char) ==
  LET v == (char - 43) % 256
  IN IF v >= decoding_size THEN -1 ELSE Decoding(v)

(* The value kept in a char, and the test of the loops.                    *)
Fragment(char) == base64_decode_value(char) % 256
Skipped(char)  == signedChar /\ base64_decode_value(char) < 0

(* The bits of a fragment that the four steps keep.                        *)
High(f)   == ((f % 64) \div 16)
Middle(f) == ((f % 64) \div 4)

StepA(fragment)       == (fragment % 64) * 4
StepB(byte, fragment) == <<byte + High(fragment), (fragment % 16) * 16>>
StepC(byte, fragment) == <<byte + Middle(fragment), (fragment % 4) * 64>>
StepD(byte, fragment) == byte + (fragment % 64)

(***************************************************************************)
(* base64_decode_block: a turn of the loop takes a character, skips it or  *)
(* adds its bits to the byte under plainchar, and goes on to the next byte *)
(* when that one is complete.                                              *)
(***************************************************************************)
base64_init_decodestate == [step |-> "a", next |-> 1]

Following == [a |-> "b", b |-> "c", c |-> "d", d |-> "a"]
Current   == plain[Len(plain)]

Add(step, fragment) ==
  LET pair == IF step = "a" THEN <<StepA(fragment)>>
              ELSE IF step = "b" THEN StepB(Current, fragment)
              ELSE IF step = "c" THEN StepC(Current, fragment)
              ELSE <<StepD(Current, fragment), 0>>
  IN SubSeq(plain, 1, Len(plain) - 1) \o pair

AtEnd == decoder.next > Len(code)

base64_decode_block ==
  /\ ~AtEnd
  /\ LET char == code[decoder.next]
     IN IF Skipped(char)
        THEN /\ decoder' = [decoder EXCEPT !.next = @ + 1]
             /\ UNCHANGED plain
        ELSE /\ decoder' = [step |-> Following[decoder.step], next |-> decoder.next + 1]
             /\ plain' = Add(decoder.step, Fragment(char))
  /\ UNCHANGED <<signedChar, command, code>>

(* base64_decode; the byte under plainchar becomes the final zero.         *)
count == Len(plain) - 1

B64Init ==
  /\ signedChar \in BOOLEAN
  /\ command \in Command
  /\ \E r \in Rest : code = Encoded(command) \o r
  /\ decoder = base64_init_decodestate
  /\ plain = <<0>>

B64Next == base64_decode_block
B64Spec == B64Init /\ [][B64Next]_b64Vars

-----------------------------------------------------------------------------
(***************************************************************************)
(* Properties.                                                             *)
(***************************************************************************)
(* Whatever of an earlier and longer command still follows in the buffer   *)
(* of the polling loop, which is not cleared (dbg.c:75-84), and although   *)
(* padding, newlines and characters outside the alphabet are decoded like  *)
(* data (base64.c:76), the decoded text begins with the command.           *)
DecodesCommand ==
  AtEnd => /\ count >= Len(command)
           /\ SubSeq(plain, 1, Len(command)) = command
=============================================================================
