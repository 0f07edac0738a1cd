------------------------------- MODULE Texts -------------------------------
(***************************************************************************)
(* How rid-core and rid-app read and write texts.  A character is a        *)
(* number: that of the digit it is, or one of those named below.           *)
(***************************************************************************)
EXTENDS Integers, Sequences, SequencesExt, FiniteSetsExt

CONSTANTS
  ByteMod, WordMod, LongMod   (* the widths u8, u32 and i64                  *)

(* The values of a width are even in number and a part of those of a wider *)
(* one.                                                                    *)
ASSUME WidthAssumption ==
  /\ {ByteMod, WordMod, LongMod} \subseteq Nat \ {0}
  /\ ByteMod % 2 = 0 /\ WordMod % ByteMod = 0 /\ LongMod % WordMod = 0

None == [none |-> TRUE]
Some(v) == [some |-> v]

Least(a, b) == IF a < b THEN a ELSE b

Slice(s, n) == SubSeq(s, 1, Least(n, Len(s)))

(* A text of C ends at its first NUL. *)
Nul == 100

UpToNul(s) ==
  SelectInSeq(s, LAMBDA c : c = Nul) - 1

CText(s) == IF Nul \in ToSet(s) THEN Slice(s, UpToNul(s)) ELSE s

-----------------------------------------------------------------------------
(* Base 64, whose digits are the numbers below 64.                         *)

B64Pad == 64

Pads(s) == Max({n \in 0 .. Len(s) : \A i \in Len(s) - n + 1 .. Len(s) : s[i] = B64Pad})

(* Byte i is made of two neighbouring digits. *)
B64Byte(s, i) ==
  LET at == 4 * (i \div 3) + (i % 3) + 1
      left == 4 ^ ((i % 3) + 1)
  IN  ((s[at] * left) % 256) + s[at + 1] \div (64 \div left)

(* b64_decode *)
B64Decode(s) ==
  LET valid == Len(s) - Pads(s)
  IN  IF \/ s = <<>> \/ Len(s) % 4 # 0 \/ Pads(s) > 2
         \/ Pads(s) > 0 /\ valid % 4 = 0
         \/ \E i \in 1 .. valid : s[i] \notin 0 .. 63
      THEN None
      ELSE Some([i \in 1 .. (valid * 3) \div 4 |-> B64Byte(s, i - 1)])

(* The same the other way round, as RFC 4648 has it: bit k of the text is  *)
(* bit k of the bytes, and the rest is padded.                             *)
Bit(n, k) == (n \div 2 ^ k) % 2

B64Encode(bytes) ==
  LET bits == 8 * Len(bytes)
      bit(k) == IF k < bits THEN Bit(bytes[(k \div 8) + 1], 7 - (k % 8)) ELSE 0
      digit(i) == MapThenSumSet(LAMBDA j : bit(6 * i + j) * 2 ^ (5 - j), 0 .. 5)
  IN  [i \in 1 .. 4 * ((Len(bytes) + 2) \div 3) |->
         IF 6 * (i - 1) < bits THEN digit(i - 1) ELSE B64Pad]

-----------------------------------------------------------------------------
(* Hexadecimal, whose digits are the numbers below 16.                     *)

BytesToHex(bytes) ==
  [i \in 1 .. 2 * Len(bytes) |->
     IF i % 2 = 1 THEN bytes[(i + 1) \div 2] \div 16 ELSE bytes[i \div 2] % 16]

(* hex_to_bytes into room bytes *)
HexToBytes(hex, room) ==
  IF Len(hex) # 2 * room \/ \E i \in DOMAIN hex : hex[i] \notin 0 .. 15 THEN None
  ELSE Some([i \in 1 .. room |-> 16 * hex[2 * i - 1] + hex[2 * i]])

-----------------------------------------------------------------------------
(* Numbers as they are typed: a sign, a prefix that gives the base, digits *)
(* up to the first character that is none.                                 *)

Minus == 101
Plus == 102
LetterX == 103

Signed(n, width) == IF n % width < width \div 2 THEN n % width ELSE (n % width) - width

Digits(s, radix) ==
  SubSeq(s, 1, Max({n \in 0 .. Len(s) : \A i \in 1 .. n : s[i] < radix}))

Accumulated(s, radix) ==
  FoldLeft(LAMBDA acc, d : Signed(acc * radix + d, LongMod), 0, Digits(s, radix))

Unsigned(s) == IF s # <<>> /\ s[1] \in {Minus, Plus} THEN Tail(s) ELSE s

IsHex(s) == Len(s) >= 2 /\ s[1] = 0 /\ s[2] = LetterX

(* Mutant: a leading zero does not change the base. *)
BaseAndDigitsDecimal(s) ==
  IF IsHex(s) THEN <<16, SubSeq(s, 3, Len(s))>> ELSE <<10, s>>

BaseAndDigits(s) ==
  IF IsHex(s) THEN <<16, SubSeq(s, 3, Len(s))>>
  ELSE IF Len(s) > 1 /\ s[1] = 0 THEN <<8, Tail(s)>> ELSE <<10, s>>

(* parse_i64_base0 *)
ParseI64(s) ==
  LET body == BaseAndDigits(Unsigned(s))
      acc  == Accumulated(body[2], body[1])
  IN  IF s # <<>> /\ s[1] = Minus THEN Signed(-acc, LongMod) ELSE acc

(* What strtol with base 0 makes of a text that is no larger than it can   *)
(* take: each digit counts radix times what the one behind it counts.      *)
PlaceValue(digits, radix) == FoldLeft(LAMBDA n, d : n * radix + d, 0, digits)

Strtol(s) ==
  LET body == Unsigned(s)
      hex == IsHex(body)
      octal == ~hex /\ body # <<>> /\ body[1] = 0
      radix == IF hex THEN 16 ELSE IF octal THEN 8 ELSE 10
      value == PlaceValue(Digits(IF hex THEN SubSeq(body, 3, Len(body)) ELSE body, radix), radix)
  IN  IF s # <<>> /\ s[1] = Minus THEN -value ELSE value
=============================================================================
