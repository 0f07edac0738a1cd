---------------------------- MODULE SerialBytes ----------------------------
(***************************************************************************)
(* What travels on a serial line.  A byte has a value and, when its sender *)
(* computed it as a checksum, the data the checksum is of: a checksum that *)
(* matches other data by accident is left out.                             *)
(***************************************************************************)
EXTENDS Naturals, Sequences, SequencesExt

Byte == [v : Nat, of : Seq(Nat), half : 0 .. 2]

Plain(v) == [v |-> v, of |-> <<>>, half |-> 0]

(* One half of the checksum of the values in "of"; on the line it may look *)
(* like any other byte.                                                    *)
Check(v, of, half) == [v |-> v, of |-> of, half |-> half]

Plains(vs) == [i \in DOMAIN vs |-> Plain(vs[i])]

Matches(c, of, half) == c.of = of /\ c.half = half

(* The text of a buffer ends at its first zero. *)
UpToNul(s) ==
  LET nul == SelectInSeq(s, LAMBDA x : x = 0)
  IN  IF nul = 0 THEN s ELSE SubSeq(s, 1, nul - 1)
=============================================================================
