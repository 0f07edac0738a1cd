----------------------------- MODULE LossyLink -----------------------------
(***************************************************************************)
(* What a framing promises over a line that loses and invents bytes: the   *)
(* receiver takes frames that were sent, whole, in the order they were     *)
(* sent in and no frame twice.  Nothing is said of how many arrive.        *)
(***************************************************************************)
EXTENDS Naturals, Sequences

CONSTANT Window   (* a frame is given up when Window others were sent after it *)

VARIABLES
  in_flight,   (* the frames sent and not taken yet                          *)
  taken        (* the last frame taken                                       *)

Latest(s) == IF Len(s) > Window THEN SubSeq(s, Len(s) - Window + 1, Len(s)) ELSE s

LinkInit == in_flight = <<>> /\ taken = <<>>

(* Any frame: the one that is last in flight afterwards. *)
Send ==
  /\ in_flight' # <<>>
  /\ in_flight' = Latest(Append(in_flight, in_flight'[Len(in_flight')]))
  /\ UNCHANGED taken

Take ==
  \E i \in DOMAIN in_flight :
    /\ taken' = in_flight[i]
    /\ in_flight' = SubSeq(in_flight, i + 1, Len(in_flight))

LinkNext == Send \/ Take

LinkSpec == LinkInit /\ [][LinkNext]_<<in_flight, taken>>
=============================================================================
