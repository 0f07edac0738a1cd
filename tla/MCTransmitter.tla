--------------------------- MODULE MCTransmitter ---------------------------
(* Instances of Transmitter for TLC. *)
EXTENDS Transmitter

(* A region with every message and the one with the mandatory ones only. *)
TwoRegions == {"EUR", "CHN"}
OneRegion  == {"EUR"}

(* Nothing refused; both basic IDs and the position; a page of the         *)
(* signature and the self ID that stands in for it.                        *)
SomeRefused ==
  {{}, {<<"basic_id", 0>>, <<"basic_id_2", 0>>, <<"location", 0>>},
   {<<"auth", 0>>, <<"self_id", 0>>}}
NoneRefused == {{}}
=============================================================================
