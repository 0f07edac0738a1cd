----------------------------- MODULE MCOutputs ------------------------------
(* Instances of Outputs for TLC. *)
EXTENDS Outputs, MCTransmitter

Light(pin, pattern, offset) == [pin |-> pin, pattern |-> pattern, offset |-> offset]

(* Lights that take turns, slowly and fast, with one that has no pin; and  *)
(* lights that take turns but near the ends of the clock, where an offset  *)
(* below zero leads to the end before, with some that need the aircraft    *)
(* armed or a position.                                                    *)
Pins ==
  {[lights |-> <<Light(4, 2, 0), Light(5, 2, 1000), Light(6, 3, 100), Light(7, 3, 350),
                 Light(-1, 1, 0)>>,
    armed |-> FALSE, gps_valid |-> TRUE],
   [lights |-> <<Light(4, 2, 0), Light(5, 2, -1000), Light(6, 4, 0), Light(7, 5, 0)>>,
    armed |-> TRUE, gps_valid |-> FALSE]}

PayloadLengths == (0 :> 3) @@ (1 :> 3)

MacAddress == <<2, 0, 0, 0, 0, 1>>
ClockBytes == <<9, 8, 7, 6, 5, 4, 3, 2>>

Letters(n) == [i \in 1 .. n |-> 65]
Names == {<<>>, Letters(7), Letters(20)}
PackSet == {<<>>, <<0, 16>>, <<0, 0, 16, 32, 33, 34, 48, 64, 80>>}

(* The levels of Bluetooth power are those of the driver.  At full bright- *)
(* ness only the order of the colours changes, and never over it; the      *)
(* wheel begins with red and has no colour at no saturation.               *)
ASSUME OutputAssumption ==
  /\ \A dbm \in -128 .. 127 : PowerLevel(dbm) \in 0 .. 7
  /\ \A r, g, b \in {0, 1, 128, 255} :
       /\ Ws2812Frame(<<r, g, b>>, 100) = <<g, r, b>>
       /\ \A pct \in {0, 1, 50, 99} : Ws2812Frame(<<r, g, b>>, pct)[1] <= g
  /\ \A v \in {0, 100, 255} : \A h \in 0 .. 255 : HsvToRgb(h, 0, v) = <<v, v, v>>
  /\ HsvToRgb(0, 255, 255) = <<255, 0, 0>>

(* No two states look alike for as long as the instance watches. *)
ASSUME WatchAssumption == LooksDiffer
=============================================================================
