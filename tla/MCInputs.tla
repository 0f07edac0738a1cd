------------------------------ MODULE MCInputs ------------------------------
(* Instances of Inputs for TLC. *)
EXTENDS Inputs

PayloadLengths == (0 :> 3) @@ (1 :> 5)

Mavlink(v1, signed, msgid, payload, check) ==
  [v1 |-> v1, signed |-> signed, seq |-> 1, msgid |-> msgid, payload |-> payload, check |-> check]

MavlinkFrames ==
  {Mavlink(FALSE, FALSE, 0, <<1, 2>>, <<0, 2>>),
   Mavlink(FALSE, FALSE, 0, <<>>, <<0, 2>>),
   Mavlink(TRUE, FALSE, 1, <<2, 2, 2, 2, 2>>, <<1, 1>>),
   Mavlink(FALSE, TRUE, 1, <<1, 7>>, <<1, 1>>),
   Mavlink(FALSE, FALSE, 3, <<1>>, <<1, 2>>)}

Msp(type, payload, check) == [type |-> type, payload |-> payload, check |-> check]

MspFrames ==
  {Msp(4, <<2, 1, 1>>, 1), Msp(2, <<1>>, 0), Msp(1, <<1, 5>>, 5), Msp(3, <<>>, 0),
   Msp(4, <<3, 2, 1, 1, 1>>, 4)}

NmeaSentencesSent ==
  {<<"$GPGGA", "time", "lat1", "N", "lon1", "E", "1", "8">>,
   <<"$GNGGA", "time", "lat2", "S", "lon2", "W", "2", "8">>,
   <<"$GPGGA", "time", "", "", "", "", "0", "0">>,
   <<"$GPRMC", "time", "A", "lat2", "N", "lon1", "W", "0">>,
   <<"$GNRMC", "time", "V", "", "", "", "", "", "", "date">>,
   <<"$GPRMC", "time", "V", "lat1", "N", "lon1", "E", "0">>,
   <<"$GPVTG", "", "T", "", "M", "1">>,
   <<"$GPGSV", "1", "1">>}

Frames ==
  [Mavlink |-> MavlinkFrames, Msp |-> MspFrames, Nmea |-> NmeaSentencesSent]

MadeUp ==
  [Mavlink |-> {Plain(7), Plain(6), Plain(1), Plain(0)},
   Msp     |-> {Plain(5), Plain(4), Plain(0)},
   Nmea    |-> {"$GPGGA", ",", "lat2", "*", "newline"}]

Faults == [Mavlink |-> 1, Msp |-> 2, Nmea |-> 1]

CoordinateWords == {"lat1", "lat2", "lon1", "lon2"}
Integers == [i \in {"0", "1", "2", "8"} |-> CASE i = "0" -> 0 [] i = "1" -> 1 [] i = "2" -> 2 [] i = "8" -> 8]

(* A receiver alone, for more than a turn of the clock; two at an instant, *)
(* with a context each; two that have to share one.                        *)
CanBuses ==
  {[receivers |-> {"left"}, lengths |-> {3}, fixes |-> BOOLEAN,
    contexts |-> 1, start |-> 0, delays |-> {1}, faults |-> 1],
   [receivers |-> {"left", "right"}, lengths |-> {1, 3, 4}, fixes |-> {FALSE},
    contexts |-> 2, start |-> 1, delays |-> {}, faults |-> 1],
   [receivers |-> {"left", "right"}, lengths |-> {2}, fixes |-> {FALSE},
    contexts |-> 1, start |-> 0, delays |-> {1}, faults |-> 0]}

(* A line that begins with a frame is given the parser of its protocol, a  *)
(* MAVLink frame as long as it has a payload.                              *)
ASSUME DetectionAssumption ==
  /\ \A m \in MspFrames : Detected(MspBytes(m)) = "Msp"
  /\ \A m \in MavlinkFrames : m.payload # <<>> => Detected(MavlinkBytes(m)) = "Mavlink"

(* Every sentence has its fields where they are read. *)
ASSUME SentencesAssumption == SentencesInPlace

(* Nor does the line deceive. *)
ASSUME HonestAssumption == HonestLine
=============================================================================
