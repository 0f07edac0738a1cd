------------------------------- MODULE Inputs -------------------------------
(***************************************************************************)
(* The inputs of a board: a source on a serial line, and receivers on the  *)
(* CAN bus.  They share nothing but the sample they fill in, each its own  *)
(* field, so an instance looks at one of them at a time.                   *)
(***************************************************************************)
EXTENDS SerialLine, DronecanBus

CONSTANTS LetterG, LetterN   (* the letters "G" and "N" *)

VARIABLE source   (* the input that is looked at *)

(* detect_protocol: which parser should read a line that begins so. *)
Begins(window, letters) ==
  Len(window) >= 3 /\ window[1].v = Dollar /\ window[2].v \in letters

MavlinkHeader(window, i) ==
  LET length == window[i + 1].v
  IN  /\ window[i].v \in {StxV1, StxV2}
      /\ length > 0 /\ length < MaxPayload /\ i + length + 5 <= Len(window)

Detected(window) ==
  IF window = <<>> THEN "Unknown"
  ELSE IF Begins(window, {LetterM}) /\ window[3].v = Arrow THEN "Msp"
  ELSE IF Begins(window, {LetterG, LetterN}) THEN "Nmea"
  ELSE IF \E i \in 1 .. Len(window) - 1 : MavlinkHeader(window, i) THEN "Mavlink"
  ELSE "Nmea"

-----------------------------------------------------------------------------
InputsInit ==
  /\ LineInit /\ BusInit
  /\ \/ source = "line" /\ bus = CHOOSE b \in Buses : TRUE
     \/ /\ source = "can" /\ proto = CHOOSE p \in SerialProtocols : TRUE
        /\ frame = CHOOSE m \in Messages[proto] : TRUE

InputsNext ==
  \/ source = "line" /\ LineNext /\ UNCHANGED <<busVars, source>>
  \/ source = "can" /\ BusNext /\ UNCHANGED <<lineVars, source>>

InputsSpec == InputsInit /\ [][InputsNext]_<<lineVars, busVars, source>>

(* No buffer of a parser is outgrown, no index leaves it, and no sender on *)
(* the bus has two contexts.                                               *)
InputsTypeOK == LineTypeOK /\ BusTypeOK
=============================================================================
