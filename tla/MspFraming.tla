---------------------------- MODULE MspFraming ----------------------------
(***************************************************************************)
(* The MSP parser.  A frame is "$M<", a size, a type, the payload and a    *)
(* checksum of the payload; "$" starts a frame anywhere.                   *)
(***************************************************************************)
EXTENDS SerialBytes

CONSTANTS
  Dollar, LetterM, Arrow,      (* "$", "M" and "<"                           *)
  RawGps, Attitude, Status,    (* the types that are handled                 *)
  GpsLen, AttitudeLen, StatusLen,  (* and the shortest payload of each       *)
  MspBuffer                    (* MSP_BUF_SIZE                               *)

ASSUME MspAssumption ==
  /\ {Dollar, LetterM, Arrow} \subseteq Nat
  /\ GpsLen \in Nat /\ GpsLen >= 3 /\ AttitudeLen \in Nat /\ AttitudeLen >= 1
  /\ StatusLen \in Nat /\ StatusLen >= 2
  /\ MspBuffer \in Nat \ {0}

(* gps: the snapshot.  taken: the type of the last frame, which says how   *)
(* its payload is read, and the payload.  The bytes of buf beyond those of *)
(* the frame at hand are never read.                                       *)
MspNew ==
  [buf |-> <<>>, in_message |-> FALSE, result |-> "Incomplete", taken |-> <<>>,
   gps |-> [fix_type |-> 0, lat |-> 0, heading |-> 0, armed |-> 0]]

(* parse_msp_gps, parse_msp_attitude and parse_msp_status. *)
Snapshot(gps, type, data) ==
  CASE type = RawGps /\ Len(data) >= GpsLen ->
         [gps EXCEPT !.fix_type = data[1], !.lat = data[2], !.heading = data[3]]
    [] type = Attitude /\ Len(data) >= AttitudeLen -> [gps EXCEPT !.heading = data[1]]
    [] type = Status /\ Len(data) >= StatusLen -> [gps EXCEPT !.armed = data[2]]
    [] OTHER -> gps

Values(bytes) == [i \in DOMAIN bytes |-> bytes[i].v]

(* parse_msp.  The checksum is of the payload, not of the size and type.   *)
ParseMsp(p, buf) ==
  LET data == Values(SubSeq(buf, 6, Len(buf) - 1))
  IN  IF /\ Values(SubSeq(buf, 1, 3)) = <<Dollar, LetterM, Arrow>>
         /\ Matches(buf[Len(buf)], data, 1)
      THEN [p EXCEPT !.result = "Ok", !.taken = <<buf[5].v, data>>,
                      !.gps = Snapshot(@, buf[5].v, data)]
      ELSE [p EXCEPT !.result = "BadCrc"]

(* Mutant: a start byte is taken for one only between two frames. *)
StartsIdle(p, c) == c.v = Dollar /\ ~p.in_message

Starts(p, c) == c.v = Dollar

(* feed, one byte.  A frame that outgrows the buffer never ends: only a    *)
(* new start byte makes room.                                              *)
MspFeed(q, c) ==
  LET p    == [q EXCEPT !.result = "Incomplete"]
      old  == IF Starts(p, c) THEN <<>> ELSE p.buf
      buf  == IF Len(old) < MspBuffer THEN Append(old, c) ELSE old
      full == Len(buf) >= 6 /\ Len(buf) >= 6 + buf[4].v
  IN  IF ~Starts(p, c) /\ ~p.in_message THEN p
      ELSE IF full THEN [ParseMsp(p, buf) EXCEPT !.buf = <<>>, !.in_message = FALSE]
      ELSE [p EXCEPT !.buf = buf, !.in_message = TRUE]

(* get: the last snapshot, for ever. *)
MspHasPosition(p) == p.gps.fix_type >= 2 /\ p.gps.lat # 0

-----------------------------------------------------------------------------
(* The sender. *)

MspFrame == [type : Nat, payload : Seq(Nat), check : Nat]

MspMeans(m) == <<m.type, m.payload>>

MspBytes(m) ==
  Plains(<<Dollar, LetterM, Arrow, Len(m.payload), m.type>> \o m.payload)
    \o <<Check(m.check, m.payload, 1)>>
=============================================================================
