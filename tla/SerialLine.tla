----------------------------- MODULE SerialLine -----------------------------
(***************************************************************************)
(* A flight controller or GPS receiver sends frames over a line that loses *)
(* bytes and makes up others; the source of the protocol the board was     *)
(* built for feeds what arrives to its parser, byte by byte.  How many     *)
(* bytes one poll reads makes no difference to a parser.                   *)
(***************************************************************************)
EXTENDS MavlinkFraming, MspFraming, NmeaSentences

CONSTANTS
  Messages,    (* per protocol: the frames the sender may send,              *)
  Noise,       (* and the bytes the line may make up                         *)
  MaxFaults    (* and a bound on the bytes it loses and makes up             *)

ASSUME LineAssumption ==
  /\ DOMAIN Messages = {"Mavlink", "Msp", "Nmea"}
  /\ Noise["Mavlink"] \subseteq MavlinkByte /\ Messages["Mavlink"] \subseteq MavlinkFrame
  /\ Noise["Msp"] \subseteq Byte /\ Messages["Msp"] \subseteq MspFrame
  /\ \A p \in DOMAIN Messages : MaxFaults[p] \in Nat

SerialProtocols == DOMAIN Messages

(* The bytes that a start byte in the wrong place can cost: the longest    *)
(* frame there can be.                                                     *)
Misread == 12 + MaxPayload + SignatureLen

VARIABLES
  proto,       (* the protocol of the board's source                         *)
  parser,      (* its parser                                                 *)
  frame, rest, (* the frame sent last and its bytes that are still to come   *)
  due,         (* history: nothing that went before excuses its loss;        *)
  whole,       (* nothing was lost or made up inside it,                     *)
  unmixed,     (* its first byte came through and none was made up behind    *)
               (* that                                                       *)
  before,      (* history: the snapshot when its sending began               *)
  calm,        (* history: bytes that arrived since the last fault or the    *)
               (* last start byte inside a frame, up to Misread              *)
  in_flight,   (* history: what was sent and has not been taken, the latest, *)
  accepted,    (* and what was taken last                                    *)
  faults

lineVars ==
  <<proto, parser, frame, rest, due, whole, unmixed, before, calm, in_flight, accepted, faults>>

-----------------------------------------------------------------------------
(* The three parsers side by side. *)

NewParser(p) ==
  CASE p = "Mavlink" -> MavlinkNew [] p = "Msp" -> MspNew [] p = "Nmea" -> NmeaNew

Feed(p, c) ==
  CASE proto = "Mavlink" -> ParseChar(p, c)
    [] proto = "Msp"     -> MspFeed(p, c)
    [] proto = "Nmea"    -> NmeaFeed(p, c)

BytesOf(m) ==
  CASE proto = "Mavlink" -> MavlinkBytes(m)
    [] proto = "Msp"     -> MspBytes(m)
    [] proto = "Nmea"    -> NmeaWords(m)

(* A message whose checksum the receiver cannot compute is refused. *)
Readable(m) == proto # "Mavlink" \/ m.msgid \in DOMAIN MaxLen

Means(m) ==
  CASE proto = "Mavlink" -> MavlinkMeans(m)
    [] proto = "Msp"     -> MspMeans(m)
    [] proto = "Nmea"    -> m

Sealed == proto \in {"Mavlink", "Msp"}

(* What the link accepts.  The size and type of an MSP frame are under no  *)
(* checksum: such a frame counts if the parser began at its first byte and *)
(* was given no other than its own.                                        *)
Accepts(p) == Sealed /\ p.result = "Ok" /\ (proto = "Msp" => unmixed)

Link == INSTANCE LossyLink WITH Window <- 2, taken <- accepted

-----------------------------------------------------------------------------
(* At a line's start, or between two frames. *)
InStep ==
  CASE proto = "Mavlink" -> parser.state = "Idle" \/ calm = Misread
    [] proto = "Msp"     -> TRUE
    [] proto = "Nmea"    -> parser.buf = <<>>

SendFrame(m) ==
  /\ rest = <<>>
  /\ frame' = m /\ rest' = BytesOf(m)
  /\ due' = InStep /\ whole' = TRUE /\ unmixed' = TRUE
  /\ before' = IF proto = "Nmea" THEN parser.gps ELSE before
  /\ in_flight' = IF Sealed /\ Readable(m) THEN Link!Latest(Append(in_flight, Means(m))) ELSE in_flight
  /\ UNCHANGED <<proto, parser, calm, accepted, faults>>

(* What is left in flight when p has taken a frame: the later ones. *)
LeftBy(p) ==
  LET i == SelectInSeq(in_flight, LAMBDA m : m = p.taken)
  IN  IF Accepts(p) /\ i # 0 THEN SubSeq(in_flight, i + 1, Len(in_flight)) ELSE in_flight

LastOf(p) == IF Accepts(p) THEN p.taken ELSE accepted

(* The first byte of the frame has gone. *)
Begun == Len(rest) < Len(BytesOf(frame))

(* A start byte inside a frame. *)
Loud(c) == proto = "Mavlink" /\ c.v \in {StxV1, StxV2} /\ Begun

Arrive ==
  /\ rest # <<>>
  /\ parser' = Feed(parser, Head(rest)) /\ rest' = Tail(rest)
  /\ in_flight' = LeftBy(parser') /\ accepted' = LastOf(parser')
  /\ calm' = IF Loud(Head(rest)) THEN 0 ELSE IF calm < Misread THEN calm + 1 ELSE calm
  /\ UNCHANGED <<proto, frame, due, whole, unmixed, before, faults>>

Fault ==
  /\ faults < MaxFaults[proto] /\ faults' = faults + 1
  /\ whole' = FALSE /\ calm' = 0
  /\ UNCHANGED <<proto, frame, due, before>>

Lose ==
  /\ rest # <<>> /\ rest' = Tail(rest)
  /\ unmixed' = (unmixed /\ Begun)
  /\ Fault /\ UNCHANGED <<parser, in_flight, accepted>>

MakeUp(c) ==
  /\ parser' = Feed(parser, c) /\ in_flight' = LeftBy(parser') /\ accepted' = LastOf(parser')
  /\ unmixed' = (unmixed /\ ~Begun)
  /\ Fault /\ UNCHANGED rest

LineInit ==
  /\ proto \in SerialProtocols
  /\ parser = NewParser(proto)
  /\ frame \in Messages[proto] /\ rest = <<>>
  /\ due = FALSE /\ whole = FALSE /\ unmixed = FALSE
  /\ before = NmeaNew.gps /\ calm = Misread /\ in_flight = <<>> /\ accepted = <<>> /\ faults = 0

LineNext ==
  \/ \E m \in Messages[proto] : SendFrame(m)
  \/ Arrive \/ Lose
  \/ \E c \in Noise[proto] : MakeUp(c)

LineSpec == LineInit /\ [][LineNext]_lineVars

-----------------------------------------------------------------------------
LineTypeOK ==
  /\ proto \in SerialProtocols /\ frame \in Messages[proto]
  /\ due \in BOOLEAN /\ whole \in BOOLEAN /\ unmixed \in BOOLEAN
  /\ calm \in 0 .. Misread /\ faults \in 0 .. MaxFaults[proto]
  /\ Len(in_flight) <= 2
  /\ proto = "Mavlink" =>
       /\ {parser.len, parser.idx} \subseteq 0 .. MaxPayload /\ parser.wait \in 0 .. SignatureLen
       /\ parser.state = "GotMsgid3" => parser.idx < parser.len
  /\ proto = "Msp" => Len(parser.buf) <= MspBuffer
  /\ proto = "Nmea" => Len(parser.buf) < NmeaBuffer

(* The frame has gone through unharmed and should have been taken. *)
ShouldBeTaken == rest = <<>> /\ whole /\ due

(* parser.rs:268-447 of MAVLink and 141-159 of MSP: the frames a parser    *)
(* takes are frames that were sent, each once and in order, and what it    *)
(* reads of them is what was put in: no frame is put together from the     *)
(* remains of two, and no text from what an earlier one left behind.  An   *)
(* MSP frame says its type and its payload, and only the payload is summed *)
(* (95-97): whatever of it is lost, the two belong together unless its     *)
(* first byte was lost too or a byte was made up inside it.                *)
OnlyWhatWasSent == Link!LinkSpec

(* The line makes up no checksum, and when signed frames are sent it does  *)
(* not lose the end of one and as many bytes as the next frame has.        *)
HonestLine ==
  /\ \A p \in {"Mavlink", "Msp"} : \A c \in Noise[p] : c.half = 0
  /\ (\E x \in Messages["Mavlink"] : x.signed) =>
       \A m \in Messages["Mavlink"] : MaxFaults["Mavlink"] <= Len(MavlinkBytes(m))

(* parser.rs:280-447 of MAVLink: whatever the line did, the parser is in   *)
(* step again after one misread frame: every readable frame that then      *)
(* arrives whole is taken, at its last byte.                               *)
MavlinkFindsStep ==
  (proto = "Mavlink" /\ ShouldBeTaken /\ Readable(frame)) =>
    parser.result = "Ok" /\ parser.taken = MavlinkMeans(frame)

(* parser.rs:141-159 of MSP: a frame that arrives whole is taken, whatever *)
(* went before it, as long as it fits the buffer and has no "$" inside, in *)
(* its size, type and checksum neither.                                    *)
Unbroken(bytes) == Len(bytes) <= MspBuffer /\ \A i \in 2 .. Len(bytes) : bytes[i].v # Dollar

MspAlwaysInStep ==
  (proto = "Msp" /\ ShouldBeTaken /\ Unbroken(BytesOf(frame))) =>
    parser.result = "Ok" /\ parser.taken = MspMeans(frame)

(* The receiver sends no sentence in which an empty field moves others     *)
(* into the place of a position.                                           *)
SentencesInPlace == \A s \in Messages["Nmea"] : ReadInPlace(s)

(* parser.rs:159-297 of NMEA: a sentence behind a newline gives exactly    *)
(* the position it says, and none when it reports no fix, although the     *)
(* fields of an incomplete one move up.                                    *)
NmeaReadsInPlace ==
  (proto = "Nmea" /\ ShouldBeTaken) =>
    LET gps == NmeaMeans(before, frame)
    IN  parser.gps.fix_type = gps.fix_type /\ parser.gps.lat = gps.lat /\ parser.gps.lon = gps.lon
=============================================================================
