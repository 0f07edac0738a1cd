---------------------------- MODULE UsbTelemetry ----------------------------
(***************************************************************************)
(* The MAVLink telemetry a board writes to USB: a heartbeat and a position *)
(* of the operator, each in its own time, packed as version 2 frames and   *)
(* read by a host with the framing of MavlinkFraming.                      *)
(***************************************************************************)
EXTENDS MavlinkFraming, Integers

CONSTANTS
  HeartbeatPeriod, SystemPeriod,   (* the two periods                        *)
  HeartbeatId, SystemId,           (* the two messages                       *)
  Places,                          (* where the operator may be; 0 is where  *)
                                   (* nobody knows                           *)
  LineBytes,                       (* the values the checksum bytes may have *)
  Steps,                           (* the times between two passes           *)
  Cuts,                            (* how many bytes the port may take of a  *)
                                   (* frame, when not all                    *)
  TxSeqMod         (* the sequence number is a u8                            *)

(* The passes are not apart for longer and longer; a sequence number and   *)
(* the fields of the two messages fit a byte, and the host knows both.     *)
ASSUME TelemetryAssumption ==
  /\ {HeartbeatPeriod, SystemPeriod} \subseteq Nat \ {0}
  /\ Steps \subseteq Nat \ {0} /\ \E d \in Steps : \A e \in Steps : e <= d
  /\ Cuts \subseteq Nat /\ TxSeqMod \in 1 .. MaxPayload + 1
  /\ {1, 3, 34} \cup Places \cup LineBytes \subseteq 0 .. MaxPayload
  /\ {HeartbeatId, SystemId} \subseteq {id \in DOMAIN MaxLen \ {BasicId} : MaxLen[id] >= 3}

VARIABLES
  since_heartbeat, since_system,   (* now less last_heartbeat_us and         *)
                                   (* last_system_us                         *)
  tx_seq,
  host,        (* the parser of the host                                     *)
  silence,     (* histories: the time since the host read a heartbeat or the *)
  unread       (* port took only a part, up to twice the period; a frame     *)
               (* written to a waiting host was not read as it was meant     *)

usbVars == <<since_heartbeat, since_system, tx_seq, host, silence, unread>>

(* trim_payload keeps one byte. *)
TrimPayload(payload) ==
  LET used == {1} \cup {i \in DOMAIN payload : payload[i] # 0}
  IN  SubSeq(payload, 1, CHOOSE i \in used : \A j \in used : j <= i)

(* Mutant: the checksum begins with the start byte. *)
FinalizeFromStart(msgid, payload, looks) ==
  LET data == TrimPayload(payload)
      body == <<StxV2, Len(data), 0, 0, tx_seq, 1, 1, msgid, 0, 0>> \o data
      sum  == Append(body, msgid)
  IN  Plains(body) \o <<Check(looks, sum, 1), Check(looks, sum, 2)>>

(* finalize: the checksum is of the header without the start byte, the     *)
(* payload and the number of the message.                                  *)
Finalize(msgid, payload, looks) ==
  LET data == TrimPayload(payload)
      body == <<Len(data), 0, 0, tx_seq, 1, 1, msgid, 0, 0>> \o data
      sum  == Append(body, msgid)
  IN  <<Plain(StxV2)>> \o Plains(body) \o <<Check(looks, sum, 1), Check(looks, sum, 2)>>

(* What the host makes of bytes, and whether of a frame what was meant.    *)
Hears(bytes) == FoldLeft(LAMBDA p, c : ParseChar(p, c), host, bytes)

Meant(msgid, payload) ==
  <<msgid, payload \o [i \in 1 .. MaxLen[msgid] - Len(payload) |-> 0]>>

(* A frame is written; the port takes n bytes of it, or all (UsbCdcTx). *)
Writes(msgid, payload, n, looks) ==
  LET frame == Finalize(msgid, payload, looks)
      whole == n >= Len(frame)
      after == Hears(IF whole THEN frame ELSE SubSeq(frame, 1, n))
  IN  /\ host' = after /\ tx_seq' = (tx_seq + 1) % TxSeqMod
      /\ unread' = /\ whole /\ host.state = "Idle"
                   /\ ~(after.result = "Ok" /\ after.taken = Meant(msgid, payload))
      /\ silence' = IF ~whole \/ host.state # "Idle" \/ (msgid = HeartbeatId /\ after.result = "Ok")
                    THEN 0 ELSE silence

(* The payloads, a field of several bytes as one: the mode of the          *)
(* heartbeat is 0, its type MAV_TYPE_ODID; the position has the one area   *)
(* for the fields that never change, and goes without its height.          *)
PackHeartbeat == <<0, 34, 3>>

PackOpenDroneIdSystem(place, loc_type) == <<place, 1, loc_type>>

(* The first half of tick. *)
Heartbeat(n, looks) ==
  /\ since_heartbeat >= HeartbeatPeriod /\ since_heartbeat' = 0
  /\ Writes(HeartbeatId, PackHeartbeat, n, looks) /\ UNCHANGED since_system

(* The second half, after the first. *)
System(place, n, looks) ==
  /\ since_heartbeat < HeartbeatPeriod
  /\ since_system >= SystemPeriod /\ since_system' = 0
  /\ Writes(SystemId, PackOpenDroneIdSystem(place, IF place = 0 THEN 0 ELSE 1), n, looks)
  /\ UNCHANGED since_heartbeat

(* The time to the next pass, when nothing is due. *)
Sleep(d) ==
  /\ since_heartbeat < HeartbeatPeriod /\ since_system < SystemPeriod
  /\ since_heartbeat' = since_heartbeat + d /\ since_system' = since_system + d
  /\ silence' = IF silence + d > 2 * HeartbeatPeriod THEN 2 * HeartbeatPeriod ELSE silence + d
  /\ unread' = FALSE
  /\ UNCHANGED <<tx_seq, host>>

Taken == Cuts \cup {100}

UsbInit ==
  /\ since_heartbeat = 0 /\ since_system = 0 /\ tx_seq = 0
  /\ host = MavlinkNew /\ silence = 0 /\ unread = FALSE

UsbNext ==
  \/ \E n \in Taken, looks \in LineBytes : Heartbeat(n, looks)
  \/ \E p \in Places, n \in Taken, looks \in LineBytes : System(p, n, looks)
  \/ \E d \in Steps : Sleep(d)

LongestStep == CHOOSE d \in Steps : \A e \in Steps : e <= d

(* tx.rs:57-89, pack.rs:49-91: a frame that is written whole to a host     *)
(* that waits for one is read as it was meant, without its trailing zeros  *)
(* or with them, and a host to which all frames are written whole reads a  *)
(* heartbeat in every period, give or take a pass.                         *)
TelemetryArrives ==
  ~unread /\ silence < HeartbeatPeriod + LongestStep
=============================================================================
