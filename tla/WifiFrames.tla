----------------------------- MODULE WifiFrames -----------------------------
(***************************************************************************)
(* The 802.11 frames that carry a message pack: a beacon with the pack in  *)
(* a vendor element, and a NAN service discovery frame with the pack as    *)
(* service info, byte for byte; and how a receiver walks through them, by  *)
(* the lengths they hold.                                                  *)
(***************************************************************************)
EXTENDS Integers, Sequences, SequencesExt

CONSTANTS
  MessageSize,   (* ODID_MESSAGE_SIZE                                        *)
  PackLimit,     (* ODID_PACK_MAX_MESSAGES                                   *)
  Mac, Clock     (* the address of the board, the 8 bytes of its clock       *)

Le16(n) == <<n % 256, (n \div 256) % 256>>

Failed(error) == [result |-> error, bytes |-> <<>>]

Built(bytes) == [result |-> "Ok", bytes |-> bytes]

(* A message is its first byte and as many of its number.                  *)
MessageBytes(m) == [i \in 1 .. MessageSize |-> m]

PackHead(n) == <<242, MessageSize, n>>

(* build_pack, of the messages that could be encoded, into room bytes. *)
BuildPack(msgs, room) ==
  LET bytes == PackHead(Len(msgs)) \o FlattenSeq([i \in DOMAIN msgs |-> MessageBytes(msgs[i])])
  IN  CASE msgs = <<>>         -> Failed("Invalid")
        [] Len(msgs) > PackLimit -> Failed("Invalid")
        [] Len(bytes) > room   -> Failed("NoMem")
        [] OTHER               -> Built(bytes)

(* What comes before and after the pack is written if it fits, in order. *)
Around(head, msgs, tail, room) ==
  LET pack == BuildPack(msgs, room - Len(head))
  IN  IF Len(head) > room THEN Failed("NoMem")
      ELSE IF pack.result # "Ok" THEN pack
      ELSE IF Len(head \o pack.bytes \o tail) > room THEN Failed("NoMem")
      ELSE Built(head \o pack.bytes \o tail)

(* fill_ieee80211_mgmt *)
Mgmt(subtype, da, bssid) == <<subtype, 0, 0, 0>> \o da \o Mac \o bssid \o <<0, 0>>

Everyone == <<255, 255, 255, 255, 255, 255>>
OpenDroneId == <<250, 11, 188, 13>>

(* Mutant: the vendor element does not count the message counter. *)
VendorLenShort(n) == (3 + 1 + n) % 256

(* OUI, its type, the counter and the pack. *)
VendorLen(n) == (3 + 1 + 1 + n) % 256

PackLen(msgs) == 3 + Len(msgs) * MessageSize

(* build_beacon_frame *)
BuildBeaconFrame(msgs, ssid, counter, room) ==
  LET head == Mgmt(128, Everyone, Mac)
                \o Clock \o Le16(100) \o Le16(1056)
                \o <<0, Len(ssid)>> \o ssid
                \o <<1, 1, 140>>
                \o <<221, VendorLen(PackLen(msgs))>> \o OpenDroneId \o <<counter>>
  IN  IF Len(ssid) \notin 1 .. 32 THEN Failed("Invalid")
      ELSE Around(head, msgs, <<>>, room)

NanTarget == <<81, 111, 154, 1, 0, 0>>
NanCluster == <<80, 111, 154, 1, 0, 255>>
ServiceId == <<136, 105, 25, 157, 146, 9>>

(* build_nan_action_frame *)
BuildNanActionFrame(msgs, counter, room) ==
  LET info == 1 + PackLen(msgs)
      head == Mgmt(208, NanTarget, NanCluster)
                \o <<4, 9, 80, 111, 154, 19>>
                \o <<3>> \o Le16(10 + info) \o ServiceId \o <<1, 0, 16, info % 256>>
                \o <<counter>>
      tail == <<14>> \o Le16(4) \o <<1>> \o Le16(512) \o <<counter>>
  IN  Around(head, msgs, tail, room)

-----------------------------------------------------------------------------
(* A receiver.  It reads the elements from a place on, each an id and the  *)
(* body its length gives it, and gives up when one is cut short.           *)

Broken == [id |-> -1, body |-> <<>>]

Elements(bytes, from, lenBytes) ==
  LET walk[at \in 1 .. Len(bytes) + 1] ==
        LET first == at + 1 + lenBytes
            n == bytes[at + 1] + (IF lenBytes = 2 THEN 256 * bytes[at + 2] ELSE 0)
        IN  IF at = Len(bytes) + 1 THEN <<>>
            ELSE IF first > Len(bytes) + 1 \/ first + n > Len(bytes) + 1 THEN <<Broken>>
            ELSE <<[id |-> bytes[at], body |-> SubSeq(bytes, first, first + n - 1)]>>
                   \o walk[first + n]
  IN  walk[from]

ReadNothing == [counter |-> -1, msgs |-> <<>>]

(* The counter and the messages of service info: the length of the pack is *)
(* that of its messages.                                                   *)
ReadInfo(info) ==
  LET pack == Tail(info)
      n == pack[3]
  IN  IF Len(info) < 4 THEN ReadNothing
      ELSE IF SubSeq(pack, 1, 3) # PackHead(n) \/ Len(pack) # 3 + n * MessageSize THEN ReadNothing
      ELSE [counter |-> info[1], msgs |-> [i \in 1 .. n |-> pack[4 + (i - 1) * MessageSize]]]

VendorInfo(e) ==
  IF e.id = 221 /\ Len(e.body) > 4 /\ SubSeq(e.body, 1, 4) = OpenDroneId
  THEN SubSeq(e.body, 5, Len(e.body)) ELSE <<>>

ServiceInfo(e) ==
  IF e.id = 3 /\ Len(e.body) > 10 /\ SubSeq(e.body, 1, 6) = ServiceId
       /\ e.body[10] = Len(e.body) - 10
  THEN SubSeq(e.body, 11, Len(e.body)) ELSE <<>>

(* What a frame says, if it is whole and says one thing. *)
ReadFrame(bytes) ==
  LET beacon == bytes[1] = 128
      elements == IF beacon THEN Elements(bytes, 37, 1) ELSE Elements(bytes, 31, 2)
      info(i) == IF beacon THEN VendorInfo(elements[i]) ELSE ServiceInfo(elements[i])
      mine == {i \in DOMAIN elements : info(i) # <<>>}
  IN  IF Contains(elements, Broken) \/ \A i \in mine : mine # {i} THEN ReadNothing
      ELSE ReadInfo(info(CHOOSE i \in mine : TRUE))
=============================================================================
