------------------------------ MODULE EspRadio ------------------------------
(***************************************************************************)
(* The radios of an ESP32: Wi-Fi, which sends the frames of WifiFrames,    *)
(* and Bluetooth, which is told what to advertise and goes on until it is  *)
(* told otherwise.  Every call into the driver may fail, and most failures *)
(* are not looked at.                                                      *)
(***************************************************************************)
EXTENDS WifiFrames

CONSTANTS
  Ssids,        (* the configured network names                              *)
  Packs,        (* the messages that may be handed over                      *)
  CounterMod,   (* the counter is a u8                                       *)
  FrameRoom     (* the buffers have 1024 bytes                               *)

Octet == 0 .. 255

(* Messages, names and addresses are bytes, nine messages fit an element,  *)
(* and the advert of one message counts its bytes (0x1E).                  *)
ASSUME RadioAssumption ==
  /\ CounterMod \in 1 .. 256 /\ FrameRoom \in Nat
  /\ MessageSize = 25 /\ PackLimit \in 0 .. 9
  /\ Mac \in Seq(Octet) /\ Len(Mac) = 6 /\ Clock \in Seq(Octet) /\ Len(Clock) = 8
  /\ Ssids \subseteq Seq(Octet) /\ Packs \subseteq Seq(Octet)

VARIABLES
  chip,              (* the chip the firmware is built for                   *)
  ssid,              (* WIFI_STATE: ssid and message_counter; the MAC does   *)
  message_counter,   (* not change                                           *)
  ble_up,            (* BLE_STATE.initialized                                *)
  frame,             (* the frame that was sent last, <<>> before            *)
  legacy,            (* what Bluetooth 4 has to advertise, <<>> for nothing  *)
  extended,          (* what the instances of Bluetooth 5 have, on both      *)
                     (* kinds of radio                                       *)
  meant              (* history: what the last frame, legacy advert and pack *)
                     (* were to say                                          *)

radioVars == <<chip, ssid, message_counter, ble_up, frame, legacy, extended, meant>>

Chips == {"esp32", "esp32s3", "esp32c6"}

(* current: what a chip can do. *)
Ble5(c) == c \in {"esp32s3", "esp32c6"}
Usb(c) == c \in {"esp32s3", "esp32c6"}
StandardsOf(c) == IF c = "esp32c6" THEN {"Astm", "ChnGb", "Frdid"} ELSE {"Astm"}

(* set_power: the level of a power, 3 dBm apart. *)
PowerLevel(dbm) ==
  LET clamped == IF dbm < -12 THEN -12 ELSE IF dbm > 9 THEN 9 ELSE dbm
  IN  (clamped + 12) \div 3

-----------------------------------------------------------------------------
(* tx_raw: two interfaces, with the sequence number of the driver and      *)
(* without, until one takes the frame; refusals says how many do not.      *)
TxRaw(refusals) == refusals < 4

Send(built, says, refusals) ==
  IF built.result = "Ok" /\ TxRaw(refusals)
  THEN frame' = built.bytes /\ meant' = [meant EXCEPT !.frame = says]
  ELSE UNCHANGED <<frame, meant>>

(* transmit_wifi_beacon: the counter goes on whatever becomes of the frame *)
(* (the sum wraps).                                                        *)
WifiBcn(msgs, refusals) ==
  /\ Send(BuildBeaconFrame(msgs, ssid, message_counter, FrameRoom),
          [counter |-> message_counter, msgs |-> msgs], refusals)
  /\ message_counter' = (message_counter + 1) % CounterMod
  /\ UNCHANGED <<chip, ssid, ble_up, legacy, extended>>

(* transmit_wifi_nan: the counter is the caller's. *)
WifiNan(msgs, counter, refusals) ==
  /\ Send(BuildNanActionFrame(msgs, counter, FrameRoom),
          [counter |-> counter, msgs |-> msgs], refusals)
  /\ UNCHANGED <<chip, ssid, message_counter, ble_up, legacy, extended>>

-----------------------------------------------------------------------------
(* build_legacy_adv *)
BuildLegacyAdv(m, rotation) == <<30, 22, 250, 255, 13, rotation>> \o MessageBytes(m)

(* transmit_legacy: when the driver refuses the data it advertises what it *)
(* had before.                                                             *)
TransmitLegacy(m, rotation, configured) ==
  /\ ble_up /\ configured
  /\ legacy' = BuildLegacyAdv(m, rotation)
  /\ meant' = [meant EXCEPT !.legacy = [counter |-> rotation, msgs |-> <<m>>]]
  /\ UNCHANGED <<chip, ssid, message_counter, ble_up, frame, extended>>

(* transmit_extended: the instance for all scanners must be set up, what   *)
(* becomes of the one for long range is not looked at.                     *)
TransmitExtended(msgs, near, far) ==
  LET pack == BuildPack(msgs, FrameRoom)
  IN  /\ ble_up /\ chip = "esp32s3" /\ pack.result = "Ok"
      /\ near.params /\ near.data
      /\ extended' = [near |-> pack.bytes,
                      far  |-> IF far.params /\ far.data THEN pack.bytes ELSE extended.far]
      /\ meant' = [meant EXCEPT !.pack = msgs]
      /\ UNCHANGED <<chip, ssid, message_counter, ble_up, frame, legacy>>

-----------------------------------------------------------------------------
(* init of Wi-Fi cuts the name; init of Bluetooth stops at its first       *)
(* failure, and is not tried again; there is none for the ESP32-C6.        *)
Truncated(name) == SubSeq(name, 1, IF Len(name) < 32 THEN Len(name) ELSE 32)

RadioInit ==
  /\ chip \in Chips /\ ssid \in {Truncated(s) : s \in Ssids} /\ message_counter = 0
  /\ \E steps \in 0 .. 4 : ble_up = (steps = 4 /\ chip # "esp32c6")
  /\ frame = <<>> /\ legacy = <<>> /\ extended = [near |-> <<>>, far |-> <<>>]
  /\ meant = [frame |-> ReadNothing, legacy |-> ReadNothing, pack |-> <<>>]

SetUps == [params : BOOLEAN, data : BOOLEAN]

RadioNext ==
  \/ \E msgs \in Packs, refusals \in 0 .. 4 : WifiBcn(msgs, refusals)
  \/ \E msgs \in Packs, c \in 0 .. CounterMod - 1, refusals \in 0 .. 4 : WifiNan(msgs, c, refusals)
  \/ \E msgs \in Packs, r \in 0 .. CounterMod - 1, configured \in BOOLEAN :
       msgs # <<>> /\ TransmitLegacy(msgs[1], r, configured)
  \/ \E msgs \in Packs, near, far \in SetUps : TransmitExtended(msgs, near, far)

-----------------------------------------------------------------------------
(* What a scanner reads in an advert of Bluetooth 4: one structure. *)
ReadLegacy(advert) ==
  IF advert[1] # Len(advert) - 1 \/ SubSeq(advert, 2, 5) # <<22, 250, 255, 13>> THEN ReadNothing
  ELSE [counter |-> advert[6],
        msgs |-> IF SubSeq(advert, 7, Len(advert)) = MessageBytes(advert[7])
                 THEN <<advert[7]>> ELSE <<>>]

(* out-astm/wifi.rs:94-237, bsp-esp32/wifi.rs:98-165, ble.rs:112-271: a    *)
(* receiver that walks through the frame or the advert on the air by the   *)
(* lengths in it finds the messages that were handed over with the counter *)
(* of their turn, and what is advertised near is the pack that was         *)
(* accepted last, whatever failed since.                                   *)
ReceiverGetsPack ==
  /\ frame # <<>> => ReadFrame(frame) = meant.frame
  /\ legacy # <<>> => ReadLegacy(legacy) = meant.legacy
  /\ extended.near # <<>> => ReadInfo(<<0>> \o extended.near).msgs = meant.pack
=============================================================================
