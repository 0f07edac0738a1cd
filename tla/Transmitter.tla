---------------------------- MODULE Transmitter ----------------------------
(***************************************************************************)
(* From an identity to what is on the air: the region drops the messages   *)
(* it forbids, the relayed authentication pages are resolved into whole    *)
(* signatures, and the list of valid messages leaves as one pack (Wi-Fi    *)
(* beacon, Wi-Fi NAN, BLE 5) or one message at a time in rotation (BLE 4). *)
(*                                                                         *)
(* A message is a kind and a page.  What the encoder of the Open Drone ID  *)
(* library refuses (a position, a type out of range) is a set of messages  *)
(* that the caller's data determines.                                      *)
(***************************************************************************)
EXTENDS Hub, Integers, FiniteSets, Sequences, Functions

CONSTANTS
  RotMod,         (* 2^8: the modulus of the rotation counter                *)
  AuthMaxPages,   (* ODID_AUTH_MAX_PAGES                                     *)
  PackMax,        (* ODID_PACK_MAX_MESSAGES                                  *)
  RegionChoices,  (* the regions the device is moved between                 *)
  RefusedChoices, (* the sets of messages the encoder may refuse             *)
  KeepsRotation   (* the caller of next_message keeps its counter (bsp-sim)  *)
                  (* or starts from zero in every call (bsp-esp32)           *)

Optional == {"basic_id_2", "self_id", "operator_id"}

BasicIdMsg  == <<"basic_id", 0>>
LocationMsg == <<"location", 0>>
SystemMsg   == <<"system", 0>>
AuthPages   == [p \in 1 .. AuthMaxPages |-> <<"auth", p - 1>>]

Messages == {BasicIdMsg, LocationMsg, SystemMsg} \cup {<<f, 0>> : f \in Optional} \cup Range(AuthPages)

ASSUME TransmitterAssumption ==
  /\ RotMod \in Nat /\ AuthMaxPages \in Nat \ {0} /\ PackMax \in Nat
  /\ 6 <= PackMax /\ PackMax <= RotMod
  /\ RegionChoices \subseteq Regions /\ KeepsRotation \in BOOLEAN
  /\ \A r \in RefusedChoices : r \subseteq Messages

VARIABLES
  region,     (* config.region                                               *)
  fields,     (* the optional fields of the identity that are not empty      *)
  received,   (* ext_auth_pages_received                                     *)
  last_page,  (* ext_auth_last_page                                          *)
  refused,    (* the messages the encoder refuses                            *)
  rotation,   (* the rotation counter of BLE 4                               *)
  on_air,     (* what the last step transmitted, and how it went             *)
  since       (* history: the BLE 4 cycles a message that can be sent has    *)
              (* waited for, since it was sent or the list changed           *)

identityVars == <<region, fields, received, last_page, refused>>
vars == <<identityVars, rotation, on_air, since>>

-----------------------------------------------------------------------------
(* What is there to send. *)

(* hub::build_uas: the fields the region allows. *)
Gated(f, r) == IF AllowsOptionalMessages(r) THEN f ELSE {}

(* Mutant: the last page itself is not asked for. *)
ResolveAuthShort ==
  IF last_page < AuthMaxPages /\ (0 .. last_page) \ {last_page} \subseteq received
  THEN last_page + 1 ELSE 0

(* resolve_auth: the pages of the relayed signature, none while one is     *)
(* missing.                                                                *)
ResolveAuth ==
  IF last_page < AuthMaxPages /\ 0 .. last_page \subseteq received
  THEN last_page + 1 ELSE 0

(* The messages that are kept room for in a pack next to the signature. *)
FixedMessages(f) == 4 + Cardinality(f \cap {"basic_id_2", "self_id"})

(* Mutant: no room is kept for the operator ID. *)
AuthCountTight(f) ==
  IF ResolveAuth <= PackMax + 1 - FixedMessages(f) THEN ResolveAuth ELSE 0

AuthCount(f) == IF ResolveAuth <= PackMax - FixedMessages(f) THEN ResolveAuth ELSE 0

(* build_uas_data, in the order in which every encoder walks over it. *)
IfSet(f, name) == IF name \in f THEN <<<<name, 0>>>> ELSE <<>>

ValidMessages ==
  LET f == Gated(fields, region)
  IN  <<BasicIdMsg>> \o IfSet(f, "basic_id_2") \o <<LocationMsg>>
        \o SubSeq(AuthPages, 1, AuthCount(f))
        \o IfSet(f, "self_id") \o <<SystemMsg>> \o IfSet(f, "operator_id")

Valid(m) == m \in Range(ValidMessages)

Encodes(m) == m \notin refused

-----------------------------------------------------------------------------
(* next_message. *)

(* When the selected message is refused, a basic ID gives its turn to the  *)
(* location and a page of the signature to the message after the pages;    *)
(* the turn of any other one is lost.                                      *)
StandIn(m) ==
  CASE m[1] \in {"basic_id", "basic_id_2"} -> LocationMsg
    [] m[1] = "auth" -> IF Valid(<<"self_id", 0>>) THEN <<"self_id", 0>> ELSE SystemMsg
    [] OTHER -> m

(* The messages, at most one, that the rotation counter selects. *)
NextMessage(r) ==
  LET selected == ValidMessages[(r % Len(ValidMessages)) + 1]
      choice   == IF Encodes(selected) THEN selected ELSE StandIn(selected)
  IN  IF Encodes(choice) THEN {choice} ELSE {}

(* Mutant: the counter stands still when nothing was encoded. *)
RotationAfterSuccess(r) ==
  IF NextMessage(r) = {} THEN r ELSE (r + 1) % RotMod

RotationAfter(r) == (r + 1) % RotMod

Ble4 ==
  LET start == IF KeepsRotation THEN rotation ELSE 0
      sent  == NextMessage(start)
  IN  /\ rotation' = RotationAfter(start)
      /\ on_air' = [result |-> IF sent = {} THEN "none" ELSE "sent", msgs |-> sent]
      /\ since' = [m \in Messages |->
                     IF m \in sent \/ ~Valid(m) \/ ~Encodes(m) THEN 0
                     ELSE IF since[m] = 2 * PackMax THEN since[m] ELSE since[m] + 1]
      /\ UNCHANGED identityVars

-----------------------------------------------------------------------------
(* build_pack: the messages that encode, unless one more is valid when the *)
(* pack is already full.                                                   *)

Encoded == SelectSeq(ValidMessages, Encodes)

(* The places of the first n valid messages that encode. *)
EncodedOf(n) == {i \in 1 .. n : Encodes(ValidMessages[i])}

TooMany == \E n \in 1 .. Len(ValidMessages) : Cardinality(EncodedOf(n - 1)) >= PackMax

Pack == IF TooMany THEN <<>> ELSE Encoded

PackResult == IF TooMany THEN "too_many" ELSE IF Pack = <<>> THEN "none" ELSE "sent"

(* Wi-Fi beacon, Wi-Fi NAN and BLE 5 send the same pack. *)
SendPack ==
  /\ on_air' = [result |-> PackResult, msgs |-> Range(Pack)]
  /\ UNCHANGED <<identityVars, rotation, since>>

-----------------------------------------------------------------------------
(* What the caller and the autopilot change. *)

Silent == [result |-> "none", msgs |-> {}]

(* The cycles are counted anew when there is something else to send. *)
Recount ==
  /\ on_air' = Silent
  /\ since' = IF ValidMessages' = ValidMessages /\ refused' = refused
              THEN since ELSE [m \in Messages |-> 0]

(* One authentication message of the autopilot: the received mask only     *)
(* grows, whatever signature the pages belong to.                          *)
AuthPage(page, last) ==
  /\ IF page < AuthMaxPages
     THEN received' = received \cup {page} /\ last_page' = last
     ELSE UNCHANGED <<received, last_page>>
  /\ UNCHANGED <<region, fields, refused, rotation>>
  /\ Recount

(* The scheduler passes another identity to the transport, or data of      *)
(* which the encoder refuses another part.                                 *)
SetIdentity(f) ==
  /\ fields' = f
  /\ UNCHANGED <<region, received, last_page, refused, rotation>>
  /\ Recount

SetRefused(bad) ==
  /\ refused' = bad
  /\ UNCHANGED <<region, fields, received, last_page, rotation>>
  /\ Recount

SetRegion(r) ==
  /\ region' = r
  /\ UNCHANGED <<fields, received, last_page, refused, rotation>>
  /\ Recount

Init ==
  /\ region \in RegionChoices
  /\ fields = {} /\ received = {} /\ last_page = 0 /\ refused = {}
  /\ rotation = 0 /\ on_air = Silent
  /\ since = [m \in Messages |-> 0]

Next ==
  \/ Ble4 \/ SendPack
  \/ \E page, last \in 0 .. AuthMaxPages : AuthPage(page, last)
  \/ \E f \in SUBSET Optional : SetIdentity(f)
  \/ \E bad \in RefusedChoices : SetRefused(bad)
  \/ \E r \in RegionChoices : SetRegion(r)

Spec == Init /\ [][Next]_vars

-----------------------------------------------------------------------------
(* ble4.rs:4-5, "the valid messages are rotated across advertising         *)
(* cycles": over the wrap of the counter and past the messages the encoder *)
(* refuses, none that can be sent waits for two whole turns.               *)
EveryMessageInTurn ==
  LET turn == Len(ValidMessages)
  IN  \A m \in Messages : Valid(m) /\ Encodes(m) => since[m] <= 2 * turn - 2

(* lib.rs:195-223 against pack.rs:31-103: whatever the optional fields and *)
(* the pages received, the signature taken in leaves room for the rest: no *)
(* pack is rejected for its length.                                        *)
PackNeverOverflows == on_air.result # "too_many"

(* lib.rs:103-124: a signature is on the air whole or not at all: when a   *)
(* pack has one page, it has every page its last page counts, each of them *)
(* received.  Pages of two signatures may meet in it: nothing tells them   *)
(* apart.                                                                  *)
SignatureWhole ==
  LET pages == {p \in 0 .. AuthMaxPages : <<"auth", p>> \in Range(ValidMessages)}
  IN  pages # {} => pages = 0 .. last_page /\ pages \subseteq received
=============================================================================
