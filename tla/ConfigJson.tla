----------------------------- MODULE ConfigJson -----------------------------
(***************************************************************************)
(* The configuration as the JSON document of GET and POST /api/config: a   *)
(* board takes documents, hands out its own, and that one is given to      *)
(* another board, as the presets and the import of the web page do.        *)
(*                                                                         *)
(* A field stands for all that are read and written the same way.  Numbers *)
(* are counted in thousandths; the six digits of a coordinate are two.     *)
(* The rounding of a number to a float is left out, since the digits that  *)
(* are written are read as a float that is written with them again; that a *)
(* float has a largest value is not.                                       *)
(***************************************************************************)
EXTENDS Texts

CONSTANTS
  HalfMod,         (* the width u16                                          *)
  F32Max,          (* the largest number of an f32, in thousandths           *)
  StrLen, KeyChars, SecretChars,  (* MAX_STR_LEN, MAX_KEY_LEN and            *)
                                  (* AUTH_KEY_MAX_LEN - 1                    *)
  RegionTexts,     (* the names of the regions, in their order               *)
  DefaultSsid,     (* the text of wifi_ssid in BspConfig::default            *)
  DefaultRate,     (* its baud_rate and start_delay_ms                       *)
  JsonValues,      (* the values a document may have                         *)
  MaxDocuments     (* a bound on the documents that are posted               *)

(* The defaults are what a board may hold, a whole number is wider than the *)
(* fields, the largest float is whole and more than any power that may be   *)
(* set, and a value is of one of the kinds that matter.                     *)
ASSUME JsonAssumption ==
  /\ {HalfMod, ByteMod} \subseteq Nat \ {0, 1} /\ {StrLen, KeyChars, SecretChars} \subseteq Nat \ {0}
  /\ DefaultSsid \in Seq(Nat) /\ Len(DefaultSsid) <= StrLen /\ DefaultRate \in 0 .. WordMod - 1
  /\ \A n \in {256, ByteMod, HalfMod, WordMod} : 2 * n <= LongMod
  /\ F32Max \in Nat /\ F32Max >= 20000 /\ F32Max % 1000 = 0
  /\ 0 \in DOMAIN RegionTexts
  /\ JsonValues \subseteq [number : Int] \cup [text : Seq(Nat)] \cup [truth : BOOLEAN]

VARIABLES
  boards,      (* the configurations of the two boards                       *)
  posted,      (* how many documents were posted                             *)
  exported     (* history: the document that was handed over, or None        *)

jsonVars == <<boards, posted, exported>>

TextKeys == {"uas_id", "wifi_ssid"}
ByteKeys == {"id_type", "tx_modes"}
PinKeys  == {"led_r_gpio"}
HalfKeys == {"lighting_phase_0", "options"}
RateKeys == {"baud_rate", "start_delay_ms"}
TenthKeys == {"wifi_power_dbm", "ble4_rate_hz", "operator_alt"}
JsonFields ==
  TextKeys \cup ByteKeys \cup PinKeys \cup HalfKeys \cup RateKeys \cup TenthKeys
    \cup {"public_key_1", "auth_private_key", "protocol", "region", "wifi_channel",
          "lock_level", "operator_lat", "mavlink_usb_enable"}

(* The values of JSON. *)
Thousand == 1000
Number(v) == [number |-> v]
Text(t) == [text |-> t]
Truth(b) == [truth |-> b]

(* What is written for an infinite number, and is no JSON. *)
Bare == [bare |-> "inf"]
IsNumber(v) == "number" \in DOMAIN v
IsText(v) == "text" \in DOMAIN v

(* v as f32: beyond the largest float there is only infinity. *)
Infinite(n) == n > F32Max \/ n < -F32Max

AsF32(n) == IF n > F32Max THEN F32Max + 1 ELSE IF n < -F32Max THEN -F32Max - 1 ELSE n

-----------------------------------------------------------------------------
(* Reading. *)

(* cstr: a text that is not UTF-8 is empty.  A character of two bytes is a *)
(* lead and a trail.                                                       *)
Lead == 105
Trail == 106

Malformed(s) ==
  \E i \in DOMAIN s : s[i] = Lead /\ (i = Len(s) \/ s[i + 1] # Trail)

Cstr(buf) == IF Malformed(CText(buf)) THEN <<>> ELSE CText(buf)

(* f as i64 cuts towards zero and stops at the ends of the width. *)
Whole(v) ==
  LET half == LongMod \div 2
      cut  == IF v >= 0 THEN v \div Thousand ELSE -((-v) \div Thousand)
  IN  IF cut >= half THEN half - 1 ELSE IF cut < -half THEN -half ELSE cut

SameLetters(a, b) ==
  /\ Len(a) = Len(b)
  /\ \A i \in DOMAIN a : a[i] = b[i] \/ (a[i] >= 110 /\ a[i] \div 2 = b[i] \div 2)

(* parse_region_name: without regard to case. *)
NamedRegions(t) == {r \in DOMAIN RegionTexts : SameLetters(t, RegionTexts[r])}

ASSUME RegionAssumption ==
  \A r \in DOMAIN RegionTexts : NamedRegions(RegionTexts[r]) = {r}

Capacity(f) ==
  CASE f \in TextKeys -> StrLen [] f = "public_key_1" -> KeyChars
    [] f = "auth_private_key" -> SecretChars

Lowest(f)  == CASE f = "wifi_power_dbm" -> 2000 [] f = "ble4_rate_hz" -> 0
Highest(f) == CASE f = "wifi_power_dbm" -> 20000 [] f = "ble4_rate_hz" -> 5000

(* Mutant: a pin is read as a byte without a sign. *)
PinUnsigned(n) == n % ByteMod

(* A pin is a signed byte: -1 is none. *)
Pin(n) == Signed(n, ByteMod)

(* The number n for a field of integers that has the value old. *)
IntTaken(f, n, old) ==
  CASE f \in ByteKeys           -> n % ByteMod
    [] f \in PinKeys            -> Pin(n)
    [] f = "lighting_phase_0"   -> Signed(n, HalfMod)
    [] f = "options"            -> n % HalfMod
    [] f = "baud_rate"          -> IF n > 0 THEN n % WordMod ELSE old
    [] f = "start_delay_ms"     -> IF n >= 0 THEN n % WordMod ELSE old
    [] f = "wifi_channel"       -> IF n \in 1 .. 13 THEN n ELSE old
    [] f = "protocol"           -> IF n \in 1 .. 4 THEN n ELSE 255
    [] f = "region"             -> IF n \in DOMAIN RegionTexts THEN n ELSE old
    [] f = "lock_level"         -> IF n >= 2 THEN 2 ELSE IF n >= 1 THEN n ELSE 0
    [] f = "mavlink_usb_enable" -> IF n # 0 THEN 1 ELSE 0

(* apply_json, one field of it: what v makes of it; a value of another     *)
(* type or out of range leaves it as it was.                               *)
Taken(f, v, old) ==
  CASE IsText(v) /\ f \in TextKeys \cup {"public_key_1", "auth_private_key"} ->
         Slice(v.text, Capacity(f))
    [] IsText(v) /\ f = "region" /\ NamedRegions(v.text) # {} ->
         CHOOSE r \in NamedRegions(v.text) : TRUE
    [] IsNumber(v) /\ f \in {"wifi_power_dbm", "ble4_rate_hz"} ->
         IF v.number \in Lowest(f) .. Highest(f) THEN v.number ELSE old
    [] IsNumber(v) /\ f = "operator_lat" -> v.number
    [] IsNumber(v) /\ f = "operator_alt" -> AsF32(v.number)
    [] IsNumber(v) /\ f \notin TextKeys \cup TenthKeys
                               \cup {"public_key_1", "auth_private_key", "operator_lat"} ->
         IntTaken(f, Whole(v.number), old)
    [] OTHER -> old

(* apply_json: a text that is no JSON is refused as a whole. *)
Readable(document) == \A f \in DOMAIN document : document[f] # Bare

Applied(c, document) ==
  IF ~Readable(document) THEN c
  ELSE [f \in JsonFields |->
          IF f \in DOMAIN document THEN Taken(f, document[f], c[f]) ELSE c[f]]

-----------------------------------------------------------------------------
(* Writing. *)

(* num1 and num6: to the nearest of the digits that are written.  An f32   *)
(* goes through num1 and may be infinite, an f64 of a document is not.     *)
Nearest(v, unit) == ((v + unit \div 2) \div unit) * unit
Num1(v) == IF Infinite(v) THEN Bare ELSE Number(Nearest(v, Thousand \div 10))
Num6(v) == Number(Nearest(v, Thousand \div 100))

(* config_to_json: all but the private key. *)
Exported(c) ==
  [f \in JsonFields \ {"auth_private_key"} |->
     CASE f \in TextKeys \cup {"public_key_1"} -> Text(Cstr(c[f]))
       [] f = "region"             -> Text(RegionTexts[c[f]])
       [] f \in TenthKeys             -> Num1(c[f])
       [] f = "operator_lat"       -> Num6(c[f])
       [] f = "mavlink_usb_enable" -> Truth(c[f] = 1)
       [] OTHER                    -> Number(c[f] * Thousand)]

-----------------------------------------------------------------------------
(* BspConfig::default *)
FactoryConfig ==
  [f \in JsonFields |->
     CASE f = "uas_id" -> <<1>> [] f = "wifi_ssid" -> DefaultSsid
       [] f \in {"public_key_1", "auth_private_key"} -> <<>>
       [] f = "id_type" -> 1 [] f = "tx_modes" -> 1
       [] f \in PinKeys -> -1 [] f \in HalfKeys -> 0
       [] f \in RateKeys -> DefaultRate
       [] f = "wifi_power_dbm" -> 20000 [] f = "ble4_rate_hz" -> 1000
       [] f = "protocol" -> 255 [] f = "wifi_channel" -> 6
       [] OTHER -> 0]

JsonInit ==
  /\ boards = [b \in {"own", "other"} |-> FactoryConfig]
  /\ posted = 0 /\ exported = None

(* POST /api/config with one field; a body with more is as good as several. *)
PostField(b, f, v) ==
  /\ posted < MaxDocuments /\ posted' = posted + 1
  /\ boards' = [boards EXCEPT ![b] = Applied(@, [g \in {f} |-> v])]
  /\ UNCHANGED exported

(* exportCfg and importCfg of the web page. *)
HandOver ==
  /\ exported' = Some(Exported(boards.own))
  /\ boards' = [boards EXCEPT !.other = Applied(@, exported'.some)]
  /\ UNCHANGED posted

JsonNext ==
  /\ exported = None
  /\ \/ \E b \in DOMAIN boards, f \in JsonFields, v \in JsonValues : PostField(b, f, v)
     \/ HandOver

-----------------------------------------------------------------------------
HandedOver(f) == exported # None => Exported(boards.other)[f] = exported.some[f]

(* json.rs:42-366: whatever was posted to either of two boards, the        *)
(* document of the one makes the other hand out the same document: no      *)
(* width, range, sign, rounding or cut text is lost on the way.  Three     *)
(* things are, and are left out: the document of a board whose             *)
(* operator_alt was given beyond the range of its f32 (:212) says `inf`    *)
(* (:322) and is no JSON, so that nothing of it is taken; a baud rate that *)
(* wrapped to zero is what no board takes; the USB switch is written as a  *)
(* truth value (:336) and read only as a number (:253).                    *)
ExportRestores ==
  ~Infinite(boards.own.operator_alt) =>
    \A f \in JsonFields \ {"auth_private_key", "mavlink_usb_enable"} :
      (f = "baud_rate" => boards.own[f] # 0) => HandedOver(f)
=============================================================================
