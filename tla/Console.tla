------------------------------ MODULE Console ------------------------------
(***************************************************************************)
(* The command line of the board: what its commands make of the texts that *)
(* are typed, and how they change the configuration.                       *)
(***************************************************************************)
EXTENDS Texts

CONSTANTS
  StringFields, ByteFields, WordFields, FloatFields,   (* fields of BspConfig *)
  MaxStrLen,      (* MAX_STR_LEN                                             *)
  Regions,        (* the names of the regions, with the region of each       *)
  Values,         (* the texts that are typed                                *)
  On,             (* the text "on"                                           *)
  MaxCommands     (* a bound on the commands that are entered                *)

VARIABLES
  config,    (* BspConfig                                                    *)
  reply,     (* what the command answered                                    *)
  typed,     (* histories: the field and the text of the last value, and the *)
  entered    (* number of commands                                           *)

consoleVars == <<config, reply, typed, entered>>

Transports == {"wifi_bcn", "wifi_nan", "ble4", "ble5"}
NumberFields == ByteFields \cup WordFields \cup {"lock_level"}
Fields == StringFields \cup NumberFields \cup FloatFields \cup {"webserver", "region"}

(* A field has one name and one kind, and texts are characters.            *)
ASSUME ConsoleAssumption ==
  /\ ByteFields \cap WordFields = {} /\ "lock_level" \notin ByteFields \cup WordFields
  /\ (StringFields \cup FloatFields) \cap NumberFields = {}
  /\ {"webserver", "region", "tx_modes", "options", "none"} \cap NumberFields = {}
  /\ Values \subseteq Seq(Nat)

(* parse_f64: all of the text is a number, or it is 0. *)
ParseF64(v) ==
  LET body == Unsigned(v)
  IN  IF body = <<>> \/ \E i \in DOMAIN body : body[i] \notin 0 .. 9 THEN 0
      ELSE IF v[1] = Minus THEN -PlaceValue(body, 10) ELSE PlaceValue(body, 10)

(* config_set_field: what a text is to a field. *)
Value(f, v) ==
  CASE f \in StringFields  -> Slice(v, MaxStrLen)
    [] f \in ByteFields    -> ParseI64(v) % ByteMod
    [] f \in WordFields    -> ParseI64(v) % WordMod
    [] f = "lock_level"    -> Signed(ParseI64(v), ByteMod)
    [] f = "webserver"     -> IF v = On \/ ParseI64(v) # 0 THEN 1 ELSE 0
    [] f \in FloatFields   -> ParseF64(v)
    [] f = "region"        -> Regions[v]

SetField(f, v) ==
  /\ typed' = <<f, v>>
  /\ IF f \notin Fields THEN reply' = "UnknownField" /\ UNCHANGED config
     ELSE IF f = "region" /\ v \notin DOMAIN Regions
          THEN reply' = "UnknownRegion" /\ UNCHANGED config
     ELSE reply' = "Ok" /\ config' = [config EXCEPT ![f] = Value(f, v)]

(* set_tx_mode *)
SetTxMode(mode, on) ==
  LET modes == IF mode = "all" THEN Transports ELSE {mode}
  IN  /\ IF modes \subseteq Transports
         THEN /\ reply' = "Ok"
              /\ config' = [config EXCEPT !.tx_modes = IF on THEN @ \cup modes ELSE @ \ modes]
         ELSE reply' = "UnknownMode" /\ UNCHANGED config
      /\ UNCHANGED typed

Switched(option, to) ==
  config' = [config EXCEPT !.options = IF to THEN @ \cup {option} ELSE @ \ {option}]

(* apply_demo_mode: without "on" or "off" it toggles. *)
ApplyDemoMode(arg) ==
  /\ Switched("demo", IF arg \in {"on", "off"} THEN arg = "on" ELSE "demo" \notin config.options)
  /\ reply' = "Ok" /\ UNCHANGED typed

(* apply_kalman: without an argument it only tells. *)
ApplyKalman(arg) ==
  /\ IF arg \in {"on", "off"} THEN Switched("kalman", arg = "on") ELSE UNCHANGED config
  /\ reply' = IF arg = "maybe" THEN "Usage" ELSE "Ok"
  /\ UNCHANGED typed

ConsoleInit ==
  /\ config = [f \in Fields \cup {"tx_modes", "options"} |->
                 IF f \in StringFields THEN <<>> ELSE IF f = "region" THEN "auto"
                 ELSE IF f = "tx_modes" THEN Transports ELSE IF f = "options" THEN {} ELSE 0]
  /\ reply = "Ok" /\ typed = <<"none", <<>>>> /\ entered = 0

ConsoleNext ==
  /\ entered < MaxCommands /\ entered' = entered + 1
  /\ \/ \E f \in Fields \cup {"altitude"}, v \in Values : SetField(f, v)
     \/ \E mode \in Transports \cup {"all", "lora"}, on \in BOOLEAN : SetTxMode(mode, on)
     \/ \E arg \in {"none", "on", "off", "maybe"} : ApplyDemoMode(arg) \/ ApplyKalman(arg)

-----------------------------------------------------------------------------
(* cli.rs:76-110, :243-266: a number that is typed in any of the bases of  *)
(* C is the number that gets into the configuration, as far as the field   *)
(* is wide, and stays when other settings change.                          *)
NumbersAsTyped ==
  typed[1] \in NumberFields =>
    LET n == config[typed[1]]
    IN  IF typed[1] = "lock_level"
        THEN n \in -(ByteMod \div 2) .. (ByteMod \div 2) - 1 /\ (Strtol(typed[2]) - n) % ByteMod = 0
        ELSE LET width == IF typed[1] \in ByteFields THEN ByteMod ELSE WordMod
             IN  n \in 0 .. width - 1 /\ (Strtol(typed[2]) - n) % width = 0
=============================================================================
