------------------------------- MODULE Lights -------------------------------
(***************************************************************************)
(* The lights of a board: the status light, whose pattern tells the state  *)
(* and which flashes white at a transmission, and the position lights.     *)
(* A colour is what the eye makes of it: its name, or "black".             *)
(***************************************************************************)
EXTENDS Integers, Sequences, SequencesExt

CONSTANTS
  ClockSpan,    (* 2^32: the milliseconds in a turn of the clock             *)
  Gaps,         (* the times between two ticks: about 100 ms                 *)
  FlashMs,      (* TX_FLASH_MS                                               *)
  FlashDelays,  (* how long after a tick a transmission may come             *)
  Cycle,        (* the ticks after which all blinks begin again              *)
  Watch,        (* how many ticks somebody watches the light                 *)
  MaxTicks,     (* a bound on the ticks; Cycle is none                       *)
  PinConfigs    (* the position lights: pin, pattern and offset of each,     *)
                (* and whether the aircraft is armed and has a position      *)

(* 2^32 divided by the 2000 ms of a pulse leaves 1296.  A tick is never so *)
(* late, nor two so near to each other, that a pulse is met in the dark    *)
(* twice running.  An offset is an i16.                                    *)
ASSUME LightsAssumption ==
  /\ ClockSpan \in Nat /\ ClockSpan % 2000 = 1296
  /\ Gaps \subseteq Nat /\ \A gap \in Gaps : 7 <= gap /\ gap <= 1289
  /\ FlashDelays \subseteq Nat /\ \A delay \in FlashDelays, gap \in Gaps : delay <= gap
  /\ FlashMs \in Nat \ {0} /\ Watch \in Nat \ {0, 1} /\ MaxTicks \in Nat
  /\ Cycle \in Nat \ {0} /\ Cycle % 70 = 0
  /\ \A p \in PinConfigs : \A i \in DOMAIN p.lights :
       LET offset == p.lights[i].offset
       IN  offset \in Int /\ -32768 <= offset /\ offset <= 32767

VARIABLES
  led_state, tick_count,   (* LedStateMachine: the state, the ticks and      *)
  last_flash,              (* the time of the last transmission or NoFlash,  *)
  now_ms,                  (* the clock of the last tick                     *)
  color,                   (* the colour of the light                        *)
  pins,                    (* the configuration of the position lights       *)
  watched                  (* history: the colours of the last ticks, since  *)
                           (* the state changed or a flash was seen          *)

lightsVars == <<led_state, tick_count, last_flash, now_ms, color, pins, watched>>

NoFlash == -1

LedStates == {"Boot", "NoGps", "GpsOk", "Demo", "Locked", "Ota", "Error"}

(* led_state_entry *)
Pattern(s) ==
  CASE s = "GpsOk" -> "Solid" [] s = "NoGps" -> "Blink1Hz" [] s = "Error" -> "Blink4Hz"
    [] s = "Locked" -> "BlinkDouble" [] s \in {"Boot", "Demo"} -> "Pulse" [] s = "Ota" -> "Rainbow"

Color(s) ==
  CASE s = "Boot" -> "blue" [] s = "NoGps" -> "yellow" [] s = "GpsOk" -> "green"
    [] s = "Demo" -> "purple" [] s \in {"Locked", "Error"} -> "red" [] s = "Ota" -> "hues"

(* blink_1hz, blink_4hz and blink_double count ticks of 100 ms whatever    *)
(* the clock says; pulse goes by the clock and is dark where its ramp is   *)
(* 0, and rainbow never is.                                                *)
Phase(tick, period) == (tick * 100) % period

BlinkLit(pattern, tick) ==
  CASE pattern = "Blink1Hz"    -> Phase(tick, 1000) < 500
    [] pattern = "Blink4Hz"    -> Phase(tick, 250) < 125
    [] pattern = "BlinkDouble" -> \/ Phase(tick, 1400) < 200
                                  \/ Phase(tick, 1400) \in 400 .. 599
    [] OTHER -> TRUE

PulseLit(ms) ==
  LET phase == ms % 2000
      half  == IF phase < 1000 THEN phase ELSE 2000 - phase
  IN  (half * 255) \div 1000 > 0

Pulses(s) == Pattern(s) = "Pulse"

Blink(s, tick) == IF BlinkLit(Pattern(s), tick) THEN Color(s) ELSE "black"
Pulse(s, ms) == IF PulseLit(ms) THEN Color(s) ELSE "black"

(* Mutant: the blinks go by the clock too. *)
GeneratedByClock(s, tick, ms) == IF Pulses(s) THEN Pulse(s, ms) ELSE Blink(s, ms \div 100)

Generated(s, tick, ms) == IF Pulses(s) THEN Pulse(s, ms) ELSE Blink(s, tick)

-----------------------------------------------------------------------------
(* A point of the 32-bit clock. *)
At(t) == t % ClockSpan

(* tick.  The stamp of a transmission stays, and reads as recent again     *)
(* after a turn of the clock.                                              *)
Tick(gap) ==
  LET next  == (tick_count + 1) % Cycle
      now   == At(now_ms + gap)
      white == last_flash # NoFlash /\ At(now - last_flash) < FlashMs
  IN  /\ tick_count < MaxTicks
      /\ tick_count' = next /\ now_ms' = now
      /\ color' = IF white THEN "white" ELSE Generated(led_state, next, now)
      /\ watched' = IF white THEN <<>>
                    ELSE LET all == Append(watched, color')
                         IN  IF Len(all) > Watch THEN Tail(all) ELSE all
      /\ UNCHANGED <<led_state, last_flash, pins>>

(* set_state *)
SetState(s) ==
  /\ led_state # s /\ led_state' = s /\ watched' = <<>>
  /\ UNCHANGED <<tick_count, last_flash, now_ms, color, pins>>

(* tx_flash, some time after the last tick. *)
TxFlash(delay) ==
  /\ last_flash' = At(now_ms + delay)
  /\ UNCHANGED <<led_state, tick_count, now_ms, color, pins, watched>>

-----------------------------------------------------------------------------
(* The position lights. *)

(* pattern_active *)
PatternActive(pattern, ms, armed, gps_valid) ==
  CASE pattern = 1 -> TRUE
    [] pattern = 2 -> ms % 2000 < 1000
    [] pattern = 3 -> ms % 500 < 250
    [] pattern = 4 -> armed /\ ms % 1000 < 500
    [] pattern = 5 -> gps_valid
    [] OTHER -> FALSE

(* channels_from_config: a light without a pin is left out. *)
Channels == {i \in DOMAIN pins.lights : pins.lights[i].pin >= 0}

(* channel_active: the sum with the offset, cut to the width of the clock. *)
ChannelActive(i) ==
  PatternActive(pins.lights[i].pattern, At(now_ms + pins.lights[i].offset),
                pins.armed, pins.gps_valid)

-----------------------------------------------------------------------------
(* The strip.                                                              *)

BrightnessScalar(pct) == ((pct * 255) \div 100) % 256

(* ws2812_frame: scaled, in the order green, red, blue. *)
Ws2812Frame(rgb, pct) ==
  LET scaled(i) == (rgb[i] * BrightnessScalar(pct)) \div 255
  IN  <<scaled(2), scaled(1), scaled(3)>>

(* hsv_to_rgb: six regions of the wheel, in 16 bits. *)
HsvToRgb(hue, sat, val) ==
  LET region == (hue \div 43) % 256
      remainder == ((hue - region * 43) * 6) % 65536
      p == (val * (255 - sat)) \div 255
      q == (val * (255 - ((sat * remainder) % 65536) \div 255)) \div 255
      t == (val * (255 - ((sat * ((255 - remainder) % 65536)) % 65536) \div 255)) \div 255
  IN  CASE region = 0 -> <<val, t, p>> [] region = 1 -> <<q, val, p>>
        [] region = 2 -> <<p, val, t>> [] region = 3 -> <<p, q, val>>
        [] region = 4 -> <<t, p, val>> [] OTHER -> <<val, p, q>>

-----------------------------------------------------------------------------
LightsInit ==
  /\ led_state = "Boot" /\ tick_count = 0 /\ last_flash = NoFlash /\ now_ms = 0
  /\ color = "black" /\ pins \in PinConfigs /\ watched = <<>>

LightsNext ==
  \/ \E gap \in Gaps : Tick(gap)
  \/ \E s \in LedStates : SetState(s)
  \/ \E delay \in FlashDelays : TxFlash(delay)

(* What the light of a state may show while somebody watches: a blink any  *)
(* piece of its pattern, a pulse its colour and never the dark twice       *)
(* running.                                                                *)
Looks(s) ==
  IF Pulses(s)
  THEN {w \in [1 .. Watch -> {Color(s), "black"}] :
          \A i \in 1 .. Watch - 1 : w[i] = Color(s) \/ w[i + 1] = Color(s)}
  ELSE {[i \in 1 .. Watch |-> Blink(s, (t + i) % Cycle)] : t \in 0 .. Cycle - 1}

AllLooks == [s \in LedStates |-> Looks(s)]

(* No two states look alike to whoever watches for Watch ticks. *)
LooksDiffer ==
  \A s, t \in LedStates : s # t => AllLooks[s] \cap AllLooks[t] = {}

(* Two lights that blink with half a period between them. *)
Opposite(i, j) ==
  LET a == pins.lights[i]
      b == pins.lights[j]
      period == CASE a.pattern = 2 -> 2000 [] a.pattern = 3 -> 500 [] OTHER -> 0
  IN  /\ {i, j} \subseteq Channels /\ a.pattern = b.pattern
      /\ period > 0 /\ (b.offset - a.offset) % period = period \div 2

(* The clock with the offset of a light is in the same turn as without. *)
SameTurn(i) == now_ms + pins.lights[i].offset \in 0 .. ClockSpan - 1

(* led_status.rs:57-161, :199-216, lighting.rs:36-59: whoever watches the  *)
(* light for Watch ticks without a change or a flash sees a look of its    *)
(* state and of no other, although blinks go by the ticks, which come late *)
(* or early, and pulses by the clock.  Of two position lights with half a  *)
(* period between them one is on, unless the offset of one takes it over   *)
(* an end of the clock: the turn of the clock is no multiple of a period,  *)
(* so that near its ends both may be on, or both off (the test :167-175).  *)
LightsTell ==
  /\ Len(watched) = Watch => \A s \in LedStates : watched \in AllLooks[s] <=> s = led_state
  /\ \A i, j \in DOMAIN pins.lights :
       (Opposite(i, j) /\ SameTurn(i) /\ SameTurn(j)) => ChannelActive(i) # ChannelActive(j)
=============================================================================
