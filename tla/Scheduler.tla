----------------------------- MODULE Scheduler -----------------------------
(***************************************************************************)
(* One iteration of the Remote ID task: take the input sample of this      *)
(* tick, merge it into the broadcast state, run the Kalman filter, apply   *)
(* the absolute GPS timeout, pass the transmission gates and send on every *)
(* transport whose rate timer has run out.                                 *)
(*                                                                         *)
(* A timestamp is represented by what the code computes from it: the       *)
(* difference to the clock.  last_update_ms is compared on a u32           *)
(* millisecond clock that wraps, so update_age lives in 0 .. MsMod - 1;    *)
(* the u64 microsecond timers never wrap in the life of a device, so their *)
(* ages saturate at the largest value any comparison tells apart.          *)
(***************************************************************************)
EXTENDS Hub, Integers

CONSTANTS
  Configs,          (* the configurations the device may be given            *)
  Inputs,           (* the samples a tick may receive                        *)
  Steps,            (* the milliseconds that may pass between two ticks      *)
  GpsStaleTimeout,  (* GPS_STALE_TIMEOUT_MS                                  *)
  KalmanTimeout,    (* KALMAN_TIMEOUT_US, in the unit of Steps               *)
  MsMod,            (* 2^32: the modulus of the millisecond clock            *)
  MaxInterval,      (* the longest transmission interval of any Config       *)
  CountMod,         (* 2^32: the modulus of the transmission counters        *)
  StatMod,          (* 2^32: the modulus of the diagnostic counters          *)
  NanMod            (* 2^8: the modulus of the NAN message counter           *)

Transports == {"bcn", "nan", "ble4", "ble5"}

Options == {"DEMO_MODE", "KALMAN_FILTER", "FORCE_ARM_OK", "DONT_SAVE_BASIC_ID",
            "IDENTITY_READY_GATE"}

Protocols == {"Unknown", "Mavlink", "Msp", "Nmea", "None"}

(* The interval of a transport whose configured rate is zero or negative. *)
Never == -1

Config ==
  [options : SUBSET Options, region : Regions, identity : Identity,
   tx_modes : SUBSET Transports, interval : [Transports -> Int],
   bcast_powerup : BOOLEAN, lock_level : Nat]

(* An optional position report: the fields mean nothing unless present. *)
Fix == [present : BOOLEAN, pos : Position, fix_type : Nat, armed : BOOLEAN]

(* InputSample.  A missing relayed identity and one with an empty UAS ID   *)
(* are handled alike, so an empty uas_id stands for both.                  *)
Input ==
  [proto : Protocols, gps : Fix, dronecan : Fix, mavlink_armed : BOOLEAN,
   mavlink_identity : Identity, mavlink_operator : BOOLEAN]

ASSUME ConstantsAssumption ==
  /\ Configs \subseteq Config /\ Inputs \subseteq Input /\ Steps \subseteq Nat
  /\ GpsStaleTimeout \in Nat /\ KalmanTimeout \in Nat /\ MaxInterval \in Nat
  /\ MsMod \in Nat \ {0} /\ NanMod \in Nat \ {0}
  /\ CountMod \in Nat \ {0} /\ StatMod \in Nat \ {0}
  /\ \A c \in Configs : \A t \in Transports : c.interval[t] \in {Never} \cup 0 .. MaxInterval
  \* A tick never outlasts what is left of the clock after the timeout.
  /\ \A d \in Steps : GpsStaleTimeout + d < MsMod

VARIABLES
  cfg,              (* the Config the ticks run on                           *)
  gps,              (* state.gps: position, armed flag, origin of the        *)
                    (* operator position and of the vertical speed           *)
  gps_valid, identity, identity_ready, active_protocol, takeoff_captured,
  operator_location_type, mavlink_armed, active_standard, standard_fallback,
  update_age,       (* now_ms - last_update_ms, mod MsMod                    *)
  alt_reference,    (* the altitude to differentiate against: none yet, or   *)
                    (* one taken this millisecond or earlier                 *)
  kalman,           (* validity and age of the filter                        *)
  tx_age,           (* now_us - last_tx, per transport                       *)
  nan_counter, tx_count, transmissions_count,
  stats, log_cycle, (* the diagnostic counters                               *)
  outcome,          (* the TickOutcome of the last tick                      *)
  sent,             (* the transports that transmitted in the last step      *)
  since_fix,        (* history: true time since a position was taken in,     *)
                    (* saturating at MsMod                                   *)
  ever_sane         (* history: a fix came with a sane identity and position *)

fixVars  == <<gps, gps_valid, active_protocol, takeoff_captured, operator_location_type,
              mavlink_armed, update_age, alt_reference, kalman, since_fix>>
idVars   == <<identity, identity_ready, ever_sane>>
txVars   == <<tx_age, nan_counter, tx_count, transmissions_count>>
logVars  == <<stats, log_cycle>>
cfgVars  == <<cfg, active_standard, standard_fallback>>
vars     == <<fixVars, idVars, txVars, logVars, cfgVars, outcome, sent>>

On(option) == option \in cfg.options

AtMost(bound, n) == IF n > bound THEN bound ELSE n

-----------------------------------------------------------------------------
(* Clocks: the ages as this tick reads them, d milliseconds after the last. *)

Wrapped(n) == IF n >= MsMod THEN n - MsMod ELSE n

(* Mutant: the difference is not taken on 32 bits. *)
UpdateAgeUnwrapped(d) == update_age + d

UpdateAgeNow(d) == Wrapped(update_age + d)
KalmanAgeNow(d) == AtMost(KalmanTimeout + 1, kalman.age + d)
TxAgeNow(t, d)  == AtMost(MaxInterval, tx_age[t] + d)

-----------------------------------------------------------------------------
(* Ingestion: the primary parser, then DroneCAN, then the demo trajectory. *)

HasSample(in) == in.gps.present \/ in.dronecan.present
Sample(in)    == IF in.gps.present THEN in.gps ELSE in.dronecan

(* A report is taken in with a 2D fix, or armed under FORCE_ARM_OK. *)
Usable(in) ==
  /\ HasSample(in)
  /\ Sample(in).pos # "origin"
  /\ (On("FORCE_ARM_OK") /\ Sample(in).armed) \/ Sample(in).fix_type >= 2

DemoRuns(in) == ~HasSample(in) /\ On("DEMO_MODE")

HadGps(in) == Usable(in) \/ DemoRuns(in)

ActiveProtocol(in) ==
  IF (~in.gps.present /\ in.dronecan.present) \/ DemoRuns(in) THEN "None" ELSE in.proto

Differentiated(in) == ~On("KALMAN_FILTER") /\ in.proto \in {"Msp", "Nmea"}

AltReferenceNow(d) == IF alt_reference = "now" /\ d > 0 THEN "earlier" ELSE alt_reference

(* state.gps once the sample is merged. *)
MergedGps(in, d) ==
  IF Usable(in)
  THEN [pos      |-> Sample(in).pos,
        armed    |-> IF in.proto = "Mavlink" THEN in.mavlink_armed ELSE Sample(in).armed,
        operator |-> IF in.proto = "Mavlink" /\ in.mavlink_operator THEN "relayed" ELSE "config",
        climb    |-> IF Differentiated(in) /\ AltReferenceNow(d) = "earlier" THEN "derived" ELSE "reported"]
  ELSE IF DemoRuns(in)
  THEN [pos |-> "inside", armed |-> TRUE, operator |-> "config", climb |-> "reported"]
  ELSE gps

(* build_identity_from_config: relayed authentication pages stay attached. *)
ConfigIdentity(demo) ==
  [cfg.identity EXCEPT !.ext_auth = identity.ext_auth,
                       !.uas_id_2 = IF demo THEN identity.uas_id_2 ELSE @]

MergedIdentity(in) ==
  IF Usable(in)
  THEN LET id == IF in.proto = "Mavlink" /\ in.mavlink_identity.uas_id # "empty"
                 THEN in.mavlink_identity ELSE ConfigIdentity(FALSE)
       IN  IF On("DONT_SAVE_BASIC_ID")
           THEN [id EXCEPT !.uas_id = "empty", !.uas_id_2 = "empty"] ELSE id
  ELSE IF DemoRuns(in) THEN ConfigIdentity(TRUE) ELSE identity

SaneNow(in) ==
  /\ IdentityIsSane(MergedIdentity(in), cfg.region)
  /\ PositionIsSane(Sample(in).pos)

(* Mutant: any usable fix grants readiness. *)
ReadyOnAnyFix(in) == identity_ready \/ DemoRuns(in) \/ Usable(in)

(* update_identity_ready: readiness is granted, never taken back. *)
ReadyAfter(in) ==
  \/ identity_ready
  \/ DemoRuns(in)
  \/ Usable(in) /\ (On("IDENTITY_READY_GATE") => SaneNow(in))

TakeoffAfter(in) ==
  takeoff_captured \/ (Usable(in) /\ Sample(in).fix_type >= 3 /\ Sample(in).pos # "meridian")

-----------------------------------------------------------------------------
(* The filter and the timeout. *)

KalmanRuns == On("KALMAN_FILTER") /\ ~On("DEMO_MODE")

KalmanUpdates(in) == Usable(in) /\ Sample(in).fix_type >= 2

(* Kalman3d::update and Kalman3d::predict: both stamp the filter with the  *)
(* clock of the tick, predict only a filter that is valid.                 *)
NewKalman == [valid |-> FALSE, age |-> 0]

Predict(k) == IF k.valid THEN [k EXCEPT !.age = 0] ELSE k

Updated == [valid |-> TRUE, age |-> 0]

KalmanAfter(in, d) ==
  LET k == [kalman EXCEPT !.age = KalmanAgeNow(d)]
  IN  IF ~KalmanRuns THEN k
      ELSE Predict(IF KalmanUpdates(in) THEN Updated ELSE k)

ValidAge(k) == k.valid /\ k.age <= KalmanTimeout

Estimated(in, d) == KalmanRuns /\ ValidAge(KalmanAfter(in, d))

(* Kalman3d::get: position, speed and climb are those of the filter. *)
Smoothed(fix) == [fix EXCEPT !.pos = "estimate", !.climb = "estimate"]

GpsAfter(in, d) == IF Estimated(in, d) THEN Smoothed(MergedGps(in, d)) ELSE MergedGps(in, d)

(* gps_valid before the absolute timeout looks at it. *)
ValidBeforeTimeout(in, d) ==
  \/ HadGps(in)
  \/ Estimated(in, d)
  \/ gps_valid /\ ~KalmanRuns

(* Mutants: an estimate, or a rejected sample, counts as an update. *)
UpdateAgeEstimated(in, d) == IF HadGps(in) \/ Estimated(in, d) THEN 0 ELSE UpdateAgeNow(d)
UpdateAgeRejected(in, d)  == IF HasSample(in) \/ DemoRuns(in) THEN 0 ELSE UpdateAgeNow(d)

UpdateAgeAfter(in, d) == IF HadGps(in) THEN 0 ELSE UpdateAgeNow(d)

TimedOut(in, d) == ValidBeforeTimeout(in, d) /\ UpdateAgeAfter(in, d) > GpsStaleTimeout

(* Mutant: the timeout is reported and the position kept. *)
ValidKept(in, d) == ValidBeforeTimeout(in, d)

ValidAfter(in, d) == ValidBeforeTimeout(in, d) /\ ~TimedOut(in, d)

-----------------------------------------------------------------------------
(* Transmission. *)

(* rate_allowed. *)
RateAllowed(t, d) == cfg.interval[t] # Never /\ TxAgeNow(t, d) >= cfg.interval[t]

Gates(in, d) ==
  /\ ValidAfter(in, d) \/ cfg.bcast_powerup
  /\ ActiveProtocol(in) # "Unknown"
  /\ On("IDENTITY_READY_GATE") => ReadyAfter(in)

Firing(in, d) == {t \in cfg.tx_modes : Gates(in, d) /\ RateAllowed(t, d)}

One(b) == IF b THEN 1 ELSE 0

(* Mutant: the total counts ticks rather than frames. *)
CountTransmittingTicks(fire) ==
  /\ tx_count' = [t \in Transports |-> (tx_count[t] + One(t \in fire)) % CountMod]
  /\ nan_counter' = (nan_counter + One("nan" \in fire)) % NanMod
  /\ transmissions_count' = (transmissions_count + One(fire # {})) % CountMod

CountFrames(fire) ==
  /\ tx_count' = [t \in Transports |-> (tx_count[t] + One(t \in fire)) % CountMod]
  /\ nan_counter' = (nan_counter + One("nan" \in fire)) % NanMod
  /\ transmissions_count' =
       (transmissions_count + One("bcn" \in fire) + One("nan" \in fire)
                            + One("ble4" \in fire) + One("ble5" \in fire)) % CountMod

(* Mutant: one rate timer for all transports. *)
UpdateSharedTimer(fire, d) ==
  /\ sent' = fire
  /\ tx_age' = [t \in Transports |-> IF fire # {} THEN 0 ELSE TxAgeNow(t, d)]
  /\ CountFrames(fire)

UpdateTransmissions(fire, d) ==
  /\ sent' = fire
  /\ tx_age' = [t \in Transports |-> IF t \in fire THEN 0 ELSE TxAgeNow(t, d)]
  /\ CountFrames(fire)

CountTick(in) ==
  /\ stats' = [ticks         |-> (stats.ticks + 1) % StatMod,
               gps_updates   |-> (stats.gps_updates + One(Usable(in))) % StatMod,
               gps_discarded |-> (stats.gps_discarded + One(HasSample(in) /\ ~Usable(in))) % StatMod]
  /\ log_cycle' = (log_cycle + 1) % StatMod

Led(valid) ==
  IF cfg.lock_level >= 2 THEN "Locked"
  ELSE IF On("DEMO_MODE") THEN "Demo"
  ELSE IF valid THEN "GpsOk" ELSE "NoGps"

-----------------------------------------------------------------------------
(* What others see of the scheduler. *)

(* state_snapshot of the controller; auth_enabled is never set. *)
Snapshot ==
  [gps |-> gps, identity |-> identity, active_protocol |-> active_protocol,
   last_update |-> update_age, transmissions_count |-> transmissions_count,
   counts |-> tx_count, gps_valid |-> gps_valid, identity_ready |-> identity_ready,
   mavlink_armed |-> mavlink_armed, operator_location_type |-> operator_location_type,
   auth_enabled |-> FALSE, active_standard |-> active_standard,
   standard_fallback |-> standard_fallback, takeoff_captured |-> takeoff_captured,
   stats |-> stats]

(* state_to_json, GET /api/status; its uptime is the stamp of the position. *)
Status ==
  LET s == Snapshot
  IN  [protocol |-> s.active_protocol, gps_valid |-> s.gps_valid, position |-> s.gps.pos,
       standard |-> s.active_standard, standard_fallback |-> s.standard_fallback,
       tx_total |-> s.transmissions_count, tx |-> s.counts,
       takeoff_captured |-> s.takeoff_captured, uptime |-> s.last_update,
       ticks |-> s.stats.ticks, gps_updates |-> s.stats.gps_updates,
       gps_discarded |-> s.stats.gps_discarded]

-----------------------------------------------------------------------------
(* Scheduler::tick, d milliseconds after the previous one. *)
Tick(in, d) ==
  /\ active_protocol' = ActiveProtocol(in)
  /\ gps' = GpsAfter(in, d)
  /\ gps_valid' = ValidAfter(in, d)
  /\ identity' = MergedIdentity(in)
  /\ identity_ready' = ReadyAfter(in)
  /\ takeoff_captured' = TakeoffAfter(in)
  /\ mavlink_armed' = IF Usable(in) /\ in.proto = "Mavlink" THEN in.mavlink_armed ELSE mavlink_armed
  /\ operator_location_type' = IF Usable(in) /\ in.proto = "Mavlink" /\ in.mavlink_operator
                               THEN 1 ELSE operator_location_type
  /\ alt_reference' = IF Usable(in) /\ Differentiated(in) THEN "now" ELSE AltReferenceNow(d)
  /\ update_age' = UpdateAgeAfter(in, d)
  /\ kalman' = KalmanAfter(in, d)
  /\ UpdateTransmissions(Firing(in, d), d)
  /\ CountTick(in)
  /\ outcome' = [had_gps |-> HadGps(in), gps_stale |-> TimedOut(in, d),
                 led |-> Led(ValidAfter(in, d))]
  /\ since_fix' = IF HadGps(in) THEN 0 ELSE AtMost(MsMod, since_fix + d)
  /\ ever_sane' = (ever_sane \/ (Usable(in) /\ SaneNow(in)))
  /\ UNCHANGED cfgVars

(* Scheduler::apply_config, with the Config the following ticks run on. *)
ApplyConfig(c) ==
  /\ cfg' = c
  /\ active_standard' = ActiveStandard(c.region)
  /\ standard_fallback' = ~HasEncoder(ActiveStandard(c.region))
  /\ sent' = {}
  /\ UNCHANGED <<fixVars, idVars, txVars, logVars, outcome>>

Init ==
  /\ cfg \in Configs
  /\ active_standard = ActiveStandard(cfg.region)
  /\ standard_fallback = ~HasEncoder(ActiveStandard(cfg.region))
  /\ gps = [pos |-> "origin", armed |-> FALSE, operator |-> "none", climb |-> "reported"]
  /\ gps_valid = FALSE /\ active_protocol = "Unknown" /\ takeoff_captured = FALSE
  /\ operator_location_type = 0 /\ mavlink_armed = FALSE /\ alt_reference = "none"
  /\ identity = NoIdentity /\ identity_ready = FALSE /\ ever_sane = FALSE
  /\ update_age = 0 /\ since_fix = MsMod
  /\ kalman = NewKalman
  /\ tx_age = [t \in Transports |-> 0] /\ tx_count = [t \in Transports |-> 0]
  /\ nan_counter = 0 /\ transmissions_count = 0 /\ log_cycle = 0
  /\ stats = [ticks |-> 0, gps_updates |-> 0, gps_discarded |-> 0]
  /\ outcome = [had_gps |-> FALSE, gps_stale |-> FALSE, led |-> "NoGps"]
  /\ sent = {}

Next ==
  \/ \E in \in Inputs, d \in Steps : Tick(in, d)
  \/ \E c \in Configs : ApplyConfig(c)

Spec == Init /\ [][Next]_vars

(* The task loops for ever at a priority nothing starves, and the clock    *)
(* advances between some of its iterations.                                *)
FairSpec == Spec /\ WF_vars(\E in \in Inputs, d \in Steps \ {0} : Tick(in, d))

-----------------------------------------------------------------------------
TypeOK ==
  /\ cfg \in Configs
  /\ gps \in [pos : Position, armed : BOOLEAN, operator : {"none", "config", "relayed"},
              climb : {"reported", "derived", "estimate"}]
  /\ gps_valid \in BOOLEAN /\ identity \in Identity /\ identity_ready \in BOOLEAN
  /\ active_protocol \in Protocols /\ takeoff_captured \in BOOLEAN
  /\ operator_location_type \in {0, 1} /\ mavlink_armed \in BOOLEAN
  /\ active_standard \in Standards /\ standard_fallback \in BOOLEAN
  /\ update_age \in 0 .. MsMod - 1 /\ alt_reference \in {"none", "now", "earlier"}
  /\ kalman \in [valid : BOOLEAN, age : 0 .. KalmanTimeout + 1]
  /\ tx_age \in [Transports -> 0 .. MaxInterval]
  /\ nan_counter \in 0 .. NanMod - 1
  /\ tx_count \in [Transports -> 0 .. CountMod - 1]
  /\ transmissions_count \in 0 .. CountMod - 1 /\ log_cycle \in 0 .. StatMod - 1
  /\ stats \in [ticks : 0 .. StatMod - 1, gps_updates : 0 .. StatMod - 1,
                gps_discarded : 0 .. StatMod - 1]
  /\ outcome \in [had_gps : BOOLEAN, gps_stale : BOOLEAN,
                  led : {"Locked", "Demo", "GpsOk", "NoGps"}]
  /\ sent \in SUBSET Transports
  /\ since_fix \in 0 .. MsMod /\ ever_sane \in BOOLEAN

(* A position the device calls valid entered no longer ago than the        *)
(* absolute timeout; the one exception is a running filter whose last fix  *)
(* is a whole turn of the millisecond clock old.                           *)
Fresh == since_fix <= GpsStaleTimeout \/ (kalman.valid /\ since_fix = MsMod)

(* scheduler.rs:357-371: whatever sequence of fixes, losses, filter and    *)
(* option changes came before, a frame sent without bcast_powerup and a    *)
(* GpsOk light both mean a position no older than the timeout.             *)
FreshPosition ==
  (outcome.led = "GpsOk" \/ (sent # {} /\ ~cfg.bcast_powerup)) => Fresh

(* scheduler.rs:126,318: when every configuration the device is given has  *)
(* the readiness gate and no demo mode, nothing goes on air before a fix   *)
(* has come with a sane identity at a sane position.                       *)
GateAlways ==
  \A c \in Configs : "IDENTITY_READY_GATE" \in c.options /\ "DEMO_MODE" \notin c.options

NothingOnAirUnearned == GateAlways => (sent # {} => ever_sane)

(* scheduler.rs:131-173, state.rs:53-92: what a reader of /api/status sees *)
(* is of one piece at any moment: the counters of the transports and the   *)
(* total describe the same frames, as the NAN message counter does in its  *)
(* own width, and a standard without an encoder is shown with its fallback. *)
CountersAgree ==
  LET tx == Status.tx
  IN  /\ Status.tx_total = (tx["bcn"] + tx["nan"] + tx["ble4"] + tx["ble5"]) % CountMod
      /\ CountMod % NanMod = 0 => nan_counter = tx["nan"] % NanMod
      /\ HasEncoder(Status.standard) \/ Status.standard_fallback

(* scheduler.rs:43: "True when the absolute GPS timeout just expired": two *)
(* ticks with no position taken in between do not both report it.  With    *)
(* the filter on the code does report it again and again.                  *)
StaleOnce ==
  [][(since_fix' > since_fix /\ outcome'.gps_stale) => ~outcome.gps_stale]_vars

(* scheduler.rs:357-371: with the filter never enabled, when no position   *)
(* comes in any more the device ends up, and stays, without a valid one.   *)
LossIsNoticed == <>[](~outcome.had_gps) => <>[](~gps_valid)

(* scheduler.rs:77-87: no transport starves: one whose gates stay open     *)
(* transmits again and again, whatever the others do.                      *)
MaySend(t) ==
  /\ gps_valid \/ cfg.bcast_powerup
  /\ active_protocol # "Unknown"
  /\ On("IDENTITY_READY_GATE") => identity_ready
  /\ t \in cfg.tx_modes /\ cfg.interval[t] # Never

NoTransportStarves == \A t \in Transports : <>[]MaySend(t) => []<>(t \in sent)
=============================================================================
