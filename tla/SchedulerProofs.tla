-------------------------- MODULE SchedulerProofs --------------------------
(***************************************************************************)
(* What Scheduler guarantees for every set of configurations and samples   *)
(* and every value of the timeouts and moduli, and what the MAVLink parser *)
(* and the scheduler together guarantee for every set of frames, every     *)
(* limit and every width of the clock (MavlinkFeed).                       *)
(***************************************************************************)
EXTENDS MavlinkFeed, Lemmas, TLAPS

GpsRecord ==
  [pos : Position, armed : BOOLEAN, operator : {"none", "config", "relayed"},
   climb : {"reported", "derived", "estimate"}]

Kalman == [valid : BOOLEAN, age : 0 .. KalmanTimeout + 1]

(* What a tick does is typed for every sample there can be: the Inputs of  *)
(* this module, and what the sources of other modules make.                *)
LEMMA InputTyped ==
  ASSUME NEW in \in Input
  PROVE  Sample(in) \in Fix
  BY DEF Input, Sample, Fix

(* The merged position has its type,                                       *)
LEMMA MergedGpsTyped ==
  ASSUME TypeOK, NEW in \in Input, NEW d \in Steps
  PROVE  MergedGps(in, d) \in GpsRecord
  BY InputTyped DEF TypeOK, MergedGps, GpsRecord, Input, Fix, Position

(* and so have the merged identity,                                        *)
LEMMA MergedIdentityTyped ==
  ASSUME TypeOK, NEW in \in Input
  PROVE  MergedIdentity(in) \in Identity
<1>1. cfg.identity \in Identity
  BY ConstantsAssumption DEF TypeOK, Config
<1>2. \A demo \in BOOLEAN : ConfigIdentity(demo) \in Identity
  BY <1>1 DEF TypeOK, ConfigIdentity, Identity
<1>3. in.mavlink_identity \in Identity
  BY InputTyped DEF Input
<1> DEFINE id == IF in.proto = "Mavlink" /\ in.mavlink_identity.uas_id # "empty"
                 THEN in.mavlink_identity ELSE ConfigIdentity(FALSE)
<1>4. id \in Identity
  BY <1>2, <1>3
<1>5. [id EXCEPT !.uas_id = "empty", !.uas_id_2 = "empty"] \in Identity
  BY <1>4 DEF Identity, FieldClass
<1> HIDE DEF id
<1>6. QED
  BY <1>2, <1>4, <1>5 DEF MergedIdentity, TypeOK, id

(* the filter after a tick,                                                *)
LEMMA KalmanTyped ==
  ASSUME TypeOK, NEW in \in Input, NEW d \in Steps
  PROVE  KalmanAfter(in, d) \in Kalman
<1> DEFINE k == [kalman EXCEPT !.age = KalmanAgeNow(d)]
           u == IF KalmanUpdates(in) THEN Updated ELSE k
<1>1. k \in Kalman
  BY ConstantsAssumption DEF TypeOK, KalmanAgeNow, AtMost, Kalman
<1>2. Updated \in Kalman
  BY ConstantsAssumption DEF Updated, Kalman
<1>3. \A x \in Kalman : Predict(x) \in Kalman
  BY ConstantsAssumption DEF Predict, Kalman
<1> HIDE DEF k
<1>4. u \in Kalman
  BY <1>1, <1>2
<1> HIDE DEF u
<1>5. QED
  BY <1>1, <1>3, <1>4 DEF KalmanAfter, k, u

(* the ages before the tick,                                               *)
LEMMA AgesTyped ==
  ASSUME TypeOK, NEW in \in Input, NEW d \in Steps
  PROVE  /\ UpdateAgeNow(d) \in 0 .. MsMod - 1
         /\ \A t \in Transports : TxAgeNow(t, d) \in 0 .. MaxInterval
  BY ConstantsAssumption DEF TypeOK, UpdateAgeNow, Wrapped, TxAgeNow, AtMost

(* and what the rate timers and the counters become.                       *)
LEMMA TransmissionsTyped ==
  ASSUME TypeOK, NEW in \in Input, NEW d \in Steps,
         UpdateTransmissions(Firing(in, d), d)
  PROVE  /\ sent' \in SUBSET Transports
         /\ tx_age' \in [Transports -> 0 .. MaxInterval]
         /\ tx_count' \in [Transports -> 0 .. CountMod - 1]
         /\ nan_counter' \in 0 .. NanMod - 1
         /\ transmissions_count' \in 0 .. CountMod - 1
<1> DEFINE fire == Firing(in, d)
<1>1. fire \in SUBSET Transports
  BY ConstantsAssumption DEF TypeOK, Config, Firing
<1>2. tx_age' \in [Transports -> 0 .. MaxInterval]
  BY AgesTyped, ConstantsAssumption DEF UpdateTransmissions, CountFrames
<1>3. \A b \in BOOLEAN : One(b) \in Nat
  BY DEF One
<1> HIDE DEF fire
<1>4. /\ nan_counter + One("nan" \in fire) \in Nat
      /\ \A t \in Transports : tx_count[t] + One(t \in fire) \in Nat
      /\ transmissions_count + One("bcn" \in fire) + One("nan" \in fire)
                             + One("ble4" \in fire) + One("ble5" \in fire) \in Nat
  BY <1>3, ConstantsAssumption DEF TypeOK, One
<1>5. tx_count' \in [Transports -> 0 .. CountMod - 1]
  BY <1>4, ModBounded, ConstantsAssumption DEF UpdateTransmissions, CountFrames, fire
<1>6. QED
  BY <1>1, <1>2, <1>4, <1>5, ModBounded, ConstantsAssumption DEF UpdateTransmissions, CountFrames, fire

(* A tick keeps the type of every variable.                                *)
LEMMA TickTyped ==
  ASSUME TypeOK, NEW in \in Input, NEW d \in Steps, Tick(in, d)
  PROVE  TypeOK'
<1>1. gps' \in GpsRecord
  BY MergedGpsTyped DEF Tick, GpsAfter, Smoothed, GpsRecord, Position
<1>2. identity' \in Identity
  BY MergedIdentityTyped DEF Tick
<1>3. kalman' \in Kalman
  BY KalmanTyped DEF Tick
<1>4. update_age' \in 0 .. MsMod - 1
  BY AgesTyped, ConstantsAssumption DEF Tick, UpdateAgeAfter
<1>5. active_protocol' \in Protocols
  BY InputTyped DEF Tick, ActiveProtocol, Input, Protocols
<1>6. mavlink_armed' \in BOOLEAN
  BY InputTyped DEF Tick, Input, TypeOK
<1>7. since_fix' \in 0 .. MsMod
  BY ConstantsAssumption DEF Tick, TypeOK, AtMost
<1>8. /\ gps_valid' \in BOOLEAN /\ identity_ready' \in BOOLEAN /\ takeoff_captured' \in BOOLEAN
      /\ alt_reference' \in {"none", "now", "earlier"} /\ ever_sane' \in BOOLEAN
  BY DEF Tick, ValidAfter, ValidBeforeTimeout, ReadyAfter, TakeoffAfter, TypeOK, AltReferenceNow,
         HadGps, Estimated, TimedOut, DemoRuns, Usable
<1>9. outcome' \in [had_gps : BOOLEAN, gps_stale : BOOLEAN,
                    led : {"Locked", "Demo", "GpsOk", "NoGps"}]
  BY DEF Tick, HadGps, Usable, DemoRuns, TimedOut, ValidBeforeTimeout, Led
<1>10. operator_location_type' \in {0, 1}
  BY DEF Tick, TypeOK
<1>11. UpdateTransmissions(Firing(in, d), d) /\ UNCHANGED cfgVars
  BY DEF Tick
<1>12. /\ log_cycle' \in 0 .. StatMod - 1
       /\ stats' \in [ticks : 0 .. StatMod - 1, gps_updates : 0 .. StatMod - 1,
                     gps_discarded : 0 .. StatMod - 1]
  <2>1. /\ log_cycle + 1 \in Nat /\ stats.ticks + 1 \in Nat
        /\ \A b \in BOOLEAN : stats.gps_updates + One(b) \in Nat /\ stats.gps_discarded + One(b) \in Nat
    BY ConstantsAssumption DEF TypeOK, One
  <2>2. Usable(in) \in BOOLEAN /\ (HasSample(in) /\ ~Usable(in)) \in BOOLEAN
    BY DEF Usable
  <2>3. /\ (log_cycle + 1) % StatMod \in 0 .. StatMod - 1
        /\ (stats.ticks + 1) % StatMod \in 0 .. StatMod - 1
        /\ (stats.gps_updates + One(Usable(in))) % StatMod \in 0 .. StatMod - 1
        /\ (stats.gps_discarded + One(HasSample(in) /\ ~Usable(in))) % StatMod \in 0 .. StatMod - 1
    BY <2>1, <2>2, ModBounded, ConstantsAssumption
  <2>4. QED
    BY <2>3 DEF Tick, CountTick
<1>13. QED
  BY <1>1, <1>2, <1>3, <1>4, <1>5, <1>6, <1>7, <1>8, <1>9, <1>10, <1>11, <1>12, TransmissionsTyped
     DEF TypeOK, cfgVars, GpsRecord, Kalman

(* The first state is typed.                                               *)
LEMMA SchedulerStartsTyped ==
  ASSUME Init
  PROVE  TypeOK
<1>1. /\ active_standard \in Standards /\ standard_fallback \in BOOLEAN
      /\ identity \in Identity /\ active_protocol \in Protocols
      /\ gps \in GpsRecord
  BY DEF Init, Standards, ActiveStandard, HasEncoder, Identity, FieldClass, NoIdentity,
         Protocols, GpsRecord, Position
<1>2. /\ tx_age \in [Transports -> 0 .. MaxInterval]
      /\ tx_count \in [Transports -> 0 .. CountMod - 1]
      /\ nan_counter \in 0 .. NanMod - 1 /\ transmissions_count \in 0 .. CountMod - 1
      /\ log_cycle \in 0 .. StatMod - 1
      /\ stats \in [ticks : 0 .. StatMod - 1, gps_updates : 0 .. StatMod - 1,
                    gps_discarded : 0 .. StatMod - 1]
  BY ConstantsAssumption DEF Init
<1>3. /\ kalman \in Kalman /\ update_age \in 0 .. MsMod - 1 /\ since_fix \in 0 .. MsMod
  BY ConstantsAssumption DEF Init, NewKalman, Kalman
<1>4. outcome \in [had_gps : BOOLEAN, gps_stale : BOOLEAN,
                   led : {"Locked", "Demo", "GpsOk", "NoGps"}]
  BY DEF Init
<1>5. QED
  BY <1>1, <1>2, <1>3, <1>4 DEF Init, NewKalman, TypeOK, GpsRecord, Kalman

(* A new configuration keeps the types.                                    *)
LEMMA ApplyConfigTyped ==
  ASSUME TypeOK, NEW c \in Configs, ApplyConfig(c)
  PROVE  TypeOK'
  BY DEF ApplyConfig, TypeOK, fixVars, idVars, txVars, logVars, ActiveStandard, HasEncoder, Standards

(* Every variable keeps its type, whatever the configurations and samples. *)
THEOREM SchedulerTypeCorrect == Spec => []TypeOK
<1>1. Init => TypeOK
  BY SchedulerStartsTyped
<1>2. TypeOK /\ [Next]_vars => TypeOK'
  <2> SUFFICES ASSUME TypeOK, [Next]_vars PROVE TypeOK'
    OBVIOUS
  <2>1. ASSUME NEW in \in Inputs, NEW d \in Steps, Tick(in, d) PROVE TypeOK'
    BY <2>1, TickTyped, ConstantsAssumption
  <2>2. ASSUME NEW c \in Configs, ApplyConfig(c) PROVE TypeOK'
    BY <2>2, ApplyConfigTyped
  <2>3. CASE UNCHANGED vars
    BY <2>3 DEF vars, fixVars, idVars, txVars, logVars, cfgVars, TypeOK
  <2>4. QED
    BY <2>1, <2>2, <2>3 DEF Next
<1>3. QED
  BY <1>1, <1>2, PTL DEF Spec

-----------------------------------------------------------------------------
(* What makes FreshPosition inductive: the code's wrapped difference is    *)
(* the true age as long as the clock has not turned since the last fix.    *)
AgeIsTrue == since_fix < MsMod => update_age = since_fix

ValidIsFresh == gps_valid => Fresh

LitOnlyWhenValid == outcome.led = "GpsOk" => gps_valid

SentOnlyWhenValid == (sent # {} /\ ~cfg.bcast_powerup) => gps_valid

FreshInv == AgeIsTrue /\ ValidIsFresh /\ LitOnlyWhenValid /\ SentOnlyWhenValid

(* A tick keeps the age of the code and the true one together.             *)
LEMMA TickKeepsFresh ==
  ASSUME TypeOK, FreshInv, NEW in \in Input, NEW d \in Steps, Tick(in, d)
  PROVE  FreshInv'
<1> USE ConstantsAssumption
<1>1. AgeIsTrue'
  BY DEF FreshInv, AgeIsTrue, Tick, TypeOK, UpdateAgeAfter, UpdateAgeNow, Wrapped, AtMost
<1>2. ValidIsFresh'
  <2> SUFFICES ASSUME gps_valid' PROVE Fresh'
    BY DEF ValidIsFresh
  <2>a. UpdateAgeAfter(in, d) \in Nat
    BY AgesTyped DEF UpdateAgeAfter
  <2>b. ValidBeforeTimeout(in, d) /\ ~(UpdateAgeAfter(in, d) > GpsStaleTimeout)
    BY DEF Tick, ValidAfter, TimedOut
  <2>1. ValidBeforeTimeout(in, d) /\ UpdateAgeAfter(in, d) <= GpsStaleTimeout
    BY <2>a, <2>b
  <2>2. CASE HadGps(in)
    BY <2>2 DEF Tick, Fresh
  <2>3. CASE since_fix' < MsMod
    BY <2>1, <2>3, <1>1 DEF AgeIsTrue, Fresh, Tick
  <2>4. CASE ~HadGps(in) /\ ~(since_fix' < MsMod)
    <3>1. since_fix' = MsMod /\ since_fix + d >= MsMod
      BY <2>4 DEF Tick, AtMost, TypeOK
    <3>2. CASE Estimated(in, d)
      BY <3>1, <3>2 DEF Estimated, ValidAge, Tick, Fresh
    <3>3. CASE gps_valid
      <4>1. kalman.valid
        BY <3>1, <3>3 DEF FreshInv, ValidIsFresh, Fresh, TypeOK
      <4>2. kalman'.valid
        BY <4>1 DEF Tick, KalmanAfter, Predict, Updated, TypeOK
      <4>3. QED
        BY <3>1, <4>2 DEF Fresh
    <3>4. QED
      BY <2>1, <2>4, <3>2, <3>3 DEF ValidBeforeTimeout
  <2>5. QED
    BY <2>2, <2>3, <2>4
<1>3. LitOnlyWhenValid'
  BY DEF LitOnlyWhenValid, Tick, Led
<1>4. SentOnlyWhenValid'
  BY DEF SentOnlyWhenValid, Tick, UpdateTransmissions, Firing, Gates, cfgVars
<1>5. QED
  BY <1>1, <1>2, <1>3, <1>4 DEF FreshInv

(* No interleaving of fixes, losses and configuration changes lets a       *)
(* position older than the timeout go on air or light the GpsOk LED.       *)
THEOREM PositionsOnAirAreFresh == Spec => []FreshPosition
<1>1. Init => FreshInv
  BY ConstantsAssumption
     DEF Init, NewKalman, FreshInv, AgeIsTrue, ValidIsFresh, LitOnlyWhenValid, SentOnlyWhenValid
<1>2. TypeOK /\ FreshInv /\ [Next]_vars => FreshInv'
  <2> SUFFICES ASSUME TypeOK, FreshInv, [Next]_vars PROVE FreshInv'
    OBVIOUS
  <2>1. ASSUME NEW in \in Inputs, NEW d \in Steps, Tick(in, d) PROVE FreshInv'
    BY <2>1, TickKeepsFresh, ConstantsAssumption
  <2>2. ASSUME NEW c \in Configs, ApplyConfig(c) PROVE FreshInv'
    BY <2>2 DEF ApplyConfig, fixVars, FreshInv, AgeIsTrue, ValidIsFresh, LitOnlyWhenValid,
                SentOnlyWhenValid, Fresh
  <2>3. CASE UNCHANGED vars
    BY <2>3 DEF vars, fixVars, cfgVars, FreshInv, AgeIsTrue, ValidIsFresh, LitOnlyWhenValid,
                SentOnlyWhenValid, Fresh
  <2>4. QED
    BY <2>1, <2>2, <2>3 DEF Next
<1>3. FreshInv => FreshPosition
  BY DEF FreshInv, FreshPosition, ValidIsFresh, LitOnlyWhenValid, SentOnlyWhenValid
<1>4. QED
  BY <1>1, <1>2, <1>3, SchedulerTypeCorrect, PTL DEF Spec

-----------------------------------------------------------------------------
(* Readiness rests on a sane fix, and a frame under the gate on readiness. *)
EarnedInv == (identity_ready => ever_sane) /\ (sent # {} => ever_sane)

(* With the gate in every configuration and demo mode in none, nothing     *)
(* goes on air before a fix came with a sane identity and position.        *)
THEOREM GateIsEarned == Spec => []NothingOnAirUnearned
<1>1. CASE ~GateAlways
  BY <1>1, PTL DEF NothingOnAirUnearned
<1>2. CASE GateAlways
  <2>1. Init => EarnedInv
    BY DEF Init, EarnedInv
  <2>2. TypeOK /\ EarnedInv /\ [Next]_vars => EarnedInv'
    <3> SUFFICES ASSUME TypeOK, EarnedInv, [Next]_vars PROVE EarnedInv'
      OBVIOUS
    <3>1. ASSUME NEW in \in Inputs, NEW d \in Steps, Tick(in, d) PROVE EarnedInv'
      <4>1. On("IDENTITY_READY_GATE") /\ ~On("DEMO_MODE")
        BY <1>2 DEF GateAlways, On, TypeOK
      <4>2. identity_ready' => ever_sane'
        BY <3>1, <4>1 DEF Tick, ReadyAfter, DemoRuns, EarnedInv
      <4>3. sent' # {} => identity_ready'
        BY <3>1, <4>1 DEF Tick, UpdateTransmissions, Firing, Gates
      <4>4. QED
        BY <4>2, <4>3 DEF EarnedInv
    <3>2. ASSUME NEW c \in Configs, ApplyConfig(c) PROVE EarnedInv'
      BY <3>2 DEF ApplyConfig, idVars, EarnedInv
    <3>3. CASE UNCHANGED vars
      BY <3>3 DEF vars, idVars, EarnedInv
    <3>4. QED
      BY <3>1, <3>2, <3>3 DEF Next
  <2>3. EarnedInv => NothingOnAirUnearned
    BY DEF EarnedInv, NothingOnAirUnearned
  <2>4. QED
    BY <2>1, <2>2, <2>3, SchedulerTypeCorrect, PTL DEF Spec
<1>3. QED
  BY <1>1, <1>2

-----------------------------------------------------------------------------
(* The counters, all of them modulo powers of two of their own.            *)
FramesCounted ==
  transmissions_count = (tx_count["bcn"] + tx_count["nan"] + tx_count["ble4"] + tx_count["ble5"]) % CountMod

NanCounted == CountMod % NanMod = 0 => nan_counter = tx_count["nan"] % NanMod

StandardKnown == HasEncoder(active_standard) \/ standard_fallback

CountInv == FramesCounted /\ NanCounted /\ StandardKnown

(* The sum of the four counters keeps step with the total, whatever fires. *)
LEMMA FramesStayCounted ==
  ASSUME TypeOK, FramesCounted, NEW fire \in SUBSET Transports, CountFrames(fire)
  PROVE  FramesCounted'
<1> DEFINE k(t) == One(t \in fire)
           counted(t) == tx_count[t] + k(t)
           old == tx_count["bcn"] + tx_count["nan"] + tx_count["ble4"] + tx_count["ble5"]
           more == k("bcn") + k("nan") + k("ble4") + k("ble5")
<1>1. \A t \in Transports : tx_count[t] \in Nat /\ k(t) \in Nat /\ counted(t) \in Nat
  BY ConstantsAssumption DEF TypeOK, One
<1>2. {"bcn", "nan", "ble4", "ble5"} \subseteq Transports
  BY DEF Transports
<1>3. \A t \in Transports : tx_count'[t] = counted(t) % CountMod
  BY DEF CountFrames
<1>4. old \in Nat /\ more \in Nat /\ CountMod \in Nat \ {0}
  BY <1>1, <1>2, ConstantsAssumption
<1>5. transmissions_count' = ((old % CountMod) + more) % CountMod
  <2>1. old % CountMod \in Nat
    BY <1>4, ModBounded
  <2>2. transmissions_count' = (transmissions_count + k("bcn") + k("nan") + k("ble4") + k("ble5")) % CountMod
    BY DEF CountFrames
  <2>3. transmissions_count = old % CountMod
    BY DEF FramesCounted
  <2> HIDE DEF k, old
  <2>4. transmissions_count + k("bcn") + k("nan") + k("ble4") + k("ble5") = (old % CountMod) + more
    BY <1>1, <1>2, <2>1, <2>3
  <2> QED BY <2>2, <2>4
<1>6. transmissions_count' = (old + more) % CountMod
  BY <1>4, <1>5, ModAdd
<1>7. (counted("bcn") + counted("nan") + counted("ble4") + counted("ble5")) = old + more
  <2>1. /\ tx_count["bcn"] \in Nat /\ tx_count["nan"] \in Nat
        /\ tx_count["ble4"] \in Nat /\ tx_count["ble5"] \in Nat
        /\ k("bcn") \in Nat /\ k("nan") \in Nat /\ k("ble4") \in Nat /\ k("ble5") \in Nat
    BY <1>1, <1>2
  <2> HIDE DEF k
  <2> QED BY <2>1
<1>8. (tx_count'["bcn"] + tx_count'["nan"] + tx_count'["ble4"] + tx_count'["ble5"]) % CountMod
        = (counted("bcn") + counted("nan") + counted("ble4") + counted("ble5")) % CountMod
  <2> HIDE DEF counted
  <2> QED BY <1>1, <1>2, <1>3, <1>4, ModSumOfFour
<1> QED BY <1>6, <1>7, <1>8 DEF FramesCounted

(* The narrow counter keeps step with the wide one.                        *)
LEMMA NanStaysCounted ==
  ASSUME TypeOK, NanCounted, NEW fire \in SUBSET Transports, CountFrames(fire)
  PROVE  NanCounted'
<1> SUFFICES ASSUME CountMod % NanMod = 0
             PROVE  nan_counter' = tx_count'["nan"] % NanMod
  BY DEF NanCounted
<1> DEFINE n == tx_count["nan"]
           k == One("nan" \in fire)
<1>1. /\ n \in Nat /\ k \in Nat /\ n + k \in Nat
      /\ CountMod \in Nat \ {0} /\ NanMod \in Nat \ {0}
  BY ConstantsAssumption DEF TypeOK, One, Transports
<1>2. tx_count'["nan"] = (n + k) % CountMod /\ nan_counter' = ((n % NanMod) + k) % NanMod
  BY DEF CountFrames, NanCounted, Transports
<1>3. ((n % NanMod) + k) % NanMod = (n + k) % NanMod
  BY <1>1, ModAdd
<1>4. ((n + k) % CountMod) % NanMod = (n + k) % NanMod
  BY <1>1, ModDivides
<1> QED BY <1>2, <1>3, <1>4

(* The total is at every moment the sum of the counts of the transports,   *)
(* and the NAN message counter the count of its transport in its own       *)
(* width, for any widths of which one divides the other.                   *)
THEOREM CountersAlwaysAgree == Spec => []CountersAgree
<1>1. Init => CountInv
  <2> SUFFICES ASSUME Init PROVE CountInv
    OBVIOUS
  <2>1. 0 % CountMod = 0 /\ 0 % NanMod = 0
    BY ModSmall, ConstantsAssumption
  <2>2. FramesCounted /\ NanCounted
    BY <2>1 DEF Init, FramesCounted, NanCounted, Transports
  <2> QED BY <2>2 DEF Init, CountInv, StandardKnown
<1>2. TypeOK /\ CountInv /\ [Next]_vars => CountInv'
  <2> SUFFICES ASSUME TypeOK, CountInv, [Next]_vars PROVE CountInv'
    OBVIOUS
  <2>1. ASSUME NEW in \in Inputs, NEW d \in Steps, Tick(in, d) PROVE CountInv'
    <3>1. Firing(in, d) \in SUBSET Transports
      BY ConstantsAssumption DEF TypeOK, Config, Firing
    <3>2. CountFrames(Firing(in, d)) /\ UNCHANGED cfgVars
      BY <2>1 DEF Tick, UpdateTransmissions
    <3>3. FramesCounted' /\ NanCounted'
      BY <3>1, <3>2, FramesStayCounted, NanStaysCounted DEF CountInv
    <3> QED BY <3>2, <3>3 DEF CountInv, StandardKnown, cfgVars
  <2>2. ASSUME NEW c \in Configs, ApplyConfig(c) PROVE CountInv'
    BY <2>2 DEF ApplyConfig, txVars, CountInv, FramesCounted, NanCounted, StandardKnown
  <2>3. CASE UNCHANGED vars
    BY <2>3 DEF vars, txVars, cfgVars, CountInv, FramesCounted, NanCounted, StandardKnown
  <2> QED BY <2>1, <2>2, <2>3 DEF Next
<1>3. CountInv => CountersAgree
  BY DEF CountInv, FramesCounted, NanCounted, StandardKnown, CountersAgree, Status, Snapshot
<1> QED BY <1>1, <1>2, <1>3, SchedulerTypeCorrect, PTL DEF Spec

-----------------------------------------------------------------------------
(* The filter estimates a position only outside of demo mode.              *)
FilterUnused ==
  \A c \in Configs : "KALMAN_FILTER" \in c.options => "DEMO_MODE" \in c.options

(* A tick that reports the timeout leaves no valid position behind, and    *)
(* nothing but a position makes it valid again.                            *)
StaleIsInvalid == outcome.gps_stale => ~gps_valid

(* While no configuration runs the filter, the absolute timeout is         *)
(* reported once for each loss, however long it lasts and however often    *)
(* the options change meanwhile.                                           *)
THEOREM StaleReportedOnce == FilterUnused => (Spec => StaleOnce)
<1> SUFFICES ASSUME FilterUnused PROVE Spec => StaleOnce
  OBVIOUS
<1>1. Init => StaleIsInvalid
  BY DEF Init, StaleIsInvalid
<1>2. TypeOK => ~KalmanRuns
  BY DEF TypeOK, FilterUnused, KalmanRuns, On
<1>3. TypeOK /\ StaleIsInvalid /\ [Next]_vars =>
        /\ StaleIsInvalid'
        /\ [(since_fix' > since_fix /\ outcome'.gps_stale) => ~outcome.gps_stale]_vars
  <2> SUFFICES ASSUME TypeOK, StaleIsInvalid, [Next]_vars
               PROVE  /\ StaleIsInvalid'
                      /\ [(since_fix' > since_fix /\ outcome'.gps_stale) => ~outcome.gps_stale]_vars
    OBVIOUS
  <2>1. ASSUME NEW in \in Inputs, NEW d \in Steps, Tick(in, d)
        PROVE  /\ StaleIsInvalid'
               /\ (since_fix' > since_fix /\ outcome'.gps_stale) => ~outcome.gps_stale
    <3>1. outcome'.gps_stale = TimedOut(in, d) /\ gps_valid' = ValidAfter(in, d)
      BY <2>1 DEF Tick
    <3>2. StaleIsInvalid'
      BY <3>1 DEF StaleIsInvalid, ValidAfter
    <3>3. ASSUME since_fix' > since_fix, TimedOut(in, d) PROVE gps_valid
      <4>1. ~HadGps(in)
        BY <2>1, <3>3 DEF Tick, TypeOK
      <4>2. ~Estimated(in, d)
        BY <1>2 DEF Estimated
      <4> QED BY <3>3, <4>1, <4>2 DEF TimedOut, ValidBeforeTimeout
    <3> QED BY <3>1, <3>2, <3>3 DEF StaleIsInvalid
  <2>2. ASSUME NEW c \in Configs, ApplyConfig(c)
        PROVE  StaleIsInvalid' /\ ~(since_fix' > since_fix)
    BY <2>2 DEF ApplyConfig, fixVars, StaleIsInvalid, TypeOK
  <2>3. CASE UNCHANGED vars
    BY <2>3 DEF vars, fixVars, StaleIsInvalid
  <2> QED BY <2>1, <2>2, <2>3 DEF Next
<1> QED BY <1>1, <1>3, SchedulerTypeCorrect, PTL DEF Spec, StaleOnce

-----------------------------------------------------------------------------
(* The parser in front of the scheduler.                                   *)
Stamp == 0 .. MsMod - 1

Kinds == PositionKinds \cup IdentityKinds \cup OtherKinds

Parser ==
  [pos : Position, fix_type : Nat, armed : BOOLEAN, identity : Identity, last_update : Stamp,
   last_identity_update : Stamp, operator_location_update : Stamp]

(* The types of the feed, with the shape of the parser's record.           *)
FeedTyped == TypeOK /\ FeedTypeOK /\ parser \in Parser

-----------------------------------------------------------------------------
(* The clock of the polls stays in its width and turns at most once.       *)
LEMMA PollTimeCases ==
  ASSUME now \in Stamp, NEW d \in Steps
  PROVE  /\ PollTime(d) \in Stamp
         /\ PollTime(d) = now + d \/ PollTime(d) = now + d - MsMod
<1>1. MsMod \in Nat \ {0} /\ d \in 0 .. MsMod - 1 /\ now \in 0 .. MsMod - 1
  BY ConstantsAssumption DEF Stamp
<1>2. (now + d) % MsMod = IF now + d < MsMod THEN now + d ELSE now + d - MsMod
  BY <1>1, ModOfTwo
<1> QED BY <1>1, <1>2 DEF PollTime, Stamp

(* A stamp and the age counted beside it grow apart by nothing.            *)
LEMMA StampAges ==
  ASSUME now \in Stamp, NEW stamp \in Stamp, NEW age \in 0 .. MsMod, NEW d \in Steps,
         age < MsMod => Elapsed(stamp, now) = age,
         AtMost(MsMod, age + d) < MsMod
  PROVE  Elapsed(stamp, PollTime(d)) = AtMost(MsMod, age + d)
<1>1. MsMod \in Nat \ {0} /\ d \in Nat /\ age + d < MsMod
  BY ConstantsAssumption DEF AtMost
<1>2. age + d = AtMost(MsMod, age + d) /\ Elapsed(stamp, now) = age
  BY <1>1 DEF AtMost
<1> QED BY <1>1, <1>2, PollTimeCases DEF Elapsed, Stamp

-----------------------------------------------------------------------------
(* What one frame may change of the parser.                                *)
LEMMA TakenTyped ==
  ASSUME NEW p \in Parser, NEW f \in Frame, NEW t \in Stamp
  PROVE  Taken(p, f, t) \in Parser
<1>1. f.pos \in Position /\ f.fix_type \in Nat /\ f.armed \in BOOLEAN
      /\ f.uas_id \in {"empty", "relayed"}
  BY DEF Frame
<1>2. p.identity \in Identity
  BY DEF Parser
<1>3. /\ [p.identity EXCEPT !.uas_id = f.uas_id] \in Identity
      /\ [p.identity EXCEPT !.operator_id = "relayed"] \in Identity
      /\ [p.identity EXCEPT !.ext_auth = TRUE] \in Identity
  BY <1>1, <1>2 DEF Identity, FieldClass
<1>4. CASE f.kind \in PositionKinds
  <2> DEFINE type == IF f.kind = "GPS_RAW_INT" THEN f.fix_type ELSE 3
  <2>1. type \in Nat
    BY <1>1
  <2>2. Taken(p, f, t) = [p EXCEPT !.pos = f.pos, !.fix_type = type]
    BY <1>4 DEF Taken, PositionKinds, IdentityKinds
  <2> HIDE DEF type
  <2> QED BY <1>1, <2>1, <2>2 DEF Parser
<1>5. CASE f.kind \notin PositionKinds
  BY <1>1, <1>3, <1>5 DEF Taken, Parser
<1> QED BY <1>4, <1>5

(* A stamp is renewed with its age, or both are carried over a poll.       *)
Carried(stamp, age, stamp1, age1, t, d) ==
  \/ stamp1 = t /\ age1 = 0
  \/ stamp1 = stamp /\ age1 = AtMost(MsMod, age + d)

(* A frame taken in at time t, with the ages counted beside the stamps.    *)
LEMMA FrameTaken ==
  ASSUME FeedTyped, NEW f \in Frames, Accepted(f), NEW t \in Stamp, NEW d \in Steps
  PROVE  LET p == Process(parser, f, t)
         IN  /\ p \in Parser
             /\ p.pos # "origin" => p.last_update = t
             /\ Carried(parser.last_identity_update, id_age, p.last_identity_update,
                        AgeAfter(id_age, {f}, IdentityKinds, d), t, d)
             /\ Carried(parser.operator_location_update, op_age, p.operator_location_update,
                        AgeAfter(op_age, {f}, {"SYSTEM"}, d), t, d)
             /\ AgeAfter(link_age, {f}, Kinds, d) = 0
<1> DEFINE q == Taken(parser, f, t)
           p == IF q.pos # "origin" THEN [q EXCEPT !.last_update = t] ELSE q
<1>1. f \in Frame /\ parser \in Parser /\ f.kind \in Kinds
  BY FeedAssumption DEF FeedTyped, Frame, Kinds
<1>2. q \in Parser
  BY <1>1, TakenTyped
<1>3. Process(parser, f, t) = p
  BY DEF Process
<1>4. /\ q.last_identity_update =
           IF f.kind \in IdentityKinds THEN t ELSE parser.last_identity_update
      /\ q.operator_location_update =
           IF f.kind = "SYSTEM" THEN t ELSE parser.operator_location_update
  BY <1>1 DEF Taken, PositionKinds, IdentityKinds, OtherKinds, Kinds, Parser
<1>5. /\ AgeAfter(id_age, {f}, IdentityKinds, d) =
           IF f.kind \in IdentityKinds THEN 0 ELSE AtMost(MsMod, id_age + d)
      /\ AgeAfter(op_age, {f}, {"SYSTEM"}, d) =
           IF f.kind = "SYSTEM" THEN 0 ELSE AtMost(MsMod, op_age + d)
      /\ AgeAfter(link_age, {f}, Kinds, d) = 0
  BY <1>1 DEF AgeAfter
<1> HIDE DEF q
<1>6. /\ p \in Parser
      /\ p.pos # "origin" => p.last_update = t
      /\ p.last_identity_update = q.last_identity_update
      /\ p.operator_location_update = q.operator_location_update
  BY <1>2 DEF Parser
<1> HIDE DEF p
<1> QED BY <1>3, <1>4, <1>5, <1>6 DEF Carried

(* What a poll gives to the tick is a sample, whatever the parser holds.   *)
LEMMA SampleTyped ==
  ASSUME NEW p \in Parser, NEW t \in Stamp
  PROVE  SampleOf(p, t) \in Input
<1>1. NoIdentity \in Identity /\ NoReport \in Fix
  BY DEF NoIdentity, Identity, FieldClass, NoReport, Fix, Position
<1>2. [present |-> TRUE, pos |-> p.pos, fix_type |-> p.fix_type, armed |-> p.armed] \in Fix
  BY DEF Parser, Fix
<1>3. p.identity \in Identity /\ p.armed \in BOOLEAN /\ HasOperator(p, t) \in BOOLEAN
  BY DEF Parser, HasOperator, FreshWithin
<1> QED BY <1>1, <1>2, <1>3 DEF SampleOf, Input, Protocols

(* One poll: the clock, the stamps with their ages, and the tick.          *)
LEMMA PollDoes ==
  ASSUME FeedTyped, NEW d \in Steps, NEW fs, fs = {} \/ (\E f \in Frames : fs = {f}),
         Poll(fs, d)
  PROVE  /\ now' = PollTime(d) /\ now' \in Stamp /\ parser' \in Parser
         /\ SampleOf(parser', now') \in Input
         /\ Tick(SampleOf(parser', now'), d)
         /\ parser'.pos # "origin" =>
              \/ parser'.last_update = now' /\ link_age' = 0
              \/ /\ parser.pos # "origin" /\ parser'.last_update = parser.last_update
                 /\ link_age' = AtMost(MsMod, link_age + d)
         /\ link_age' \in {0, AtMost(MsMod, link_age + d)}
         /\ Carried(parser.last_identity_update, id_age, parser'.last_identity_update, id_age', now', d)
         /\ Carried(parser.operator_location_update, op_age, parser'.operator_location_update, op_age', now', d)
<1>1. PollTime(d) \in Stamp /\ now' = PollTime(d)
  BY PollTimeCases DEF Poll, FeedTyped, FeedTypeOK, Stamp
<1>2. /\ link_age' = AgeAfter(link_age, fs, Kinds, d)
      /\ id_age' = AgeAfter(id_age, fs, IdentityKinds, d)
      /\ op_age' = AgeAfter(op_age, fs, {"SYSTEM"}, d)
      /\ Tick(SampleOf(parser', now'), d)
      /\ parser' = IF fs = {} THEN parser ELSE Process(parser, CHOOSE f \in fs : TRUE, PollTime(d))
  BY DEF Poll, Kinds
<1>3. ASSUME NEW f \in Frames, fs = {f}, Accepted(f)
      PROVE  /\ parser' \in Parser
             /\ parser'.pos # "origin" => parser'.last_update = now'
             /\ Carried(parser.last_identity_update, id_age, parser'.last_identity_update, id_age', now', d)
             /\ Carried(parser.operator_location_update, op_age, parser'.operator_location_update, op_age', now', d)
             /\ link_age' = 0
  <2>1. parser' = Process(parser, f, now')
    BY <1>1, <1>2, <1>3
  <2> QED BY <1>1, <1>2, <1>3, <2>1, FrameTaken
<1>4. ASSUME ~ \E f \in fs : Accepted(f)
      PROVE  /\ parser' = parser
             /\ link_age' = AtMost(MsMod, link_age + d)
             /\ id_age' = AtMost(MsMod, id_age + d)
             /\ op_age' = AtMost(MsMod, op_age + d)
  <2>1. parser' = parser
    <3>1. CASE fs = {}
      BY <1>2, <3>1
    <3>2. ASSUME NEW f \in Frames, fs = {f} PROVE parser' = parser
      BY <1>2, <1>4, <3>2 DEF Process
    <3> QED BY <3>1, <3>2
  <2> QED BY <1>2, <1>4, <2>1 DEF AgeAfter
<1>5. parser' \in Parser
  BY <1>3, <1>4 DEF FeedTyped
<1>6. SampleOf(parser', now') \in Input
  BY <1>1, <1>5, SampleTyped
<1>7. (\E f \in Frames : fs = {f} /\ Accepted(f)) \/ ~ \E f \in fs : Accepted(f)
  OBVIOUS
<1> QED BY <1>1, <1>2, <1>3, <1>4, <1>5, <1>6, <1>7 DEF Carried

-----------------------------------------------------------------------------
(* Every variable of the feed keeps its type, and with it the scheduler's: *)
(* what the parser hands over is always a sample the tick was made for.    *)
LEMMA FeedStaysTyped == FeedSpec => []FeedTyped
<1>1. FeedInit => FeedTyped
  <2> SUFFICES ASSUME FeedInit PROVE FeedTyped
    OBVIOUS
  <2>1. TypeOK
    BY SchedulerStartsTyped DEF FeedInit
  <2>2. 0 \in Stamp /\ MsMod \in 0 .. MsMod
    BY ConstantsAssumption DEF Stamp
  <2>3. parser \in Parser
    BY <2>2 DEF FeedInit, Parser, Position, NoIdentity, Identity, FieldClass
  <2> QED BY <2>1, <2>2, <2>3 DEF FeedInit, FeedTyped, FeedTypeOK, Parser, Stamp
<1>2. FeedTyped /\ [FeedNext]_<<vars, feedVars>> => FeedTyped'
  <2> SUFFICES ASSUME FeedTyped, [FeedNext]_<<vars, feedVars>> PROVE FeedTyped'
    OBVIOUS
  <2>1. ASSUME NEW d \in Steps, NEW fs, fs = {} \/ (\E f \in Frames : fs = {f}), Poll(fs, d)
        PROVE  FeedTyped'
    <3>1. TypeOK'
      BY <2>1, PollDoes, TickTyped DEF FeedTyped
    <3>2. now' \in Stamp /\ parser' \in Parser
      BY <2>1, PollDoes
    <3>3. \A age \in 0 .. MsMod : AtMost(MsMod, age + d) \in 0 .. MsMod
      BY ConstantsAssumption DEF AtMost
    <3>4. link_age' \in 0 .. MsMod /\ id_age' \in 0 .. MsMod /\ op_age' \in 0 .. MsMod
      BY <2>1, <3>3, PollDoes, ConstantsAssumption DEF FeedTyped, FeedTypeOK, Carried
    <3> QED BY <3>1, <3>2, <3>4 DEF FeedTyped, FeedTypeOK, Parser, Stamp
  <2>2. ASSUME NEW c \in Configs, ApplyConfig(c), UNCHANGED feedVars PROVE FeedTyped'
    BY <2>2, ApplyConfigTyped DEF FeedTyped, FeedTypeOK, feedVars, Stamp
  <2>3. CASE UNCHANGED <<vars, feedVars>>
    BY <2>3 DEF vars, fixVars, idVars, txVars, logVars, cfgVars, feedVars, TypeOK, FeedTyped, FeedTypeOK
  <2> QED BY <2>1, <2>2, <2>3 DEF FeedNext
<1> QED BY <1>1, <1>2, PTL DEF FeedSpec

(* The parser's record and the clocks keep their types, whatever arrives.  *)
THEOREM FeedTypeCorrect == FeedSpec => []FeedTypeOK
<1>1. FeedTyped => FeedTypeOK
  BY DEF FeedTyped
<1> QED BY <1>1, FeedStaysTyped, PTL

-----------------------------------------------------------------------------
(* The position of a tick comes from its sample alone: no configuration    *)
(* flies the demo trajectory or runs the filter.  Both replace a position  *)
(* the autopilot no longer sends, on purpose.                              *)
OnlySamples ==
  \A c \in Configs : c.options \cap {"DEMO_MODE", "KALMAN_FILTER"} = {}

(* No identity of a configuration is mistaken for one the autopilot sent.  *)
OwnIdentities == \A c \in Configs : c.identity.uas_id # "relayed"

Stamped(stamp, age) == (stamp # 0 /\ age < MsMod) => Elapsed(stamp, now) = age

(* What was fresh within a limit when the last position came is, since_fix *)
(* later, at most that much older, or was renewed since.                   *)
HeardNear(age, limit) ==
  since_fix < MsMod => 0 < limit /\ (age = MsMod \/ age < limit + since_fix)

FeedInv ==
  /\ ~kalman.valid /\ FreshInv /\ (gps_valid => since_fix < MsMod)
  /\ parser.pos # "origin" => Stamped(parser.last_update, link_age)
  /\ Stamped(parser.last_identity_update, id_age)
  /\ Stamped(parser.operator_location_update, op_age)
  /\ HeardNear(link_age, GpsFresh)
  /\ OwnIdentities /\ identity.uas_id = "relayed" => HeardNear(id_age, IdentityFresh)
  /\ gps.operator = "relayed" => HeardNear(op_age, OperatorFresh)

(* A carried stamp keeps its age, as far as the clock tells ages apart.    *)
LEMMA CarriedStaysStamped ==
  ASSUME now \in Stamp, NEW stamp \in Stamp, NEW age \in 0 .. MsMod, NEW d \in Steps,
         NEW stamp1, NEW age1, Carried(stamp, age, stamp1, age1, PollTime(d), d),
         Stamped(stamp, age)
  PROVE  (stamp1 # 0 /\ age1 < MsMod) => Elapsed(stamp1, PollTime(d)) = age1
<1> SUFFICES ASSUME stamp1 # 0, age1 < MsMod PROVE Elapsed(stamp1, PollTime(d)) = age1
  OBVIOUS
<1>1. CASE stamp1 = PollTime(d) /\ age1 = 0
  BY <1>1, PollTimeCases DEF Elapsed, Stamp
<1>2. CASE stamp1 = stamp /\ age1 = AtMost(MsMod, age + d)
  <2>1. age < MsMod => Elapsed(stamp, now) = age
    BY <1>2 DEF Stamped
  <2> QED BY <1>2, <2>1, StampAges
<1> QED BY <1>1, <1>2 DEF Carried

(* A tick without demo mode and filter, on what it keeps of its sample.    *)
LEMMA PlainTick ==
  ASSUME FeedTyped, OnlySamples, NEW in \in Input, NEW d \in Steps, Tick(in, d)
  PROVE  /\ HadGps(in) = Usable(in) /\ ~DemoRuns(in) /\ ~KalmanRuns
         /\ gps' = MergedGps(in, d)
         /\ since_fix' = IF Usable(in) THEN 0 ELSE AtMost(MsMod, since_fix + d)
         /\ (~kalman.valid => ~kalman'.valid)
<1>1. ~On("DEMO_MODE") /\ ~On("KALMAN_FILTER")
  BY DEF OnlySamples, FeedTyped, TypeOK, On
<1>2. ~DemoRuns(in) /\ ~KalmanRuns
  BY <1>1 DEF DemoRuns, KalmanRuns
<1>3. HadGps(in) = Usable(in)
  BY <1>2 DEF HadGps, Usable
<1>4. gps' = MergedGps(in, d)
  BY <1>2 DEF Tick, GpsAfter, Estimated
<1>5. ~kalman.valid => ~kalman'.valid
  BY <1>2 DEF Tick, KalmanAfter, FeedTyped, TypeOK
<1> QED BY <1>2, <1>3, <1>4, <1>5 DEF Tick

(* An age bounded at the last fix is bounded still after a poll without    *)
(* one, and is bounded anew by a poll whose sample was fresh.              *)
LEMMA StillHeardNear ==
  ASSUME FeedTyped, NEW age \in 0 .. MsMod, NEW age1, NEW limit \in Nat, NEW d \in Steps,
         age1 \in {0, AtMost(MsMod, age + d)}, HeardNear(age, limit),
         since_fix' = AtMost(MsMod, since_fix + d)
  PROVE  since_fix' < MsMod => 0 < limit /\ (age1 = MsMod \/ age1 < limit + since_fix')
  BY ConstantsAssumption DEF HeardNear, AtMost, FeedTyped, TypeOK

(* A relayed identity is only taken over from a sample that had one.       *)
LEMMA RelayedIsFresh ==
  ASSUME FeedTyped, OwnIdentities, NEW d \in Steps, NEW p \in Parser, NEW t \in Stamp,
         Usable(SampleOf(p, t)), Tick(SampleOf(p, t), d), identity'.uas_id = "relayed"
  PROVE  HasIdentity(p, t)
<1> DEFINE in == SampleOf(p, t)
<1>1. identity' = MergedIdentity(in)
  BY DEF Tick
<1>2. SUFFICES ASSUME ~HasIdentity(p, t) PROVE FALSE
  OBVIOUS
<1>3. in.mavlink_identity.uas_id = "empty"
  BY <1>2 DEF SampleOf, NoIdentity
<1>4. cfg \in Configs /\ cfg.identity \in Identity
  BY ConstantsAssumption DEF FeedTyped, TypeOK, Config
<1>5. ConfigIdentity(FALSE).uas_id = cfg.identity.uas_id
  BY <1>4 DEF ConfigIdentity, Identity
<1>6. ConfigIdentity(FALSE) \in Identity
  BY <1>4 DEF ConfigIdentity, Identity, FeedTyped, TypeOK
<1> HIDE DEF in
<1>7. identity'.uas_id \in {"empty", cfg.identity.uas_id}
  BY <1>1, <1>3, <1>5, <1>6 DEF MergedIdentity, Identity, in
<1> QED BY <1>4, <1>7 DEF OwnIdentities

(* What a getter calls fresh was heard within its limit.                   *)
LEMMA FreshWasHeard ==
  ASSUME NEW stamp \in Stamp, NEW t \in Stamp, NEW age \in 0 .. MsMod, NEW limit \in Nat,
         FreshWithin(stamp, limit, t), (stamp # 0 /\ age < MsMod) => Elapsed(stamp, t) = age
  PROVE  0 < limit /\ (age = MsMod \/ age < limit)
  BY ConstantsAssumption DEF FreshWithin, Elapsed, Stamp

(* One poll keeps the invariant.                                           *)
LEMMA PollKeepsFeedInv ==
  ASSUME FeedTyped, FeedTyped', OnlySamples, FeedInv, NEW d \in Steps,
         NEW fs, fs = {} \/ (\E f \in Frames : fs = {f}), Poll(fs, d)
  PROVE  FeedInv'
<1> DEFINE in == SampleOf(parser', now')
<1>1. in \in Input /\ Tick(in, d) /\ now' = PollTime(d) /\ now' \in Stamp
  BY PollDoes
<1>2. /\ now \in Stamp
      /\ {parser.last_update, parser.last_identity_update, parser.operator_location_update} \subseteq Stamp
      /\ {link_age, id_age, op_age} \subseteq 0 .. MsMod
      /\ parser'.last_update \in Stamp /\ parser'.last_identity_update \in Stamp
      /\ parser'.operator_location_update \in Stamp /\ parser' \in Parser
      /\ {link_age', id_age', op_age'} \subseteq 0 .. MsMod
      /\ since_fix \in 0 .. MsMod /\ since_fix' \in 0 .. MsMod
  BY DEF FeedTyped, FeedTypeOK, Stamp, TypeOK
<1>3. ~kalman'.valid
  BY <1>1, PlainTick DEF FeedInv
<1>4. FreshInv'
  BY <1>1, TickKeepsFresh DEF FeedTyped, FeedInv
<1>5. gps_valid' => since_fix' < MsMod
  <2> SUFFICES ASSUME gps_valid' PROVE since_fix' < MsMod
    OBVIOUS
  <2>1. GpsStaleTimeout \in Nat /\ d \in Nat /\ GpsStaleTimeout + d < MsMod
    BY ConstantsAssumption
  <2>2. since_fix' <= GpsStaleTimeout
    BY <1>3, <1>4 DEF FreshInv, ValidIsFresh, Fresh
  <2> QED BY <1>2, <2>1, <2>2, ConstantsAssumption
<1>6. parser'.pos # "origin" => Stamped(parser.last_update, link_age)'
  <2> SUFFICES ASSUME parser'.pos # "origin", parser'.last_update # 0, link_age' < MsMod
               PROVE  Elapsed(parser'.last_update, now') = link_age'
    BY DEF Stamped
  <2>1. CASE parser'.last_update = now' /\ link_age' = 0
    BY <1>1, <2>1, ConstantsAssumption DEF Elapsed, Stamp
  <2>2. CASE /\ parser.pos # "origin" /\ parser'.last_update = parser.last_update
             /\ link_age' = AtMost(MsMod, link_age + d)
    <3>1. link_age < MsMod => Elapsed(parser.last_update, now) = link_age
      BY <2>2 DEF FeedInv, Stamped
    <3> QED BY <1>1, <1>2, <2>2, <3>1, StampAges
  <2> QED BY <2>1, <2>2, PollDoes
<1>7. Stamped(parser.last_identity_update, id_age)'
  BY <1>1, <1>2, PollDoes, CarriedStaysStamped DEF FeedInv, Stamped
<1>8. Stamped(parser.operator_location_update, op_age)'
  BY <1>1, <1>2, PollDoes, CarriedStaysStamped DEF FeedInv, Stamped
<1>9. CASE Usable(in)
  <2>1. since_fix' = 0
    BY <1>1, <1>9, PlainTick
  <2>2. /\ HasPosition(parser', now') /\ parser'.pos # "origin" /\ Sample(in) = in.gps
    BY <1>9 DEF Usable, HasSample, Sample, SampleOf, NoReport
  <2>3. HeardNear(link_age, GpsFresh)'
    <3>1. 0 < GpsFresh /\ (link_age' = MsMod \/ link_age' < GpsFresh)
      BY <1>1, <1>2, <1>6, <2>2, FreshWasHeard, FeedAssumption DEF HasPosition, Stamped
    <3> QED BY <1>2, <2>1, <3>1, FeedAssumption DEF HeardNear
  <2>4. ASSUME OwnIdentities, identity'.uas_id = "relayed" PROVE HeardNear(id_age, IdentityFresh)'
    <3>1. HasIdentity(parser', now')
      BY <1>1, <1>2, <1>9, <2>4, RelayedIsFresh
    <3>2. 0 < IdentityFresh /\ (id_age' = MsMod \/ id_age' < IdentityFresh)
      BY <1>1, <1>2, <1>7, <3>1, FreshWasHeard, FeedAssumption DEF HasIdentity, Stamped
    <3> QED BY <1>2, <2>1, <3>2, FeedAssumption DEF HeardNear
  <2>5. ASSUME gps'.operator = "relayed" PROVE HeardNear(op_age, OperatorFresh)'
    <3>1. HasOperator(parser', now')
      BY <1>1, <1>9, <2>5, PlainTick DEF MergedGps, SampleOf
    <3>2. 0 < OperatorFresh /\ (op_age' = MsMod \/ op_age' < OperatorFresh)
      BY <1>1, <1>2, <1>8, <3>1, FreshWasHeard, FeedAssumption DEF HasOperator, Stamped
    <3> QED BY <1>2, <2>1, <3>2, FeedAssumption DEF HeardNear
  <2> QED BY <1>3, <1>4, <1>5, <1>6, <1>7, <1>8, <2>3, <2>4, <2>5 DEF FeedInv
<1>10. CASE ~Usable(in)
  <2>1. since_fix' = AtMost(MsMod, since_fix + d)
    BY <1>1, <1>10, PlainTick
  <2>2. identity' = identity /\ gps' = gps
    BY <1>1, <1>10, PlainTick DEF Tick, MergedIdentity, MergedGps
  <2>3. /\ link_age' \in {0, AtMost(MsMod, link_age + d)}
        /\ id_age' \in {0, AtMost(MsMod, id_age + d)}
        /\ op_age' \in {0, AtMost(MsMod, op_age + d)}
    BY PollDoes DEF Carried
  <2>4. HeardNear(link_age, GpsFresh)'
    BY <1>2, <2>1, <2>3, StillHeardNear, FeedAssumption DEF FeedInv, HeardNear
  <2>5. ASSUME OwnIdentities, identity'.uas_id = "relayed" PROVE HeardNear(id_age, IdentityFresh)'
    BY <1>2, <2>1, <2>2, <2>3, <2>5, StillHeardNear, FeedAssumption DEF FeedInv, HeardNear
  <2>6. ASSUME gps'.operator = "relayed" PROVE HeardNear(op_age, OperatorFresh)'
    BY <1>2, <2>1, <2>2, <2>3, <2>6, StillHeardNear, FeedAssumption DEF FeedInv, HeardNear
  <2> QED BY <1>3, <1>4, <1>5, <1>6, <1>7, <1>8, <2>4, <2>5, <2>6 DEF FeedInv
<1> QED BY <1>9, <1>10

(* The invariant holds from the first poll on.                             *)
LEMMA FeedInvHolds == OnlySamples => (FeedSpec => []FeedInv)
<1> SUFFICES ASSUME OnlySamples PROVE FeedSpec => []FeedInv
  OBVIOUS
<1>1. FeedInit => FeedInv
  <2> SUFFICES ASSUME FeedInit PROVE FeedInv
    OBVIOUS
  <2>1. since_fix = MsMod /\ link_age = MsMod /\ id_age = MsMod /\ op_age = MsMod /\ MsMod \in Nat
    BY ConstantsAssumption DEF FeedInit, Init
  <2>2. FreshInv /\ ~kalman.valid /\ ~gps_valid
    BY ConstantsAssumption
       DEF FeedInit, Init, NewKalman, FreshInv, AgeIsTrue, ValidIsFresh, LitOnlyWhenValid, SentOnlyWhenValid
  <2> QED BY <2>1, <2>2 DEF FeedInv, Stamped, HeardNear
<1>2. FeedTyped /\ FeedTyped' /\ FeedInv /\ [FeedNext]_<<vars, feedVars>> => FeedInv'
  <2> SUFFICES ASSUME FeedTyped, FeedTyped', FeedInv, [FeedNext]_<<vars, feedVars>> PROVE FeedInv'
    OBVIOUS
  <2>1. ASSUME NEW d \in Steps, NEW fs, fs = {} \/ (\E f \in Frames : fs = {f}), Poll(fs, d)
        PROVE  FeedInv'
    BY <2>1, PollKeepsFeedInv
  <2>2. ASSUME NEW c \in Configs, ApplyConfig(c), UNCHANGED feedVars PROVE FeedInv'
    <3>1. UNCHANGED <<kalman, gps_valid, gps, since_fix, update_age, identity, outcome>> /\ sent' = {}
      BY <2>2 DEF ApplyConfig, fixVars, idVars
    <3>2. FreshInv'
      BY <3>1 DEF FeedInv, FreshInv, AgeIsTrue, ValidIsFresh, LitOnlyWhenValid, SentOnlyWhenValid, Fresh
    <3> QED BY <2>2, <3>1, <3>2 DEF feedVars, FeedInv, Stamped, HeardNear
  <2>3. CASE UNCHANGED <<vars, feedVars>>
    <3>1. FreshInv'
      BY <2>3 DEF vars, fixVars, cfgVars, FeedInv, FreshInv, AgeIsTrue, ValidIsFresh,
                  LitOnlyWhenValid, SentOnlyWhenValid, Fresh
    <3> QED BY <2>3, <3>1 DEF vars, fixVars, idVars, feedVars, FeedInv, Stamped, HeardNear
  <2> QED BY <2>1, <2>2, <2>3 DEF FeedNext
<1> QED BY <1>1, <1>2, FeedStaysTyped, PTL DEF FeedSpec

(* On air, or with the light on, the position is fresh, and what was heard *)
(* near that position is bounded now.                                      *)
LEMMA HeardIsBounded ==
  ASSUME FeedTyped, FeedInv, outcome.led = "GpsOk" \/ OnAir, NEW age \in 0 .. MsMod,
         NEW limit \in Nat, HeardNear(age, limit)
  PROVE  Bounded(age, limit)
<1>1. gps_valid
  BY DEF FeedInv, FreshInv, LitOnlyWhenValid, SentOnlyWhenValid, OnAir
<1>2. since_fix <= GpsStaleTimeout /\ since_fix < MsMod
  BY <1>1 DEF FeedInv, FreshInv, ValidIsFresh, Fresh
<1> QED BY <1>2, ConstantsAssumption DEF HeardNear, Bounded, FeedTyped, TypeOK

-----------------------------------------------------------------------------
(* A GpsOk light and a frame on air mean that the autopilot was heard      *)
(* within the sum of the two limits, for every limit and every frame: the  *)
(* parser's and the scheduler's timeout on the one position add up and no  *)
(* more.                                                                   *)
THEOREM LostLinksAreNoticed == OnlySamples => (FeedSpec => []LinkLossIsNoticed)
<1>1. FeedTyped /\ FeedInv => LinkLossIsNoticed
  BY HeardIsBounded, FeedAssumption DEF LinkLossIsNoticed, FeedInv, FeedTyped, FeedTypeOK
<1> QED BY <1>1, FeedStaysTyped, FeedInvHolds, PTL

(* An identity the autopilot relayed is on air only while it relays it.    *)
THEOREM RelayedIdentitiesAreRecent ==
  OnlySamples /\ OwnIdentities => (FeedSpec => []IdentityIsRecent)
<1> SUFFICES ASSUME OnlySamples, OwnIdentities PROVE FeedSpec => []IdentityIsRecent
  OBVIOUS
<1>1. FeedTyped /\ FeedInv => IdentityIsRecent
  BY HeardIsBounded, FeedAssumption DEF IdentityIsRecent, FeedInv, FeedTyped, FeedTypeOK
<1> QED BY <1>1, FeedStaysTyped, FeedInvHolds, PTL

(* So is the position of the operator.                                     *)
THEOREM RelayedOperatorsAreRecent == OnlySamples => (FeedSpec => []OperatorIsRecent)
<1>1. FeedTyped /\ FeedInv => OperatorIsRecent
  BY HeardIsBounded, FeedAssumption DEF OperatorIsRecent, FeedInv, FeedTyped, FeedTypeOK
<1> QED BY <1>1, FeedStaysTyped, FeedInvHolds, PTL
=============================================================================
