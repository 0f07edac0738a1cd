---------------------------- MODULE MCScheduler ----------------------------
(***************************************************************************)
(* Instances of Scheduler for TLC.  The clock of an instance has few       *)
(* values, so it wraps many times within a run; an instance of Inputs      *)
(* holds the samples that take a different path through the tick.          *)
(***************************************************************************)
EXTENDS Scheduler, FiniteSets

NoFix == [present |-> FALSE, pos |-> "origin", fix_type |-> 0, armed |-> FALSE]
FixOf(pos, type, armed) == [present |-> TRUE, pos |-> pos, fix_type |-> type, armed |-> armed]

Id(uas, op) == [uas_id |-> uas, operator_id |-> op, uas_id_2 |-> "empty", ext_auth |-> FALSE]
Relayed(uas) == [uas_id |-> uas, operator_id |-> "relayed", uas_id_2 |-> "relayed", ext_auth |-> TRUE]

InputOf(proto, g, can) ==
  [proto |-> proto, gps |-> g, dronecan |-> can, mavlink_armed |-> FALSE,
   mavlink_identity |-> NoIdentity, mavlink_operator |-> FALSE]

MavlinkInput(g, id, op) ==
  [InputOf("Mavlink", g, NoFix) EXCEPT !.mavlink_armed = TRUE,
                                       !.mavlink_identity = id, !.mavlink_operator = op]

Cfg(options, region, id, modes, itv, powerup) ==
  [options |-> options, region |-> region, identity |-> id, tx_modes |-> modes,
   interval |-> [t \in Transports |-> IF t \in DOMAIN itv THEN itv[t] ELSE Never],
   bcast_powerup |-> powerup, lock_level |-> 0]

Owner == Id("own", "own")
Factory == Id("factory", "factory")

-----------------------------------------------------------------------------
(* Validity: option sets that interact with the filter and the timeout.    *)
BcnEvery(n) == [t \in {"bcn"} |-> n]
Uneven == [t \in {"bcn", "nan"} |-> IF t = "bcn" THEN 1 ELSE 0]

ValidityConfigs ==
  {Cfg(o, "EUR", Owner, {"bcn", "nan"}, Uneven, FALSE) :
     o \in {{}, {"KALMAN_FILTER"}, {"KALMAN_FILTER", "FORCE_ARM_OK"}, {"DEMO_MODE"}}}

ValidityInputs ==
  {InputOf("Nmea", NoFix, NoFix),
   InputOf("Nmea", FixOf("inside", 3, FALSE), NoFix),
   InputOf("Msp", FixOf("origin", 3, TRUE), NoFix),
   InputOf("Unknown", NoFix, FixOf("meridian", 2, FALSE)),
   InputOf("Nmea", FixOf("outside", 1, TRUE), NoFix)}

-----------------------------------------------------------------------------
(* The gate: identities that are sane in one region and not in another.    *)
GateOptions == {"IDENTITY_READY_GATE"}

GateConfigs ==
  {Cfg(GateOptions, r, id, {"bcn"}, BcnEvery(0), p) :
     r \in {"EUR", "JPN", "CHN"}, id \in {Factory, Owner, Id("own", "factory")},
     p \in BOOLEAN}
  \cup {Cfg(GateOptions \cup {"DONT_SAVE_BASIC_ID"}, "JPN", Owner, {"bcn"}, BcnEvery(0), TRUE)}

GateInputs ==
  {InputOf("Msp", NoFix, NoFix),
   InputOf("Msp", FixOf("inside", 3, FALSE), NoFix),
   InputOf("Nmea", FixOf("outside", 3, FALSE), NoFix),
   MavlinkInput(FixOf("inside", 2, FALSE), Relayed("relayed"), TRUE),
   MavlinkInput(FixOf("inside", 2, FALSE), Relayed("factory"), FALSE),
   MavlinkInput(NoFix, Relayed("relayed"), FALSE)}

-----------------------------------------------------------------------------
(* Transmission: all four transports, each at its own pace, one disabled   *)
(* by its rate or its mode bit.                                            *)
Rates == [t \in Transports |->
            CASE t = "bcn" -> 1 [] t = "nan" -> 2 [] t = "ble4" -> 0 [] t = "ble5" -> Never]

TxConfigs ==
  {Cfg({}, "AUTO", Owner, Transports, Rates, TRUE),
   Cfg({}, "AUTO", Owner, {"nan", "ble5"}, [t \in Transports |-> 2], FALSE)}

TxInputs ==
  {InputOf("Unknown", NoFix, NoFix),
   InputOf("Nmea", NoFix, NoFix),
   InputOf("Nmea", FixOf("inside", 2, FALSE), NoFix),
   InputOf("Nmea", FixOf("inside", 1, FALSE), NoFix)}
=============================================================================
