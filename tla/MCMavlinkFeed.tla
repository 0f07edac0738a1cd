--------------------------- MODULE MCMavlinkFeed ---------------------------
(* Instances of MavlinkFeed for TLC. *)
EXTENDS MavlinkFeed

NoInputs == {}

Autopilot == 1
Other     == 2

OfKind(kind, sysid) ==
  [kind |-> kind, sysid |-> sysid, pos |-> "origin", fix_type |-> 0,
   armed |-> FALSE, uas_id |-> "empty"]

At(kind, pos, type) == [OfKind(kind, Autopilot) EXCEPT !.pos = pos, !.fix_type = type]

(* One frame of each path through process, and two of another system. *)
FeedFrames ==
  {At("GLOBAL_POSITION_INT", "inside", 0), At("GPS_RAW_INT", "inside", 1),
   OfKind("HEARTBEAT", Autopilot), OfKind("SYSTEM", Autopilot),
   [OfKind("BASIC_ID", Autopilot) EXCEPT !.uas_id = "relayed"],
   OfKind("AUTHENTICATION_PAST", Autopilot),
   OfKind("HEARTBEAT", Other)}

FeedConfig(options) ==
  [options |-> options, region |-> "EUR",
   identity |-> [NoIdentity EXCEPT !.uas_id = "own", !.operator_id = "own"],
   tx_modes |-> {"bcn"}, interval |-> [t \in Transports |-> IF t = "bcn" THEN 0 ELSE Never],
   bcast_powerup |-> FALSE, lock_level |-> 0]

FeedConfigs == {FeedConfig({})}
=============================================================================
