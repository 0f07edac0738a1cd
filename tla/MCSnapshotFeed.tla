--------------------------- MODULE MCSnapshotFeed ---------------------------
(* Instances of SnapshotFeed for TLC. *)
EXTENDS SnapshotFeed

NoInputs == {}

Says(kind, pos, type) == [kind |-> kind, pos |-> pos, fix_type |-> type, armed |-> FALSE]

Receivers ==
  [Nmea |-> {Says("GGA", "inside", 2), Says("GGA", "origin", 0), Says("RMC", "inside", 1)},
   Msp  |-> {Says("RAW_GPS", "inside", 2), Says("RAW_GPS", "origin", 0),
             [Says("STATUS", "origin", 0) EXCEPT !.armed = TRUE]}]

SnapshotConfigs ==
  {[options |-> {}, region |-> "EUR",
    identity |-> [NoIdentity EXCEPT !.uas_id = "own", !.operator_id = "own"],
    tx_modes |-> {"bcn"}, interval |-> [t \in Transports |-> IF t = "bcn" THEN 0 ELSE Never],
    bcast_powerup |-> FALSE, lock_level |-> 0]}
=============================================================================
