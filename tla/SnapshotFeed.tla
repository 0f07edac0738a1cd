---------------------------- MODULE SnapshotFeed ----------------------------
(***************************************************************************)
(* The NMEA and the MSP source in front of the scheduler.  Their parsers   *)
(* keep one snapshot without a stamp; a poll takes in the report that came *)
(* whole, if any, and hands the snapshot to the tick.                      *)
(***************************************************************************)
EXTENDS Scheduler

CONSTANT Reports   (* per protocol, the reports that may arrive: each has a   *)
                   (* kind, a position, a fix_type and an armed flag          *)

VARIABLES
  source,     (* the protocol of the board's source                          *)
  snapshot,   (* last_gps of its parser                                      *)
  silent      (* history: true time since a report came, saturating at MsMod *)

snapshotVars == <<source, snapshot, silent>>

(* A GGA without a fix and an RMC that is void (fix_type 0 here) change    *)
(* nothing; an RMC says nothing of the kind of fix.                        *)
Snapped(s, r) ==
  CASE r.kind = "GGA" /\ r.fix_type >= 1 ->
         [s EXCEPT !.pos = r.pos, !.fix_type = IF r.fix_type >= 2 THEN 3 ELSE 1]
    [] r.kind = "RMC" /\ r.fix_type >= 1 -> [s EXCEPT !.pos = r.pos]
    [] r.kind = "RAW_GPS" -> [s EXCEPT !.pos = r.pos, !.fix_type = r.fix_type]
    [] r.kind = "STATUS" -> [s EXCEPT !.armed = r.armed]
    [] OTHER -> s

NoReport == [present |-> FALSE, pos |-> "origin", fix_type |-> 0, armed |-> FALSE]

(* get: the snapshot, whatever its age. *)
LastFix(s) ==
  IF s.fix_type >= 2 /\ s.pos # "origin"
  THEN [present |-> TRUE, pos |-> s.pos, fix_type |-> s.fix_type, armed |-> s.armed]
  ELSE NoReport

SnapshotSample(s) ==
  [proto |-> source, gps |-> LastFix(s), dronecan |-> NoReport, mavlink_armed |-> FALSE,
   mavlink_identity |-> NoIdentity, mavlink_operator |-> FALSE]

Poll(s, heard, d) ==
  /\ snapshot' = s
  /\ silent' = IF heard THEN 0 ELSE AtMost(MsMod, silent + d)
  /\ Tick(SnapshotSample(s), d) /\ UNCHANGED source

SnapshotInit ==
  /\ Init /\ source \in DOMAIN Reports /\ silent = MsMod
  /\ snapshot = [pos |-> "origin", fix_type |-> 0, armed |-> FALSE]

SnapshotNext ==
  \/ \E d \in Steps : Poll(snapshot, FALSE, d)
  \/ \E r \in Reports[source], d \in Steps : Poll(Snapped(snapshot, r), TRUE, d)

SnapshotSpec == SnapshotInit /\ [][SnapshotNext]_<<vars, snapshotVars>>

(* todolist/processes.md:168, of get of NMEA: "no freshness here - handled *)
(* by the 10 s timeout in rid_task": once a receiver is silent for longer  *)
(* than that timeout nothing shows or sends its position as valid.         *)
SilenceIsNoticed ==
  (outcome.led = "GpsOk" \/ (sent # {} /\ ~cfg.bcast_powerup)) => silent <= GpsStaleTimeout
=============================================================================
