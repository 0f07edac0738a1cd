---------------------------- MODULE MavlinkFeed ----------------------------
(***************************************************************************)
(* The MAVLink parser and its source in front of the scheduler.  A poll    *)
(* takes in the frames that arrived, asks the parser for what is fresh and *)
(* gives it to the tick: each of the two looks at the age of the same      *)
(* position, on its own stamp and with its own limit.                      *)
(*                                                                         *)
(* A frame that passed the framing and its checksum is a record; the       *)
(* parser's stamps are points of the same 32-bit millisecond clock the     *)
(* scheduler reads, with 0 for "never".                                    *)
(***************************************************************************)
EXTENDS Scheduler

CONSTANTS
  Frames,         (* the frames that may arrive                              *)
  SysIdFilter,    (* config.mavlink_sysid, 0 to accept every system          *)
  GpsFresh,       (* the limits of get, get_identity and                     *)
  IdentityFresh,  (* get_operator_location, in the unit of Steps             *)
  OperatorFresh

(* An AUTHENTICATION_PAST is an AUTHENTICATION whose page is past the      *)
(* table.                                                                  *)
PositionKinds == {"GLOBAL_POSITION_INT", "GPS_RAW_INT", "OPEN_DRONE_ID_LOCATION"}
IdentityKinds == {"BASIC_ID", "OPERATOR_ID", "SELF_ID", "AUTHENTICATION", "AUTHENTICATION_PAST"}
OtherKinds    == {"HEARTBEAT", "SYSTEM", "VFR_HUD", "ATTITUDE", "AHRS2", "MESSAGE_PACK"}

(* uas_id is read from a BASIC_ID, pos and fix_type from a position, armed *)
(* from a HEARTBEAT.                                                       *)
Frame ==
  [kind : PositionKinds \cup IdentityKinds \cup OtherKinds, sysid : Nat,
   pos : Position, fix_type : Nat, armed : BOOLEAN, uas_id : {"empty", "relayed"}]

ASSUME FeedAssumption ==
  /\ Frames \subseteq Frame /\ SysIdFilter \in Nat
  /\ GpsFresh \in Nat /\ IdentityFresh \in Nat /\ OperatorFresh \in Nat

VARIABLES
  now,       (* now_ms, the 32-bit clock of the polls                        *)
  parser,    (* MavlinkParser: what it was told and when                     *)
  link_age,  (* histories, saturating at MsMod: true time since a frame was  *)
  id_age,    (* accepted, since one about the identity, since one with the   *)
  op_age     (* operator's position                                          *)

feedVars == <<now, parser, link_age, id_age, op_age>>

-----------------------------------------------------------------------------
(* process: one frame at time t. *)

Accepted(f) == SysIdFilter = 0 \/ f.sysid = SysIdFilter

(* The switch on the message. *)
Taken(p, f, t) ==
  CASE f.kind \in PositionKinds ->
         [p EXCEPT !.pos = f.pos, !.fix_type = IF f.kind = "GPS_RAW_INT" THEN f.fix_type ELSE 3]
    [] f.kind = "HEARTBEAT" -> [p EXCEPT !.armed = f.armed]
    [] f.kind = "BASIC_ID" ->
         [p EXCEPT !.identity.uas_id = f.uas_id, !.last_identity_update = t]
    [] f.kind = "OPERATOR_ID" ->
         [p EXCEPT !.identity.operator_id = "relayed", !.last_identity_update = t]
    [] f.kind \in {"SELF_ID", "AUTHENTICATION_PAST"} -> [p EXCEPT !.last_identity_update = t]
    [] f.kind = "AUTHENTICATION" ->
         [p EXCEPT !.identity.ext_auth = TRUE, !.last_identity_update = t]
    [] f.kind = "SYSTEM" -> [p EXCEPT !.operator_location_update = t]
    [] OTHER -> p

(* Mutant: the frames of every system are taken. *)
ProcessUnfiltered(p, f, t) ==
  LET q == Taken(p, f, t)
  IN  IF q.pos # "origin" THEN [q EXCEPT !.last_update = t] ELSE q

(* Any accepted frame stamps the position, once there is one. *)
Process(p, f, t) ==
  LET q == Taken(p, f, t)
  IN  IF ~Accepted(f) THEN p
      ELSE IF q.pos # "origin" THEN [q EXCEPT !.last_update = t] ELSE q

-----------------------------------------------------------------------------
(* The getters and the sample built from them. *)

Elapsed(stamp, t) == IF t >= stamp THEN t - stamp ELSE MsMod + t - stamp

FreshWithin(stamp, limit, t) == stamp # 0 /\ Elapsed(stamp, t) < limit

HasPosition(p, t) == FreshWithin(p.last_update, GpsFresh, t)

(* Mutants: what was received once stays fresh. *)
HasIdentityEver(p, t) == p.last_identity_update # 0
HasOperatorEver(p, t) == p.operator_location_update # 0

HasIdentity(p, t) == FreshWithin(p.last_identity_update, IdentityFresh, t)
HasOperator(p, t) == FreshWithin(p.operator_location_update, OperatorFresh, t)

NoReport == [present |-> FALSE, pos |-> "origin", fix_type |-> 0, armed |-> FALSE]

SampleOf(p, t) ==
  [proto            |-> "Mavlink",
   gps              |-> IF HasPosition(p, t)
                        THEN [present |-> TRUE, pos |-> p.pos, fix_type |-> p.fix_type, armed |-> p.armed]
                        ELSE NoReport,
   dronecan         |-> NoReport,
   mavlink_armed    |-> p.armed,
   mavlink_identity |-> IF HasIdentity(p, t) THEN p.identity ELSE NoIdentity,
   mavlink_operator |-> HasOperator(p, t)]

-----------------------------------------------------------------------------
(* One poll and the tick on its sample.  The age of something is counted   *)
(* anew when a frame of its kind is accepted.                              *)

AgeAfter(age, fs, kinds, d) ==
  IF \E f \in fs : Accepted(f) /\ f.kind \in kinds THEN 0 ELSE AtMost(MsMod, age + d)

(* Mutant: the millisecond clock is not cut to its width. *)
PollTimeUnwrapped(d) == now + d

PollTime(d) == (now + d) % MsMod

Poll(fs, d) ==
  LET t == PollTime(d)
      p == IF fs = {} THEN parser ELSE Process(parser, CHOOSE f \in fs : TRUE, t)
  IN  /\ now' = t /\ parser' = p
      /\ link_age' = AgeAfter(link_age, fs, PositionKinds \cup IdentityKinds \cup OtherKinds, d)
      /\ id_age'   = AgeAfter(id_age, fs, IdentityKinds, d)
      /\ op_age'   = AgeAfter(op_age, fs, {"SYSTEM"}, d)
      /\ Tick(SampleOf(p, t), d)

FeedInit ==
  /\ Init /\ now = 0
  /\ parser = [pos |-> "origin", fix_type |-> 0, armed |-> FALSE, identity |-> NoIdentity,
               last_update |-> 0, last_identity_update |-> 0, operator_location_update |-> 0]
  /\ link_age = MsMod /\ id_age = MsMod /\ op_age = MsMod

(* At most one frame a poll: two that arrive together are two polls with   *)
(* no time between them.                                                   *)
FeedNext ==
  \/ \E d \in Steps : Poll({}, d)
  \/ \E f \in Frames, d \in Steps : Poll({f}, d)
  \/ \E c \in Configs : ApplyConfig(c) /\ UNCHANGED feedVars

FeedSpec == FeedInit /\ [][FeedNext]_<<vars, feedVars>>

-----------------------------------------------------------------------------
FeedTypeOK ==
  /\ now \in 0 .. MsMod - 1
  /\ parser.pos \in Position /\ parser.identity \in Identity /\ parser.armed \in BOOLEAN
  /\ parser.fix_type \in Nat
  /\ {parser.last_update, parser.last_identity_update, parser.operator_location_update}
       \subseteq 0 .. MsMod - 1
  /\ {link_age, id_age, op_age} \subseteq 0 .. MsMod

OnAir == sent # {} /\ ~cfg.bcast_powerup

(* A stamp of the parser reads as recent again once in each turn of the    *)
(* clock: the ages below are bounded until then.                           *)
Bounded(age, limit) == age < limit + GpsStaleTimeout \/ age = MsMod

(* parser.rs:563 and scheduler.rs:357: the two limits add up and no more:  *)
(* a GpsOk light and a frame on air mean that the autopilot, the one the   *)
(* filter selects, was heard within their sum, whatever frames arrived, in *)
(* which order, and whatever else was on the line.                         *)
LinkLossIsNoticed == (outcome.led = "GpsOk" \/ OnAir) => Bounded(link_age, GpsFresh)

(* parser.rs:590 with scheduler.rs:242-256: an identity the autopilot      *)
(* relayed leaves the air when the autopilot stops relaying it.            *)
IdentityIsRecent ==
  (OnAir /\ identity.uas_id = "relayed") => Bounded(id_age, IdentityFresh)

(* parser.rs:601 with scheduler.rs:277-287: so does the position of the    *)
(* operator, which the configured one replaces.                            *)
OperatorIsRecent ==
  (OnAir /\ gps.operator = "relayed") => Bounded(op_age, OperatorFresh)
=============================================================================
