-------------------------------- MODULE Hub --------------------------------
(***************************************************************************)
(* The output hub and the readiness checks: pure operators over a region   *)
(* and an identity.  A string field of an identity is abstracted to the    *)
(* class the code distinguishes: missing, still the factory placeholder,   *)
(* set by the owner, or relayed by the autopilot.                          *)
(***************************************************************************)

Regions == {"AUTO", "EUR", "FAA", "JPN", "SGP", "KOR", "CHN", "CAN", "AUS", "BRA", "NZL"}

Standards == {"Astm", "ChnGb", "Frdid"}

FieldClass == {"empty", "factory", "own", "relayed"}

(* ext_auth: authentication pages relayed by the autopilot are attached.   *)
Identity ==
  [uas_id : FieldClass, operator_id : FieldClass, uas_id_2 : FieldClass, ext_auth : BOOLEAN]

NoIdentity ==
  [uas_id |-> "empty", operator_id |-> "empty", uas_id_2 |-> "empty", ext_auth |-> FALSE]

(* Where a reported position lies: latitude 0 (what an unset fix has),     *)
(* longitude 0, inside or outside the valid range; "estimate" is a         *)
(* position the Kalman filter wrote.                                       *)
Position == {"origin", "meridian", "inside", "outside", "estimate"}

-----------------------------------------------------------------------------
(* The rows of the region table that differ from the common one. *)
RequiresOperatorId(region) == region \in {"AUTO", "EUR", "FAA", "CAN", "AUS"}

ActiveStandard(region) == IF region = "CHN" THEN "ChnGb" ELSE "Astm"

HasEncoder(std) == std = "Astm"

(* operator_id_en, self_id_en and basic_id_2_en. *)
AllowsOptionalMessages(region) == region # "CHN"

-----------------------------------------------------------------------------
(* identity_is_sane; every region requires the UAS ID. *)
IdentityIsSane(identity, region) ==
  /\ identity.uas_id \notin {"empty", "factory"}
  /\ RequiresOperatorId(region) => identity.operator_id \notin {"empty", "factory"}

(* position_is_sane; readiness is judged on the measured position, before  *)
(* the filter overwrites it, so an estimate never reaches this test.       *)
PositionIsSane(pos) == pos # "outside"

=============================================================================
