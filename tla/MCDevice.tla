----------------------------- MODULE MCDevice -----------------------------
(***************************************************************************)
(* Instances of Device for TLC: a few JSON bodies that between them change *)
(* every kind of field.                                                    *)
(***************************************************************************)
EXTENDS Device

Body(fields, value) == [f \in fields |-> value[f]]

Mine ==
  [uas_id |-> "own", operator_id |-> "own", keys |-> "own", region |-> "CHN",
   webserver_en |-> "1", baud |-> "115200", rate |-> "fast"]

Theirs ==
  [uas_id |-> "factory", operator_id |-> "other", keys |-> "other", region |-> "EUR",
   webserver_en |-> "0", baud |-> "57600", rate |-> "zero"]

StorablePatches ==
  {Body(Fields, Mine), Body({"uas_id", "region", "rate"}, Theirs), Body({"keys"}, Theirs)}

(* The last body turns the web server off: from the next boot on nobody    *)
(* can change the configuration.                                           *)
LifePatches == {Body({"operator_id"}, Mine), Body({"webserver_en"}, Theirs)}

(* A client names the aircraft and its operator and sets the region. *)
NamingPatches == {Body({"uas_id", "operator_id", "region"}, Mine)}
=============================================================================
