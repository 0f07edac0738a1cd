---------------------------- MODULE ConfigStore ----------------------------
(***************************************************************************)
(* What the configuration store promises, without tasks, locks, requests   *)
(* or the order of the keys: the flash changes one key at a time and only  *)
(* towards the value being saved, or as a whole when it is erased; a save  *)
(* in which no write failed ends with the whole value in flash; cutting    *)
(* the power changes nothing in flash; and a boot comes back with what is  *)
(* derived from the flash.                                                 *)
(***************************************************************************)
CONSTANTS
  Encoded(_),    (* what of a value goes to flash, per key                   *)
  Recovered(_),  (* the value a boot derives from the flash                  *)
  Keys, Nothing, (* the keys, and what a key that is not stored holds        *)
  First          (* the value before the first boot                          *)

VARIABLES
  on, value,     (* the power, and the value in memory                       *)
  stored,        (* the flash                                                *)
  busy,          (* "no", or what is being done to it: "saving", "erasing"   *)
  whole          (* no write of this save has failed                         *)

storeVars == <<on, value, stored, busy, whole>>

Empty == [k \in Keys |-> Nothing]

StoreInit ==
  /\ on = FALSE /\ value = First /\ stored = Empty /\ busy = "no" /\ whole = TRUE

(* Flash that cannot be read is erased. *)
BootUp ==
  /\ ~on /\ on' = TRUE
  /\ stored' \in {stored, Empty}
  /\ value' = Recovered(stored')
  /\ UNCHANGED <<busy, whole>>

(* Whatever was under way is given up, and the memory lost. *)
Cut ==
  /\ on /\ on' = FALSE
  /\ value' = First /\ busy' = "no" /\ whole' = TRUE
  /\ UNCHANGED stored

(* A new value, to be saved or to go with an erased flash. *)
Change ==
  /\ on /\ busy = "no" /\ busy' \in {"saving", "erasing"}
  /\ UNCHANGED <<on, stored, whole>>

Keep == busy' = busy /\ UNCHANGED whole

End(complete) ==
  /\ busy' = "no" /\ whole' = TRUE
  /\ complete => stored' = Encoded(value)

Write(k) ==
  /\ on /\ busy = "saving"
  /\ \E v \in {Nothing, Encoded(value)[k]} : stored' = [stored EXCEPT ![k] = v]
  /\ Keep \/ End(whole)
  /\ UNCHANGED <<on, value>>

WriteFails ==
  /\ on /\ busy = "saving"
  /\ (busy' = busy /\ whole' = FALSE) \/ End(FALSE)
  /\ UNCHANGED <<on, value, stored>>

Erase ==
  /\ on /\ busy = "erasing"
  /\ stored' \in {stored, Empty}
  /\ busy' = "no"
  /\ UNCHANGED <<on, value, whole>>

StoreNext == BootUp \/ Cut \/ Change \/ (\E k \in Keys : Write(k)) \/ WriteFails \/ Erase

StoreSpec == StoreInit /\ [][StoreNext]_storeVars
=============================================================================
