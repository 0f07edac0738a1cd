------------------------------- MODULE Device -------------------------------
(***************************************************************************)
(* The life of a configuration on the ESP32: boot, load from NVS, the two  *)
(* tasks that share the Controller behind one spin lock (the scheduler     *)
(* loop and the HTTP server), the write of every key to flash, the factory *)
(* reset and the power cut at any point in between.                        *)
(*                                                                         *)
(* A configuration is a function from its fields to values, one field for  *)
(* each way the code loads, stores or uses one.  A save is one flash       *)
(* operation per step: strings and floats are erased and then set, the     *)
(* integers are overwritten in place.                                      *)
(***************************************************************************)
EXTENDS Hub, Integers, FiniteSets, Sequences

CONSTANTS
  Patches,     (* the JSON bodies a client may post: values of some fields   *)
  MaxFaults    (* bound on the flash faults between two clean saves          *)

Strings == {"uas_id", "operator_id", "keys"}
Floats  == {"rate"}
Numbers == {"region", "webserver_en", "baud"}
Fields  == Strings \cup Floats \cup Numbers

(* The fields the scheduler and the hub see. *)
CoreFields == {"uas_id", "operator_id", "region", "rate"}

Missing == "missing"

(* factory: the placeholder; mac: derived from the MAC address; cut: cut   *)
(* inside a multi-byte character by the field's size; max: a public key    *)
(* of the field's full size, 256 characters.                               *)
Values(f) ==
  CASE f \in {"uas_id", "operator_id"} -> {"", "factory", "mac", "own", "other", "cut"}
    [] f = "keys"         -> {"", "own", "other", "cut", "max"}
    [] f = "region"       -> Regions
    [] f = "webserver_en" -> {"0", "1"}
    [] f = "baud"         -> {"57600", "115200"}
    [] f = "rate"         -> {"zero", "default", "fast"}

AnyValue == UNION {Values(f) : f \in Fields}

BspConfig == {c \in [Fields -> AnyValue] : \A f \in Fields : c[f] \in Values(f)}

Flash ==
  {n \in [Fields -> AnyValue \cup {Missing}] : \A f \in Fields : n[f] \in Values(f) \cup {Missing}}

ASSUME DeviceAssumption ==
  /\ MaxFaults \in Nat
  /\ \A p \in Patches : DOMAIN p \subseteq Fields /\ \A f \in DOMAIN p : p[f] \in Values(f)

VARIABLES
  phase,          (* off, or how far the boot has come                       *)
  bsp,            (* Controller.bsp_config, served by GET /api/config        *)
  core,           (* Controller.core, read by the scheduler                  *)
  standard,       (* active_standard and standard_fallback                   *)
  nvs,            (* the flash: a value or Missing per field                 *)
  web_up,         (* the HTTP server runs                                    *)
  lock,           (* who holds SharedState.ctl                               *)
  sched,          (* the scheduler task                                      *)
  httpd, request, (* the HTTP task and the request it handles                *)
  cursor, erased, (* the save: next key, and whether it is erased already    *)
  clean,          (* history: no write of this save has failed               *)
  faults,         (* history: saves cut short and writes failed since the    *)
                  (* last clean save                                         *)
  durable, acked, (* history: acked is a configuration acknowledged after a  *)
                  (* clean save and not overwritten since                    *)
  established,    (* history: a clean save has run since the last erasure    *)
  changed         (* history: set_config or a reset ran since the boot       *)

ramVars  == <<bsp, core, standard>>
saveVars == <<cursor, erased, clean>>
histVars == <<faults, durable, acked, established>>
taskVars == <<lock, sched, httpd, request>>
bootVars == <<phase, web_up>>
vars     == <<ramVars, saveVars, histVars, taskVars, bootVars, nvs, changed>>

-----------------------------------------------------------------------------
(* Configurations. *)

Default ==
  [f \in Fields |->
     CASE f \in {"uas_id", "operator_id"} -> "factory"
       [] f = "keys"         -> ""
       [] f = "region"       -> "AUTO"
       [] f = "webserver_en" -> "1"
       [] f = "baud"         -> "57600"
       [] f = "rate"         -> "default"]

CoreOf(c) == [f \in CoreFields |-> c[f]]

Binding(region) ==
  [active |-> ActiveStandard(region), fallback |-> ~HasEncoder(ActiveStandard(region))]

(* apply_json on an object: the fields it names change. *)
Patched(c, p) == [f \in Fields |-> IF f \in DOMAIN p THEN p[f] ELSE c[f]]

IsPlaceholder(c) == c.uas_id = "factory" \/ c.operator_id = "factory"

DeriveIds(c) ==
  IF IsPlaceholder(c) THEN [c EXCEPT !.uas_id = "mac", !.operator_id = "mac"] ELSE c

(* A string goes to flash through cstr, which takes a malformed one for empty. *)
Stored(f, c) == IF f \in Strings /\ c[f] = "cut" THEN "" ELSE c[f]

(* load_str: a string that is missing, or does not fit the read buffer,    *)
(* becomes empty.                                                          *)
LoadedString(f, stored) ==
  IF stored = Missing \/ (f = "keys" /\ stored = "max") THEN "" ELSE stored

(* load, field by field, over the defaults: a missing number keeps its     *)
(* default; a missing float reads as zero.                                 *)
Loaded(flash) ==
  [f \in Fields |->
     CASE f \in Strings -> LoadedString(f, flash[f])
       [] f \in Floats /\ flash[f] = Missing -> "zero"
       [] f \in Numbers /\ flash[f] = Missing -> Default[f]
       [] OTHER -> flash[f]]

Blank == [f \in Fields |-> Missing]

(* Mutant: the public keys are not saved. *)
SaveOrderKeyless == <<"uas_id", "operator_id", "webserver_en", "region", "baud", "rate">>

(* The keys in the order save writes them. *)
SaveOrder == <<"uas_id", "operator_id", "webserver_en", "region", "baud", "rate", "keys">>

SaveKey == SaveOrder[cursor]

-----------------------------------------------------------------------------
(* Boot. *)

(* nvs::init, Controller::new, load and derive_default_ids: the scheduler  *)
(* is bound to the defaults, and to what was loaded only when the IDs were *)
(* derived.  Flash that does not initialise is erased.                     *)
PowerOn(flash_ok) ==
  /\ phase = "off" /\ phase' = "loaded"
  /\ nvs' = IF flash_ok THEN nvs ELSE Blank
  /\ durable' = (durable /\ flash_ok) /\ established' = (established /\ flash_ok)
  /\ bsp' = DeriveIds(Loaded(nvs'))
  /\ core' = CoreOf(IF IsPlaceholder(Loaded(nvs')) THEN bsp' ELSE Default)
  /\ standard' = Binding(core'.region)
  /\ changed' = FALSE
  /\ UNCHANGED <<saveVars, faults, acked, taskVars, web_up>>

StartWeb ==
  /\ phase = "loaded" /\ phase' = "web"
  /\ web_up' = (bsp.webserver_en # "0")
  /\ UNCHANGED <<ramVars, saveVars, histVars, taskVars, nvs, changed>>

SpawnScheduler ==
  /\ phase = "web" /\ phase' = "running"
  /\ sched' = "delay"
  /\ UNCHANGED <<ramVars, saveVars, histVars, lock, httpd, request, web_up, nvs, changed>>

PowerCut ==
  /\ phase # "off" /\ phase' = "off"
  /\ httpd = "saving" => faults < MaxFaults
  /\ faults' = IF httpd = "saving" THEN faults + 1 ELSE faults
  /\ bsp' = Default /\ core' = CoreOf(Default) /\ standard' = Binding("AUTO")
  /\ web_up' = FALSE /\ lock' = "free" /\ sched' = "none" /\ httpd' = "idle"
  /\ request' = [kind |-> "none"] /\ cursor' = 1 /\ erased' = FALSE /\ clean' = TRUE
  /\ changed' = FALSE
  /\ UNCHANGED <<nvs, durable, acked, established>>

-----------------------------------------------------------------------------
(* The scheduler loop. *)

Wake ==
  /\ sched = "delay" /\ sched' = "waiting"
  /\ UNCHANGED <<ramVars, saveVars, histVars, lock, httpd, request, bootVars, nvs, changed>>

StepBegin ==
  /\ sched = "waiting" /\ lock = "free"
  /\ sched' = "step" /\ lock' = "sched"
  /\ UNCHANGED <<ramVars, saveVars, histVars, httpd, request, bootVars, nvs, changed>>

StepEnd ==
  /\ sched = "step"
  /\ sched' = "delay" /\ lock' = "free"
  /\ UNCHANGED <<ramVars, saveVars, histVars, httpd, request, bootVars, nvs, changed>>

-----------------------------------------------------------------------------
(* The HTTP server: one request at a time, under the lock. *)

Request(r) ==
  /\ web_up /\ httpd = "idle"
  /\ httpd' = "waiting" /\ request' = r
  /\ UNCHANGED <<ramVars, saveVars, histVars, lock, sched, bootVars, nvs, changed>>

(* Mutant: the core keeps the configuration of before. *)
SetConfigUnbound(new) ==
  /\ bsp' = new
  /\ UNCHANGED <<core, standard>>
  /\ changed' = TRUE

(* Controller::set_config: the core and the binding follow the new config. *)
SetConfig(new) ==
  /\ bsp' = new
  /\ core' = CoreOf(new)
  /\ standard' = Binding(new.region)
  /\ changed' = TRUE

(* POST /api/config: apply_json and set_config; then the save begins.      *)
PostApply ==
  /\ httpd = "waiting" /\ request.kind = "post" /\ lock = "free"
  /\ lock' = "httpd" /\ httpd' = "saving"
  /\ SetConfig(Patched(bsp, request.patch))
  /\ cursor' = 1 /\ erased' = FALSE /\ clean' = TRUE
  /\ durable' = FALSE
  /\ UNCHANGED <<faults, acked, established, sched, request, bootVars, nvs>>

(* Mutant: the early return of a rejected body keeps the lock. *)
PostRejectLocked ==
  /\ httpd = "waiting" /\ request.kind = "bad" /\ lock = "free"
  /\ httpd' = "idle" /\ request' = [kind |-> "none"] /\ lock' = "httpd"
  /\ UNCHANGED <<ramVars, saveVars, histVars, sched, bootVars, nvs, changed>>

(* A body that is not a JSON object changes nothing. *)
PostReject ==
  /\ httpd = "waiting" /\ request.kind = "bad" /\ lock = "free"
  /\ httpd' = "idle" /\ request' = [kind |-> "none"]
  /\ UNCHANGED <<ramVars, saveVars, histVars, lock, sched, bootVars, nvs, changed>>

(* Mutant: the whole store is cleared rather than the key. *)
SaveEraseAll ==
  /\ httpd = "saving" /\ SaveKey \in Strings \cup Floats /\ ~erased
  /\ nvs' = Blank
  /\ erased' = TRUE
  /\ UNCHANGED <<ramVars, cursor, clean, histVars, taskVars, bootVars, changed>>

(* set_str and set_blob of the flash library clear the key first. *)
SaveErase ==
  /\ httpd = "saving" /\ SaveKey \in Strings \cup Floats /\ ~erased
  /\ nvs' = [nvs EXCEPT ![SaveKey] = Missing]
  /\ erased' = TRUE
  /\ UNCHANGED <<ramVars, cursor, clean, histVars, taskVars, bootVars, changed>>

(* Mutant: the loop runs one key too far. *)
AdvanceTooFar(ok) ==
  /\ erased' = FALSE /\ cursor' = cursor + 1 /\ clean' = ok
  /\ UNCHANGED <<durable, acked, established, lock, httpd, request>>

(* The save goes on with the next key, or ends: the lock is released and   *)
(* the client told that all is well, whatever failed on the way.           *)
Advance(ok) ==
  /\ erased' = FALSE
  /\ IF cursor < Len(SaveOrder)
     THEN /\ cursor' = cursor + 1 /\ clean' = ok
          /\ UNCHANGED <<durable, acked, established, lock, httpd, request>>
     ELSE /\ cursor' = 1 /\ clean' = TRUE
          /\ durable' = ok /\ acked' = bsp /\ established' = (established \/ ok)
          /\ lock' = "free" /\ httpd' = "idle" /\ request' = [kind |-> "none"]

SaveSet ==
  /\ httpd = "saving" /\ (SaveKey \in Strings \cup Floats => erased)
  /\ nvs' = [nvs EXCEPT ![SaveKey] = Stored(SaveKey, bsp)]
  /\ faults' = IF cursor = Len(SaveOrder) /\ clean THEN 0 ELSE faults
  /\ Advance(clean)
  /\ UNCHANGED <<ramVars, sched, bootVars, changed>>

(* A write that fails is ignored. *)
SaveFail ==
  /\ httpd = "saving" /\ (SaveKey \in Strings \cup Floats => erased)
  /\ faults < MaxFaults /\ faults' = faults + 1
  /\ Advance(FALSE)
  /\ UNCHANGED <<ramVars, nvs, sched, bootVars, changed>>

(* POST /api/reset: Controller::factory_reset keeps the public keys ... *)
ResetApply ==
  /\ httpd = "waiting" /\ request.kind = "reset" /\ lock = "free"
  /\ lock' = "httpd" /\ httpd' = "erasing"
  /\ bsp' = [Default EXCEPT !.keys = bsp.keys]
  /\ core' = CoreOf(bsp') /\ standard' = Binding(bsp'.region)
  /\ changed' = TRUE
  /\ UNCHANGED <<saveVars, histVars, sched, request, bootVars, nvs>>

(* Mutant: the lock is not released after the reset. *)
ResetEraseLocked(flash_ok) ==
  /\ httpd = "erasing"
  /\ nvs' = IF flash_ok THEN Blank ELSE nvs
  /\ durable' = FALSE /\ established' = (established /\ ~flash_ok)
  /\ httpd' = "idle" /\ request' = [kind |-> "none"]
  /\ UNCHANGED <<ramVars, saveVars, faults, acked, lock, sched, bootVars, changed>>

(* ... and nvs_erase clears the whole store; an error is ignored. *)
ResetErase(flash_ok) ==
  /\ httpd = "erasing"
  /\ nvs' = IF flash_ok THEN Blank ELSE nvs
  /\ durable' = FALSE /\ established' = (established /\ ~flash_ok)
  /\ lock' = "free" /\ httpd' = "idle" /\ request' = [kind |-> "none"]
  /\ UNCHANGED <<ramVars, saveVars, faults, acked, sched, bootVars, changed>>

(* GET /api/config and /api/status: the lock is held until the client has  *)
(* taken the response, or the send has failed.                             *)
GetBegin ==
  /\ httpd = "waiting" /\ request.kind = "get" /\ lock = "free"
  /\ lock' = "httpd" /\ httpd' = "sending"
  /\ UNCHANGED <<ramVars, saveVars, histVars, sched, request, bootVars, nvs, changed>>

GetEnd ==
  /\ httpd = "sending"
  /\ lock' = "free" /\ httpd' = "idle" /\ request' = [kind |-> "none"]
  /\ UNCHANGED <<ramVars, saveVars, histVars, sched, bootVars, nvs, changed>>

-----------------------------------------------------------------------------
Requests ==
  {[kind |-> "bad"], [kind |-> "reset"], [kind |-> "get"]}
    \cup {[kind |-> "post", patch |-> p] : p \in Patches}

Init ==
  /\ phase = "off" /\ web_up = FALSE /\ nvs = Blank
  /\ bsp = Default /\ core = CoreOf(Default) /\ standard = Binding("AUTO")
  /\ lock = "free" /\ sched = "none" /\ httpd = "idle" /\ request = [kind |-> "none"]
  /\ cursor = 1 /\ erased = FALSE /\ clean = TRUE
  /\ changed = FALSE
  /\ faults = 0 /\ durable = FALSE /\ acked = Default /\ established = FALSE

Boot == (\E ok \in BOOLEAN : PowerOn(ok)) \/ StartWeb \/ SpawnScheduler
Handler == PostApply \/ PostReject \/ ResetApply \/ GetBegin
Finish == SaveErase \/ SaveSet \/ SaveFail \/ (\E ok \in BOOLEAN : ResetErase(ok)) \/ GetEnd

Next ==
  \/ Boot \/ PowerCut
  \/ Wake \/ StepBegin \/ StepEnd
  \/ \E r \in Requests : Request(r)
  \/ Handler \/ Finish

Spec == Init /\ [][Next]_vars

(* Both tasks run on.  The lock is a test-and-set loop without a queue:    *)
(* the handler gets it in the end because the scheduler sleeps a whole     *)
(* tick with the lock free while the handler spins; nothing promises it to *)
(* the scheduler for as long as clients keep sending requests.  A GET ends *)
(* when its client has the response or the send times out.                 *)
FairSpec ==
  /\ Spec
  /\ WF_vars(Wake) /\ WF_vars(StepBegin) /\ WF_vars(StepEnd)
  /\ SF_vars(Handler) /\ WF_vars(Finish)

-----------------------------------------------------------------------------
One(b) == IF b THEN 1 ELSE 0

TypeOK ==
  /\ phase \in {"off", "loaded", "web", "running"} /\ web_up \in BOOLEAN
  /\ bsp \in BspConfig
  /\ core \in [CoreFields -> AnyValue] /\ \A f \in CoreFields : core[f] \in Values(f)
  /\ standard \in [active : Standards, fallback : BOOLEAN]
  /\ nvs \in Flash
  /\ lock \in {"free", "sched", "httpd"} /\ sched \in {"none", "delay", "waiting", "step"}
  /\ httpd \in {"idle", "waiting", "saving", "erasing", "sending"}
  /\ request \in Requests \cup {[kind |-> "none"]}
  /\ cursor \in 1 .. Len(SaveOrder) /\ erased \in BOOLEAN /\ clean \in BOOLEAN
  /\ durable \in BOOLEAN /\ established \in BOOLEAN /\ changed \in BOOLEAN
  /\ faults \in 0 .. MaxFaults /\ acked \in BspConfig

(* controller.rs:16-40,102-134: a step never runs on a core that mixes two *)
(* configurations: it is the one GET /api/config serves, or, as long as    *)
(* nobody has changed the configuration since the boot, the defaults; the  *)
(* standard on air is bound to its region.                                 *)
OneConfigOnAir ==
  lock = "sched" =>
    /\ core = CoreOf(bsp) \/ (~changed /\ core = CoreOf(Default))
    /\ standard = Binding(core.region)

(* web.rs:72-85: a configuration acknowledged after writes that all        *)
(* succeeded is the one the device has loaded and serves, then and after   *)
(* any number of power cuts and reboots, until the next request that       *)
(* changes it or a boot that finds the flash unreadable; only placeholder  *)
(* IDs are replaced.  The scheduler runs on it as well, but that a boot    *)
(* may leave it with the defaults (CoreIsDerived below) until the next     *)
(* change.  It needs values the flash can give back.                       *)
Storable == \A p \in Patches : \A f \in DOMAIN p : p[f] \notin {"cut", "max"}

AcknowledgedSurvives ==
  (Storable /\ durable /\ phase # "off" /\ httpd \in {"idle", "waiting"}) =>
    /\ bsp \in {acked, DeriveIds(acked)}
    /\ core = CoreOf(bsp) \/ (~changed /\ core = CoreOf(Default))

(* nvs.rs:100-174: once a whole configuration has been stored, a save that *)
(* is cut short, or a write that fails, costs at most the key it was at:   *)
(* the keys missing from the flash never outnumber the faults since the    *)
(* last clean save, but for the one being replaced.                        *)
Lost == {f \in Fields : nvs[f] = Missing}

OneKeyPerFault == established => Cardinality(Lost) <= faults + One(erased)

Encoded(c) == [f \in Fields |-> Stored(f, c)]

Recovered(flash) == DeriveIds(Loaded(flash))

Busy == CASE httpd = "saving" -> "saving" [] httpd = "erasing" -> "erasing" [] OTHER -> "no"

Store == INSTANCE ConfigStore WITH
  Keys <- Fields, Nothing <- Missing, First <- Default,
  on <- phase # "off", value <- bsp, stored <- nvs, busy <- Busy, whole <- clean

(* nvs.rs:100-174 with web.rs:61-146 and main.rs:75-84: whatever the two   *)
(* tasks do and wherever the power is cut, a configuration goes to flash   *)
(* key by key while no other changes it, a save without a failed write     *)
(* ends with all of it there, and a boot derives what runs from the flash. *)
StoreKeepsPromise == Store!StoreSpec

(* web.rs:61-146: the broadcast goes on: with no request at hand the       *)
(* scheduler gets the lock again and again, whatever the handlers did.     *)
SchedulerRuns == <>[](phase = "running" /\ httpd = "idle") => []<>(lock = "sched")

(* web.rs:61-146: every request is answered, or cut off with the power.    *)
RequestsFinish == httpd # "idle" ~> httpd = "idle"

-----------------------------------------------------------------------------
(* config.rs:4: "The hub-facing subset (`Config` in `rid-interface`) is    *)
(* derived from it": once a configuration has been saved, a step runs on   *)
(* what is loaded and served, after a reboot too.                          *)
CoreIsDerived == (lock = "sched" /\ durable) => core = CoreOf(bsp)
=============================================================================
